---------------------------- MODULE Network_proofs ----------------------------
(***************************************************************************)
(* Proofs, for every number of pools, every placement of them on hosts and *)
(* every configuration, that the miner works for the active pool, that the *)
(* first pool is preferred and holds one connection at a time, and that a  *)
(* client that has been let go is silent (NetInv); and then that whoever   *)
(* is active is logged on (ChoiceInv), so that the strategies implement    *)
(* PoolChoice.                                                             *)
(***************************************************************************)
EXTENDS Network, TLAPS

Requests == [kind : {"template", "height", "submit"}, from : Int]

Clients ==
  [state : {"Unconnected", "HostLookup", "Connecting", "Connected", "Closing", "Reconnecting"},
   failures : Int, expire : BOOLEAN, listener : BOOLEAN, alive : BOOLEAN, lookup : BOOLEAN,
   sock : {"none", "connecting", "open", "dead", "closing"},
   login : {"no", "sent", "refused", "in"}, again : BOOLEAN, overwritten : BOOLEAN,
   reqs : SUBSET Requests, polls : BOOLEAN, job : Int, asked : Int]

Lookups == [queue : Seq(Pools), runs : BOOLEAN, fresh : BOOLEAN, result : {"none", "ok", "error"}]
Tellings == [host : Hosts, told : Pools \cup {None}, rest : Seq(Pools)]

Stratum == {p \in Pools : kind[p] = "pool"}

States ==
  [c : [Pools -> Clients], index : Nat, active : Pools \cup {None}, work : Pools \cup {None},
   dns : [Hosts -> Lookups], closing : Seq(SUBSET Stratum), telling : Seq(Tellings)]

-----------------------------------------------------------------------------
(* What holds of a stratum client n, the pool p's: del, the configuration  *)
(* has changed; chk, it is in the middle of lines it has received; noted,  *)
(* a client.reconnect notice has come.                                     *)

\* A client that has not connected while it held a socket holds one only while it
\* is connecting, connected or closing; and without its listener only while closing.
Tidy(n, chk) ==
  /\ n.lookup => n.sock = "none"
  /\ n.state = "Closing" => n.sock = "closing"
  /\ n.state = "Unconnected" => n.sock = "none"
  /\ ~n.listener => ~n.lookup /\ ~chk /\ n.sock = (IF n.alive THEN "closing" ELSE "none")

StratumOK(n, chk) ==
  /\ n.reqs = {} /\ (n.listener => n.alive)
  /\ n.state = "Connected" => n.sock # "none"
  /\ n.sock \in {"connecting", "dead"} => n.login = "no"
  /\ ~n.again => Tidy(n, chk)

\* The first pool's client, as long as no client.reconnect notice has come.
FirstOK(n) == ~n.again /\ (n.state = "Reconnecting" => n.sock = "none")

\* The configuration del says it is deleted.
Dropped(p, del) == del /\ p \in Used

\* A daemon client, which holds no socket.
DaemonOK(n, dropped) ==
  /\ n.state \in {"Unconnected", "Connecting", "Connected"} /\ n.listener
  /\ n.sock = "none" /\ n.login = "no" /\ ~n.lookup
  /\ dropped => n.reqs = {} /\ ~n.expire

ClientOK(p, n, del, chk, noted) ==
  IF kind[p] = "pool"
  THEN /\ StratumOK(n, chk) /\ (n.listener <=> ~Dropped(p, del))
       /\ p = 0 /\ ~noted => FirstOK(n)
  ELSE /\ DaemonOK(n, Dropped(p, del))
       /\ p = 0 /\ n.state = "Unconnected" => n.reqs = {}

\* The first pool could be mined on; its client may still give a job.
Leads(n) == n.state = "Connected" /\ (kind[0] = "pool" => n.login = "in")
Gives(n, chk) ==
  IF kind[0] = "pool" THEN n.login = "in" /\ (n.sock = "open" \/ (chk /\ n.sock = "closing"))
  ELSE n.state = "Connected"

Waits(n) == kind[0] = "daemon" /\ n.state = "Unconnected"

MinerOK(s, del, chk, noted) ==
  /\ ~Single /\ Leads(s.c[0]) => s.active = 0
  /\ Single /\ ~noted /\ ~del /\ Gives(s.c[0], chk) => s.active = 0
  /\ ~del /\ Waits(s.c[0]) => s.active # 0
  /\ ~del /\ ~(Single /\ noted) => s.work = s.active

NetOK(s, del, chk, noted) ==
  /\ \A p \in Pools : ClientOK(p, s.c[p], del, chk = p, noted)
  /\ MinerOK(s, del, chk = 0, noted)

-----------------------------------------------------------------------------
(* What the handlers of a client do to it.                                 *)

LEMMA SetStateEffect ==
  ASSUME NEW n \in Clients,
         NEW st \in {"Unconnected", "HostLookup", "Connecting", "Connected", "Closing", "Reconnecting"}
  PROVE  \E b \in BOOLEAN : SetState(n, st) = [n EXCEPT !.state = st, !.expire = b]
<1>1. CASE n.state = st
  <2>1. n = [n EXCEPT !.state = st, !.expire = n.expire]
    BY <1>1 DEF Clients
  <2>2. n.expire \in BOOLEAN
    BY DEF Clients
  <2> QED
    BY <1>1, <2>1, <2>2 DEF SetState
<1>2. CASE n.state # st
  <2> DEFINE b == (n.expire \/ st \in {"Connecting", "Reconnecting"}) /\ st # "HostLookup"
  <2>1. SetState(n, st) = [n EXCEPT !.state = st, !.expire = b]
    BY <1>2, Zenon DEF SetState
  <2>2. b \in BOOLEAN
    OBVIOUS
  <2> QED
    BY <2>1, <2>2
<1> QED
  BY <1>1, <1>2

\* A client that closes either begins to close its socket or is left as it is.
LEMMA CloseEffect ==
  ASSUME NEW n \in Clients
  PROVE  \/ /\ n.state \notin {"Closing", "Unconnected"} /\ n.sock # "none"
            /\ \E b \in BOOLEAN :
                 Close(n) = [n EXCEPT !.state = "Closing", !.expire = b, !.sock = "closing"]
         \/ (n.state \in {"Closing", "Unconnected"} \/ n.sock = "none") /\ Close(n) = n
<1>1. CASE Closes(n)
  <2>1. PICK b \in BOOLEAN : SetState(n, "Closing") = [n EXCEPT !.state = "Closing", !.expire = b]
    BY SetStateEffect
  <2>2. Close(n) = [[n EXCEPT !.state = "Closing", !.expire = b] EXCEPT !.sock = "closing"]
    BY <1>1, <2>1 DEF Close
  <2>3. Close(n) = [n EXCEPT !.state = "Closing", !.expire = b, !.sock = "closing"]
    BY <2>2
  <2> QED
    BY <1>1, <2>3 DEF Closes
<1>2. CASE ~Closes(n)
  BY <1>2 DEF Close, Closes
<1> QED
  BY <1>1, <1>2

LEMMA CloseFacts ==
  ASSUME NEW n \in Clients
  PROVE  /\ Close(n) \in Clients
         /\ \/ /\ n.state \notin {"Closing", "Unconnected"} /\ n.sock # "none"
               /\ Close(n).state = "Closing" /\ Close(n).sock = "closing"
            \/ /\ n.state \in {"Closing", "Unconnected"} \/ n.sock = "none"
               /\ Close(n).state = n.state /\ Close(n).sock = n.sock
         /\ Close(n).listener = n.listener /\ Close(n).alive = n.alive
         /\ Close(n).lookup = n.lookup /\ Close(n).login = n.login
         /\ Close(n).again = n.again /\ Close(n).reqs = n.reqs
BY CloseEffect DEF Clients

LEMMA DisconnectEffect ==
  ASSUME NEW n \in Clients
  PROVE  /\ Disconnect(n) \in Clients
         /\ \/ /\ n.state \notin {"Closing", "Unconnected"} /\ n.sock # "none"
               /\ Disconnect(n).state = "Closing" /\ Disconnect(n).sock = "closing"
            \/ /\ n.state \in {"Closing", "Unconnected"} \/ n.sock = "none"
               /\ Disconnect(n).state = n.state /\ Disconnect(n).sock = n.sock
         /\ Disconnect(n).listener = n.listener /\ Disconnect(n).alive = n.alive
         /\ Disconnect(n).lookup = n.lookup /\ Disconnect(n).login = n.login
         /\ Disconnect(n).again = n.again /\ Disconnect(n).reqs = n.reqs
<1> DEFINE m == [n EXCEPT !.expire = FALSE, !.failures = Disconnected]
<1>0. Disconnected \in Int
  BY DEF Disconnected
<1>1. m \in Clients
  BY <1>0 DEF Clients
<1>3. /\ m.state = n.state /\ m.sock = n.sock /\ m.listener = n.listener
      /\ m.alive = n.alive /\ m.lookup = n.lookup /\ m.login = n.login /\ m.again = n.again
      /\ m.reqs = n.reqs
  BY DEF Clients
<1>2. Disconnect(n) = Close(m)
  BY Zenon DEF Disconnect
<1> HIDE DEF m
<1> QED
  BY <1>1, <1>2, <1>3, CloseFacts

LEMMA OpenFacts ==
  ASSUME NEW n \in Clients
  PROVE  /\ Open(n) \in Clients
         /\ Open(n).state = "Connecting" /\ Open(n).listener = n.listener
         /\ Open(n).alive = n.alive /\ Open(n).lookup = FALSE
         /\ Open(n).sock = "connecting" /\ Open(n).login = "no"
         /\ Open(n).again = n.again /\ Open(n).reqs = n.reqs
<1>1. PICK b \in BOOLEAN : SetState(n, "Connecting") = [n EXCEPT !.state = "Connecting", !.expire = b]
  BY SetStateEffect
<1> DEFINE r == [n EXCEPT !.state = "Connecting", !.expire = b, !.sock = "connecting",
                           !.login = "no", !.lookup = FALSE, !.overwritten = (n.sock # "none")]
<1>2. Open(n) = [[n EXCEPT !.state = "Connecting", !.expire = b] EXCEPT !.sock = "connecting",
                                                                        !.login = "no",
                                                                        !.lookup = FALSE,
                                                                        !.overwritten = (n.sock # "none")]
  BY <1>1, Zenon DEF Open
<1>3. Open(n) = r
  BY <1>2
<1>4. (n.sock # "none") \in BOOLEAN
  BY Zenon
<1>5. r \in Clients
  BY <1>4 DEF Clients
<1>6. /\ r.state = "Connecting" /\ r.listener = n.listener /\ r.alive = n.alive /\ r.lookup = FALSE
      /\ r.sock = "connecting" /\ r.login = "no" /\ r.again = n.again /\ r.reqs = n.reqs
  BY DEF Clients
<1> QED
  BY <1>3, <1>5, <1>6, Zenon

LEMMA ResolveFacts ==
  ASSUME NEW n \in Clients
  PROVE  /\ Resolve(n) \in Clients
         /\ Resolve(n).state = "HostLookup" /\ Resolve(n).listener = n.listener
         /\ Resolve(n).alive = n.alive /\ Resolve(n).lookup = TRUE
         /\ Resolve(n).sock = n.sock /\ Resolve(n).login = n.login
         /\ Resolve(n).again = (n.again \/ n.sock # "none") /\ Resolve(n).reqs = n.reqs
<1> DEFINE v == IF n.failures = Disconnected THEN 0 ELSE n.failures
<1>0. v \in Int
  BY DEF Clients
<1>1. PICK b \in BOOLEAN : SetState(n, "HostLookup") = [n EXCEPT !.state = "HostLookup", !.expire = b]
  BY SetStateEffect
<1> DEFINE r == [n EXCEPT !.state = "HostLookup", !.expire = b, !.lookup = TRUE,
                           !.again = (n.again \/ n.sock # "none"), !.failures = v]
<1>2. Resolve(n) = [[n EXCEPT !.state = "HostLookup", !.expire = b] EXCEPT !.lookup = TRUE,
                                                                           !.again = (n.again \/ n.sock # "none"),
                                                                           !.failures = v]
  BY <1>1, Zenon DEF Resolve
<1>3. Resolve(n) = r
  BY <1>2
<1> HIDE DEF v
<1>4. (n.again \/ n.sock # "none") \in BOOLEAN
  BY DEF Clients
<1>5. r \in Clients
  BY <1>0, <1>4 DEF Clients
<1>6. /\ r.state = "HostLookup" /\ r.listener = n.listener /\ r.alive = n.alive /\ r.lookup = TRUE
      /\ r.sock = n.sock /\ r.login = n.login /\ r.again = (n.again \/ n.sock # "none") /\ r.reqs = n.reqs
  BY DEF Clients
<1> QED
  BY <1>3, <1>5, <1>6, Zenon

LEMMA LoggedInFacts ==
  ASSUME NEW n \in Clients
  PROVE  /\ LoggedIn(n) \in Clients
         /\ LoggedIn(n).state = n.state /\ LoggedIn(n).listener = n.listener
         /\ LoggedIn(n).alive = n.alive /\ LoggedIn(n).lookup = n.lookup
         /\ LoggedIn(n).sock = n.sock /\ LoggedIn(n).login = "in"
         /\ LoggedIn(n).again = n.again /\ LoggedIn(n).reqs = n.reqs
<1> DEFINE v == 0
<1>0. v \in Int
  OBVIOUS
<1> DEFINE r == [n EXCEPT !.failures = v, !.login = "in"]
<1>3. LoggedIn(n) = r
  BY Zenon DEF LoggedIn
<1> HIDE DEF v
<1>5. r \in Clients
  BY <1>0 DEF Clients
<1>6. /\ r.state = n.state /\ r.listener = n.listener /\ r.alive = n.alive /\ r.lookup = n.lookup
      /\ r.sock = n.sock /\ r.login = "in" /\ r.again = n.again /\ r.reqs = n.reqs
  BY DEF Clients
<1> QED
  BY <1>3, <1>5, <1>6, Zenon

LEMMA OnClosedFacts ==
  ASSUME NEW n \in Clients
  PROVE  /\ OnClosed(n) \in Clients
         /\ OnClosed(n).state = "Unconnected" /\ OnClosed(n).listener = n.listener
         /\ OnClosed(n).alive = n.alive /\ OnClosed(n).lookup = n.lookup
         /\ OnClosed(n).sock = "none" /\ OnClosed(n).login = n.login
         /\ OnClosed(n).again = n.again /\ OnClosed(n).reqs = n.reqs
<1>1. PICK b \in BOOLEAN : SetState(n, "Unconnected") = [n EXCEPT !.state = "Unconnected", !.expire = b]
  BY SetStateEffect
<1> DEFINE r == [n EXCEPT !.state = "Unconnected", !.expire = b, !.sock = "none"]
<1>2. OnClosed(n) = [[n EXCEPT !.state = "Unconnected", !.expire = b] EXCEPT !.sock = "none"]
  BY <1>1, Zenon DEF OnClosed
<1>3. OnClosed(n) = r
  BY <1>2
<1>5. r \in Clients
  BY DEF Clients
<1>6. /\ r.state = "Unconnected" /\ r.listener = n.listener /\ r.alive = n.alive /\ r.lookup = n.lookup
      /\ r.sock = "none" /\ r.login = n.login /\ r.again = n.again /\ r.reqs = n.reqs
  BY DEF Clients
<1> QED
  BY <1>3, <1>5, <1>6, Zenon

LEMMA ReconnectingFacts ==
  ASSUME NEW n \in Clients
  PROVE  /\ Reconnecting(n) \in Clients
         /\ Reconnecting(n).state = "Reconnecting" /\ Reconnecting(n).listener = n.listener
         /\ Reconnecting(n).alive = n.alive /\ Reconnecting(n).lookup = n.lookup
         /\ Reconnecting(n).sock = n.sock /\ Reconnecting(n).login = n.login
         /\ Reconnecting(n).again = n.again /\ Reconnecting(n).reqs = n.reqs
<1> DEFINE v == OneMore(n.failures)
<1>0. v \in Int
  BY RetriesAssumption DEF OneMore, Clients
<1>1. PICK b \in BOOLEAN : SetState(n, "Reconnecting") = [n EXCEPT !.state = "Reconnecting", !.expire = b]
  BY SetStateEffect
<1> DEFINE r == [n EXCEPT !.state = "Reconnecting", !.expire = b, !.failures = v]
<1>2. Reconnecting(n) = [[n EXCEPT !.state = "Reconnecting", !.expire = b] EXCEPT !.failures = v]
  BY <1>1, Zenon DEF Reconnecting
<1>3. Reconnecting(n) = r
  BY <1>2
<1> HIDE DEF v
<1>5. r \in Clients
  BY <1>0 DEF Clients
<1>6. /\ r.state = "Reconnecting" /\ r.listener = n.listener /\ r.alive = n.alive /\ r.lookup = n.lookup
      /\ r.sock = n.sock /\ r.login = n.login /\ r.again = n.again /\ r.reqs = n.reqs
  BY DEF Clients
<1> QED
  BY <1>3, <1>5, <1>6, Zenon

LEMMA SetStateFacts ==
  ASSUME NEW n \in Clients,
         NEW st \in {"Unconnected", "HostLookup", "Connecting", "Connected", "Closing", "Reconnecting"}
  PROVE  /\ SetState(n, st) \in Clients
         /\ SetState(n, st).state = st /\ SetState(n, st).listener = n.listener
         /\ SetState(n, st).alive = n.alive /\ SetState(n, st).lookup = n.lookup
         /\ SetState(n, st).sock = n.sock /\ SetState(n, st).login = n.login
         /\ SetState(n, st).again = n.again /\ SetState(n, st).reqs = n.reqs
<1>1. PICK b \in BOOLEAN : SetState(n, st) = [n EXCEPT !.state = st, !.expire = b]
  BY SetStateEffect
<1> DEFINE r == [n EXCEPT !.state = st, !.expire = b]
<1>2. r \in Clients
  BY DEF Clients
<1>3. /\ r.state = st /\ r.listener = n.listener /\ r.alive = n.alive /\ r.lookup = n.lookup
      /\ r.sock = n.sock /\ r.login = n.login /\ r.again = n.again /\ r.reqs = n.reqs
  BY DEF Clients
<1> QED
  BY <1>1, <1>2, <1>3, Zenon

\* One field of a client, or two, set.
LEMMA SockFacts ==
  ASSUME NEW n \in Clients, NEW v \in {"none", "connecting", "open", "dead", "closing"}
  PROVE  LET r == [n EXCEPT !.sock = v]
         IN  /\ r \in Clients
             /\ r.state = n.state /\ r.listener = n.listener /\ r.alive = n.alive
             /\ r.lookup = n.lookup /\ r.sock = v /\ r.login = n.login
             /\ r.again = n.again /\ r.reqs = n.reqs
BY DEF Clients

LEMMA AnswerFacts ==
  ASSUME NEW n \in Clients, NEW v \in {"no", "sent", "refused", "in"}
  PROVE  LET r == [n EXCEPT !.login = v]
         IN  /\ r \in Clients
             /\ r.state = n.state /\ r.listener = n.listener /\ r.alive = n.alive
             /\ r.lookup = n.lookup /\ r.sock = n.sock /\ r.login = v
             /\ r.again = n.again /\ r.reqs = n.reqs
BY DEF Clients

LEMMA ToldFacts ==
  ASSUME NEW n \in Clients
  PROVE  LET r == [n EXCEPT !.lookup = FALSE]
         IN  /\ r \in Clients
             /\ r.state = n.state /\ r.listener = n.listener /\ r.alive = n.alive
             /\ r.lookup = FALSE /\ r.sock = n.sock /\ r.login = n.login
             /\ r.again = n.again /\ r.reqs = n.reqs
BY DEF Clients

LEMMA GoneFacts ==
  ASSUME NEW n \in Clients
  PROVE  LET r == [n EXCEPT !.alive = FALSE, !.lookup = FALSE]
         IN  /\ r \in Clients
             /\ r.state = n.state /\ r.listener = n.listener /\ r.alive = FALSE
             /\ r.lookup = FALSE /\ r.sock = n.sock /\ r.login = n.login
             /\ r.again = n.again /\ r.reqs = n.reqs
BY DEF Clients

LEMMA ExpireFacts ==
  ASSUME NEW n \in Clients
  PROVE  LET r == [n EXCEPT !.expire = TRUE]
         IN  /\ r \in Clients
             /\ r.state = n.state /\ r.listener = n.listener /\ r.alive = n.alive
             /\ r.lookup = n.lookup /\ r.sock = n.sock /\ r.login = n.login
             /\ r.again = n.again /\ r.reqs = n.reqs
BY DEF Clients

LEMMA SentFacts ==
  ASSUME NEW n \in Clients
  PROVE  LET r == [n EXCEPT !.login = "sent", !.expire = FALSE]
         IN  /\ r \in Clients
             /\ r.state = n.state /\ r.listener = n.listener /\ r.alive = n.alive
             /\ r.lookup = n.lookup /\ r.sock = n.sock /\ r.login = "sent"
             /\ r.again = n.again /\ r.reqs = n.reqs
BY DEF Clients

LEMMA SilentFacts ==
  ASSUME NEW n \in Clients
  PROVE  LET r == [n EXCEPT !.listener = FALSE]
         IN  /\ r \in Clients
             /\ r.state = n.state /\ r.listener = FALSE /\ r.alive = n.alive
             /\ r.lookup = n.lookup /\ r.sock = n.sock /\ r.login = n.login
             /\ r.again = n.again /\ r.reqs = n.reqs
BY DEF Clients

LEMMA LoginFacts ==
  ASSUME NEW n \in Clients, NEW written \in BOOLEAN
  PROVE  /\ Login(n, written) \in Clients
         /\ \/ /\ Login(n, written).state = n.state /\ Login(n, written).sock = n.sock
               /\ written \/ n.state \in {"Closing", "Unconnected"} \/ n.sock = "none"
            \/ /\ Login(n, written).state = "Closing" /\ Login(n, written).sock = "closing"
               /\ n.state \notin {"Closing", "Unconnected"} /\ n.sock # "none"
         /\ Login(n, written).login = (IF written THEN "sent" ELSE n.login)
         /\ Login(n, written).listener = n.listener /\ Login(n, written).alive = n.alive
         /\ Login(n, written).lookup = n.lookup
         /\ Login(n, written).again = n.again /\ Login(n, written).reqs = n.reqs
<1>1. CASE written
  <2>1. Login(n, written) = [n EXCEPT !.login = "sent", !.expire = FALSE]
    BY <1>1, Zenon DEF Login
  <2> QED
    BY <1>1, <2>1, SentFacts, Zenon
<1>2. CASE ~written
  <2>1. Login(n, written) = Close(n)
    BY <1>2, Zenon DEF Login
  <2>2. /\ Login(n, written) \in Clients
        /\ \/ /\ n.state \notin {"Closing", "Unconnected"} /\ n.sock # "none"
              /\ Login(n, written).state = "Closing" /\ Login(n, written).sock = "closing"
           \/ /\ n.state \in {"Closing", "Unconnected"} \/ n.sock = "none"
              /\ Login(n, written).state = n.state /\ Login(n, written).sock = n.sock
    BY <2>1, CloseFacts, Zenon
  <2>3. /\ Login(n, written).listener = n.listener /\ Login(n, written).alive = n.alive
        /\ Login(n, written).lookup = n.lookup /\ Login(n, written).login = n.login
        /\ Login(n, written).again = n.again /\ Login(n, written).reqs = n.reqs
    BY <2>1, CloseFacts, Zenon
  <2> QED
    BY <1>2, <2>2, <2>3, Zenon
<1> QED
  BY <1>1, <1>2

\* A socket that has connected is open, unless the login cannot be written.
LEMMA OnConnectFacts ==
  ASSUME NEW n \in Clients, NEW tls, NEW written \in BOOLEAN
  PROVE  /\ OnConnect(n, tls, written) \in Clients
         /\ \/ OnConnect(n, tls, written).state = "Connected" /\ OnConnect(n, tls, written).sock = "open"
            \/ OnConnect(n, tls, written).state = "Closing" /\ OnConnect(n, tls, written).sock = "closing"
         /\ OnConnect(n, tls, written).login \in {n.login, "sent"}
         /\ OnConnect(n, tls, written).listener = n.listener
         /\ OnConnect(n, tls, written).alive = n.alive
         /\ OnConnect(n, tls, written).lookup = n.lookup
         /\ OnConnect(n, tls, written).again = n.again /\ OnConnect(n, tls, written).reqs = n.reqs
<1> DEFINE m == [n EXCEPT !.sock = "open"]
           k == SetState(m, "Connected")
<1>1. /\ m \in Clients
      /\ m.listener = n.listener /\ m.alive = n.alive /\ m.lookup = n.lookup /\ m.sock = "open"
      /\ m.login = n.login /\ m.again = n.again /\ m.reqs = n.reqs
  BY SockFacts, Zenon
<1> HIDE DEF m
<1>2. /\ k \in Clients
      /\ k.state = "Connected" /\ k.listener = n.listener /\ k.alive = n.alive
      /\ k.lookup = n.lookup /\ k.sock = "open" /\ k.login = n.login /\ k.again = n.again
      /\ k.reqs = n.reqs
  BY <1>1, SetStateFacts, Zenon
<1>3. OnConnect(n, tls, written) = IF tls THEN [k EXCEPT !.expire = TRUE] ELSE Login(k, written)
  BY Zenon DEF OnConnect, m
<1> HIDE DEF k
<1>4. CASE tls
  BY <1>2, <1>3, <1>4, ExpireFacts, Zenon
<1>5. CASE ~tls
  <2>1. OnConnect(n, tls, written) = Login(k, written)
    BY <1>3, <1>5, Zenon
  <2>2. k.state \notin {"Closing", "Unconnected"} /\ k.sock # "none"
    BY <1>2
  <2> QED
    BY <1>2, <2>1, <2>2, LoginFacts
<1> QED
  BY <1>4, <1>5

LEMMA OnConnectFailedFacts ==
  ASSUME NEW n \in Clients, n.sock # "none"
  PROVE  /\ OnConnectFailed(n) \in Clients
         /\ \/ /\ n.state = "Connecting"
               /\ OnConnectFailed(n).state = "Closing" /\ OnConnectFailed(n).sock = "closing"
            \/ /\ n.state # "Connecting"
               /\ OnConnectFailed(n).state = n.state /\ OnConnectFailed(n).sock = "dead"
         /\ OnConnectFailed(n).listener = n.listener /\ OnConnectFailed(n).alive = n.alive
         /\ OnConnectFailed(n).lookup = n.lookup /\ OnConnectFailed(n).login = n.login
         /\ OnConnectFailed(n).again = n.again /\ OnConnectFailed(n).reqs = n.reqs
<1>1. CASE n.state = "Connecting"
  <2>1. OnConnectFailed(n) = Close(n)
    BY <1>1, Zenon DEF OnConnectFailed
  <2>2. n.state \notin {"Closing", "Unconnected"}
    BY <1>1
  <2>3. /\ OnConnectFailed(n) \in Clients
        /\ OnConnectFailed(n).state = "Closing" /\ OnConnectFailed(n).sock = "closing"
    BY <2>1, <2>2, CloseFacts, Zenon
  <2>4. /\ OnConnectFailed(n).listener = n.listener /\ OnConnectFailed(n).alive = n.alive
        /\ OnConnectFailed(n).lookup = n.lookup /\ OnConnectFailed(n).login = n.login
        /\ OnConnectFailed(n).again = n.again /\ OnConnectFailed(n).reqs = n.reqs
    BY <2>1, CloseFacts, Zenon
  <2> QED
    BY <1>1, <2>3, <2>4, Zenon
<1>2. CASE n.state # "Connecting"
  <2>1. OnConnectFailed(n) = [n EXCEPT !.sock = "dead"]
    BY <1>2, Zenon DEF OnConnectFailed
  <2> QED
    BY <1>2, <2>1 DEF Clients
<1> QED
  BY <1>1, <1>2

\* An answer that cannot be used: the client closes, or goes on.
LEMMA RefusedFacts ==
  ASSUME NEW n \in Clients
  PROVE  LET r == [n EXCEPT !.login = IF @ = "sent" THEN "refused" ELSE @]
         IN  /\ r \in Clients
             /\ r.state = n.state /\ r.listener = n.listener /\ r.alive = n.alive
             /\ r.lookup = n.lookup /\ r.sock = n.sock
             /\ r.login = (IF n.login = "sent" THEN "refused" ELSE n.login)
             /\ r.again = n.again /\ r.reqs = n.reqs
<1> DEFINE v == IF n.login = "sent" THEN "refused" ELSE n.login
<1>1. v \in {"no", "sent", "refused", "in"}
  BY DEF Clients
<1>2. [n EXCEPT !.login = IF @ = "sent" THEN "refused" ELSE @] = [n EXCEPT !.login = v]
  OBVIOUS
<1> HIDE DEF v
<1>3. LET r == [n EXCEPT !.login = v]
      IN  /\ r \in Clients
          /\ r.state = n.state /\ r.listener = n.listener /\ r.alive = n.alive
          /\ r.lookup = n.lookup /\ r.sock = n.sock /\ r.login = v
          /\ r.again = n.again /\ r.reqs = n.reqs
  BY <1>1, AnswerFacts, Zenon
<1> QED
  BY <1>2, <1>3, Zenon DEF v

-----------------------------------------------------------------------------
(* The handlers keep what holds of a client, and do not make the first     *)
(* pool's lead, or give a job, but for LoggedIn.                           *)

\* The client n of the pool p becomes m.
Keeps(p, n, m, del, chk, noted) ==
  /\ m \in Clients /\ ClientOK(p, m, del, chk, noted)
  /\ p = 0 => /\ Leads(m) => Leads(n)
              /\ Gives(m, chk) => Gives(n, chk)
              /\ Waits(m) => Waits(n)

LEMMA CloseKeeps ==
  ASSUME NEW p \in Stratum, NEW n \in Clients, NEW del, NEW chk, NEW noted,
         ClientOK(p, n, del, chk, noted)
  PROVE  Keeps(p, n, Close(n), del, chk, noted)
<1>1. CASE Close(n).state = n.state /\ Close(n).sock = n.sock
  BY <1>1, CloseFacts DEF Keeps, ClientOK, StratumOK, Tidy, FirstOK, Leads, Gives, Waits, Stratum
<1>2. CASE /\ n.state \notin {"Closing", "Unconnected"} /\ n.sock # "none"
           /\ Close(n).state = "Closing" /\ Close(n).sock = "closing"
  BY <1>2, CloseFacts DEF Keeps, ClientOK, StratumOK, Tidy, FirstOK, Leads, Gives, Waits, Stratum, Clients
<1> QED
  BY <1>1, <1>2, CloseFacts

LEMMA DisconnectKeeps ==
  ASSUME NEW p \in Stratum, NEW n \in Clients, NEW del, NEW chk, NEW noted,
         ClientOK(p, n, del, chk, noted)
  PROVE  Keeps(p, n, Disconnect(n), del, chk, noted)
<1>1. CASE Disconnect(n).state = n.state /\ Disconnect(n).sock = n.sock
  BY <1>1, DisconnectEffect DEF Keeps, ClientOK, StratumOK, Tidy, FirstOK, Leads, Gives, Waits, Stratum
<1>2. CASE /\ n.state \notin {"Closing", "Unconnected"} /\ n.sock # "none"
           /\ Disconnect(n).state = "Closing" /\ Disconnect(n).sock = "closing"
  BY <1>2, DisconnectEffect DEF Keeps, ClientOK, StratumOK, Tidy, FirstOK, Leads, Gives, Waits, Stratum, Clients
<1> QED
  BY <1>1, <1>2, DisconnectEffect

\* A client that connects has its listener; the first one holds no socket.
LEMMA ResolveKeeps ==
  ASSUME NEW p \in Stratum, NEW n \in Clients, NEW del, NEW chk, NEW noted,
         ClientOK(p, n, del, chk, noted), n.listener, p = 0 => noted \/ n.sock = "none"
  PROVE  Keeps(p, n, Resolve(n), del, chk, noted)
<1>1. Resolve(n).again <=> n.again \/ n.sock # "none"
  BY ResolveFacts, Zenon
<1>2. /\ Resolve(n) \in Clients
      /\ Resolve(n).state = "HostLookup" /\ Resolve(n).listener = n.listener
      /\ Resolve(n).alive = n.alive /\ Resolve(n).sock = n.sock
      /\ Resolve(n).login = n.login /\ Resolve(n).reqs = n.reqs
  BY ResolveFacts
<1>3. StratumOK(Resolve(n), chk)
  BY <1>1, <1>2 DEF ClientOK, StratumOK, Tidy, Stratum
<1>4. p = 0 /\ ~noted => FirstOK(Resolve(n))
  BY <1>1, <1>2 DEF ClientOK, StratumOK, FirstOK, Stratum
<1> QED
  BY <1>2, <1>3, <1>4 DEF Keeps, ClientOK, Leads, Gives, Waits, Stratum

LEMMA OpenKeeps ==
  ASSUME NEW p \in Stratum, NEW n \in Clients, NEW del, NEW chk, NEW noted,
         ClientOK(p, n, del, chk, noted), n.listener
  PROVE  Keeps(p, n, Open(n), del, chk, noted)
BY OpenFacts DEF Keeps, ClientOK, StratumOK, Tidy, FirstOK, Leads, Gives, Waits, Stratum

LEMMA OnConnectKeeps ==
  ASSUME NEW p \in Stratum, NEW n \in Clients, NEW del, NEW chk, NEW noted,
         ClientOK(p, n, del, chk, noted), n.sock = "connecting",
         NEW tls, NEW written \in BOOLEAN
  PROVE  Keeps(p, n, OnConnect(n, tls, written), del, chk, noted)
BY OnConnectFacts DEF Keeps, ClientOK, StratumOK, Tidy, FirstOK, Leads, Gives, Waits, Stratum

LEMMA OnConnectFailedKeeps ==
  ASSUME NEW p \in Stratum, NEW n \in Clients, NEW del, NEW chk, NEW noted,
         ClientOK(p, n, del, chk, noted), n.sock = "connecting"
  PROVE  Keeps(p, n, OnConnectFailed(n), del, chk, noted)
BY OnConnectFailedFacts DEF Keeps, ClientOK, StratumOK, Tidy, FirstOK, Leads, Gives, Waits, Stratum

LEMMA LoginKeeps ==
  ASSUME NEW p \in Stratum, NEW n \in Clients, NEW del, NEW chk, NEW noted,
         ClientOK(p, n, del, chk, noted), n.sock = "open", NEW written \in BOOLEAN
  PROVE  Keeps(p, n, Login(n, written), del, chk, noted)
BY LoginFacts DEF Keeps, ClientOK, StratumOK, Tidy, FirstOK, Leads, Gives, Waits, Stratum

\* The close callback of the client's socket: it gives no job any more.
LEMMA OnClosedKeeps ==
  ASSUME NEW p \in Stratum, NEW n \in Clients, NEW del, NEW chk, NEW noted,
         ClientOK(p, n, del, chk, noted), n.listener
  PROVE  Keeps(p, n, OnClosed(n), del, chk, noted)
BY OnClosedFacts DEF Keeps, ClientOK, StratumOK, Tidy, FirstOK, Leads, Gives, Waits, Stratum

LEMMA ReconnectingKeeps ==
  ASSUME NEW p \in Stratum, NEW n \in Clients, NEW del, NEW chk, NEW noted,
         ClientOK(p, n, del, chk, noted), n.listener, p = 0 => noted \/ n.sock = "none"
  PROVE  Keeps(p, n, Reconnecting(n), del, chk, noted)
BY ReconnectingFacts DEF Keeps, ClientOK, StratumOK, Tidy, FirstOK, Leads, Gives, Waits, Stratum

LEMMA ToldKeeps ==
  ASSUME NEW p \in Stratum, NEW n \in Clients, NEW del, NEW chk, NEW noted,
         ClientOK(p, n, del, chk, noted)
  PROVE  Keeps(p, n, [n EXCEPT !.lookup = FALSE], del, chk, noted)
<1> DEFINE r == [n EXCEPT !.lookup = FALSE]
<1>1. /\ r \in Clients /\ r.state = n.state /\ r.listener = n.listener /\ r.alive = n.alive
      /\ r.lookup = FALSE /\ r.sock = n.sock /\ r.login = n.login
      /\ r.again = n.again /\ r.reqs = n.reqs
  BY ToldFacts, Zenon
<1> HIDE DEF r
<1>2. Keeps(p, n, r, del, chk, noted)
  BY <1>1 DEF Keeps, ClientOK, StratumOK, Tidy, FirstOK, Leads, Gives, Waits, Stratum
<1> QED
  BY <1>2 DEF r

\* A client without its listener goes once it holds no socket.
LEMMA GoneKeeps ==
  ASSUME NEW p \in Stratum, NEW n \in Clients, NEW del, NEW chk, NEW noted,
         ClientOK(p, n, del, chk, noted), ~n.listener, n.again \/ n.sock = "none"
  PROVE  Keeps(p, n, [n EXCEPT !.alive = FALSE, !.lookup = FALSE], del, chk, noted)
<1> DEFINE r == [n EXCEPT !.alive = FALSE, !.lookup = FALSE]
<1>1. /\ r \in Clients /\ r.state = n.state /\ r.listener = n.listener /\ r.alive = FALSE
      /\ r.lookup = FALSE /\ r.sock = n.sock /\ r.login = n.login
      /\ r.again = n.again /\ r.reqs = n.reqs
  BY GoneFacts, Zenon
<1> HIDE DEF r
<1>2. Keeps(p, n, r, del, chk, noted)
  BY <1>1 DEF Keeps, ClientOK, StratumOK, Tidy, FirstOK, Leads, Gives, Waits, Stratum
<1> QED
  BY <1>2 DEF r

\* It has closed it: the close callback is its last one.
LEMMA ClosedGoneKeeps ==
  ASSUME NEW p \in Stratum, NEW n \in Clients, NEW del, NEW chk, NEW noted,
         ClientOK(p, n, del, chk, noted), ~n.listener
  PROVE  Keeps(p, n, [OnClosed(n) EXCEPT !.alive = FALSE, !.lookup = FALSE], del, chk, noted)
<1> DEFINE r == [OnClosed(n) EXCEPT !.alive = FALSE, !.lookup = FALSE]
<1>1. /\ r \in Clients /\ r.state = "Unconnected" /\ r.listener = n.listener /\ r.alive = FALSE
      /\ r.lookup = FALSE /\ r.sock = "none" /\ r.login = n.login
      /\ r.again = n.again /\ r.reqs = n.reqs
  <2> DEFINE m == OnClosed(n)
  <2>1. /\ m \in Clients /\ m.state = "Unconnected" /\ m.listener = n.listener /\ m.sock = "none"
        /\ m.login = n.login /\ m.again = n.again /\ m.reqs = n.reqs
    BY OnClosedFacts
  <2> HIDE DEF m
  <2>2. r = [m EXCEPT !.alive = FALSE, !.lookup = FALSE]
    BY DEF m
  <2> HIDE DEF r
  <2> QED
    BY <2>1, <2>2, GoneFacts, Zenon
<1> HIDE DEF r
<1>2. Keeps(p, n, r, del, chk, noted)
  BY <1>1 DEF Keeps, ClientOK, StratumOK, Tidy, FirstOK, Leads, Gives, Waits, Stratum
<1> QED
  BY <1>2 DEF r

\* An answer that cannot be used, and a client that closes because of it.
LEMMA RefusedKeeps ==
  ASSUME NEW p \in Stratum, NEW n \in Clients, NEW del, NEW chk, NEW noted,
         ClientOK(p, n, del, chk, noted), n.login \in {"sent", "in"}
  PROVE  /\ Keeps(p, n, Close([n EXCEPT !.login = IF @ = "sent" THEN "refused" ELSE @]), del, chk, noted)
         /\ \A id, critical : Keeps(p, n, OnError(n, id, critical), del, chk, noted)
<1> DEFINE r == [n EXCEPT !.login = IF @ = "sent" THEN "refused" ELSE @]
<1>1. /\ r \in Clients /\ r.state = n.state /\ r.listener = n.listener /\ r.alive = n.alive
      /\ r.lookup = n.lookup /\ r.sock = n.sock
      /\ r.login = (IF n.login = "sent" THEN "refused" ELSE n.login)
      /\ r.again = n.again /\ r.reqs = n.reqs
  BY RefusedFacts, Zenon
<1> HIDE DEF r
<1>2. Keeps(p, n, r, del, chk, noted)
  BY <1>1 DEF Keeps, ClientOK, StratumOK, Tidy, FirstOK, Leads, Gives, Waits, Stratum
<1>3. Keeps(p, r, Close(r), del, chk, noted)
  BY <1>1, <1>2, CloseKeeps DEF Keeps
<1>4. Keeps(p, n, Close(r), del, chk, noted)
  BY <1>2, <1>3 DEF Keeps
<1>5. \A id, critical : OnError(n, id, critical) = IF id = 1 \/ critical THEN Close(r) ELSE r
  BY Zenon DEF OnError, r
<1>6. \A id, critical : Keeps(p, n, OnError(n, id, critical), del, chk, noted)
  BY <1>2, <1>4, <1>5, Zenon
<1> QED
  BY <1>4, <1>6 DEF r

\* A login that succeeds keeps what holds of the client; it may lead now.
LEMMA LoggedInOK ==
  ASSUME NEW p \in Stratum, NEW n \in Clients, NEW del, NEW chk, NEW noted,
         ClientOK(p, n, del, chk, noted), n.sock \in {"open", "closing"}
  PROVE  LoggedIn(n) \in Clients /\ ClientOK(p, LoggedIn(n), del, chk, noted)
BY LoggedInFacts DEF ClientOK, StratumOK, Tidy, FirstOK, Stratum

\* The client of a strategy that is deleted.
LEMMA DeletedPool ==
  ASSUME NEW p \in Stratum, NEW n \in Clients, NEW chk, NEW noted,
         ClientOK(p, n, FALSE, chk, noted), p \in Used
  PROVE  /\ Deleted(n, p) \in Clients /\ ClientOK(p, Deleted(n, p), TRUE, FALSE, noted)
         /\ p = 0 => ~Leads(Deleted(n, p))
<1> DEFINE l == [n EXCEPT !.listener = FALSE]
           m == Disconnect(l)
<1>1. /\ l \in Clients /\ l.state = n.state /\ l.listener = FALSE /\ l.alive = n.alive
      /\ l.lookup = n.lookup /\ l.sock = n.sock /\ l.login = n.login
      /\ l.again = n.again /\ l.reqs = n.reqs
  BY SilentFacts, Zenon
<1>2. kind[p] = "pool" /\ kind[p] # "daemon"
  BY DEF Stratum
<1>3. Deleted(n, p) = IF m.state = "Closing" THEN m ELSE [m EXCEPT !.alive = FALSE, !.lookup = FALSE]
  BY <1>2, Zenon DEF Deleted
<1> HIDE DEF l
<1>4. /\ m \in Clients
      /\ \/ /\ n.state \notin {"Closing", "Unconnected"} /\ n.sock # "none"
            /\ m.state = "Closing" /\ m.sock = "closing"
         \/ /\ n.state \in {"Closing", "Unconnected"} \/ n.sock = "none"
            /\ m.state = n.state /\ m.sock = n.sock
      /\ m.listener = FALSE /\ m.alive = n.alive /\ m.lookup = n.lookup
      /\ m.again = n.again /\ m.reqs = n.reqs /\ m.login = n.login
  BY <1>1, DisconnectEffect
<1> HIDE DEF m
<1>5. n.listener /\ StratumOK(n, chk) /\ (p = 0 /\ ~noted => FirstOK(n))
  BY <1>2 DEF ClientOK, Dropped
<1>6. CASE m.state = "Closing"
  <2>1. Deleted(n, p) = m
    BY <1>3, <1>6, Zenon
  <2>2. StratumOK(m, FALSE) /\ (p = 0 /\ ~noted => FirstOK(m))
    BY <1>4, <1>5, <1>6 DEF StratumOK, Tidy, FirstOK
  <2> QED
    BY <1>2, <1>4, <1>6, <2>1, <2>2 DEF ClientOK, Leads, Dropped
<1>7. CASE m.state # "Closing"
  <2> DEFINE r == [m EXCEPT !.alive = FALSE, !.lookup = FALSE]
  <2>1. Deleted(n, p) = r
    BY <1>3, <1>7, Zenon
  <2>2. /\ r \in Clients /\ r.state = m.state /\ r.listener = FALSE /\ r.alive = FALSE
        /\ r.lookup = FALSE /\ r.sock = m.sock /\ r.login = m.login
        /\ r.again = m.again /\ r.reqs = m.reqs
    BY <1>4, GoneFacts, Zenon
  <2> HIDE DEF r
  <2>3. n.state \in {"Closing", "Unconnected"} \/ n.sock = "none"
    BY <1>4, <1>7
  <2>4. m.state = n.state /\ m.sock = n.sock
    BY <1>4, <1>7
  <2>5. StratumOK(r, FALSE) /\ (p = 0 /\ ~noted => FirstOK(r)) /\ r.state # "Connected"
    BY <1>4, <1>5, <1>7, <2>2, <2>3, <2>4 DEF StratumOK, Tidy, FirstOK
  <2> QED
    BY <1>2, <2>1, <2>2, <2>5 DEF ClientOK, Leads, Dropped
<1> QED
  BY <1>6, <1>7

-----------------------------------------------------------------------------
(* The same for the daemon's client.                                       *)

LEMMA FetchFacts ==
  ASSUME NEW n \in Clients, NEW k \in {"template", "height", "submit"}, NEW t \in Int
  PROVE  LET r == Fetch(n, k, t)
         IN  /\ r \in Clients /\ r.state = n.state /\ r.listener = n.listener /\ r.lookup = n.lookup
             /\ r.sock = n.sock /\ r.login = n.login /\ r.expire = n.expire
<1> DEFINE e == n.reqs \cup {[kind |-> k, from |-> t]}
           r == [n EXCEPT !.reqs = e]
<1>1. Fetch(n, k, t) = r
  BY Zenon DEF Fetch
<1>2. e \in SUBSET Requests
  <2>1. n.reqs \in SUBSET Requests
    BY DEF Clients
  <2>2. [kind |-> k, from |-> t] \in Requests
    BY DEF Requests
  <2> QED
    BY <2>1, <2>2
<1> HIDE DEF e
<1>3. /\ r \in Clients /\ r.state = n.state /\ r.listener = n.listener /\ r.lookup = n.lookup
      /\ r.sock = n.sock /\ r.login = n.login /\ r.expire = n.expire
  BY <1>2 DEF Clients
<1> HIDE DEF r
<1> QED
  BY <1>1, <1>3

LEMMA FetchKeeps ==
  ASSUME NEW p \in Pools \ Stratum, NEW n \in Clients, NEW del, NEW chk, NEW noted,
         NEW k \in {"template", "height", "submit"}, NEW t \in Int,
         ClientOK(p, n, del, chk, noted), ~Dropped(p, del), p = 0 => n.state # "Unconnected"
  PROVE  Keeps(p, n, Fetch(n, k, t), del, chk, noted)
<1> DEFINE r == Fetch(n, k, t)
<1>1. /\ r \in Clients /\ r.state = n.state /\ r.listener = n.listener /\ r.lookup = n.lookup
      /\ r.sock = n.sock /\ r.login = n.login /\ r.expire = n.expire
  BY FetchFacts, Zenon
<1> HIDE DEF r
<1>2. Keeps(p, n, r, del, chk, noted)
  BY <1>1 DEF Keeps, ClientOK, DaemonOK, Leads, Gives, Waits, Stratum
<1> QED
  BY <1>2 DEF r

\* Fields that only the daemon's client has.
LEMMA DaemonFields ==
  ASSUME NEW n \in Clients
  PROVE  /\ LET r == [n EXCEPT !.state = "Connecting"]
            IN  /\ r \in Clients /\ r.state = "Connecting" /\ r.listener = n.listener
                /\ r.lookup = n.lookup /\ r.sock = n.sock /\ r.login = n.login
                /\ r.reqs = n.reqs /\ r.expire = n.expire
         /\ \A v \in Int : LET r == [n EXCEPT !.state = "Unconnected", !.failures = v,
                                              !.expire = FALSE, !.polls = FALSE]
            IN  /\ r \in Clients /\ r.state = "Unconnected" /\ r.listener = n.listener
                /\ r.lookup = n.lookup /\ r.sock = n.sock /\ r.login = n.login
                /\ r.reqs = n.reqs /\ r.expire = FALSE
BY DEF Clients

LEMMA DaemonConnectKeeps ==
  ASSUME NEW p \in Pools \ Stratum, NEW n \in Clients, NEW del, NEW chk, NEW noted,
         NEW t \in Int, ClientOK(p, n, del, chk, noted), ~Dropped(p, del)
  PROVE  Keeps(p, n, DaemonConnect(n, t), del, chk, noted)
<1> DEFINE m == [n EXCEPT !.state = "Connecting"]
<1>1. /\ m \in Clients /\ m.state = "Connecting" /\ m.listener = n.listener
      /\ m.lookup = n.lookup /\ m.sock = n.sock /\ m.login = n.login
      /\ m.reqs = n.reqs /\ m.expire = n.expire
  BY DaemonFields, Zenon
<1>2. DaemonConnect(n, t) = Fetch(m, "template", t)
  BY Zenon DEF DaemonConnect
<1> HIDE DEF m
<1>3. Keeps(p, n, m, del, chk, noted)
  BY <1>1 DEF Keeps, ClientOK, DaemonOK, Leads, Gives, Waits, Stratum
<1>4. Keeps(p, m, Fetch(m, "template", t), del, chk, noted)
  BY <1>1, <1>3, FetchKeeps DEF Keeps
<1> QED
  BY <1>2, <1>3, <1>4 DEF Keeps

\* A backup is let go; also a client that is deleted is disconnected first.
LEMMA DaemonDisconnectFacts ==
  ASSUME NEW n \in Clients
  PROVE  LET r == DaemonDisconnect(n)
         IN  /\ r \in Clients /\ r.state = "Unconnected" /\ r.listener = n.listener
             /\ r.lookup = n.lookup /\ r.sock = n.sock /\ r.login = n.login
             /\ r.reqs = n.reqs /\ (n.expire \/ r.expire = n.expire)
<1>1. CASE n.state = "Unconnected"
  BY <1>1 DEF DaemonDisconnect
<1>2. CASE n.state # "Unconnected"
  <2> DEFINE r == [n EXCEPT !.state = "Unconnected", !.failures = Disconnected,
                            !.expire = FALSE, !.polls = FALSE]
  <2>1. DaemonDisconnect(n) = r
    BY <1>2, Zenon DEF DaemonDisconnect
  <2>2. Disconnected \in Int
    BY DEF Disconnected
  <2>3. /\ r \in Clients /\ r.state = "Unconnected" /\ r.listener = n.listener
        /\ r.lookup = n.lookup /\ r.sock = n.sock /\ r.login = n.login
        /\ r.reqs = n.reqs /\ r.expire = FALSE
    BY <2>2, DaemonFields, Zenon
  <2>4. n.expire \in BOOLEAN
    BY DEF Clients
  <2> HIDE DEF r
  <2> QED
    BY <2>1, <2>3, <2>4
<1> QED
  BY <1>1, <1>2

LEMMA DaemonDisconnectKeeps ==
  ASSUME NEW p \in Pools \ Stratum, NEW n \in Clients, NEW del, NEW chk, NEW noted,
         ClientOK(p, n, del, chk, noted), p # 0
  PROVE  Keeps(p, n, DaemonDisconnect(n), del, chk, noted)
<1> DEFINE r == DaemonDisconnect(n)
<1>1. /\ r \in Clients /\ r.state = "Unconnected" /\ r.listener = n.listener
      /\ r.lookup = n.lookup /\ r.sock = n.sock /\ r.login = n.login
      /\ r.reqs = n.reqs /\ (n.expire \/ r.expire = n.expire)
  BY DaemonDisconnectFacts, Zenon
<1> HIDE DEF r
<1>2. Keeps(p, n, r, del, chk, noted)
  BY <1>1 DEF Keeps, ClientOK, DaemonOK, Stratum
<1> QED
  BY <1>2 DEF r

LEMMA DaemonRetryKeeps ==
  ASSUME NEW p \in Pools \ Stratum, NEW n \in Clients, NEW del, NEW chk, NEW noted,
         ClientOK(p, n, del, chk, noted), ~Dropped(p, del)
  PROVE  Keeps(p, n, DaemonRetry(n), del, chk, noted) /\ DaemonRetry(n).state # "Connected"
<1> DEFINE f == OneMore(n.failures)
           st == IF n.state = "Connected" THEN "Connecting" ELSE n.state
           r == [n EXCEPT !.failures = f, !.expire = TRUE, !.polls = FALSE, !.state = st]
<1>1. f \in Int
  BY RetriesAssumption DEF OneMore, Clients
<1>2. st \in {"Unconnected", "HostLookup", "Connecting", "Connected", "Closing", "Reconnecting"}
  BY DEF Clients
<1>3. DaemonRetry(n) = r
  BY Zenon DEF DaemonRetry
<1>4. /\ st # "Connected" /\ (n.state # "Connected" => st = n.state)
      /\ n.state = "Connected" => st = "Connecting"
  OBVIOUS
<1> HIDE DEF f, st
<1>5. /\ r \in Clients /\ r.state = st /\ r.listener = n.listener /\ r.lookup = n.lookup
      /\ r.sock = n.sock /\ r.login = n.login /\ r.reqs = n.reqs
  BY <1>1, <1>2 DEF Clients
<1> HIDE DEF r
<1>6. ClientOK(p, r, del, chk, noted)
  BY <1>4, <1>5 DEF ClientOK, DaemonOK, Stratum
<1> QED
  BY <1>3, <1>4, <1>5, <1>6 DEF Keeps, Leads, Gives, Waits, Stratum

LEMMA DaemonTimerKeeps ==
  ASSUME NEW p \in Pools \ Stratum, NEW n \in Clients, NEW del, NEW chk, NEW noted,
         NEW old \in BOOLEAN, NEW t \in Int,
         ClientOK(p, n, del, chk, noted), ~Dropped(p, del)
  PROVE  Keeps(p, n, DaemonTimer(n, old, t), del, chk, noted)
<1> DEFINE j == IF old THEN 0 ELSE n.job
           a == IF old THEN 0 ELSE n.asked
           r == [n EXCEPT !.expire = n.polls, !.job = j, !.asked = a]
<1>1. j \in Int /\ a \in Int /\ n.polls \in BOOLEAN
  BY DEF Clients
<1>2. DaemonTimer(n, old, t) = CASE n.state = "Connecting" -> DaemonConnect(r, t)
                                 [] n.state = "Connected" -> Fetch(r, "height", t)
                                 [] OTHER -> r
  BY Zenon DEF DaemonTimer
<1> HIDE DEF j, a
<1>3. /\ r \in Clients /\ r.state = n.state /\ r.listener = n.listener /\ r.lookup = n.lookup
      /\ r.sock = n.sock /\ r.login = n.login /\ r.reqs = n.reqs
  BY <1>1 DEF Clients
<1> HIDE DEF r
<1>4. Keeps(p, n, r, del, chk, noted)
  BY <1>3 DEF Keeps, ClientOK, DaemonOK, Leads, Gives, Waits, Stratum
<1>5. Keeps(p, r, DaemonConnect(r, t), del, chk, noted)
  BY <1>3, <1>4, DaemonConnectKeeps DEF Keeps
<1>6. n.state = "Connected" => Keeps(p, r, Fetch(r, "height", t), del, chk, noted)
  BY <1>3, <1>4, FetchKeeps DEF Keeps
<1>7. CASE n.state = "Connecting"
  <2>1. DaemonTimer(n, old, t) = DaemonConnect(r, t)
    BY <1>2, <1>7
  <2> QED
    BY <1>4, <1>5, <2>1 DEF Keeps
<1>8. CASE n.state = "Connected"
  <2>1. DaemonTimer(n, old, t) = Fetch(r, "height", t)
    BY <1>2, <1>8
  <2> QED
    BY <1>4, <1>6, <1>8, <2>1 DEF Keeps
<1>9. CASE n.state \notin {"Connecting", "Connected"}
  <2>1. DaemonTimer(n, old, t) = r
    BY <1>2, <1>9
  <2> QED
    BY <1>4, <2>1
<1> QED
  BY <1>7, <1>8, <1>9

\* A request is answered or lost.
LEMMA AnsweredKeeps ==
  ASSUME NEW p \in Pools \ Stratum, NEW n \in Clients, NEW del, NEW chk, NEW noted, NEW q,
         ClientOK(p, n, del, chk, noted)
  PROVE  /\ Keeps(p, n, [n EXCEPT !.reqs = @ \ {q}], del, chk, noted)
         /\ [n EXCEPT !.reqs = @ \ {q}].state = n.state
<1> DEFINE e == n.reqs \ {q}
           r == [n EXCEPT !.reqs = e]
<1>1. e \in SUBSET Requests /\ (n.reqs = {} => e = {})
  BY DEF Clients
<1> HIDE DEF e
<1>2. /\ r \in Clients /\ r.state = n.state /\ r.listener = n.listener /\ r.lookup = n.lookup
      /\ r.sock = n.sock /\ r.login = n.login /\ r.reqs = e /\ r.expire = n.expire
  BY <1>1 DEF Clients
<1> HIDE DEF r
<1>3. Keeps(p, n, r, del, chk, noted)
  BY <1>1, <1>2 DEF Keeps, ClientOK, DaemonOK, Leads, Gives, Waits, Stratum
<1>4. [n EXCEPT !.reqs = @ \ {q}] = r
  BY DEF r, e
<1> QED
  BY <1>2, <1>3, <1>4

LEMMA OnHeightKeeps ==
  ASSUME NEW p \in Pools \ Stratum, NEW n \in Clients, NEW del, NEW chk, NEW noted,
         NEW seen \in Int, NEW t \in Int,
         ClientOK(p, n, del, chk, noted), ~Dropped(p, del), p = 0 => n.state # "Unconnected"
  PROVE  Keeps(p, n, OnHeight(n, seen, t), del, chk, noted)
<1> DEFINE r == [n EXCEPT !.asked = seen]
<1>1. /\ r \in Clients /\ r.state = n.state /\ r.listener = n.listener /\ r.lookup = n.lookup
      /\ r.sock = n.sock /\ r.login = n.login /\ r.reqs = n.reqs
  BY DEF Clients
<1>2. OnHeight(n, seen, t) = IF n.job # seen /\ n.asked # seen THEN Fetch(r, "template", t) ELSE n
  BY Zenon DEF OnHeight
<1> HIDE DEF r
<1>3. Keeps(p, n, r, del, chk, noted)
  BY <1>1 DEF Keeps, ClientOK, DaemonOK, Leads, Gives, Waits, Stratum
<1>4. Keeps(p, r, Fetch(r, "template", t), del, chk, noted)
  BY <1>1, <1>3, FetchKeeps DEF Keeps
<1>5. Keeps(p, n, Fetch(r, "template", t), del, chk, noted)
  BY <1>3, <1>4 DEF Keeps
<1>6. Keeps(p, n, n, del, chk, noted)
  BY DEF Keeps
<1> QED
  BY <1>2, <1>5, <1>6

\* The first template of a connection may make the client lead.
LEMMA OnTemplateOK ==
  ASSUME NEW p \in Pools \ Stratum, NEW n \in Clients, NEW del, NEW chk, NEW noted,
         NEW seen \in Int, ClientOK(p, n, del, chk, noted), ~Dropped(p, del)
  PROVE  /\ OnTemplate(n, seen) \in Clients /\ ClientOK(p, OnTemplate(n, seen), del, chk, noted)
         /\ n.state # "Connecting" => Keeps(p, n, OnTemplate(n, seen), del, chk, noted)
         /\ n.state = "Connecting" => OnTemplate(n, seen).state = "Connected"
<1>1. CASE n.state = "Connecting"
  <2> DEFINE r == [n EXCEPT !.job = seen, !.state = "Connected", !.failures = 0,
                            !.expire = TRUE, !.polls = TRUE]
  <2>1. OnTemplate(n, seen) = r
    BY <1>1, Zenon DEF OnTemplate
  <2>2. \A v \in Int : [n EXCEPT !.job = seen, !.state = "Connected", !.failures = v,
                                 !.expire = TRUE, !.polls = TRUE] \in Clients
    BY DEF Clients
  <2>6. 0 \in Int
    OBVIOUS
  <2>3. r \in Clients
    BY <2>2, <2>6, Zenon
  <2>4. /\ r.state = "Connected" /\ r.listener = n.listener /\ r.lookup = n.lookup
        /\ r.sock = n.sock /\ r.login = n.login /\ r.reqs = n.reqs
    BY DEF Clients
  <2> HIDE DEF r
  <2>5. ClientOK(p, r, del, chk, noted)
    BY <2>4 DEF ClientOK, DaemonOK, Stratum
  <2> QED
    BY <1>1, <2>1, <2>3, <2>4, <2>5
<1>2. CASE n.state # "Connecting"
  <2> DEFINE r == [n EXCEPT !.job = seen]
  <2>1. OnTemplate(n, seen) = r
    BY <1>2, Zenon DEF OnTemplate
  <2>2. /\ r \in Clients /\ r.state = n.state /\ r.listener = n.listener /\ r.lookup = n.lookup
        /\ r.sock = n.sock /\ r.login = n.login /\ r.reqs = n.reqs
    BY DEF Clients
  <2> HIDE DEF r
  <2>3. Keeps(p, n, r, del, chk, noted)
    BY <2>2 DEF Keeps, ClientOK, DaemonOK, Leads, Gives, Waits, Stratum
  <2>4. r \in Clients /\ ClientOK(p, r, del, chk, noted)
    BY <2>3 DEF Keeps
  <2> QED
    BY <1>2, <2>1, <2>3, <2>4
<1> QED
  BY <1>1, <1>2

\* The client of a strategy that is stopped and deleted.
LEMMA DeletedDaemon ==
  ASSUME NEW p \in Pools \ Stratum, NEW n \in Clients, NEW chk, NEW noted,
         ClientOK(p, n, FALSE, chk, noted), kind[p] = "daemon"
  PROVE  LET m == Deleted(DaemonDisconnect(n), p)
         IN  m \in Clients /\ ClientOK(p, m, TRUE, FALSE, noted) /\ (p = 0 => ~Leads(m))
<1> DEFINE k == DaemonDisconnect(n)
           r == [k EXCEPT !.reqs = {}, !.expire = FALSE, !.alive = FALSE, !.lookup = FALSE]
<1>1. /\ k \in Clients /\ k.state = "Unconnected" /\ k.listener = n.listener
      /\ k.lookup = n.lookup /\ k.sock = n.sock /\ k.login = n.login
  BY DaemonDisconnectFacts, Zenon
<1> HIDE DEF k
<1>2. /\ r \in Clients /\ r.state = "Unconnected" /\ r.listener = n.listener /\ r.lookup = FALSE
      /\ r.sock = n.sock /\ r.login = n.login /\ r.reqs = {} /\ r.expire = FALSE
  <2>1. \A v \in SUBSET Requests :
          LET u == [k EXCEPT !.reqs = v, !.expire = FALSE, !.alive = FALSE, !.lookup = FALSE]
          IN  u \in Clients /\ u.state = k.state /\ u.listener = k.listener /\ u.lookup = FALSE
              /\ u.sock = k.sock /\ u.login = k.login /\ u.reqs = v /\ u.expire = FALSE
    BY <1>1 DEF Clients
  <2>2. {} \in SUBSET Requests
    OBVIOUS
  <2> QED
    BY <1>1, <2>1, <2>2
<1>3. Deleted(k, p) = r
  BY Zenon DEF Deleted
<1> HIDE DEF r
<1>4. ClientOK(p, r, TRUE, FALSE, noted) /\ (p = 0 => ~Leads(r))
  BY <1>2 DEF ClientOK, DaemonOK, Leads, Stratum
<1> QED
  BY <1>2, <1>3, <1>4 DEF k

-----------------------------------------------------------------------------
(* States: an operator that leaves the other fields alone.                 *)

\* Everything but the clients and the close callbacks that are due.
Same(s, t) == /\ t.index = s.index /\ t.active = s.active /\ t.work = s.work
              /\ t.dns = s.dns /\ t.telling = s.telling

LEMMA PushType ==
  ASSUME NEW S, NEW x \in S, NEW q \in Seq(S)
  PROVE  <<x>> \o q \in Seq(S)
<1>1. <<x>> \in Seq(S)
  OBVIOUS
<1> QED
  BY <1>1

LEMMA SetClients ==
  ASSUME NEW s \in States, NEW d \in [Pools -> Clients]
  PROVE  LET t == [s EXCEPT !.c = d] IN t \in States /\ t.c = d /\ Same(s, t)
BY DEF States, Same

LEMMA ChangedFacts ==
  ASSUME NEW s \in States, NEW d \in [Pools -> Clients],
         \A p \in Pools \ Stratum : d[p].sock = "none"
  PROVE  Changed(s, d) \in States /\ Changed(s, d).c = d /\ Same(s, Changed(s, d))
<1> DEFINE handles == {p \in Pools : d[p].sock = "closing" /\ s.c[p].sock # "closing"}
           e == IF handles = {} THEN s.closing ELSE <<handles>> \o s.closing
           t == [s EXCEPT !.c = d, !.closing = e]
<1>1. handles \in SUBSET Stratum
  OBVIOUS
<1>2. s.closing \in Seq(SUBSET Stratum)
  BY DEF States
<1>3. Changed(s, d) = t
  BY Zenon DEF Changed
<1> HIDE DEF handles
<1>4. e \in Seq(SUBSET Stratum)
  BY <1>1, <1>2, PushType, Zenon
<1> HIDE DEF e
<1>5. t \in States /\ t.c = d /\ Same(s, t)
  BY <1>4 DEF States, Same
<1> QED
  BY <1>3, <1>5, Zenon

\* What holds of a state goes on holding if what holds of its clients does.
LEMMA NetKeeps ==
  ASSUME NEW s \in States, NEW t \in States, NEW del, NEW chk, NEW noted,
         NetOK(s, del, chk, noted), Same(s, t),
         \A p \in Pools : Keeps(p, s.c[p], t.c[p], del, chk = p, noted)
  PROVE  NetOK(t, del, chk, noted)
<1>1. \A p \in Pools : ClientOK(p, t.c[p], del, chk = p, noted)
  BY Zenon DEF Keeps
<1>2. 0 \in Pools
  BY LastPoolAssumption DEF Pools
<1>3. /\ Leads(t.c[0]) => Leads(s.c[0])
      /\ Gives(t.c[0], chk = 0) => Gives(s.c[0], chk = 0)
      /\ Waits(t.c[0]) => Waits(s.c[0])
  BY <1>2, Zenon DEF Keeps
<1>4. MinerOK(t, del, chk = 0, noted)
  BY <1>3, Zenon DEF NetOK, MinerOK, Same
<1> QED
  BY <1>1, <1>4, Zenon DEF NetOK

LEMMA KeepsItself ==
  ASSUME NEW p, NEW n \in Clients, NEW del, NEW chk, NEW noted, ClientOK(p, n, del, chk, noted)
  PROVE  Keeps(p, n, n, del, chk, noted)
BY Zenon DEF Keeps

\* A daemon's client holds no socket.
LEMMA NoSocket ==
  ASSUME NEW p \in Pools \ Stratum, NEW n, NEW del, NEW chk, NEW noted,
         ClientOK(p, n, del, chk, noted)
  PROVE  n.sock = "none"
BY DEF ClientOK, DaemonOK, Stratum

\* One client changes.
LEMMA OneKeeps ==
  ASSUME NEW s \in States, NEW del, NEW chk, NEW noted, NetOK(s, del, chk, noted),
         NEW p \in Pools, NEW n, Keeps(p, s.c[p], n, del, chk = p, noted)
  PROVE  LET d == [s.c EXCEPT ![p] = n]
         IN  /\ d \in [Pools -> Clients]
             /\ \A q \in Pools : Keeps(q, s.c[q], d[q], del, chk = q, noted)
             /\ \A q \in Pools \ Stratum : d[q].sock = "none"
<1> DEFINE d == [s.c EXCEPT ![p] = n]
<1>1. s.c \in [Pools -> Clients]
  BY DEF States
<1>2. n \in Clients
  BY DEF Keeps
<1>3. d \in [Pools -> Clients]
  BY <1>1, <1>2
<1>4. \A q \in Pools : d[q] = IF q = p THEN n ELSE s.c[q]
  BY <1>1
<1> HIDE DEF d
<1>5. \A q \in Pools : ClientOK(q, s.c[q], del, chk = q, noted)
  BY Zenon DEF NetOK
<1>6. \A q \in Pools : Keeps(q, s.c[q], d[q], del, chk = q, noted)
  BY <1>1, <1>4, <1>5, KeepsItself
<1>7. \A q \in Pools \ Stratum : d[q].sock = "none"
  BY <1>6, NoSocket DEF Keeps
<1> QED
  BY <1>3, <1>6, <1>7 DEF d

LEMMA SetNet ==
  ASSUME NEW s \in States, NEW del, NEW chk, NEW noted, NetOK(s, del, chk, noted),
         NEW p \in Pools, NEW n, Keeps(p, s.c[p], n, del, chk = p, noted)
  PROVE  /\ [s EXCEPT !.c[p] = n] \in States /\ [s EXCEPT !.c[p] = n].c = [s.c EXCEPT ![p] = n]
         /\ Same(s, [s EXCEPT !.c[p] = n]) /\ NetOK([s EXCEPT !.c[p] = n], del, chk, noted)
<1> DEFINE d == [s.c EXCEPT ![p] = n]
           t == [s EXCEPT !.c = d]
<1>1. /\ d \in [Pools -> Clients]
      /\ \A q \in Pools : Keeps(q, s.c[q], d[q], del, chk = q, noted)
      /\ \A q \in Pools \ Stratum : d[q].sock = "none"
  BY OneKeeps, Zenon
<1>2. [s EXCEPT !.c[p] = n] = t
  BY Zenon DEF With
<1> HIDE DEF d
<1>3. t \in States /\ t.c = d /\ Same(s, t)
  BY <1>1, SetClients, Zenon
<1> HIDE DEF t
<1>4. NetOK(t, del, chk, noted)
  BY <1>1, <1>3, NetKeeps, Zenon
<1> QED
  BY <1>2, <1>3, <1>4, Zenon DEF d

LEMMA WithNet ==
  ASSUME NEW s \in States, NEW del, NEW chk, NEW noted, NetOK(s, del, chk, noted),
         NEW p \in Pools, NEW n, Keeps(p, s.c[p], n, del, chk = p, noted)
  PROVE  /\ With(s, p, n) \in States /\ With(s, p, n).c = [s.c EXCEPT ![p] = n]
         /\ Same(s, With(s, p, n)) /\ NetOK(With(s, p, n), del, chk, noted)
<1> DEFINE d == [s.c EXCEPT ![p] = n]
           t == Changed(s, d)
<1>1. /\ d \in [Pools -> Clients]
      /\ \A q \in Pools : Keeps(q, s.c[q], d[q], del, chk = q, noted)
      /\ \A q \in Pools \ Stratum : d[q].sock = "none"
  BY OneKeeps, Zenon
<1>2. With(s, p, n) = t
  BY Zenon DEF With
<1> HIDE DEF d
<1>3. t \in States /\ t.c = d /\ Same(s, t)
  BY <1>1, ChangedFacts, Zenon
<1> HIDE DEF t
<1>4. NetOK(t, del, chk, noted)
  BY <1>1, <1>3, NetKeeps, Zenon
<1> QED
  BY <1>2, <1>3, <1>4, Zenon DEF d

-----------------------------------------------------------------------------
(* Lookups, and the calls that tell how they ended.                        *)

ConfigOK == /\ kind \in [Pools -> {"pool", "daemon"}] /\ host \in [Pools -> Hosts] /\ last \in Pools

\* What happens to the resolver leaves the clients and the miner alone.
Aside(s, t) == /\ t.c = s.c /\ t.index = s.index /\ t.active = s.active /\ t.work = s.work

LEMMA NetFrame ==
  ASSUME NEW s, NEW t, NEW del, NEW chk, NEW noted,
         NetOK(s, del, chk, noted), t.c = s.c, t.active = s.active, t.work = s.work
  PROVE  NetOK(t, del, chk, noted)
BY Zenon DEF NetOK, MinerOK

LEMMA WithoutType ==
  ASSUME NEW q \in Seq(Pools), NEW p \in Pools
  PROVE  Append(Without(q, p), p) \in Seq(Pools)
<1>1. CASE \E i \in DOMAIN q : q[i] = p
  <2> DEFINE i == CHOOSE i \in DOMAIN q : q[i] = p
  <2>1. i \in DOMAIN q
    BY <1>1
  <2>2. Without(q, p) = RemoveAt(q, i)
    BY <1>1, Zenon DEF Without
  <2> HIDE DEF i
  <2>3. i \in 1..Len(q)
    BY <2>1
  <2>4. SubSeq(q, 1, i - 1) \in Seq(Pools) /\ SubSeq(q, i + 1, Len(q)) \in Seq(Pools)
    BY <2>3
  <2>5. RemoveAt(q, i) \in Seq(Pools)
    BY <2>4 DEF RemoveAt
  <2> QED
    BY <2>2, <2>5
<1>2. CASE ~\E i \in DOMAIN q : q[i] = p
  <2>1. Without(q, p) = q
    BY <1>2, Zenon DEF Without
  <2> QED
    BY <2>1
<1> QED
  BY <1>1, <1>2

LEMMA NotifyFacts ==
  ASSUME NEW s \in States, NEW h \in Hosts
  PROVE  Notify(s, h) \in States /\ Aside(s, Notify(s, h))
<1> DEFINE x == [host |-> h, told |-> None, rest |-> s.dns[h].queue]
           e == <<x>> \o s.telling
           t == [s EXCEPT !.telling = e]
<1>1. s.dns[h] \in Lookups /\ s.telling \in Seq(Tellings)
  BY DEF States
<1>2. s.dns[h].queue \in Seq(Pools)
  BY <1>1 DEF Lookups
<1>3. x \in Tellings
  BY <1>2 DEF Tellings
<1>4. Notify(s, h) = t
  BY Zenon DEF Notify
<1> HIDE DEF x
<1>5. e \in Seq(Tellings)
  BY <1>1, <1>3, PushType, Zenon
<1> HIDE DEF e
<1>6. t \in States /\ Aside(s, t)
  BY <1>5 DEF States, Aside
<1> QED
  BY <1>4, <1>6, Zenon

LEMMA SetLookup ==
  ASSUME NEW s \in States, NEW h \in Hosts, NEW l \in Lookups
  PROVE  LET t == [s EXCEPT !.dns[h] = l] IN t \in States /\ Aside(s, t) /\ t.dns[h] = l
<1> DEFINE e == [s.dns EXCEPT ![h] = l]
<1>1. s.dns \in [Hosts -> Lookups]
  BY DEF States
<1>2. e \in [Hosts -> Lookups] /\ e[h] = l
  BY <1>1
<1>3. [s EXCEPT !.dns[h] = l] = [s EXCEPT !.dns = e]
  BY Zenon
<1> HIDE DEF e
<1>4. [s EXCEPT !.dns = e] \in States /\ Aside(s, [s EXCEPT !.dns = e]) /\ [s EXCEPT !.dns = e].dns = e
  BY <1>2 DEF States, Aside
<1> QED
  BY <1>2, <1>3, <1>4, Zenon

LEMMA LookupFacts ==
  ASSUME ConfigOK, NEW s \in States, NEW p \in Pools
  PROVE  Lookup(s, p) \in States /\ Aside(s, Lookup(s, p))
<1> DEFINE h == host[p]
           l == [s.dns[h] EXCEPT !.queue = Append(Without(@, p), p)]
           q == [s EXCEPT !.dns[h] = l]
           r == [q EXCEPT !.dns[h].runs = TRUE]
<1>1. h \in Hosts
  BY DEF ConfigOK
<1>2. Lookup(s, p) = IF q.dns[h].fresh THEN Notify(q, h) ELSE r
  BY Zenon DEF Lookup
<1>3. s.dns[h] \in Lookups
  BY <1>1 DEF States
<1>4. l \in Lookups
  <2> DEFINE w == Append(Without(s.dns[h].queue, p), p)
  <2>1. w \in Seq(Pools)
    BY <1>3, WithoutType DEF Lookups
  <2>2. l = [s.dns[h] EXCEPT !.queue = w]
    BY Zenon
  <2> HIDE DEF w, l
  <2> QED
    BY <1>3, <2>1, <2>2 DEF Lookups
<1> HIDE DEF h, l
<1>5. q \in States /\ Aside(s, q) /\ q.dns[h] = l
  BY <1>1, <1>4, SetLookup, Zenon
<1> HIDE DEF q
<1>6. Notify(q, h) \in States /\ Aside(q, Notify(q, h))
  BY <1>1, <1>5, NotifyFacts
<1>7. r \in States /\ Aside(q, r)
  <2>1. [q.dns[h] EXCEPT !.runs = TRUE] \in Lookups
    BY <1>4, <1>5 DEF Lookups
  <2>2. r = [q EXCEPT !.dns[h] = [q.dns[h] EXCEPT !.runs = TRUE]]
    BY Zenon
  <2> QED
    BY <1>1, <1>5, <2>1, <2>2, SetLookup, Zenon
<1> HIDE DEF r
<1> QED
  BY <1>2, <1>5, <1>6, <1>7, Zenon DEF Aside

-----------------------------------------------------------------------------
(* The strategies' calls.                                                  *)

\* May be connected by its strategy: the first pool, when it holds no socket.
MayConnect(s, p, del, noted) ==
  /\ ~Dropped(p, del)
  /\ p = 0 /\ kind[0] = "pool" => noted \/ s.c[0].sock = "none"

LEMMA ConnectNet ==
  ASSUME ConfigOK, tip \in Int, NEW s \in States, NEW del, NEW chk, NEW noted,
         NetOK(s, del, chk, noted), NEW p \in Pools, MayConnect(s, p, del, noted)
  PROVE  /\ Connect(s, p) \in States /\ NetOK(Connect(s, p), del, chk, noted)
         /\ Connect(s, p).index = s.index /\ Connect(s, p).active = s.active
<1>1. s.c[p] \in Clients /\ ClientOK(p, s.c[p], del, chk = p, noted)
  BY DEF States, NetOK
<1>2. CASE kind[p] = "daemon"
  <2> DEFINE n == DaemonConnect(s.c[p], tip)
             t == [s EXCEPT !.c[p] = n]
  <2>1. p \in Pools \ Stratum
    BY <1>2 DEF Stratum
  <2>2. Keeps(p, s.c[p], n, del, chk = p, noted)
    BY <1>1, <2>1, DaemonConnectKeeps DEF MayConnect
  <2>3. Connect(s, p) = t
    BY <1>2, Zenon DEF Connect
  <2> HIDE DEF n
  <2>4. t \in States /\ Same(s, t) /\ NetOK(t, del, chk, noted)
    BY <2>2, SetNet, Zenon
  <2> QED
    BY <2>3, <2>4, Zenon DEF Same
<1>3. CASE kind[p] # "daemon"
  <2> DEFINE n == Resolve(s.c[p])
             t == [s EXCEPT !.c[p] = n]
  <2>1. p \in Stratum /\ kind[p] = "pool"
    BY <1>3 DEF Stratum, ConfigOK
  <2>2. s.c[p].listener
    BY <1>1, <2>1 DEF ClientOK, MayConnect
  <2>3. Keeps(p, s.c[p], n, del, chk = p, noted)
    BY <1>1, <2>1, <2>2, ResolveKeeps DEF MayConnect
  <2>4. Connect(s, p) = Lookup(t, p)
    BY <1>3, Zenon DEF Connect
  <2> HIDE DEF n
  <2>5. t \in States /\ Same(s, t) /\ NetOK(t, del, chk, noted)
    BY <2>3, SetNet, Zenon
  <2> HIDE DEF t
  <2>6. Lookup(t, p) \in States /\ Aside(t, Lookup(t, p))
    BY <2>5, LookupFacts
  <2>7. NetOK(Lookup(t, p), del, chk, noted)
    BY <2>5, <2>6, NetFrame, Zenon DEF Aside
  <2> QED
    BY <2>4, <2>5, <2>6, <2>7, Zenon DEF Same, Aside
<1> QED
  BY <1>2, <1>3

\* The active client may be given up: the first pool's has stopped leading.
MayPause(s, p, del, chk, noted) ==
  p = 0 => /\ ~Single => ~Leads(s.c[0])
           /\ Single /\ ~noted /\ ~del => ~Gives(s.c[0], chk = 0)

LEMMA PauseNet ==
  ASSUME NEW s \in States, NEW del, NEW chk, NEW noted, NetOK(s, del, chk, noted),
         NEW p, s.active = p, MayPause(s, p, del, chk, noted)
  PROVE  /\ Pause(s) \in States /\ NetOK(Pause(s), del, chk, noted)
         /\ Pause(s).c = s.c /\ Pause(s).index = s.index
<1> DEFINE t == [s EXCEPT !.active = None, !.work = None]
<1>1. /\ t \in States /\ t.c = s.c /\ t.index = s.index /\ t.active = None /\ t.work = None
  BY DEF States
<1>2. None # 0
  BY DEF None
<1>3. Pause(s) = t
  BY Zenon DEF Pause
<1> HIDE DEF t
<1>4. MinerOK(t, del, chk = 0, noted)
  BY <1>1, <1>2 DEF NetOK, MinerOK, MayPause
<1>5. NetOK(t, del, chk, noted)
  BY <1>1, <1>4, Zenon DEF NetOK
<1> QED
  BY <1>1, <1>3, <1>5

LEMMA IndexType ==
  ASSUME NEW s \in States, NEW i \in Nat
  PROVE  [s EXCEPT !.index = i] \in States /\ [s EXCEPT !.index = i].c = s.c
BY DEF States

LEMMA IndexNet ==
  ASSUME NEW s \in States, NEW del, NEW chk, NEW noted, NetOK(s, del, chk, noted), NEW i \in Nat
  PROVE  LET t == [s EXCEPT !.index = i]
         IN  t \in States /\ NetOK(t, del, chk, noted) /\ t.c = s.c
<1> DEFINE t == [s EXCEPT !.index = i]
<1>1. t \in States /\ t.c = s.c /\ t.active = s.active /\ t.work = s.work
  BY DEF States
<1> HIDE DEF t
<1>2. NetOK(t, del, chk, noted)
  BY <1>1, NetFrame, Zenon
<1> QED
  BY <1>1, <1>2 DEF t

LEMMA OnCloseNet ==
  ASSUME ConfigOK, tip \in Int, NEW s \in States, NEW del, NEW chk, NEW noted,
         NetOK(s, del, chk, noted), NEW p \in Pools, NEW failures,
         ~Dropped(p, del), MayPause(s, p, del, chk, noted)
  PROVE  OnClose(s, p, failures) \in States /\ NetOK(OnClose(s, p, failures), del, chk, noted)
<1> DEFINE t == IF s.active = p THEN Pause(s) ELSE s
           u == [t EXCEPT !.index = p + 1]
<1>1. t \in States /\ NetOK(t, del, chk, noted)
  BY PauseNet
<1>2. p + 1 \in Nat
  BY LastPoolAssumption DEF Pools
<1>3. \/ OnClose(s, p, failures) = t \/ OnClose(s, p, failures) = s
      \/ p < last /\ OnClose(s, p, failures) = Connect(u, p + 1)
  BY DEF OnClose
<1> HIDE DEF t
<1>4. u \in States /\ NetOK(u, del, chk, noted)
  BY <1>1, <1>2, IndexNet, Zenon
<1> HIDE DEF u
<1>5. ASSUME p < last PROVE Connect(u, p + 1) \in States /\ NetOK(Connect(u, p + 1), del, chk, noted)
  <2>1. p + 1 \in Pools /\ p + 1 # 0
    BY <1>5, LastPoolAssumption DEF Pools, ConfigOK
  <2>2. p \in Used
    BY <1>5, LastPoolAssumption DEF Used, Pools, ConfigOK
  <2>3. MayConnect(u, p + 1, del, noted)
    BY <2>1, <2>2 DEF MayConnect, Dropped
  <2> HIDE DEF MayConnect
  <2> QED
    BY <1>4, <2>1, <2>3, ConnectNet
<1> QED
  BY <1>1, <1>3, <1>5

LEMMA GoneNet ==
  ASSUME NEW s \in States, NEW del, NEW chk, NEW noted, NetOK(s, del, chk, noted),
         NEW p \in Stratum, ~s.c[p].listener, s.c[p].again \/ s.c[p].sock = "none"
  PROVE  Gone(s, p) \in States /\ NetOK(Gone(s, p), del, chk, noted)
<1> DEFINE n == [s.c[p] EXCEPT !.alive = FALSE, !.lookup = FALSE]
<1>1. p \in Pools /\ s.c[p] \in Clients /\ ClientOK(p, s.c[p], del, chk = p, noted)
  BY DEF States, NetOK, Stratum
<1>2. Keeps(p, s.c[p], n, del, chk = p, noted)
  BY <1>1, GoneKeeps
<1>3. Gone(s, p) = [s EXCEPT !.c[p] = n]
  BY Zenon DEF Gone
<1> HIDE DEF n
<1>4. p \in Pools
  BY <1>1
<1> QED
  BY <1>2, <1>3, <1>4, SetNet

LEMMA ReconnectNet ==
  ASSUME ConfigOK, tip \in Int, NEW s \in States, NEW del, NEW chk, NEW noted,
         NetOK(s, del, chk, noted), NEW p \in Stratum,
         ~s.c[p].listener => s.c[p].again \/ s.c[p].sock = "none",
         p = 0 => noted \/ s.c[p].sock = "none"
  PROVE  Reconnect(s, p) \in States /\ NetOK(Reconnect(s, p), del, chk, noted)
<1>1. p \in Pools /\ s.c[p] \in Clients /\ ClientOK(p, s.c[p], del, chk = p, noted)
  BY DEF States, NetOK, Stratum
<1>2. CASE ~s.c[p].listener
  <2>1. Reconnect(s, p) = Gone(s, p)
    BY <1>2 DEF Reconnect
  <2> QED
    BY <1>2, <2>1, GoneNet
<1>3. CASE s.c[p].listener /\ s.c[p].failures = Disconnected
  <2>1. Reconnect(s, p) = OnClose(s, p, Disconnected)
    BY <1>3 DEF Reconnect
  <2>2. CASE Single
    <3>1. MayPause(s, p, del, chk, noted)
      BY <2>2 DEF MayPause, Gives, Stratum
    <3>2. ~Dropped(p, del)
      BY <1>1, <1>3 DEF ClientOK, Stratum
    <3> HIDE DEF MayPause
    <3> QED
      BY <1>1, <2>1, <3>1, <3>2, OnCloseNet
  <2>3. CASE ~Single
    BY <2>1, <2>3 DEF OnClose
  <2> QED
    BY <2>2, <2>3
<1>4. CASE s.c[p].listener /\ s.c[p].failures # Disconnected
  <2> DEFINE n == Reconnecting(s.c[p])
             t == With(s, p, n)
  <2>1. Reconnect(s, p) = OnClose(t, p, t.c[p].failures)
    BY <1>4 DEF Reconnect
  <2>2. n.state = "Reconnecting" /\ n.sock = s.c[p].sock
    BY <1>1, ReconnectingFacts
  <2>3. Keeps(p, s.c[p], n, del, chk = p, noted)
    BY <1>1, <1>4, ReconnectingKeeps
  <2> HIDE DEF n
  <2>8. p \in Pools
    BY <1>1
  <2>4. t \in States /\ t.c = [s.c EXCEPT ![p] = n] /\ NetOK(t, del, chk, noted)
    BY <2>3, <2>8, WithNet
  <2>5. t.c[p] = n
    BY <1>1, <2>4 DEF States
  <2> HIDE DEF t
  <2>6. MayPause(t, p, del, chk, noted)
    BY <2>2, <2>5 DEF MayPause, Leads, Gives, Stratum
  <2>7. ~Dropped(p, del)
    BY <1>1, <1>4 DEF ClientOK, Stratum
  <2> QED
    BY <2>1, <2>4, <2>6, <2>7, <2>8, OnCloseNet
<1> QED
  BY <1>2, <1>3, <1>4

\* A client that is told how its lookup ended holds no socket, unless it has
\* connected while it held one.
LEMMA OnResolvedNet ==
  ASSUME ConfigOK, tip \in Int, NEW s \in States, NEW del, NEW chk, NEW noted,
         NetOK(s, del, chk, noted), NEW p \in Pools, s.c[p].lookup
  PROVE  OnResolved(s, p) \in States /\ NetOK(OnResolved(s, p), del, chk, noted)
<1>1. p \in Pools /\ s.c[p] \in Clients /\ ClientOK(p, s.c[p], del, chk = p, noted)
  BY DEF States, NetOK, Stratum
<1>2. p \in Stratum
  BY <1>1 DEF ClientOK, DaemonOK, Stratum
<1>3. CASE s.c[p].listener /\ s.dns[host[p]].result = "ok"
  <2> DEFINE n == Open(s.c[p])
  <2>1. OnResolved(s, p) = [s EXCEPT !.c[p] = n]
    BY <1>3, Zenon DEF OnResolved
  <2>2. Keeps(p, s.c[p], n, del, chk = p, noted)
    BY <1>1, <1>2, <1>3, OpenKeeps
  <2> HIDE DEF n
  <2> QED
    BY <2>1, <2>2, SetNet
<1>4. CASE ~(s.c[p].listener /\ s.dns[host[p]].result = "ok")
  <2>1. OnResolved(s, p) = Reconnect(s, p)
    BY <1>4, Zenon DEF OnResolved
  <2>2. ~s.c[p].listener => s.c[p].again \/ s.c[p].sock = "none"
    BY <1>1, <1>2 DEF ClientOK, StratumOK, Tidy, Stratum
  <2>3. p = 0 => noted \/ s.c[p].sock = "none"
    BY <1>1, <1>2 DEF ClientOK, StratumOK, Tidy, FirstOK, Stratum
  <2> QED
    BY <1>2, <2>1, <2>2, <2>3, ReconnectNet
<1> QED
  BY <1>3, <1>4

LEMMA FailDaemonNet ==
  ASSUME ConfigOK, tip \in Int, NEW s \in States, NEW del, NEW chk, NEW noted,
         NetOK(s, del, chk, noted), NEW p \in Pools \ Stratum, ~Dropped(p, del)
  PROVE  FailDaemon(s, p) \in States /\ NetOK(FailDaemon(s, p), del, chk, noted)
<1> DEFINE n == DaemonRetry(s.c[p])
           t == [s EXCEPT !.c[p] = n]
<1>1. s.c[p] \in Clients /\ ClientOK(p, s.c[p], del, chk = p, noted)
  BY DEF States, NetOK
<1>2. Keeps(p, s.c[p], n, del, chk = p, noted) /\ n.state # "Connected"
  BY <1>1, DaemonRetryKeeps
<1>4. FailDaemon(s, p) = OnClose(t, p, t.c[p].failures)
  BY Zenon DEF FailDaemon
<1> HIDE DEF n
<1>0. p \in Pools
  OBVIOUS
<1>5. t \in States /\ t.c = [s.c EXCEPT ![p] = n] /\ NetOK(t, del, chk, noted)
  BY <1>0, <1>2, SetNet
<1>6. t.c[p] = n
  BY <1>5 DEF States
<1> HIDE DEF t
<1>7. MayPause(t, p, del, chk, noted)
  BY <1>2, <1>6 DEF MayPause, Leads, Gives, Stratum
<1> QED
  BY <1>0, <1>4, <1>5, <1>7, OnCloseNet

-----------------------------------------------------------------------------
(* Logins and jobs.                                                        *)

LEMMA OnJobFacts ==
  ASSUME NEW s \in States, NEW p \in Pools
  PROVE  LET t == OnJob(s, p)
         IN  /\ t \in States /\ t.c = s.c /\ t.active = s.active
             /\ IF s.c[p].listener /\ (Single \/ s.active = p) THEN t.work = p ELSE t.work = s.work
<1> DEFINE r == [s EXCEPT !.work = p]
<1>1. r \in States /\ r.c = s.c /\ r.active = s.active /\ r.work = p
  BY DEF States
<1>2. OnJob(s, p) = IF s.c[p].listener /\ (Single \/ s.active = p) THEN r ELSE s
  BY Zenon DEF OnJob
<1> HIDE DEF r
<1> QED
  BY <1>1, <1>2

\* A job of the first pool alone, or of any pool: only the active one's counts.
LEMMA OnJobNet ==
  ASSUME NEW s \in States, NEW del, NEW chk, NEW noted, NetOK(s, del, chk, noted),
         NEW p \in Pools, Single /\ ~noted /\ ~del => s.active = p
  PROVE  OnJob(s, p) \in States /\ NetOK(OnJob(s, p), del, chk, noted)
<1> DEFINE t == OnJob(s, p)
<1>1. /\ t \in States /\ t.c = s.c /\ t.active = s.active
      /\ IF s.c[p].listener /\ (Single \/ s.active = p) THEN t.work = p ELSE t.work = s.work
  BY OnJobFacts, Zenon
<1> HIDE DEF t
<1>2. NetOK(t, del, chk, noted)
  BY <1>1 DEF NetOK, MinerOK
<1> QED
  BY <1>1, <1>2 DEF t

\* Backups are let go.
LEMMA DisconnectPoolsFacts ==
  ASSUME ConfigOK, NEW s \in States, NEW del, NEW chk, NEW noted,
         \A q \in Pools : ClientOK(q, s.c[q], del, chk = q, noted),
         NEW which \in SUBSET (Pools \ {0})
  PROVE  LET t == DisconnectPools(s, which)
         IN  /\ t \in States /\ Same(s, t) /\ t.c[0] = s.c[0]
             /\ \A q \in Pools : Keeps(q, s.c[q], t.c[q], del, chk = q, noted)
<1> DEFINE d == [q \in Pools |-> IF q \notin which THEN s.c[q]
                                 ELSE IF kind[q] = "pool" THEN Disconnect(s.c[q])
                                 ELSE DaemonDisconnect(s.c[q])]
           t == Changed(s, d)
<1>1. \A q \in Pools : s.c[q] \in Clients
  BY DEF States
<1>2. \A q \in Pools : Keeps(q, s.c[q], d[q], del, chk = q, noted)
  <2> SUFFICES ASSUME NEW q \in Pools
               PROVE  Keeps(q, s.c[q], d[q], del, chk = q, noted)
    OBVIOUS
  <2>1. CASE q \notin which
    BY <1>1, <2>1, KeepsItself
  <2>2. CASE q \in which /\ kind[q] = "pool"
    <3>1. d[q] = Disconnect(s.c[q]) /\ q \in Stratum
      BY <2>2 DEF Stratum
    <3> QED
      BY <1>1, <3>1, DisconnectKeeps
  <2>3. CASE q \in which /\ kind[q] # "pool"
    <3>1. d[q] = DaemonDisconnect(s.c[q]) /\ q \in Pools \ Stratum /\ q # 0
      BY <2>3 DEF Stratum
    <3> QED
      BY <1>1, <3>1, DaemonDisconnectKeeps
  <2> QED
    BY <2>1, <2>2, <2>3
<1>3. d[0] = s.c[0]
  BY LastPoolAssumption DEF Pools
<1>4. DisconnectPools(s, which) = t
  BY Zenon DEF DisconnectPools
<1>5. d = [q \in Pools |-> d[q]]
  OBVIOUS
<1> HIDE DEF d
<1>6. d \in [Pools -> Clients]
  BY <1>2, <1>5 DEF Keeps
<1>7. \A q \in Pools \ Stratum : d[q].sock = "none"
  BY <1>2, NoSocket DEF Keeps
<1>8. t \in States /\ t.c = d /\ Same(s, t)
  BY <1>6, <1>7, ChangedFacts, Zenon
<1> HIDE DEF t
<1> QED
  BY <1>2, <1>3, <1>4, <1>8

\* The pool p's client, now n, has logged in and gives its first job.
LEMMA LoginNet ==
  ASSUME ConfigOK, NEW s \in States, NEW del, NEW chk, NEW noted, NetOK(s, del, chk, noted),
         NEW p \in Used, NEW n \in Clients, ClientOK(p, n, del, chk = p, noted),
         p = 0 => ~Waits(n)
  PROVE  LET u == OnJob(OnLoginSuccess([s EXCEPT !.c[p] = n], p), p)
         IN  u \in States /\ NetOK(u, del, chk, noted)
<1> DEFINE d == [s.c EXCEPT ![p] = n]
           t == [s EXCEPT !.c[p] = n]
           a == Chosen(t, p)
           r == OnLoginSuccess(t, p)
           u == OnJob(r, p)
<1>1. /\ p \in Pools /\ 0 \in Pools /\ s.c \in [Pools -> Clients]
      /\ \A q \in Pools : ClientOK(q, s.c[q], del, chk = q, noted)
  BY LastPoolAssumption DEF States, NetOK, Used, Pools
<1>2. d \in [Pools -> Clients] /\ \A q \in Pools : d[q] = IF q = p THEN n ELSE s.c[q]
  BY <1>1
<1>3. t = [s EXCEPT !.c = d]
  BY Zenon
<1> HIDE DEF d
<1>4. /\ [s EXCEPT !.c = d] \in States /\ [s EXCEPT !.c = d].c = d
      /\ Same(s, [s EXCEPT !.c = d])
  BY <1>2, SetClients, Zenon
<1>5. t \in States /\ t.c = d /\ Same(s, t)
  BY <1>3, <1>4, Zenon
<1> HIDE DEF t
<1>6. \A q \in Pools : ClientOK(q, t.c[q], del, chk = q, noted)
  BY <1>1, <1>2, <1>5
<1>7. /\ p = 0 \/ s.active = None => a = p
      /\ ~(p = 0 \/ s.active = None) => a = s.active
  BY <1>5 DEF Chosen, Same
<1> HIDE DEF a
<1>16. s.active \in Pools \cup {None}
  BY DEF States
<1>8. a \in Pools
  BY <1>1, <1>7, <1>16
<1>9. /\ r \in States /\ r.c[0] = t.c[0] /\ r.work = s.work
      /\ \A q \in Pools : r.c[q] \in Clients /\ ClientOK(q, r.c[q], del, chk = q, noted)
      /\ r.active = IF Single THEN p ELSE a
  <2>1. CASE Single
    <3> DEFINE v == [t EXCEPT !.active = p]
    <3>1. v \in States /\ v.c = t.c /\ v.work = t.work /\ v.active = p
      BY <1>1, <1>5 DEF States
    <3>2. r = v
      BY <2>1, Zenon DEF OnLoginSuccess
    <3>3. \A q \in Pools : t.c[q] \in Clients
      BY <1>5 DEF States
    <3> HIDE DEF v, r
    <3> QED
      BY <1>5, <1>6, <2>1, <3>1, <3>2, <3>3 DEF Same
  <2>2. CASE ~Single
    <3> DEFINE which == {i \in Used : i >= 1 /\ i # a}
               v == DisconnectPools(t, which)
               w == [v EXCEPT !.index = a, !.active = a]
    <3>1. which \in SUBSET (Pools \ {0})
      BY DEF Used, Pools
    <3>2. r = IF a # t.active THEN w ELSE v
      BY <2>2, Zenon DEF OnLoginSuccess, a
    <3> HIDE DEF which
    <3>3. /\ v \in States /\ Same(t, v) /\ v.c[0] = t.c[0]
          /\ \A q \in Pools : Keeps(q, t.c[q], v.c[q], del, chk = q, noted)
      BY <1>5, <1>6, <3>1, DisconnectPoolsFacts, Zenon
    <3> HIDE DEF v
    <3>4. a \in Nat
      BY <1>8, LastPoolAssumption DEF Pools
    <3>5. w \in States /\ w.c = v.c /\ w.active = a /\ w.work = v.work
      BY <1>8, <3>3, <3>4 DEF States
    <3> HIDE DEF w, r
    <3>6. \A q \in Pools : v.c[q] \in Clients /\ ClientOK(q, v.c[q], del, chk = q, noted)
      BY <3>3, Zenon DEF Keeps
    <3> QED
      BY <1>5, <2>2, <3>2, <3>3, <3>5, <3>6 DEF Same
  <2> QED
    BY <2>1, <2>2
<1> HIDE DEF r
<1>10. /\ u \in States /\ u.c = r.c /\ u.active = r.active
       /\ IF r.c[p].listener /\ (Single \/ r.active = p) THEN u.work = p ELSE u.work = r.work
  BY <1>1, <1>9, OnJobFacts, Zenon
<1> HIDE DEF u
<1>11. ~del => r.c[p].listener
  BY <1>1, <1>9 DEF ClientOK, DaemonOK, Dropped
<1>12. r.c[0] = IF p = 0 THEN n ELSE s.c[0]
  BY <1>1, <1>2, <1>5, <1>9
<1>13. Single => p = 0
  BY LastPoolAssumption DEF Single, Used, Pools
<1>14. MinerOK(u, del, chk = 0, noted)
  <2>1. MinerOK(s, del, chk = 0, noted)
    BY DEF NetOK
  <2>2. u.c[0] = (IF p = 0 THEN n ELSE s.c[0]) /\ u.active = IF Single THEN p ELSE a
    BY <1>9, <1>10, <1>12
  <2>3. CASE p = 0
    <3>1. u.active = 0 /\ u.c[0] = n
      BY <1>7, <2>2, <2>3
    <3>2. ~del => u.work = u.active
      BY <1>10, <1>11, <2>3, <3>1
    <3> QED
      BY <2>3, <3>1, <3>2 DEF MinerOK
  <2>4. CASE p # 0
    <3>1. ~Single /\ u.active = a /\ u.c[0] = s.c[0]
      BY <1>13, <2>2, <2>4
    <3>2. (s.active = 0 => a = 0) /\ (s.active # 0 => a # 0)
      BY <1>7, <2>4 DEF None
    <3>3. a = p \/ a = s.active
      BY <1>7
    <3>4. ~del /\ s.work = s.active => u.work = u.active
      BY <1>9, <1>10, <1>11, <3>1, <3>3
    <3> QED
      BY <2>1, <3>1, <3>2, <3>4 DEF MinerOK
  <2> QED
    BY <2>3, <2>4
<1>15. NetOK(u, del, chk, noted)
  BY <1>9, <1>10, <1>14, Zenon DEF NetOK
<1> QED
  BY <1>10, <1>15 DEF u, r, t

LEMMA TemplatedNet ==
  ASSUME ConfigOK, NEW s \in States, NEW del, NEW chk, NEW noted, NetOK(s, del, chk, noted),
         NEW p \in Used, p \notin Stratum, ~Dropped(p, del), NEW seen \in Int,
         p = 0 => s.c[p].state # "Unconnected"
  PROVE  Templated(s, p, seen) \in States /\ NetOK(Templated(s, p, seen), del, chk, noted)
<1> DEFINE n == OnTemplate(s.c[p], seen)
           t == [s EXCEPT !.c[p] = n]
<1>1. p \in Pools /\ p \in Pools \ Stratum
  BY DEF Used
<1>2. s.c[p] \in Clients /\ ClientOK(p, s.c[p], del, chk = p, noted)
  BY <1>1 DEF States, NetOK
<1>3. /\ n \in Clients /\ ClientOK(p, n, del, chk = p, noted)
      /\ s.c[p].state # "Connecting" => Keeps(p, s.c[p], n, del, chk = p, noted)
      /\ s.c[p].state = "Connecting" => n.state = "Connected"
  BY <1>1, <1>2, OnTemplateOK
<1>4. Templated(s, p, seen)
        = OnJob(IF s.c[p].state = "Connecting" THEN OnLoginSuccess(t, p) ELSE t, p)
  BY Zenon DEF Templated
<1> HIDE DEF n
<1>5. CASE s.c[p].state = "Connecting"
  <2>1. p = 0 => ~Waits(n)
    BY <1>3, <1>5 DEF Waits
  <2>2. Templated(s, p, seen) = OnJob(OnLoginSuccess(t, p), p)
    BY <1>4, <1>5, Zenon
  <2>3. /\ OnJob(OnLoginSuccess(t, p), p) \in States
        /\ NetOK(OnJob(OnLoginSuccess(t, p), p), del, chk, noted)
    BY <1>3, <2>1, LoginNet, Zenon
  <2> QED
    BY <2>2, <2>3, Zenon
<1>6. CASE s.c[p].state # "Connecting"
  <2>1. t \in States /\ Same(s, t) /\ NetOK(t, del, chk, noted)
    BY <1>1, <1>3, <1>6, SetNet
  <2>2. Templated(s, p, seen) = OnJob(t, p)
    BY <1>4, <1>6, Zenon
  <2>3. Single => p = 0
    BY LastPoolAssumption DEF Single, Used, Pools
  <2>4. Single /\ ~noted /\ ~del => t.active = p
    <3>1. Single => s.c[0].state = "Connected" /\ kind[0] # "pool"
      BY <1>1, <1>2, <1>6, <2>3 DEF ClientOK, DaemonOK, Stratum
    <3> QED
      BY <2>1, <2>3, <3>1 DEF Same, NetOK, MinerOK, Gives
  <2> HIDE DEF t
  <2> QED
    BY <1>1, <2>1, <2>2, <2>4, OnJobNet
<1> QED
  BY <1>5, <1>6

-----------------------------------------------------------------------------
(* The inductive invariant, and how an action keeps it.                    *)

Noted == notices > 0

NetInv ==
  /\ ConfigOK /\ tip \in Int /\ notices \in Nat
  /\ Now \in States /\ NetOK(Now, deleted, chunk, Noted)

LEMMA NowIs == /\ Now.c = c /\ Now.index = index /\ Now.active = active /\ Now.work = work
               /\ Now.dns = dns /\ Now.closing = closing /\ Now.telling = telling
BY DEF Now

LEMMA BecomeNow ==
  ASSUME NEW s \in States, Become(s)
  PROVE  Now' = s
<1>1. /\ c' = s.c /\ index' = s.index /\ active' = s.active /\ work' = s.work
      /\ dns' = s.dns /\ closing' = s.closing /\ telling' = s.telling
  BY Zenon DEF Become
<1>2. s = [c |-> s.c, index |-> s.index, active |-> s.active, work |-> s.work,
           dns |-> s.dns, closing |-> s.closing, telling |-> s.telling]
  BY DEF States
<1> QED
  BY <1>1, <1>2, Zenon DEF Now

LEMMA StepInv ==
  ASSUME ConfigOK, UNCHANGED config, tip' \in Int, notices' \in Nat,
         NEW s \in States, Become(s), NetOK(s, deleted', chunk', Noted')
  PROVE  NetInv'
<1>1. Now' = s
  BY BecomeNow
<1>2. kind' = kind /\ host' = host /\ last' = last
  BY DEF config
<1>3. ConfigOK'
  BY <1>2 DEF ConfigOK
<1>4. States' = States
  BY <1>2 DEF States, Stratum
<1>5. NetOK(Now, deleted, chunk, Noted)'
  BY <1>1, <1>2 DEF NetOK, MinerOK, ClientOK, DaemonOK, Dropped, Used, Leads, Gives, Waits, Single
<1> QED
  BY <1>1, <1>3, <1>4, <1>5 DEF NetInv

\* The lines a client has received have been read, or it reads one more.
LEMMA ChunkNone ==
  ASSUME NEW s \in States, NEW del, NEW chk, NEW noted, NetOK(s, del, chk, noted)
  PROVE  NetOK(s, del, None, noted)
<1>1. \A p \in Pools : ClientOK(p, s.c[p], del, None = p, noted)
  BY DEF NetOK, ClientOK, StratumOK, Tidy, None, Pools
<1>2. MinerOK(s, del, None = 0, noted)
  BY DEF NetOK, MinerOK, Gives, None
<1> QED
  BY <1>1, <1>2 DEF NetOK

LEMMA ChunkLine ==
  ASSUME NEW s \in States, NEW del, NEW chk, NEW noted, NetOK(s, del, chk, noted),
         NEW p \in Pools, s.c[p].sock = "open" \/ (chk = p /\ s.c[p].sock = "closing")
  PROVE  NetOK(s, del, p, noted) /\ p \in Stratum
<1>1. p \in Stratum
  BY NoSocket DEF NetOK
<1>2. CASE chk = p
  BY <1>1, <1>2
<1>3. CASE s.c[p].sock = "open"
  <2>1. \A q \in Pools : ClientOK(q, s.c[q], del, chk = q, noted)
    BY DEF NetOK
  <2>2. ClientOK(p, s.c[p], del, p = p, noted)
    BY <1>1, <1>3, <2>1 DEF ClientOK, StratumOK, Tidy, Stratum
  <2>3. \A q \in Pools : q # p => ClientOK(q, s.c[q], del, p = q, noted)
    BY <2>1 DEF ClientOK, StratumOK, Tidy
  <2>4. MinerOK(s, del, p = 0, noted)
    BY <1>3 DEF NetOK, MinerOK, Gives
  <2> QED
    BY <1>1, <2>2, <2>3, <2>4 DEF NetOK
<1> QED
  BY <1>2, <1>3

\* A callback that begins a new turn of its client, and changes no flag.
LEMMA ApartInv ==
  ASSUME NetInv, UNCHANGED <<config, deleted, notices>>, tip' \in Int, chunk' = None,
         NEW s \in States, Become(s), NetOK(s, deleted, None, Noted)
  PROVE  NetInv'
<1>1. Noted' = Noted
  BY DEF Noted
<1>2. notices' \in Nat
  BY DEF NetInv
<1>3. UNCHANGED config
  BY Zenon
<1>4. NetOK(s, deleted', chunk', Noted')
  BY <1>1
<1> QED
  BY <1>2, <1>3, <1>4, StepInv DEF NetInv

LEMMA Here ==
  ASSUME NetInv
  PROVE  /\ ConfigOK /\ tip \in Int /\ Now \in States /\ NetOK(Now, deleted, None, Noted)
         /\ 0 \in Pools /\ \A p \in Used : p \in Pools
         /\ \A p \in Pools : c[p] \in Clients /\ ClientOK(p, c[p], deleted, None = p, Noted)
<1>1. ConfigOK /\ tip \in Int /\ Now \in States /\ NetOK(Now, deleted, chunk, Noted)
  BY DEF NetInv
<1>2. NetOK(Now, deleted, None, Noted)
  BY <1>1, ChunkNone
<1>3. 0 \in Pools /\ \A p \in Used : p \in Pools
  BY LastPoolAssumption DEF Used, Pools
<1>4. c \in [Pools -> Clients]
  BY <1>1, NowIs DEF States
<1>5. \A p \in Pools : ClientOK(p, c[p], deleted, None = p, Noted)
  BY <1>2, NowIs DEF NetOK
<1> QED
  BY <1>1, <1>2, <1>3, <1>4, <1>5

\* The fields that Apart and Polls leave alone.
LEMMA ApartFrame ==
  ASSUME NetInv, Apart, UNCHANGED <<deleted, tip, lost>>
  PROVE  UNCHANGED <<config, deleted, notices>> /\ chunk' = None /\ tip' \in Int
BY DEF Apart, Polls, NetInv

LEMMA StartInv ==
  ASSUME NetInv, Start
  PROVE  NetInv'
<1>1. /\ UNCHANGED <<config, deleted, notices>> /\ chunk' = None /\ tip' \in Int
      /\ ~deleted /\ c[0].state = "Unconnected" /\ Become(Connect(Now, 0))
  BY ApartFrame DEF Start
<1>2. MayConnect(Now, 0, deleted, Noted)
  <2>1. ClientOK(0, c[0], deleted, None = 0, Noted)
    BY Here
  <2>2. kind[0] = "pool" => Noted \/ c[0].sock = "none"
    BY <1>1, <2>1 DEF ClientOK, StratumOK, Tidy, FirstOK
  <2> QED
    BY <1>1, <2>2, NowIs DEF MayConnect, Dropped
<1>3. Connect(Now, 0) \in States /\ NetOK(Connect(Now, 0), deleted, None, Noted)
  BY <1>2, Here, ConnectNet
<1> QED
  BY <1>1, <1>3, ApartInv

\* What happens to one client's socket.
LEMMA WithInv ==
  ASSUME NetInv, UNCHANGED <<config, deleted, notices>>, tip' \in Int, chunk' = None,
         NEW p \in Pools, NEW n, Keeps(p, c[p], n, deleted, None = p, Noted),
         \/ Become(With(Now, p, n))
         \/ Become([Now EXCEPT !.c[p] = n])
  PROVE  NetInv'
<1>1. Keeps(p, Now.c[p], n, deleted, None = p, Noted)
  BY NowIs
<1>2. Now \in States /\ NetOK(Now, deleted, None, Noted)
  BY Here
<1>3. With(Now, p, n) \in States /\ NetOK(With(Now, p, n), deleted, None, Noted)
  BY <1>1, <1>2, WithNet
<1>4. [Now EXCEPT !.c[p] = n] \in States /\ NetOK([Now EXCEPT !.c[p] = n], deleted, None, Noted)
  BY <1>1, <1>2, SetNet
<1>5. CASE Become(With(Now, p, n))
  BY <1>3, <1>5, ApartInv
<1>6. CASE Become([Now EXCEPT !.c[p] = n])
  BY <1>4, <1>6, ApartInv
<1> QED
  BY <1>5, <1>6

LEMMA ConnectDoneInv ==
  ASSUME NetInv, NEW p \in Used, NEW ok \in BOOLEAN, NEW written \in BOOLEAN,
         ConnectDone(p, ok, written)
  PROVE  NetInv'
<1> DEFINE n == IF ok THEN OnConnect(c[p], p \in secure, written) ELSE OnConnectFailed(c[p])
<1>1. /\ UNCHANGED <<config, deleted, notices>> /\ chunk' = None /\ tip' \in Int
      /\ c[p].sock = "connecting" /\ Become(With(Now, p, n))
  BY ApartFrame DEF ConnectDone
<1>2. p \in Pools /\ c[p] \in Clients /\ ClientOK(p, c[p], deleted, None = p, Noted)
  BY Here
<1>3. p \in Stratum
  BY <1>1, <1>2, NoSocket
<1>4. Keeps(p, c[p], n, deleted, None = p, Noted)
  <2>2. Keeps(p, c[p], OnConnect(c[p], p \in secure, written), deleted, None = p, Noted)
    BY <1>1, <1>2, <1>3, OnConnectKeeps
  <2>3. Keeps(p, c[p], OnConnectFailed(c[p]), deleted, None = p, Noted)
    BY <1>1, <1>2, <1>3, OnConnectFailedKeeps
  <2> QED
    BY <2>2, <2>3
<1> HIDE DEF n
<1> QED
  BY <1>1, <1>2, <1>4, WithInv

LEMMA HandshakeDoneInv ==
  ASSUME NetInv, NEW p \in Used, NEW written \in BOOLEAN, HandshakeDone(p, written)
  PROVE  NetInv'
<1>1. /\ UNCHANGED <<config, deleted, notices>> /\ chunk' = None /\ tip' \in Int
      /\ c[p].sock = "open" /\ Become(With(Now, p, Login(c[p], written)))
  BY ApartFrame DEF HandshakeDone
<1>2. p \in Pools /\ c[p] \in Clients /\ ClientOK(p, c[p], deleted, None = p, Noted)
  BY Here
<1>3. p \in Stratum
  BY <1>1, <1>2, NoSocket
<1>4. Keeps(p, c[p], Login(c[p], written), deleted, None = p, Noted)
  BY <1>1, <1>2, <1>3, LoginKeeps
<1> QED
  BY <1>1, <1>2, <1>4, WithInv

\* ReadError, WriteError and the time-out of a connection close the socket.
LEMMA ClosesInv ==
  ASSUME NetInv, UNCHANGED <<config, deleted, notices>>, tip' \in Int, chunk' = None,
         NEW p \in Stratum, Become(With(Now, p, Close(c[p])))
  PROVE  NetInv'
<1>1. p \in Pools /\ c[p] \in Clients /\ ClientOK(p, c[p], deleted, None = p, Noted)
  BY Here DEF Stratum
<1>2. Keeps(p, c[p], Close(c[p]), deleted, None = p, Noted)
  BY <1>1, CloseKeeps
<1> QED
  BY <1>1, <1>2, WithInv

LEMMA ReadErrorInv ==
  ASSUME NetInv, NEW p \in Used, ReadError(p)
  PROVE  NetInv'
<1>1. /\ UNCHANGED <<config, deleted, notices>> /\ chunk' = None /\ tip' \in Int
      /\ c[p].sock = "open" /\ Become(With(Now, p, Close(c[p])))
  BY ApartFrame DEF ReadError
<1>2. p \in Stratum
  BY <1>1, Here, NoSocket
<1> QED
  BY <1>1, <1>2, ClosesInv

LEMMA WriteErrorInv ==
  ASSUME NetInv, NEW p \in Used, WriteError(p)
  PROVE  NetInv'
<1>1. /\ UNCHANGED <<config, deleted, notices>> /\ chunk' = None /\ tip' \in Int
      /\ c[p].login = "in" /\ Become(With(Now, p, Close(c[p])))
  BY ApartFrame DEF WriteError
<1>2. p \in Stratum
  BY <1>1, Here DEF ClientOK, DaemonOK, Stratum
<1> QED
  BY <1>1, <1>2, ClosesInv

LEMMA ExpireInv ==
  ASSUME NetInv, NEW p \in Used, Expire(p)
  PROVE  NetInv'
<1>1. /\ UNCHANGED <<config, deleted, notices>> /\ chunk' = None /\ tip' \in Int
      /\ ~deleted /\ kind[p] = "pool"
      /\ \/ Become(With(Now, p, Close(c[p])))
         \/ c[p].state = "Reconnecting" /\ Become(Connect(Now, p))
  BY ApartFrame DEF Expire
<1>2. p \in Pools /\ ClientOK(p, c[p], deleted, None = p, Noted) /\ p \in Stratum
  BY <1>1, Here DEF Stratum
<1>3. CASE Become(With(Now, p, Close(c[p])))
  BY <1>1, <1>2, <1>3, ClosesInv
<1>4. CASE c[p].state = "Reconnecting" /\ Become(Connect(Now, p))
  <2>1. MayConnect(Now, p, deleted, Noted)
    BY <1>1, <1>2, <1>4, NowIs DEF MayConnect, Dropped, ClientOK, FirstOK
  <2>2. Connect(Now, p) \in States /\ NetOK(Connect(Now, p), deleted, None, Noted)
    BY <1>2, <2>1, Here, ConnectNet
  <2> QED
    BY <1>1, <1>4, <2>2, ApartInv
<1> QED
  BY <1>1, <1>3, <1>4

LEMMA DnsStaleInv ==
  ASSUME NetInv, NEW h \in Hosts, DnsStale(h)
  PROVE  NetInv'
<1> DEFINE l == [dns[h] EXCEPT !.fresh = FALSE]
           s == [Now EXCEPT !.dns[h] = l]
<1>1. UNCHANGED <<config, deleted, notices, chunk>> /\ Become([Now EXCEPT !.dns[h].fresh = FALSE])
      /\ tip' = tip
  BY DEF DnsStale, Polls
<1>2. [Now EXCEPT !.dns[h].fresh = FALSE] = s
  BY NowIs, Zenon
<1>3. dns[h] \in Lookups
  BY NowIs DEF NetInv, States
<1>4. l \in Lookups
  BY <1>3 DEF Lookups
<1> HIDE DEF l
<1>5. Now \in States /\ NetOK(Now, deleted, chunk, Noted)
  BY DEF NetInv
<1>6. s \in States /\ Aside(Now, s)
  BY <1>4, <1>5, SetLookup, Zenon
<1> HIDE DEF s
<1>7. NetOK(s, deleted, chunk, Noted)
  BY <1>5, <1>6, NetFrame, Zenon DEF Aside
<1>8. NetOK(s, deleted', chunk', Noted')
  BY <1>1, <1>7 DEF Noted
<1> QED
  BY <1>1, <1>2, <1>6, <1>8, StepInv DEF NetInv

LEMMA DnsDoneInv ==
  ASSUME NetInv, NEW h \in Hosts, NEW ok \in BOOLEAN, DnsDone(h, ok)
  PROVE  NetInv'
<1> DEFINE v == IF ok THEN "ok" ELSE "error"
           l == [dns[h] EXCEPT !.fresh = TRUE, !.result = v]
           s == [Now EXCEPT !.dns[h] = l]
<1>1. UNCHANGED <<config, deleted, notices>> /\ chunk' = None /\ tip' \in Int
  BY ApartFrame DEF DnsDone
<1>2. Become(Notify([Now EXCEPT !.dns[h].fresh = TRUE, !.dns[h].result = v], h))
  BY Zenon DEF DnsDone
<1>3. [Now EXCEPT !.dns[h].fresh = TRUE, !.dns[h].result = v] = s
  BY NowIs, Zenon
<1>4. dns[h] \in Lookups
  BY NowIs DEF NetInv, States
<1>5. v \in {"none", "ok", "error"}
  OBVIOUS
<1> HIDE DEF v
<1>6. l \in Lookups
  BY <1>4, <1>5 DEF Lookups
<1> HIDE DEF l
<1>7. Now \in States /\ NetOK(Now, deleted, None, Noted)
  BY Here
<1>8. s \in States /\ Aside(Now, s)
  BY <1>6, <1>7, SetLookup, Zenon
<1> HIDE DEF s
<1>9. Notify(s, h) \in States /\ Aside(s, Notify(s, h))
  BY <1>8, NotifyFacts
<1>10. NetOK(Notify(s, h), deleted, None, Noted)
  <2>1. NetOK(s, deleted, None, Noted)
    BY <1>7, <1>8, NetFrame, Zenon DEF Aside
  <2> QED
    BY <1>9, <2>1, NetFrame, Zenon DEF Aside
<1> QED
  BY <1>1, <1>2, <1>3, <1>9, <1>10, ApartInv

\* A line of the pool p's chunk is read.
LEMMA LineInv ==
  ASSUME NetInv, NEW p \in Used, Line(p), notices' = notices,
         NEW s \in States, Become(s), NetOK(s, deleted, p, Noted)
  PROVE  NetInv'
<1>1. UNCHANGED <<config, deleted, tip>> /\ chunk' = p
  BY DEF Line, Polls
<1>2. NetOK(s, deleted', chunk', Noted')
  BY <1>1 DEF Noted
<1> QED
  BY <1>1, <1>2, StepInv DEF NetInv

LEMMA LineHere ==
  ASSUME NetInv, NEW p \in Used, Line(p)
  PROVE  /\ ConfigOK /\ tip \in Int /\ Now \in States /\ NetOK(Now, deleted, p, Noted)
         /\ p \in Stratum /\ p \in Pools /\ c[p] \in Clients
         /\ ClientOK(p, c[p], deleted, p = p, Noted)
         /\ c[p].sock = "open" \/ (chunk = p /\ c[p].sock = "closing")
<1>1. c[p].sock = "open" \/ (chunk = p /\ c[p].sock = "closing")
  BY DEF Line
<1>2. /\ ConfigOK /\ tip \in Int /\ Now \in States /\ NetOK(Now, deleted, chunk, Noted)
      /\ p \in Pools /\ c[p] \in Clients
  BY Here DEF NetInv
<1>3. NetOK(Now, deleted, p, Noted) /\ p \in Stratum
  BY <1>1, <1>2, ChunkLine, NowIs
<1>4. ClientOK(p, c[p], deleted, p = p, Noted)
  BY <1>2, <1>3, NowIs DEF NetOK
<1> QED
  BY <1>1, <1>2, <1>3, <1>4

LEMMA BadJobInv ==
  ASSUME NetInv, NEW p \in Used, BadJob(p)
  PROVE  NetInv'
<1> DEFINE n == Close([c[p] EXCEPT !.login = IF @ = "sent" THEN "refused" ELSE @])
<1>1. /\ Line(p) /\ notices' = notices /\ c[p].login \in {"sent", "in"}
      /\ Become(With(Now, p, n))
  BY DEF BadJob
<1>2. Keeps(p, Now.c[p], n, deleted, p = p, Noted)
  BY <1>1, LineHere, RefusedKeeps, NowIs
<1> HIDE DEF n
<1>3. With(Now, p, n) \in States /\ NetOK(With(Now, p, n), deleted, p, Noted)
  BY <1>1, <1>2, LineHere, WithNet
<1> QED
  BY <1>1, <1>3, LineInv

LEMMA ErrorAnswerInv ==
  ASSUME NetInv, NEW p \in Used, NEW critical \in BOOLEAN, ErrorAnswer(p, critical)
  PROVE  NetInv'
<1> DEFINE n == OnError(c[p], p, critical)
<1>1. /\ Line(p) /\ notices' = notices /\ c[p].login \in {"sent", "in"}
      /\ Become(With(Now, p, n))
  BY DEF ErrorAnswer
<1>2. Keeps(p, Now.c[p], n, deleted, p = p, Noted)
  BY <1>1, LineHere, RefusedKeeps, NowIs
<1> HIDE DEF n
<1>3. With(Now, p, n) \in States /\ NetOK(With(Now, p, n), deleted, p, Noted)
  BY <1>1, <1>2, LineHere, WithNet
<1> QED
  BY <1>1, <1>3, LineInv

\* The only pool's job, over an open connection or from a chunk that is still read.
LEMMA SingleLine ==
  ASSUME NetInv, NEW p \in Used, Line(p), c[p].login = "in", Single, ~Noted, ~deleted
  PROVE  active = p
<1>1. p = 0
  BY LastPoolAssumption DEF Single, Used, Pools
<1>2. MinerOK(Now, deleted, chunk = 0, Noted)
  BY DEF NetInv, NetOK
<1>3. Gives(c[0], chunk = 0)
  BY <1>1, LineHere DEF Gives, Stratum
<1> QED
  BY <1>1, <1>2, <1>3, NowIs DEF MinerOK

LEMMA JobReceivedInv ==
  ASSUME NetInv, NEW p \in Used, JobReceived(p)
  PROVE  NetInv'
<1>1. Line(p) /\ notices' = notices /\ c[p].login = "in" /\ Become(OnJob(Now, p))
  BY DEF JobReceived
<1>2. Single /\ ~Noted /\ ~deleted => Now.active = p
  BY <1>1, SingleLine, NowIs
<1>3. OnJob(Now, p) \in States /\ NetOK(OnJob(Now, p), deleted, p, Noted)
  BY <1>1, <1>2, LineHere, OnJobNet
<1> QED
  BY <1>1, <1>3, LineInv

LEMMA LoginAcceptedInv ==
  ASSUME NetInv, NEW p \in Used, LoginAccepted(p)
  PROVE  NetInv'
<1> DEFINE n == LoggedIn(c[p])
           u == OnJob(OnLoginSuccess([Now EXCEPT !.c[p] = n], p), p)
<1>1. /\ Line(p) /\ notices' = notices
      /\ Become(OnJob(OnLoginSuccess([Now EXCEPT !.c[p] = LoggedIn(@)], p), p))
  BY DEF LoginAccepted
<1>2. OnJob(OnLoginSuccess([Now EXCEPT !.c[p] = LoggedIn(@)], p), p) = u
  BY NowIs, Zenon
<1>3. n \in Clients /\ ClientOK(p, n, deleted, p = p, Noted)
  BY <1>1, LineHere, LoggedInOK
<1>4. p = 0 => ~Waits(n)
  BY <1>1, LineHere DEF Waits, Stratum
<1> HIDE DEF n
<1>5. u \in States /\ NetOK(u, deleted, p, Noted)
  BY <1>1, <1>3, <1>4, LineHere, LoginNet, Zenon
<1> QED
  BY <1>1, <1>2, <1>5, LineInv

\* Once a client.reconnect notice has come, less is claimed.
LEMMA NotedNet ==
  ASSUME NEW s \in States, NEW del, NEW chk, NEW noted, NetOK(s, del, chk, noted)
  PROVE  NetOK(s, del, chk, TRUE)
<1>1. \A p \in Pools : ClientOK(p, s.c[p], del, chk = p, TRUE)
  BY DEF NetOK, ClientOK
<1>2. MinerOK(s, del, chk = 0, TRUE)
  BY DEF NetOK, MinerOK
<1> QED
  BY <1>1, <1>2 DEF NetOK

LEMMA ReconnectNoticeInv ==
  ASSUME NetInv, NEW p \in Used, ReconnectNotice(p)
  PROVE  NetInv'
<1>1. /\ Line(p) /\ notices' = notices + 1 /\ Become(Reconnect(Now, p))
  BY DEF ReconnectNotice
<1>2. NetOK(Now, deleted, p, TRUE)
  BY <1>1, LineHere, NotedNet
<1>3. ~c[p].listener => c[p].again
  BY <1>1, LineHere DEF ClientOK, StratumOK, Tidy, Stratum
<1>4. Reconnect(Now, p) \in States /\ NetOK(Reconnect(Now, p), deleted, p, TRUE)
  BY <1>1, <1>2, <1>3, LineHere, ReconnectNet, NowIs
<1>5. notices' \in Nat /\ Noted' = TRUE
  BY <1>1 DEF NetInv, Noted
<1>6. UNCHANGED <<config, deleted, tip>> /\ chunk' = p
  BY <1>1 DEF Line, Polls
<1>7. NetOK(Reconnect(Now, p), deleted', chunk', Noted')
  BY <1>4, <1>5, <1>6
<1> QED
  BY <1>1, <1>4, <1>5, <1>6, <1>7, StepInv DEF NetInv

LEMMA TimerFiresInv ==
  ASSUME NetInv, NEW p \in Used, NEW old \in BOOLEAN, TimerFires(p, old)
  PROVE  NetInv'
<1> DEFINE n == DaemonTimer(c[p], old, tip)
<1>1. /\ UNCHANGED <<config, deleted, notices>> /\ chunk' = None /\ tip' \in Int
      /\ kind[p] = "daemon" /\ c[p].expire
  BY ApartFrame DEF TimerFires
<1>2. Become([Now EXCEPT !.c[p] = n])
  BY NowIs, Zenon DEF TimerFires
<1>3. /\ p \in Pools /\ p \in Pools \ Stratum /\ c[p] \in Clients /\ tip \in Int
      /\ ClientOK(p, c[p], deleted, None = p, Noted)
  BY <1>1, Here DEF Stratum
<1>4. ~Dropped(p, deleted)
  BY <1>1, <1>3 DEF ClientOK, DaemonOK
<1>5. Keeps(p, c[p], n, deleted, None = p, Noted)
  BY <1>3, <1>4, DaemonTimerKeeps
<1> HIDE DEF n
<1> QED
  BY <1>1, <1>2, <1>3, <1>5, WithInv

LEMMA SubmitBlockInv ==
  ASSUME NetInv, NEW p \in Used, SubmitBlock(p)
  PROVE  NetInv'
<1> DEFINE n == Fetch(c[p], "submit", tip)
<1>1. /\ UNCHANGED <<config, deleted, notices>> /\ chunk' = None /\ tip' \in Int
      /\ kind[p] = "daemon" /\ ~deleted /\ active = p
  BY ApartFrame DEF SubmitBlock
<1>2. Become([Now EXCEPT !.c[p] = n])
  BY NowIs, Zenon DEF SubmitBlock
<1>3. /\ p \in Pools /\ p \in Pools \ Stratum /\ c[p] \in Clients /\ tip \in Int
      /\ ClientOK(p, c[p], deleted, None = p, Noted)
  BY <1>1, Here DEF Stratum
<1>4. ~Dropped(p, deleted)
  BY <1>1 DEF Dropped
<1>5. p = 0 => c[p].state # "Unconnected"
  <2>1. MinerOK(Now, deleted, None = 0, Noted)
    BY Here DEF NetOK
  <2> QED
    BY <1>1, <2>1, NowIs DEF MinerOK, Waits
<1>6. Keeps(p, c[p], n, deleted, None = p, Noted)
  BY <1>3, <1>4, <1>5, FetchKeeps
<1> HIDE DEF n
<1> QED
  BY <1>1, <1>2, <1>3, <1>6, WithInv

\* A daemon's client that waits for an answer has not been dropped, or disconnected.
LEMMA Waiting ==
  ASSUME NetInv, NEW p \in Used, NEW r \in c[p].reqs
  PROVE  /\ p \in Pools /\ p \in Pools \ Stratum /\ c[p] \in Clients /\ ~Dropped(p, deleted)
         /\ ClientOK(p, c[p], deleted, None = p, Noted)
         /\ p = 0 => c[p].state # "Unconnected"
<1>1. p \in Pools /\ c[p] \in Clients /\ ClientOK(p, c[p], deleted, None = p, Noted)
  BY Here
<1>2. p \notin Stratum
  BY <1>1 DEF ClientOK, StratumOK, Stratum
<1>3. ~Dropped(p, deleted) /\ (p = 0 => c[p].state # "Unconnected")
  BY <1>1, <1>2 DEF ClientOK, DaemonOK, Stratum
<1> QED
  BY <1>1, <1>2, <1>3

LEMMA LoseRequestInv ==
  ASSUME NetInv, NEW p \in Used, NEW r \in c[p].reqs, LoseRequest(p, r)
  PROVE  NetInv'
<1> DEFINE n == [c[p] EXCEPT !.reqs = @ \ {r}]
<1>1. /\ UNCHANGED <<config, deleted, notices>> /\ chunk' = None /\ tip' \in Int
      /\ Become([Now EXCEPT !.c[p].reqs = @ \ {r}])
  BY DEF LoseRequest, Apart, Polls, NetInv
<1>2. [Now EXCEPT !.c[p].reqs = @ \ {r}] = [Now EXCEPT !.c[p] = n]
  BY NowIs, Zenon
<1>3. Keeps(p, c[p], n, deleted, None = p, Noted) /\ p \in Pools
  BY Waiting, AnsweredKeeps
<1> HIDE DEF n
<1> QED
  BY <1>1, <1>2, <1>3, WithInv

LEMMA HttpAnswerInv ==
  ASSUME NetInv, NEW p \in Used, NEW r \in c[p].reqs, NEW ok \in BOOLEAN, HttpAnswer(p, r, ok)
  PROVE  NetInv'
<1> DEFINE n == [c[p] EXCEPT !.reqs = @ \ {r}]
           s == [Now EXCEPT !.c[p] = n]
<1>1. /\ UNCHANGED <<config, deleted, notices>> /\ chunk' = None /\ tip' \in Int
  BY ApartFrame DEF HttpAnswer
<1>2. [Now EXCEPT !.c[p].reqs = @ \ {r}] = s
  BY NowIs, Zenon
<1>3. /\ p \in Pools /\ p \in Pools \ Stratum /\ p \notin Stratum /\ c[p] \in Clients
      /\ ~Dropped(p, deleted)
      /\ p = 0 => c[p].state # "Unconnected"
  BY Waiting
<1>15. ClientOK(p, c[p], deleted, None = p, Noted)
  BY Waiting
<1>16. Keeps(p, c[p], n, deleted, None = p, Noted)
  BY <1>3, <1>15, AnsweredKeeps
<1>17. n.state = c[p].state
  BY <1>3 DEF Clients
<1>4. Keeps(p, Now.c[p], n, deleted, None = p, Noted) /\ n.state = c[p].state
  BY <1>16, <1>17, NowIs, Zenon
<1>5. \/ Become(FailDaemon(s, p))
      \/ \E seen \in r.from..tip : \/ Become(Templated(s, p, seen))
                                   \/ Become([s EXCEPT !.c[p] = OnHeight(@, seen, tip)])
                                   \/ Become([s EXCEPT !.c[p] = Fetch(@, "template", tip)])
  <2>1. CASE ~ok
    BY <1>2, <2>1 DEF HttpAnswer
  <2>2. CASE ok
    <3>1. PICK seen \in r.from..tip :
            Become(CASE r.kind = "template" -> Templated(s, p, seen)
                     [] r.kind = "height" -> [s EXCEPT !.c[p] = OnHeight(@, seen, tip)]
                     [] r.kind = "submit" -> [s EXCEPT !.c[p] = Fetch(@, "template", tip)])
      BY <1>2, <2>2, Zenon DEF HttpAnswer
    <3>2. r.kind \in {"template", "height", "submit"}
      BY <1>3 DEF Clients, Requests
    <3> HIDE DEF s
    <3> QED
      BY <3>1, <3>2
  <2> QED
    BY <2>1, <2>2
<1> HIDE DEF n
<1>6. /\ Now \in States /\ NetOK(Now, deleted, None, Noted) /\ ConfigOK /\ tip \in Int
      /\ Now.c = c /\ c \in [Pools -> Clients]
  BY Here, NowIs DEF States
<1>7. s \in States /\ s.c = [Now.c EXCEPT ![p] = n] /\ NetOK(s, deleted, None, Noted)
  BY <1>3, <1>4, <1>6, SetNet
<1>8. s.c[p] = n /\ n \in Clients
  BY <1>3, <1>4, <1>6, <1>7 DEF Keeps
<1> HIDE DEF s
<1>9. ClientOK(p, s.c[p], deleted, None = p, Noted)
  BY <1>3, <1>7 DEF NetOK
<1>10. CASE Become(FailDaemon(s, p))
  <2>1. FailDaemon(s, p) \in States /\ NetOK(FailDaemon(s, p), deleted, None, Noted)
    BY <1>3, <1>6, <1>7, FailDaemonNet
  <2> QED
    BY <1>1, <1>10, <2>1, ApartInv
<1>11. ASSUME NEW seen \in r.from..tip, Become(Templated(s, p, seen)) PROVE NetInv'
  <2>1. seen \in Int
    BY <1>11
  <2>2. Templated(s, p, seen) \in States /\ NetOK(Templated(s, p, seen), deleted, None, Noted)
    BY <1>3, <1>4, <1>6, <1>7, <1>8, <2>1, TemplatedNet
  <2> QED
    BY <1>1, <1>11, <2>2, ApartInv
<1>12. ASSUME NEW m, Keeps(p, s.c[p], m, deleted, None = p, Noted), Become([s EXCEPT !.c[p] = m])
       PROVE  NetInv'
  <2>1. [s EXCEPT !.c[p] = m] \in States /\ NetOK([s EXCEPT !.c[p] = m], deleted, None, Noted)
    BY <1>3, <1>7, <1>12, SetNet
  <2> QED
    BY <1>1, <1>12, <2>1, ApartInv
<1>13. ASSUME NEW seen \in r.from..tip, Become([s EXCEPT !.c[p] = OnHeight(@, seen, tip)])
       PROVE  NetInv'
  <2>1. seen \in Int
    BY <1>13
  <2>2. Keeps(p, s.c[p], OnHeight(s.c[p], seen, tip), deleted, None = p, Noted)
    BY <1>3, <1>4, <1>6, <1>8, <1>9, <2>1, OnHeightKeeps
  <2>3. Become([s EXCEPT !.c[p] = OnHeight(s.c[p], seen, tip)])
    BY <1>13, Zenon
  <2> QED
    BY <1>12, <2>2, <2>3
<1>14. ASSUME Become([s EXCEPT !.c[p] = Fetch(@, "template", tip)])
       PROVE  NetInv'
  <2>1. Keeps(p, s.c[p], Fetch(s.c[p], "template", tip), deleted, None = p, Noted)
    BY <1>3, <1>4, <1>6, <1>8, <1>9, FetchKeeps
  <2>2. Become([s EXCEPT !.c[p] = Fetch(s.c[p], "template", tip)])
    BY <1>14, Zenon
  <2> QED
    BY <1>12, <2>1, <2>2
<1> QED
  BY <1>5, <1>10, <1>11, <1>13, <1>14

LEMMA NewBlockInv ==
  ASSUME NetInv, NewBlock
  PROVE  NetInv'
<1>1. /\ UNCHANGED <<config, deleted, notices, chunk>> /\ tip' = tip + 1 /\ Become(Now)
  BY DEF NewBlock, Polls
<1>2. NetOK(Now, deleted', chunk', Noted')
  BY <1>1 DEF NetInv, Noted
<1>3. tip' \in Int
  BY <1>1 DEF NetInv
<1> QED
  BY <1>1, <1>2, <1>3, StepInv DEF NetInv

LEMMA EndTurnInv ==
  ASSUME NetInv, EndTurn
  PROVE  NetInv'
<1>1. /\ UNCHANGED <<config, deleted, notices>> /\ chunk' = None /\ tip' = tip
      /\ UNCHANGED <<c, index, active, work, dns, closing, telling>>
  BY DEF EndTurn, bounds
<1>2. Become(Now)
  BY <1>1, NowIs, Zenon DEF Become
<1>3. Now \in States /\ NetOK(Now, deleted, None, Noted) /\ tip \in Int
  BY Here
<1> QED
  BY <1>1, <1>2, <1>3, ApartInv

\* The strategy is stopped, which disconnects every client, and deleted.

LEMMA StoppedFacts ==
  ASSUME NetInv, ~deleted
  PROVE  /\ Stopped \in States
         /\ \A p \in Pools :
              Stopped.c[p] = IF p \notin Used THEN c[p]
                             ELSE IF kind[p] = "pool" THEN Disconnect(c[p])
                             ELSE DaemonDisconnect(c[p])
<1> DEFINE d == [p \in Pools |-> IF p \notin Used THEN Now.c[p]
                                 ELSE IF kind[p] = "pool" THEN Disconnect(Now.c[p])
                                 ELSE DaemonDisconnect(Now.c[p])]
           t == Changed(Now, d)
           i == [t EXCEPT !.index = 0]
           u == [i EXCEPT !.active = None, !.work = None]
<1>1. /\ \A p \in Pools : c[p] \in Clients /\ ClientOK(p, c[p], deleted, None = p, Noted)
      /\ Now \in States /\ Now.c = c
  BY Here, NowIs
<1>2. \A p \in Pools : d[p] = IF p \notin Used THEN c[p]
                              ELSE IF kind[p] = "pool" THEN Disconnect(c[p])
                              ELSE DaemonDisconnect(c[p])
  BY <1>1
<1>3. \A p \in Pools : d[p] \in Clients
  BY <1>1, <1>2, DisconnectEffect, DaemonDisconnectFacts
<1>4. \A p \in Pools \ Stratum : d[p].sock = "none"
  <2> SUFFICES ASSUME NEW p \in Pools \ Stratum PROVE d[p].sock = "none"
    OBVIOUS
  <2>1. c[p].sock = "none" /\ c[p] \in Clients
    BY <1>1, NoSocket
  <2>2. d[p] = c[p] \/ d[p] = DaemonDisconnect(c[p])
    BY <1>2 DEF Stratum
  <2> HIDE DEF d
  <2> QED
    BY <2>1, <2>2, DaemonDisconnectFacts
<1>5. DisconnectPools(Now, Used) = t
  BY Zenon DEF DisconnectPools
<1>6. d = [p \in Pools |-> d[p]]
  OBVIOUS
<1> HIDE DEF d
<1>7. d \in [Pools -> Clients]
  BY <1>3, <1>6
<1>8. t \in States /\ t.c = d
  BY <1>1, <1>4, <1>7, ChangedFacts, Zenon
<1>9. Stopped = IF Single THEN t ELSE u
  BY <1>5, Zenon DEF Stopped, Pause
<1> HIDE DEF t
<1>10. 0 \in Nat
  OBVIOUS
<1>11. i \in States /\ i.c = d
  BY <1>8, <1>10, IndexType
<1> HIDE DEF i
<1>12. u \in States /\ u.c = d
  BY <1>11 DEF States
<1> HIDE DEF u
<1> QED
  BY <1>2, <1>8, <1>9, <1>12

LEMMA ChangeConfigInv ==
  ASSUME NetInv, ChangeConfig
  PROVE  NetInv'
<1> DEFINE d == [p \in Pools |-> IF p \in Used THEN Deleted(Stopped.c[p], p) ELSE c[p]]
           t == Changed(Stopped, d)
<1>1. /\ ~deleted /\ deleted' = TRUE /\ chunk' = None /\ tip' = tip /\ notices' = notices
      /\ UNCHANGED config
      /\ Become(t)
  BY DEF ChangeConfig, Apart, Polls
<1>2. /\ ConfigOK /\ tip \in Int /\ 0 \in Pools
      /\ \A p \in Pools : c[p] \in Clients /\ ClientOK(p, c[p], FALSE, None = p, Noted)
  <2>1. /\ ConfigOK /\ tip \in Int /\ 0 \in Pools
        /\ \A p \in Pools : c[p] \in Clients /\ ClientOK(p, c[p], deleted, None = p, Noted)
    BY Here
  <2>2. ASSUME NEW p \in Pools PROVE ClientOK(p, c[p], FALSE, None = p, Noted)
    <3>1. ClientOK(p, c[p], deleted, None = p, Noted)
      BY <2>1
    <3> QED
      BY <1>1, <3>1 DEF ClientOK, DaemonOK, Dropped
  <2> QED
    BY <2>1, <2>2
<1>3. /\ Stopped \in States
      /\ \A p \in Pools :
              Stopped.c[p] = IF p \notin Used THEN c[p]
                             ELSE IF kind[p] = "pool" THEN Disconnect(c[p])
                             ELSE DaemonDisconnect(c[p])
  BY <1>1, StoppedFacts
<1>4. ASSUME NEW p \in Pools
      PROVE  d[p] \in Clients /\ ClientOK(p, d[p], TRUE, None = p, Noted) /\ (p = 0 => ~Leads(d[p]))
  <2>1. (None = p) = FALSE
    BY DEF None, Pools
  <2>2. c[p] \in Clients /\ ClientOK(p, c[p], FALSE, FALSE, Noted)
    BY <1>2, <2>1
  <2>3. CASE p \notin Used
    <3>1. d[p] = c[p] /\ p # 0
      BY <1>2, <2>3, LastPoolAssumption DEF Used, Pools, ConfigOK
    <3>2. ClientOK(p, c[p], TRUE, FALSE, Noted)
      BY <2>2, <2>3 DEF ClientOK, DaemonOK, Dropped
    <3> QED
      BY <2>1, <2>2, <3>1, <3>2
  <2>4. CASE p \in Used /\ p \in Stratum
    <3> DEFINE n == Disconnect(c[p])
    <3>1. n \in Clients /\ ClientOK(p, n, FALSE, FALSE, Noted)
      BY <2>2, <2>4, DisconnectKeeps DEF Keeps
    <3>2. d[p] = Deleted(n, p)
      BY <1>3, <2>4 DEF Stratum
    <3> HIDE DEF n, d
    <3> QED
      BY <2>1, <2>4, <3>1, <3>2, DeletedPool
  <2>5. CASE p \in Used /\ p \notin Stratum
    <3>1. kind[p] = "daemon" /\ kind[p] # "pool" /\ p \in Pools \ Stratum
      BY <1>2, <2>5 DEF Stratum, ConfigOK
    <3>2. d[p] = Deleted(DaemonDisconnect(c[p]), p)
      BY <1>3, <2>5, <3>1
    <3> HIDE DEF d
    <3>3. LET m == Deleted(DaemonDisconnect(c[p]), p)
          IN  m \in Clients /\ ClientOK(p, m, TRUE, FALSE, Noted) /\ (p = 0 => ~Leads(m))
      BY <2>2, <3>1, DeletedDaemon, Zenon
    <3> QED
      BY <2>1, <3>2, <3>3
  <2> QED
    BY <2>3, <2>4, <2>5
<1>5. d = [p \in Pools |-> d[p]]
  OBVIOUS
<1> HIDE DEF d
<1>6. d \in [Pools -> Clients]
  BY <1>4, <1>5
<1>7. \A p \in Pools \ Stratum : d[p].sock = "none"
  BY <1>4, NoSocket
<1>8. t \in States /\ t.c = d
  BY <1>3, <1>6, <1>7, ChangedFacts, Zenon
<1> HIDE DEF t
<1>9. \A p \in Pools : ClientOK(p, t.c[p], TRUE, None = p, Noted)
  BY <1>4, <1>8
<1>10. MinerOK(t, TRUE, None = 0, Noted)
  BY <1>2, <1>4, <1>8 DEF MinerOK
<1>11. NetOK(t, TRUE, None, Noted)
  BY <1>9, <1>10 DEF NetOK
<1>12. Noted' = Noted
  BY <1>1 DEF Noted
<1>13. NetOK(t, deleted', chunk', Noted')
  BY <1>1, <1>11, <1>12
<1> QED
  BY <1>1, <1>2, <1>8, <1>13, StepInv DEF NetInv

\* A client has been told how its lookup ended.
LEMMA ToldNet ==
  ASSUME NEW s \in States, NEW del, NEW chk, NEW noted, NetOK(s, del, chk, noted), NEW p \in Pools
  PROVE  LET t == [s EXCEPT !.c[p].lookup = FALSE]
         IN  t \in States /\ NetOK(t, del, chk, noted) /\ t.telling = s.telling
<1> DEFINE n == [s.c[p] EXCEPT !.lookup = FALSE]
           t == [s EXCEPT !.c[p] = n]
<1>1. s.c[p] \in Clients /\ ClientOK(p, s.c[p], del, chk = p, noted)
  BY DEF States, NetOK
<1>2. Keeps(p, s.c[p], n, del, chk = p, noted)
  <2>1. CASE p \in Stratum
    BY <1>1, <2>1, ToldKeeps
  <2>2. CASE p \notin Stratum
    <3>1. s.c[p].lookup = FALSE
      BY <1>1, <2>2 DEF ClientOK, DaemonOK, Stratum, Clients
    <3>2. n = s.c[p]
      BY <1>1, <3>1 DEF Clients
    <3> HIDE DEF n
    <3> QED
      BY <1>1, <3>2, KeepsItself
  <2> QED
    BY <2>1, <2>2
<1>3. [s EXCEPT !.c[p].lookup = FALSE] = t
  BY Zenon
<1>4. t.telling = s.telling
  BY DEF States
<1> HIDE DEF n
<1>5. t \in States /\ NetOK(t, del, chk, noted)
  BY <1>2, SetNet
<1> HIDE DEF t
<1> QED
  BY <1>3, <1>4, <1>5, Zenon

LEMMA SetTelling ==
  ASSUME NEW s \in States, NEW e \in Seq(Tellings)
  PROVE  [s EXCEPT !.telling = e] \in States /\ Aside(s, [s EXCEPT !.telling = e])
         /\ [s EXCEPT !.telling = e].dns = s.dns
BY DEF States, Aside

LEMMA TellInv ==
  ASSUME NetInv, Tell
  PROVE  NetInv'
<1> DEFINE f == Head(telling)
           s == IF f.told = None THEN Now ELSE [Now EXCEPT !.c[f.told].lookup = FALSE]
           done == [s EXCEPT !.telling = Tail(@), !.dns[f.host].queue = <<>>,
                             !.dns[f.host].runs = FALSE]
           p == Head(f.rest)
           x == IF s.c[p].lookup THEN p ELSE None
           t == [s EXCEPT !.telling[1].rest = Tail(@), !.telling[1].told = x]
           u == IF s.c[p].lookup THEN OnResolved(t, p) ELSE t
<1>1. /\ telling # <<>> /\ UNCHANGED config /\ chunk' = chunk /\ deleted' = deleted
      /\ tip' = tip /\ notices' = notices
      /\ IF f.rest = <<>> THEN Become(done) ELSE Become(u)
  BY DEF Tell, bounds
<1>2. /\ ConfigOK /\ tip \in Int /\ notices \in Nat
      /\ Now \in States /\ NetOK(Now, deleted, chunk, Noted)
  BY DEF NetInv
<1>3. telling \in Seq(Tellings)
  BY <1>2, NowIs DEF States
<1>4. f \in Tellings /\ Tail(telling) \in Seq(Tellings) /\ telling[1] = f /\ 1 \in DOMAIN telling
  BY <1>1, <1>3
<1>5. f.host \in Hosts /\ f.told \in Pools \cup {None} /\ f.rest \in Seq(Pools)
  BY <1>4 DEF Tellings
<1> HIDE DEF f
<1>6. s \in States /\ NetOK(s, deleted, chunk, Noted) /\ s.telling = telling
  <2>1. CASE f.told = None
    BY <1>2, <2>1, NowIs
  <2>2. CASE f.told # None
    <3>1. f.told \in Pools
      BY <1>5, <2>2
    <3> QED
      BY <1>2, <2>2, <3>1, ToldNet, NowIs
  <2> QED
    BY <2>1, <2>2
<1> HIDE DEF s
<1>7. CASE f.rest = <<>>
  <2> DEFINE e == Tail(telling)
             a == [s EXCEPT !.telling = e]
             l == [a.dns[f.host] EXCEPT !.queue = <<>>, !.runs = FALSE]
             b == [a EXCEPT !.dns[f.host] = l]
  <2>1. a \in States /\ Aside(s, a) /\ a.dns = s.dns
    BY <1>4, <1>6, SetTelling
  <2>2. done = b
    BY <1>6, Zenon
  <2> HIDE DEF a
  <2>3. a.dns[f.host] \in Lookups
    BY <1>5, <2>1 DEF States
  <2>4. l \in Lookups
    <3> DEFINE w == <<>>
    <3>1. w \in Seq(Pools)
      OBVIOUS
    <3>2. l = [a.dns[f.host] EXCEPT !.queue = w, !.runs = FALSE]
      OBVIOUS
    <3> HIDE DEF w, l
    <3> QED
      BY <2>3, <3>1, <3>2 DEF Lookups
  <2> HIDE DEF l
  <2>5. b \in States /\ Aside(a, b)
    BY <1>5, <2>1, <2>4, SetLookup, Zenon
  <2> HIDE DEF b
  <2>6. NetOK(b, deleted, chunk, Noted)
    BY <1>6, <2>1, <2>5, NetFrame, Zenon DEF Aside
  <2>7. NetOK(b, deleted', chunk', Noted')
    BY <1>1, <2>6 DEF Noted
  <2> QED
    BY <1>1, <1>2, <1>7, <2>2, <2>5, <2>7, StepInv
<1>8. CASE f.rest # <<>>
  <2>1. p \in Pools /\ Tail(f.rest) \in Seq(Pools)
    BY <1>5, <1>8
  <2> DEFINE y == [telling[1] EXCEPT !.rest = Tail(@), !.told = x]
             e == [telling EXCEPT ![1] = y]
             a == [s EXCEPT !.telling = e]
  <2>2. x \in Pools \cup {None}
    BY <2>1
  <2>3. t = a
    BY <1>6, Zenon
  <2> HIDE DEF t, x
  <2>4. y \in Tellings
    BY <1>4, <2>1, <2>2 DEF Tellings
  <2> HIDE DEF y
  <2>5. e \in Seq(Tellings)
    BY <1>3, <1>4, <2>4
  <2> HIDE DEF e
  <2>6. a \in States /\ Aside(s, a)
    BY <1>6, <2>5, SetTelling
  <2> HIDE DEF a
  <2>7. t \in States /\ NetOK(t, deleted, chunk, Noted) /\ t.c = s.c
    BY <1>6, <2>3, <2>6, NetFrame, Zenon DEF Aside
  <2> HIDE DEF p
  <2>8. u \in States /\ NetOK(u, deleted, chunk, Noted)
    <3>1. CASE s.c[p].lookup
      BY <1>2, <2>1, <2>7, <3>1, OnResolvedNet
    <3>2. CASE ~s.c[p].lookup
      BY <2>7, <3>2
    <3> QED
      BY <3>1, <3>2
  <2> HIDE DEF u
  <2>9. NetOK(u, deleted', chunk', Noted')
    BY <1>1, <2>8 DEF Noted
  <2> QED
    BY <1>1, <1>2, <1>8, <2>8, <2>9, StepInv
<1> QED
  BY <1>7, <1>8

LEMMA CloseCallbackInv ==
  ASSUME NetInv, CloseCallback
  PROVE  NetInv'
<1>1. /\ closing # <<>> /\ UNCHANGED config /\ chunk' = chunk /\ deleted' = deleted
      /\ tip' = tip /\ notices' = notices
  BY DEF CloseCallback, bounds
<1>2. /\ ConfigOK /\ tip \in Int /\ notices \in Nat
      /\ Now \in States /\ NetOK(Now, deleted, chunk, Noted)
  BY DEF NetInv
<1> DEFINE e(p) == LET others == Head(closing) \ {p}
                   IN  (IF others = {} THEN <<>> ELSE <<others>>) \o Tail(closing)
<1>3. PICK p \in Head(closing) :
        Become(Reconnect([Now EXCEPT !.closing = e(p), !.c[p] = OnClosed(@)], p))
  BY NowIs, Zenon DEF CloseCallback
<1>4. closing \in Seq(SUBSET Stratum)
  BY <1>2, NowIs DEF States
<1>5. Head(closing) \in SUBSET Stratum /\ Tail(closing) \in Seq(SUBSET Stratum)
  BY <1>1, <1>4
<1>6. p \in Stratum /\ p \in Pools
  BY <1>5 DEF Stratum
<1>7. e(p) \in Seq(SUBSET Stratum)
  <2> DEFINE others == Head(closing) \ {p}
  <2>1. <<others>> \o Tail(closing) \in Seq(SUBSET Stratum)
    BY <1>5, PushType
  <2>2. <<>> \o Tail(closing) \in Seq(SUBSET Stratum)
    BY <1>5
  <2> QED
    BY <2>1, <2>2
<1> DEFINE b == [Now EXCEPT !.closing = e(p)]
           n == OnClosed(b.c[p])
           s == [b EXCEPT !.c[p] = n]
<1>8. [Now EXCEPT !.closing = e(p), !.c[p] = OnClosed(@)] = s
  BY NowIs, Zenon
<1> HIDE DEF e
<1>9. b \in States /\ b.c = Now.c /\ b.active = Now.active /\ b.work = Now.work
  BY <1>2, <1>7 DEF States
<1>10. NetOK(b, deleted, chunk, Noted)
  BY <1>2, <1>9, NetFrame, Zenon
<1> HIDE DEF b
<1>11. b.c[p] \in Clients /\ ClientOK(p, b.c[p], deleted, chunk = p, Noted)
  BY <1>6, <1>9, <1>10 DEF States, NetOK
<1>12. /\ n \in Clients /\ n.sock = "none" /\ n.listener = b.c[p].listener
  BY <1>11, OnClosedFacts
<1>13. Reconnect(s, p) \in States /\ NetOK(Reconnect(s, p), deleted, chunk, Noted)
  <2>0. b.c \in [Pools -> Clients]
    BY <1>9 DEF States
  <2>1. s.c = [b.c EXCEPT ![p] = n] /\ s.c[p] = n
    <3> HIDE DEF n
    <3> QED
      BY <1>6, <1>9, <2>0 DEF States
  <2>2. CASE n.listener
    <3>1. Keeps(p, b.c[p], n, deleted, chunk = p, Noted)
      BY <1>6, <1>11, <1>12, <2>2, OnClosedKeeps
    <3> HIDE DEF n
    <3>2. s \in States /\ NetOK(s, deleted, chunk, Noted)
      BY <1>6, <1>9, <1>10, <3>1, SetNet
    <3> HIDE DEF s
    <3> QED
      BY <1>2, <1>6, <1>12, <2>1, <3>2, ReconnectNet
  <2>3. CASE ~n.listener
    <3> DEFINE m == [OnClosed(b.c[p]) EXCEPT !.alive = FALSE, !.lookup = FALSE]
    <3>1. Keeps(p, b.c[p], m, deleted, chunk = p, Noted)
      BY <1>6, <1>11, <1>12, <2>3, ClosedGoneKeeps
    <3>2. Reconnect(s, p) = Gone(s, p)
      BY <2>1, <2>3 DEF Reconnect
    <3>3. Gone(s, p) = [b EXCEPT !.c[p] = m]
      <4>1. Gone(s, p) = [s EXCEPT !.c[p] = [s.c[p] EXCEPT !.alive = FALSE, !.lookup = FALSE]]
        BY Zenon DEF Gone
      <4>2. m = [n EXCEPT !.alive = FALSE, !.lookup = FALSE]
        OBVIOUS
      <4> HIDE DEF m, n
      <4>3. [s EXCEPT !.c[p] = m] = [b EXCEPT !.c[p] = m]
        BY <1>6, <1>9, <2>0 DEF States
      <4> QED
        BY <2>1, <4>1, <4>2, <4>3
    <3> HIDE DEF m
    <3> QED
      BY <1>6, <1>9, <1>10, <3>1, <3>2, <3>3, SetNet
  <2> QED
    BY <2>2, <2>3
<1>14. NetOK(Reconnect(s, p), deleted', chunk', Noted')
  BY <1>1, <1>13 DEF Noted
<1> QED
  BY <1>1, <1>2, <1>3, <1>8, <1>13, <1>14, StepInv

-----------------------------------------------------------------------------
(* The invariant of every run, and what it says.                           *)

LEMMA InitInv ==
  ASSUME Init
  PROVE  NetInv
<1>1. ConfigOK
  BY ConfigsAssumption DEF Init, ConfigOK
<1>2. \A p \in Pools : c[p] = NewClient
  BY DEF Init
<1>3. NewClient \in Clients
  <2> DEFINE r == {}
             z == 0
  <2>1. r \in SUBSET Requests /\ z \in Int
    OBVIOUS
  <2>2. NewClient =
          [state |-> "Unconnected", failures |-> z, expire |-> FALSE, listener |-> TRUE,
           alive |-> TRUE, lookup |-> FALSE, sock |-> "none", login |-> "no", again |-> FALSE,
           overwritten |-> FALSE, reqs |-> r, polls |-> FALSE, job |-> z, asked |-> z]
    BY DEF NewClient
  <2> HIDE DEF r, z
  <2> QED
    BY <2>1, <2>2 DEF Clients
<1>4. Now \in States
  <2>1. c \in [Pools -> Clients]
    BY <1>3 DEF Init
  <2>2. NoLookup \in Lookups
    <3> DEFINE w == <<>>
    <3>1. w \in Seq(Pools)
      OBVIOUS
    <3>2. NoLookup = [queue |-> w, runs |-> FALSE, fresh |-> FALSE, result |-> "none"]
      BY DEF NoLookup
    <3> HIDE DEF w
    <3> QED
      BY <3>1, <3>2 DEF Lookups
  <2>3. dns \in [Hosts -> Lookups]
    BY <2>2 DEF Init
  <2>4. /\ index \in Nat /\ active \in Pools \cup {None} /\ work \in Pools \cup {None}
        /\ closing \in Seq(SUBSET Stratum) /\ telling \in Seq(Tellings)
    BY DEF Init
  <2> QED
    BY <2>1, <2>3, <2>4 DEF Now, States
<1>5. \A p \in Pools : ClientOK(p, c[p], deleted, chunk = p, Noted)
  <2>1. deleted = FALSE
    BY DEF Init
  <2> QED
    BY <1>2, <2>1 DEF NewClient, ClientOK, StratumOK, Tidy, FirstOK, DaemonOK, Dropped
<1>6. MinerOK(Now, deleted, chunk = 0, Noted)
  <2>1. 0 \in Pools
    BY LastPoolAssumption DEF Pools
  <2>2. c[0].state = "Unconnected" /\ c[0].login = "no" /\ active = None /\ work = None
    BY <1>2, <2>1 DEF NewClient, Init
  <2> QED
    BY <2>2, NowIs DEF MinerOK, Leads, Gives, Waits, None
<1>7. NetOK(Now, deleted, chunk, Noted)
  BY <1>5, <1>6, NowIs DEF NetOK
<1> QED
  BY <1>1, <1>4, <1>7 DEF NetInv, Init

LEMMA NextInv ==
  ASSUME NetInv, [Next]_vars
  PROVE  NetInv'
<1>1. CASE Start \/ NewBlock \/ ChangeConfig \/ EndTurn \/ CloseCallback \/ Tell
  BY <1>1, StartInv, NewBlockInv, ChangeConfigInv, EndTurnInv, CloseCallbackInv, TellInv
<1>2. CASE \E h \in Hosts : DnsStale(h) \/ \E ok \in BOOLEAN : DnsDone(h, ok)
  BY <1>2, DnsStaleInv, DnsDoneInv
<1>3. CASE \E p \in Used :
             \/ LoginAccepted(p) \/ BadJob(p) \/ JobReceived(p) \/ ReconnectNotice(p)
             \/ ReadError(p) \/ WriteError(p) \/ Expire(p) \/ SubmitBlock(p)
  BY <1>3, LoginAcceptedInv, BadJobInv, JobReceivedInv, ReconnectNoticeInv,
     ReadErrorInv, WriteErrorInv, ExpireInv, SubmitBlockInv
<1>4. CASE \E p \in Used, b \in BOOLEAN :
             HandshakeDone(p, b) \/ ErrorAnswer(p, b) \/ TimerFires(p, b)
  BY <1>4, HandshakeDoneInv, ErrorAnswerInv, TimerFiresInv
<1>5. CASE \E p \in Used, ok \in BOOLEAN, written \in BOOLEAN : ConnectDone(p, ok, written)
  BY <1>5, ConnectDoneInv
<1>6. CASE \E p \in Used : \E r \in c[p].reqs :
             LoseRequest(p, r) \/ \E ok \in BOOLEAN : HttpAnswer(p, r, ok)
  BY <1>6, LoseRequestInv, HttpAnswerInv
<1>7. CASE UNCHANGED vars
  <2>1. /\ UNCHANGED <<config, deleted, chunk, tip, notices>>
        /\ UNCHANGED <<c, index, active, work, dns, closing, telling>>
    BY <1>7 DEF vars, bounds
  <2>2. Become(Now)
    BY <2>1, NowIs, Zenon DEF Become
  <2>3. NetOK(Now, deleted', chunk', Noted')
    BY <2>1 DEF NetInv, Noted
  <2> QED
    BY <2>1, <2>2, <2>3, StepInv DEF NetInv
<1> QED
  BY <1>1, <1>2, <1>3, <1>4, <1>5, <1>6, <1>7, Zenon DEF Next

\* Whatever pools and networks do, the clients, the strategy and the miner stay
\* as NetInv describes them: the sockets, logins and requests that a client may
\* have in each of its states, and whose job the miner may have.
THEOREM NetCorrect == Spec => []NetInv
<1>1. Init => NetInv
  BY InitInv
<1>2. NetInv /\ [Next]_vars => NetInv'
  BY NextInv
<1> QED
  BY <1>1, <1>2, PTL DEF Spec

\* The miner works for the pool that the strategy has made active, and stops when
\* it has none (Network::onJob, Network::onPause, FailoverStrategy::onJobReceived).
THEOREM MinesActive == Spec => []MinesActivePool
<1>1. NetInv => MinesActivePool
  BY NowIs, Zenon DEF NetInv, NetOK, MinerOK, MinesActivePool, Noted
<1> QED
  BY <1>1, NetCorrect, PTL

\* A backup is active only while the first pool is not logged in
\* (FailoverStrategy::onLoginSuccess and onClose).
THEOREM PrefersFirst == Spec => []FirstPoolPreferred
<1>1. NetInv => FirstPoolPreferred
  BY NowIs DEF NetInv, NetOK, MinerOK, Leads, FirstPoolPreferred
<1> QED
  BY <1>1, NetCorrect, PTL

\* Unless a client.reconnect notice has come, the first pool's client connects
\* only when it holds no socket (Client::connect, Client::reconnect).
THEOREM FirstHoldsOne == Spec => []FirstPoolHoldsOne
<1>1. NetInv => FirstPoolHoldsOne
  <2> SUFFICES ASSUME NetInv PROVE FirstPoolHoldsOne
    OBVIOUS
  <2>1. ClientOK(0, c[0], deleted, None = 0, Noted)
    BY Here
  <2> QED
    BY <2>1 DEF ClientOK, FirstOK, FirstPoolHoldsOne, Noted
<1> QED
  BY <1>1, NetCorrect, PTL

\* A client that has been let go (Client::deleteLater) waits for no lookup and has
\* no socket but one that is being closed, and none once it is removed: nothing
\* calls it but Client::onClose.
THEOREM LetGoIsSilent == Spec => []GoneIsSilent
<1>1. NetInv => GoneIsSilent
  <2> SUFFICES ASSUME NetInv, NEW p \in Pools, kind[p] = "pool", ~c[p].listener, ~c[p].again
      PROVE  ~c[p].lookup /\ (IF c[p].alive THEN c[p].sock = "closing" ELSE c[p].sock = "none")
    BY DEF GoneIsSilent
  <2>1. ClientOK(p, c[p], deleted, None = p, Noted)
    BY Here
  <2> QED
    BY <2>1 DEF ClientOK, StratumOK, Tidy
<1> QED
  BY <1>1, NetCorrect, PTL

-----------------------------------------------------------------------------
(* Who is logged on, and who is active.                                    *)

\* The number of failures and the mark of an overwritten socket make sense.
FieldsOK(n) == n.failures >= Disconnected /\ (n.overwritten => n.sock # "none")

\* The client n of the pool p, while the strategy's active pool is a.
Fits(a, p, n) ==
  /\ FieldsOK(n)
  /\ a = p => LoggedOn(p, n) \/ n.overwritten
  /\ LoggedOn(p, n) /\ ~n.again => a = p

IndexOK(s) == /\ s.active \in Used \cup {None}
              /\ ~Single /\ s.active # None => s.index = s.active
ChoiceOK(s) == (\A p \in Pools : Fits(s.active, p, s.c[p])) /\ IndexOK(s)

-----------------------------------------------------------------------------
(* What the handlers do to those fields.                                   *)

Kept(n, m) == m.failures = n.failures /\ m.overwritten = n.overwritten

LEMMA SetStateKept ==
  ASSUME NEW n \in Clients,
         NEW st \in {"Unconnected", "HostLookup", "Connecting", "Connected", "Closing", "Reconnecting"}
  PROVE  Kept(n, SetState(n, st))
<1>1. PICK b \in BOOLEAN : SetState(n, st) = [n EXCEPT !.state = st, !.expire = b]
  BY SetStateEffect
<1> QED
  BY <1>1 DEF Clients, Kept

LEMMA CloseKept ==
  ASSUME NEW n \in Clients
  PROVE  Kept(n, Close(n))
BY CloseEffect DEF Clients, Kept

LEMMA LoginKept ==
  ASSUME NEW n \in Clients, NEW written \in BOOLEAN
  PROVE  Kept(n, Login(n, written))
<1>1. Kept(n, [n EXCEPT !.login = "sent", !.expire = FALSE])
  BY DEF Clients, Kept
<1> QED
  BY <1>1, CloseKept, Zenon DEF Login

LEMMA OnConnectKept ==
  ASSUME NEW n \in Clients, NEW tls, NEW written \in BOOLEAN
  PROVE  Kept(n, OnConnect(n, tls, written))
<1> DEFINE m == [n EXCEPT !.sock = "open"]
           k == SetState(m, "Connected")
<1>1. m \in Clients /\ Kept(n, m)
  BY DEF Clients, Kept
<1> HIDE DEF m
<1>2. k \in Clients /\ Kept(m, k)
  BY <1>1, SetStateFacts, SetStateKept, Zenon
<1>3. OnConnect(n, tls, written) = IF tls THEN [k EXCEPT !.expire = TRUE] ELSE Login(k, written)
  BY Zenon DEF OnConnect, m
<1> HIDE DEF k
<1>4. Kept(k, [k EXCEPT !.expire = TRUE]) /\ Kept(k, Login(k, written))
  BY <1>2, LoginKept DEF Clients, Kept
<1> QED
  BY <1>1, <1>2, <1>3, <1>4, Zenon DEF Kept

LEMMA DisconnectKept ==
  ASSUME NEW n \in Clients
  PROVE  Disconnect(n).failures = Disconnected /\ Disconnect(n).overwritten = n.overwritten
<1> DEFINE m == [n EXCEPT !.expire = FALSE, !.failures = Disconnected]
<1>0. Disconnected \in Int
  BY DEF Disconnected
<1>1. m \in Clients /\ m.failures = Disconnected /\ m.overwritten = n.overwritten
  BY <1>0 DEF Clients
<1>2. Disconnect(n) = Close(m)
  BY Zenon DEF Disconnect
<1> HIDE DEF m
<1> QED
  BY <1>1, <1>2, CloseKept, Zenon DEF Kept

LEMMA ResolveKept ==
  ASSUME NEW n \in Clients
  PROVE  /\ Resolve(n).failures = (IF n.failures = Disconnected THEN 0 ELSE n.failures)
         /\ Resolve(n).overwritten = n.overwritten
<1> DEFINE m == SetState(n, "HostLookup")
<1>1. m \in Clients /\ Kept(n, m)
  BY SetStateFacts, SetStateKept
<1> HIDE DEF m
<1>2. Resolve(n) = [m EXCEPT !.lookup = TRUE, !.again = @ \/ n.sock # "none",
                             !.failures = IF @ = Disconnected THEN 0 ELSE @]
  BY Zenon DEF Resolve, m
<1> QED
  BY <1>1, <1>2 DEF Kept, Clients

LEMMA OpenKept ==
  ASSUME NEW n \in Clients
  PROVE  Open(n).failures = n.failures /\ Open(n).overwritten = (n.sock # "none")
<1> DEFINE m == SetState(n, "Connecting")
<1>1. m \in Clients /\ Kept(n, m)
  BY SetStateFacts, SetStateKept
<1> HIDE DEF m
<1>2. Open(n) = [m EXCEPT !.sock = "connecting", !.login = "no",
                          !.lookup = FALSE, !.overwritten = n.sock # "none"]
  BY Zenon DEF Open, m
<1> QED
  BY <1>1, <1>2 DEF Kept, Clients

LEMMA OnClosedKept ==
  ASSUME NEW n \in Clients
  PROVE  Kept(n, OnClosed(n))
<1> DEFINE m == SetState(n, "Unconnected")
<1>1. m \in Clients /\ Kept(n, m)
  BY SetStateFacts, SetStateKept
<1> HIDE DEF m
<1>2. OnClosed(n) = [m EXCEPT !.sock = "none"]
  BY Zenon DEF OnClosed, m
<1> QED
  BY <1>1, <1>2 DEF Kept, Clients

LEMMA ReconnectingKept ==
  ASSUME NEW n \in Clients
  PROVE  Reconnecting(n).failures = OneMore(n.failures) /\ Reconnecting(n).overwritten = n.overwritten
<1> DEFINE m == SetState(n, "Reconnecting")
<1>1. m \in Clients /\ Kept(n, m)
  BY SetStateFacts, SetStateKept
<1> HIDE DEF m
<1>2. Reconnecting(n) = [m EXCEPT !.failures = OneMore(@)]
  BY Zenon DEF Reconnecting, m
<1> QED
  BY <1>1, <1>2 DEF Kept, Clients

LEMMA OneMoreFacts ==
  ASSUME NEW f \in Int, f >= Disconnected
  PROVE  OneMore(f) \in Int /\ OneMore(f) >= 0 /\ (f # Disconnected => OneMore(f) >= 1)
BY RetriesAssumption DEF OneMore, Disconnected

-----------------------------------------------------------------------------
(* The handlers of a stratum client leave it fitting.                      *)

LEMMA CloseFits ==
  ASSUME NEW p \in Stratum, NEW n \in Clients, NEW a, Fits(a, p, n), NEW chk, StratumOK(n, chk)
  PROVE  Fits(a, p, Close(n))
<1> DEFINE m == Close(n)
<1>1. /\ \/ n.sock # "none" /\ m.sock = "closing"
         \/ m.state = n.state /\ m.sock = n.sock
      /\ m.login = n.login /\ m.again = n.again
  BY CloseFacts
<1>2. m.failures = n.failures /\ m.overwritten = n.overwritten
  BY CloseKept DEF Kept
<1>3. n.sock \in {"none", "connecting", "open", "dead", "closing"}
  BY DEF Clients
<1> HIDE DEF m
<1>4. LoggedOn(p, m) => LoggedOn(p, n)
  BY <1>1, <1>2, <1>3 DEF LoggedOn, Stratum, StratumOK, Fits, FieldsOK
<1>5. LoggedOn(p, n) => LoggedOn(p, m)
  BY <1>1, <1>2 DEF LoggedOn, Stratum
<1>6. FieldsOK(m)
  BY <1>1, <1>2 DEF Fits, FieldsOK
<1> QED
  BY <1>1, <1>2, <1>4, <1>5, <1>6 DEF Fits, m

LEMMA RefusedFits ==
  ASSUME NEW p \in Stratum, NEW n \in Clients, NEW a, Fits(a, p, n), NEW chk, StratumOK(n, chk)
  PROVE  /\ Fits(a, p, Close([n EXCEPT !.login = IF @ = "sent" THEN "refused" ELSE @]))
         /\ \A id, critical : Fits(a, p, OnError(n, id, critical))
<1> DEFINE r == [n EXCEPT !.login = IF @ = "sent" THEN "refused" ELSE @]
<1>1. /\ r \in Clients /\ r.state = n.state /\ r.sock = n.sock /\ r.again = n.again
      /\ r.login = (IF n.login = "sent" THEN "refused" ELSE n.login)
      /\ r.reqs = n.reqs /\ r.listener = n.listener /\ r.alive = n.alive /\ r.lookup = n.lookup
  BY RefusedFacts, Zenon
<1>2. Kept(n, r)
  BY DEF Kept, Clients
<1> HIDE DEF r
<1>3. Fits(a, p, r) /\ StratumOK(r, chk)
  BY <1>1, <1>2 DEF Fits, FieldsOK, LoggedOn, Stratum, Kept, StratumOK, Tidy
<1>4. Fits(a, p, Close(r))
  BY <1>1, <1>3, CloseFits
<1>5. \A id, critical : OnError(n, id, critical) = IF id = 1 \/ critical THEN Close(r) ELSE r
  BY Zenon DEF OnError, r
<1>6. \A id, critical : Fits(a, p, OnError(n, id, critical))
  BY <1>3, <1>4, <1>5, Zenon
<1> QED
  BY <1>4, <1>6 DEF r

LEMMA OnConnectFits ==
  ASSUME NEW p \in Stratum, NEW n \in Clients, NEW a, Fits(a, p, n), NEW chk, StratumOK(n, chk),
         n.sock = "connecting", NEW tls, NEW written \in BOOLEAN
  PROVE  Fits(a, p, OnConnect(n, tls, written)) /\ Fits(a, p, OnConnectFailed(n))
<1>1. n.login = "no" /\ n.sock # "none"
  BY DEF StratumOK
<1>2. Fits(a, p, OnConnect(n, tls, written))
  BY <1>1, OnConnectFacts, OnConnectKept DEF Fits, FieldsOK, LoggedOn, Stratum, Kept
<1>3. Kept(n, OnConnectFailed(n))
  <2>1. Kept(n, [n EXCEPT !.sock = "dead"])
    BY DEF Kept, Clients
  <2> QED
    BY <2>1, CloseKept, Zenon DEF OnConnectFailed
<1>4. Fits(a, p, OnConnectFailed(n))
  BY <1>1, <1>3, OnConnectFailedFacts DEF Fits, FieldsOK, LoggedOn, Stratum, Kept
<1> QED
  BY <1>2, <1>4

LEMMA LoginFits ==
  ASSUME NEW p \in Stratum, NEW n \in Clients, NEW a, Fits(a, p, n), n.login = "no",
         n.sock # "none", NEW written \in BOOLEAN
  PROVE  Fits(a, p, Login(n, written))
BY LoginFacts, LoginKept DEF Fits, FieldsOK, LoggedOn, Stratum, Kept

\* A client that connects while it is logged on is one that holds a socket.
LEMMA ResolveFits ==
  ASSUME NEW p \in Stratum, NEW n \in Clients, NEW a, Fits(a, p, n)
  PROVE  Fits(a, p, Resolve(n)) /\ Resolve(n).overwritten = n.overwritten
<1>1. Resolve(n).again <=> n.again \/ n.sock # "none"
  BY ResolveFacts, Zenon
<1>2. Resolve(n).sock = n.sock /\ Resolve(n).login = n.login
  BY ResolveFacts
<1>3. /\ Resolve(n).failures = (IF n.failures = Disconnected THEN 0 ELSE n.failures)
      /\ Resolve(n).overwritten = n.overwritten
  BY ResolveKept
<1>4. LoggedOn(p, Resolve(n)) => Resolve(n).again
  BY <1>1, <1>2 DEF LoggedOn, Stratum
<1>5. LoggedOn(p, n) => LoggedOn(p, Resolve(n))
  BY <1>2, <1>3 DEF LoggedOn, Stratum, Disconnected
<1>6. FieldsOK(Resolve(n))
  BY <1>2, <1>3 DEF Fits, FieldsOK, Disconnected
<1> QED
  BY <1>3, <1>4, <1>5, <1>6 DEF Fits

LEMMA OpenFits ==
  ASSUME NEW p \in Stratum, NEW n \in Clients, NEW a, Fits(a, p, n)
  PROVE  Fits(a, p, Open(n)) /\ (n.overwritten => Open(n).overwritten)
<1>1. Open(n).overwritten <=> n.sock # "none"
  BY OpenKept, Zenon
<1> QED
  BY <1>1, OpenFacts, OpenKept DEF Fits, FieldsOK, LoggedOn, Stratum

LEMMA ToldFits ==
  ASSUME NEW p, NEW n \in Clients, NEW a, Fits(a, p, n)
  PROVE  LET r == [n EXCEPT !.lookup = FALSE] IN Fits(a, p, r) /\ r.overwritten = n.overwritten
<1> DEFINE r == [n EXCEPT !.lookup = FALSE]
<1>1. r.state = n.state /\ r.sock = n.sock /\ r.again = n.again /\ r.login = n.login
  BY ToldFacts, Zenon
<1>2. Kept(n, r)
  BY DEF Kept, Clients
<1> HIDE DEF r
<1>3. Fits(a, p, r) /\ r.overwritten = n.overwritten
  BY <1>1, <1>2 DEF Fits, FieldsOK, LoggedOn, Kept
<1> QED
  BY <1>3 DEF r

\* A client that has been let go is not logged on, nor is one that retries.
LEMMA DisconnectFits ==
  ASSUME NEW p \in Stratum, NEW n \in Clients, FieldsOK(n), NEW a, a # p
  PROVE  Fits(a, p, Disconnect(n))
BY DisconnectEffect, DisconnectKept DEF Fits, FieldsOK, LoggedOn, Disconnected, Clients

LEMMA ReconnectingFits ==
  ASSUME NEW p \in Stratum, NEW n \in Clients, FieldsOK(n), n.failures # Disconnected
  PROVE  LET m == Reconnecting(n)
         IN  FieldsOK(m) /\ ~LoggedOn(p, m) /\ m.failures # Disconnected /\ m.overwritten = n.overwritten
<1>1. /\ Reconnecting(n).failures = OneMore(n.failures) /\ Reconnecting(n).sock = n.sock
      /\ Reconnecting(n).overwritten = n.overwritten
  BY ReconnectingFacts, ReconnectingKept
<1>2. OneMore(n.failures) \in Int /\ OneMore(n.failures) >= 1
  BY OneMoreFacts DEF FieldsOK, Clients
<1> QED
  BY <1>1, <1>2 DEF FieldsOK, LoggedOn, Disconnected

LEMMA OnClosedFits ==
  ASSUME NEW p \in Stratum, NEW n \in Clients, FieldsOK(n), ~n.overwritten
  PROVE  FieldsOK(OnClosed(n)) /\ ~LoggedOn(p, OnClosed(n)) /\ OnClosed(n).failures = n.failures
BY OnClosedFacts, OnClosedKept DEF FieldsOK, LoggedOn, Kept, Stratum

LEMMA LoggedInFits ==
  ASSUME NEW p \in Stratum, NEW n \in Clients, FieldsOK(n), n.sock \in {"open", "closing"}
  PROVE  FieldsOK(LoggedIn(n)) /\ LoggedOn(p, LoggedIn(n))
<1>1. LoggedIn(n).failures = 0 /\ LoggedIn(n).overwritten = n.overwritten
  BY DEF LoggedIn, Clients
<1> QED
  BY <1>1, LoggedInFacts DEF FieldsOK, LoggedOn, Stratum, Disconnected

-----------------------------------------------------------------------------
(* The handlers of a daemon's client.                                      *)

\* What a daemon's client is judged by is as before.
Alike(n, m) ==
  /\ m.state = n.state /\ m.failures = n.failures /\ m.overwritten = n.overwritten
  /\ m.sock = n.sock /\ m.again = n.again

LEMMA AlikeFits ==
  ASSUME NEW p \in Pools \ Stratum, kind[p] = "daemon", NEW n, NEW m, NEW a,
         Fits(a, p, n), Alike(n, m)
  PROVE  Fits(a, p, m)
BY DEF Fits, FieldsOK, LoggedOn, Alike

LEMMA FetchAlike ==
  ASSUME NEW n \in Clients, NEW k, NEW t
  PROVE  Alike(n, Fetch(n, k, t))
<1> DEFINE e == n.reqs \cup {[kind |-> k, from |-> t]}
<1>1. Fetch(n, k, t) = [n EXCEPT !.reqs = e]
  BY Zenon DEF Fetch
<1> HIDE DEF e
<1> QED
  BY <1>1 DEF Clients, Alike

LEMMA AnsweredAlike ==
  ASSUME NEW n \in Clients, NEW q
  PROVE  Alike(n, [n EXCEPT !.reqs = @ \ {q}])
<1> DEFINE e == n.reqs \ {q}
<1>1. Alike(n, [n EXCEPT !.reqs = e])
  <2> HIDE DEF e
  <2> QED
    BY DEF Clients, Alike
<1> QED
  BY <1>1, Zenon

LEMMA OnHeightAlike ==
  ASSUME NEW n \in Clients, NEW seen \in Int, NEW t
  PROVE  Alike(n, OnHeight(n, seen, t))
<1> DEFINE r == [n EXCEPT !.asked = seen]
<1>1. r \in Clients /\ Alike(n, r)
  BY DEF Clients, Alike
<1>2. OnHeight(n, seen, t) = IF n.job # seen /\ n.asked # seen THEN Fetch(r, "template", t) ELSE n
  BY Zenon DEF OnHeight
<1> HIDE DEF r
<1>3. Alike(r, Fetch(r, "template", t))
  BY <1>1, FetchAlike
<1> QED
  BY <1>1, <1>2, <1>3, Zenon DEF Alike

\* The client is not connected, and its strategy has it tried.
LEMMA DaemonConnectFits ==
  ASSUME NEW p \in Pools \ Stratum, kind[p] = "daemon", NEW n \in Clients, NEW a, NEW t,
         Fits(a, p, n), n.state # "Connected" \/ a # p
  PROVE  Fits(a, p, DaemonConnect(n, t)) /\ DaemonConnect(n, t).overwritten = n.overwritten
<1> DEFINE m == [n EXCEPT !.state = "Connecting"]
<1>1. /\ m \in Clients /\ m.state = "Connecting" /\ m.failures = n.failures
      /\ m.overwritten = n.overwritten /\ m.sock = n.sock /\ m.again = n.again
  BY DEF Clients
<1>2. DaemonConnect(n, t) = Fetch(m, "template", t)
  BY Zenon DEF DaemonConnect
<1> HIDE DEF m
<1>3. Fits(a, p, m)
  BY <1>1 DEF Fits, FieldsOK, LoggedOn
<1>4. Alike(m, Fetch(m, "template", t))
  BY <1>1, FetchAlike
<1> QED
  BY <1>1, <1>2, <1>3, <1>4, AlikeFits DEF Alike

LEMMA DaemonTimerFits ==
  ASSUME NEW p \in Pools \ Stratum, kind[p] = "daemon", NEW n \in Clients, NEW a, NEW t,
         NEW old \in BOOLEAN, Fits(a, p, n)
  PROVE  Fits(a, p, DaemonTimer(n, old, t))
<1> DEFINE j == IF old THEN 0 ELSE n.job
           k == IF old THEN 0 ELSE n.asked
           r == [n EXCEPT !.expire = n.polls, !.job = j, !.asked = k]
<1>1. j \in Int /\ k \in Int /\ n.polls \in BOOLEAN
  BY DEF Clients
<1>2. DaemonTimer(n, old, t) = CASE n.state = "Connecting" -> DaemonConnect(r, t)
                                 [] n.state = "Connected" -> Fetch(r, "height", t)
                                 [] OTHER -> r
  BY Zenon DEF DaemonTimer
<1> HIDE DEF j, k
<1>3. r \in Clients /\ Alike(n, r)
  BY <1>1 DEF Clients, Alike
<1> HIDE DEF r
<1>4. Fits(a, p, r) /\ r.state = n.state
  BY <1>3, AlikeFits DEF Alike
<1>5. Fits(a, p, Fetch(r, "height", t))
  BY <1>3, <1>4, FetchAlike, AlikeFits
<1>6. n.state = "Connecting" => Fits(a, p, DaemonConnect(r, t))
  <2> SUFFICES ASSUME n.state = "Connecting" PROVE Fits(a, p, DaemonConnect(r, t))
    OBVIOUS
  <2>1. r.state # "Connected"
    BY <1>4
  <2> QED
    BY <1>3, <1>4, <2>1, DaemonConnectFits
<1> QED
  BY <1>2, <1>4, <1>5, <1>6

\* A template makes a client that connects log on.
LEMMA OnTemplateFits ==
  ASSUME NEW p \in Pools \ Stratum, kind[p] = "daemon", NEW n \in Clients, NEW a,
         NEW seen \in Int, Fits(a, p, n)
  PROVE  IF n.state = "Connecting"
         THEN FieldsOK(OnTemplate(n, seen)) /\ LoggedOn(p, OnTemplate(n, seen))
         ELSE Fits(a, p, OnTemplate(n, seen))
<1>1. CASE n.state = "Connecting"
  <2> DEFINE z == 0
             r == [n EXCEPT !.job = seen, !.state = "Connected", !.failures = z,
                            !.expire = TRUE, !.polls = TRUE]
  <2>1. OnTemplate(n, seen) = r
    BY <1>1, Zenon DEF OnTemplate
  <2> HIDE DEF z
  <2>2. r.state = "Connected" /\ r.failures = z /\ r.overwritten = n.overwritten /\ r.sock = n.sock
    BY DEF Clients
  <2> HIDE DEF r
  <2>3. r.failures = 0
    BY <2>2 DEF z
  <2> QED
    BY <1>1, <2>1, <2>2, <2>3 DEF Fits, FieldsOK, LoggedOn, Disconnected
<1>2. CASE n.state # "Connecting"
  <2>1. OnTemplate(n, seen) = [n EXCEPT !.job = seen]
    BY <1>2, Zenon DEF OnTemplate
  <2>2. Alike(n, [n EXCEPT !.job = seen])
    BY DEF Alike, Clients
  <2> QED
    BY <1>2, <2>1, <2>2, AlikeFits
<1> QED
  BY <1>1, <1>2

LEMMA DaemonRetryFits ==
  ASSUME NEW p \in Pools \ Stratum, kind[p] = "daemon", NEW n \in Clients, FieldsOK(n)
  PROVE  LET m == DaemonRetry(n)
         IN  FieldsOK(m) /\ ~LoggedOn(p, m) /\ m.failures # Disconnected
<1> DEFINE f == OneMore(n.failures)
           st == IF n.state = "Connected" THEN "Connecting" ELSE n.state
           m == [n EXCEPT !.failures = f, !.expire = TRUE, !.polls = FALSE, !.state = st]
<1>1. DaemonRetry(n) = m
  BY Zenon DEF DaemonRetry
<1>2. f \in Int /\ f >= 0 /\ st # "Connected"
  BY OneMoreFacts DEF FieldsOK, Clients
<1> HIDE DEF f, st
<1>3. m.failures = f /\ m.state = st /\ m.overwritten = n.overwritten /\ m.sock = n.sock
  BY DEF Clients
<1> HIDE DEF m
<1> QED
  BY <1>1, <1>2, <1>3 DEF FieldsOK, LoggedOn, Disconnected

LEMMA DaemonDisconnectFits ==
  ASSUME NEW p \in Pools \ Stratum, kind[p] = "daemon", NEW n \in Clients, FieldsOK(n), NEW a, a # p
  PROVE  Fits(a, p, DaemonDisconnect(n))
<1> DEFINE v == Disconnected
           m == [n EXCEPT !.state = "Unconnected", !.failures = v,
                          !.expire = FALSE, !.polls = FALSE]
<1>1. DaemonDisconnect(n) = IF n.state = "Unconnected" THEN n ELSE m
  BY Zenon DEF DaemonDisconnect
<1> HIDE DEF v
<1>2. m.failures = v /\ m.state = "Unconnected" /\ m.overwritten = n.overwritten /\ m.sock = n.sock
  BY DEF Clients
<1> HIDE DEF m
<1>3. m.failures >= Disconnected
  BY <1>2 DEF v, Disconnected
<1> QED
  BY <1>1, <1>2, <1>3 DEF Fits, FieldsOK, LoggedOn

-----------------------------------------------------------------------------
(* The strategies' calls leave a state whose clients fit.                  *)

\* All but the client of the pool p fit.
Rest(s, p) == IndexOK(s) /\ \A q \in Pools \ {p} : Fits(s.active, q, s.c[q])

\* t comes after s: no pool has been made active, and what is overwritten stays so.
Follows(s, t) ==
  /\ ChoiceOK(t) /\ t.active \in {s.active, None}
  /\ \A q \in Pools : s.c[q].overwritten => t.c[q].overwritten

LEMMA DaemonKind ==
  ASSUME ConfigOK, NEW p \in Pools \ Stratum
  PROVE  kind[p] = "daemon"
BY DEF ConfigOK, Stratum

LEMMA ChoiceFrame ==
  ASSUME NEW s, NEW t, ChoiceOK(s), t.c = s.c, t.active = s.active, t.index = s.index
  PROVE  Follows(s, t)
BY Zenon DEF ChoiceOK, IndexOK, Follows

LEMMA OneFits ==
  ASSUME NEW s \in States, NEW t, NEW p \in Pools, NEW n,
         t.c = [s.c EXCEPT ![p] = n], Same(s, t), Rest(s, p), Fits(s.active, p, n),
         s.c[p].overwritten => n.overwritten
  PROVE  Follows(s, t)
<1>1. \A q \in Pools : t.c[q] = IF q = p THEN n ELSE s.c[q]
  BY DEF States
<1>2. t.active = s.active /\ t.index = s.index
  BY DEF Same
<1>3. \A q \in Pools : Fits(t.active, q, t.c[q])
  BY <1>1, <1>2, Zenon DEF Rest
<1>4. IndexOK(t)
  BY <1>2, Zenon DEF Rest, IndexOK
<1> QED
  BY <1>1, <1>2, <1>3, <1>4 DEF ChoiceOK, Follows

LEMMA RestFits ==
  ASSUME NEW s, NEW p \in Pools
  PROVE  /\ ChoiceOK(s) => Rest(s, p) /\ Fits(s.active, p, s.c[p]) /\ FieldsOK(s.c[p])
         /\ Rest(s, p) /\ Fits(s.active, p, s.c[p]) => Follows(s, s)
<1>1. ChoiceOK(s) => Rest(s, p) /\ Fits(s.active, p, s.c[p])
  BY Zenon DEF ChoiceOK, Rest
<1>2. Fits(s.active, p, s.c[p]) => FieldsOK(s.c[p])
  BY Zenon DEF Fits
<1>3. Rest(s, p) /\ Fits(s.active, p, s.c[p]) => ChoiceOK(s)
  BY DEF ChoiceOK, Rest
<1>4. ChoiceOK(s) => Follows(s, s)
  BY ChoiceFrame
<1> QED
  BY <1>1, <1>2, <1>3, <1>4

LEMMA FollowsTwice ==
  ASSUME NEW s, NEW t, NEW u, Follows(t, u), t.active \in {s.active, None},
         \A q \in Pools : s.c[q].overwritten => t.c[q].overwritten
  PROVE  Follows(s, u)
BY DEF Follows

LEMMA ConnectChoice ==
  ASSUME ConfigOK, tip \in Int, NEW s \in States, NEW del, NEW chk, NEW noted,
         NetOK(s, del, chk, noted), NEW p \in Pools, MayConnect(s, p, del, noted),
         ChoiceOK(s), kind[p] = "daemon" => s.c[p].state # "Connected" \/ s.active # p
  PROVE  Follows(s, Connect(s, p))
<1>1. s.c[p] \in Clients /\ ClientOK(p, s.c[p], del, chk = p, noted)
  BY DEF States, NetOK
<1>0. Rest(s, p) /\ Fits(s.active, p, s.c[p])
  BY RestFits
<1>2. CASE kind[p] = "daemon"
  <2> DEFINE n == DaemonConnect(s.c[p], tip)
             t == [s EXCEPT !.c[p] = n]
  <2>1. p \in Pools \ Stratum
    BY <1>2 DEF Stratum
  <2>2. Keeps(p, s.c[p], n, del, chk = p, noted)
    BY <1>1, <2>1, DaemonConnectKeeps DEF MayConnect
  <2>3. Connect(s, p) = t
    BY <1>2, Zenon DEF Connect
  <2>4. Fits(s.active, p, n) /\ n.overwritten = s.c[p].overwritten
    BY <1>0, <1>1, <1>2, <2>1, DaemonConnectFits
  <2> HIDE DEF n
  <2>5. t.c = [s.c EXCEPT ![p] = n] /\ Same(s, t)
    BY <2>2, SetNet
  <2> HIDE DEF t
  <2>6. Follows(s, t)
    BY <1>0, <2>4, <2>5, OneFits
  <2> QED
    BY <2>3, <2>6, Zenon
<1>3. CASE kind[p] # "daemon"
  <2> DEFINE n == Resolve(s.c[p])
             t == [s EXCEPT !.c[p] = n]
  <2>1. p \in Stratum /\ kind[p] = "pool"
    BY <1>3 DEF Stratum, ConfigOK
  <2>2. s.c[p].listener
    BY <1>1, <2>1 DEF ClientOK, MayConnect
  <2>3. Keeps(p, s.c[p], n, del, chk = p, noted)
    BY <1>1, <2>1, <2>2, ResolveKeeps DEF MayConnect
  <2>4. Connect(s, p) = Lookup(t, p)
    BY <1>3, Zenon DEF Connect
  <2>5. Fits(s.active, p, n) /\ n.overwritten = s.c[p].overwritten
    BY <1>0, <1>1, <2>1, ResolveFits
  <2> HIDE DEF n
  <2>6. t \in States /\ t.c = [s.c EXCEPT ![p] = n] /\ Same(s, t)
    BY <2>3, SetNet
  <2> HIDE DEF t
  <2>7. Follows(s, t)
    BY <1>0, <2>5, <2>6, OneFits
  <2>8. Aside(t, Lookup(t, p))
    BY <2>6, LookupFacts
  <2>9. Follows(t, Lookup(t, p))
    BY <2>7, <2>8, ChoiceFrame, Zenon DEF Follows, Aside
  <2> QED
    BY <2>4, <2>7, <2>9, FollowsTwice, Zenon DEF Follows
<1> QED
  BY <1>2, <1>3

\* The active client is given up once it is not logged on any more.
LEMMA PauseChoice ==
  ASSUME NEW s \in States, NEW p \in Pools, s.active = p, Rest(s, p),
         FieldsOK(s.c[p]), ~LoggedOn(p, s.c[p])
  PROVE  Follows(s, Pause(s)) /\ Pause(s).active = None
         /\ Pause(s).c = s.c /\ Pause(s).index = s.index
<1> DEFINE t == [s EXCEPT !.active = None, !.work = None]
<1>1. t.c = s.c /\ t.index = s.index /\ t.active = None
  BY DEF States
<1>2. Pause(s) = t
  BY Zenon DEF Pause
<1> HIDE DEF t
<1>3. \A q \in Pools : None # q
  BY DEF None, Pools
<1>4. \A q \in Pools : Fits(None, q, s.c[q])
  BY <1>3 DEF Rest, Fits
<1>5. ChoiceOK(t)
  BY <1>1, <1>4, Zenon DEF ChoiceOK, IndexOK
<1> QED
  BY <1>1, <1>2, <1>5, Zenon DEF Follows

\* The client p has failed, or has been let go before.
LEMMA OnCloseChoice ==
  ASSUME ConfigOK, tip \in Int, NEW s \in States, NEW del, NEW chk, NEW noted,
         NetOK(s, del, chk, noted), NEW p \in Pools, NEW failures,
         ~Dropped(p, del), MayPause(s, p, del, chk, noted),
         Rest(s, p), FieldsOK(s.c[p]), ~LoggedOn(p, s.c[p]),
         failures # Disconnected \/ Single \/ s.active # p
  PROVE  Follows(s, OnClose(s, p, failures))
<1> DEFINE t == IF s.active = p THEN Pause(s) ELSE s
           u == [t EXCEPT !.index = p + 1]
<1>1. t \in States /\ NetOK(t, del, chk, noted)
  BY PauseNet
<1>2. p + 1 \in Nat
  BY LastPoolAssumption DEF Pools
<1>3. Follows(s, t) /\ t.index = s.index /\ t.active # p /\ (s.active # p => t = s)
  <2>1. CASE s.active = p
    <3>1. None # p
      BY DEF None, Pools
    <3> QED
      BY <2>1, <3>1, PauseChoice
  <2>2. CASE s.active # p
    <3>1. Fits(s.active, p, s.c[p])
      BY <2>2 DEF Fits
    <3> QED
      BY <2>2, <3>1, RestFits
  <2> QED
    BY <2>1, <2>2
<1>4. \/ OnClose(s, p, failures) = t
      \/ OnClose(s, p, failures) = s /\ failures = Disconnected /\ ~Single
      \/ p < last /\ OnClose(s, p, failures) = Connect(u, p + 1) /\ t.index = p /\ ~Single
  BY DEF OnClose
<1> HIDE DEF t
<1>5. /\ u \in States /\ NetOK(u, del, chk, noted)
  BY <1>1, <1>2, IndexNet, Zenon
<1>6. u.c = t.c /\ u.active = t.active
  BY <1>1 DEF States
<1> HIDE DEF u
<1>7. ASSUME p < last, t.index = p, ~Single PROVE Follows(s, Connect(u, p + 1))
  <2>1. p + 1 \in Pools /\ p + 1 # 0
    BY <1>7, LastPoolAssumption DEF Pools, ConfigOK
  <2>2. p \in Used
    BY <1>7, LastPoolAssumption DEF Used, Pools, ConfigOK
  <2>3. MayConnect(u, p + 1, del, noted)
    BY <2>1, <2>2 DEF MayConnect, Dropped
  <2>4. t.active = None
    BY <1>3, <1>7 DEF Follows, ChoiceOK, IndexOK
  <2>5. ChoiceOK(u)
    BY <1>3, <1>6, <2>4, Zenon DEF Follows, ChoiceOK, IndexOK
  <2>6. u.active # p + 1
    BY <1>2, <1>6, <2>4 DEF None
  <2> HIDE DEF MayConnect
  <2>7. Follows(u, Connect(u, p + 1))
    BY <1>5, <2>1, <2>3, <2>5, <2>6, ConnectChoice
  <2> QED
    BY <1>3, <1>6, <2>7, FollowsTwice, Zenon DEF Follows
<1>8. CASE OnClose(s, p, failures) = s /\ failures = Disconnected /\ ~Single
  BY <1>3, <1>8
<1> QED
  BY <1>3, <1>4, <1>7, <1>8

LEMMA ReconnectChoice ==
  ASSUME ConfigOK, tip \in Int, NEW s \in States, NEW del, NEW chk, NEW noted,
         NetOK(s, del, chk, noted), NEW p \in Stratum, s.c[p].listener,
         p = 0 => noted \/ s.c[p].sock = "none",
         Rest(s, p), FieldsOK(s.c[p]),
         s.c[p].failures = Disconnected => Fits(s.active, p, s.c[p])
  PROVE  Follows(s, Reconnect(s, p))
<1>1. p \in Pools /\ s.c[p] \in Clients /\ ClientOK(p, s.c[p], del, chk = p, noted)
  BY DEF States, NetOK, Stratum
<1>2. ~Dropped(p, del)
  BY <1>1 DEF ClientOK, Stratum
<1>3. CASE s.c[p].failures = Disconnected
  <2>1. Reconnect(s, p) = OnClose(s, p, Disconnected)
    BY <1>3 DEF Reconnect
  <2>2. CASE Single
    <3>1. MayPause(s, p, del, chk, noted)
      BY <2>2 DEF MayPause, Gives, Stratum
    <3>2. ~LoggedOn(p, s.c[p])
      BY <1>3 DEF LoggedOn, Disconnected
    <3> HIDE DEF MayPause
    <3> QED
      BY <1>1, <1>2, <2>1, <2>2, <3>1, <3>2, OnCloseChoice
  <2>3. CASE ~Single
    <3>1. Reconnect(s, p) = s
      BY <2>1, <2>3 DEF OnClose
    <3> QED
      BY <1>1, <1>3, <3>1, RestFits
  <2> QED
    BY <2>2, <2>3
<1>4. CASE s.c[p].failures # Disconnected
  <2> DEFINE n == Reconnecting(s.c[p])
             t == With(s, p, n)
  <2>1. Reconnect(s, p) = OnClose(t, p, t.c[p].failures)
    BY <1>4 DEF Reconnect
  <2>2. n.state = "Reconnecting" /\ n.sock = s.c[p].sock
    BY <1>1, ReconnectingFacts
  <2>3. Keeps(p, s.c[p], n, del, chk = p, noted)
    BY <1>1, ReconnectingKeeps
  <2>9. /\ FieldsOK(n) /\ ~LoggedOn(p, n) /\ n.failures # Disconnected
        /\ n.overwritten = s.c[p].overwritten
    BY <1>1, <1>4, ReconnectingFits, Zenon
  <2> HIDE DEF n
  <2>8. p \in Pools
    BY <1>1
  <2>4. t \in States /\ t.c = [s.c EXCEPT ![p] = n] /\ NetOK(t, del, chk, noted) /\ Same(s, t)
    BY <2>3, <2>8, WithNet
  <2>5. t.c[p] = n /\ \A q \in Pools \ {p} : t.c[q] = s.c[q]
    BY <1>1, <2>4 DEF States
  <2> HIDE DEF t
  <2>6. MayPause(t, p, del, chk, noted)
    BY <2>2, <2>5 DEF MayPause, Leads, Gives, Stratum
  <2>7. Rest(t, p) /\ t.active = s.active
    BY <2>4, <2>5 DEF Rest, Same, IndexOK
  <2> HIDE DEF MayPause
  <2>10. Follows(t, OnClose(t, p, t.c[p].failures))
    BY <1>2, <2>4, <2>5, <2>6, <2>7, <2>8, <2>9, OnCloseChoice
  <2>11. \A q \in Pools : s.c[q].overwritten => t.c[q].overwritten
    BY <2>5, <2>9
  <2> QED
    BY <2>1, <2>7, <2>10, <2>11, FollowsTwice
<1> QED
  BY <1>3, <1>4

LEMMA OnResolvedChoice ==
  ASSUME ConfigOK, tip \in Int, NEW s \in States, NEW del, NEW chk, NEW noted,
         NetOK(s, del, chk, noted), NEW p \in Pools, s.c[p].lookup, ~del, ChoiceOK(s)
  PROVE  Follows(s, OnResolved(s, p))
<1>1. p \in Pools /\ s.c[p] \in Clients /\ ClientOK(p, s.c[p], del, chk = p, noted)
  BY DEF States, NetOK, Stratum
<1>2. p \in Stratum /\ s.c[p].listener
  BY <1>1 DEF ClientOK, DaemonOK, Stratum, Dropped
<1>0. Rest(s, p) /\ Fits(s.active, p, s.c[p]) /\ FieldsOK(s.c[p])
  BY RestFits
<1>3. CASE s.dns[host[p]].result = "ok"
  <2> DEFINE n == Open(s.c[p])
             t == [s EXCEPT !.c[p] = n]
  <2>1. OnResolved(s, p) = t
    BY <1>2, <1>3, Zenon DEF OnResolved
  <2>2. Keeps(p, s.c[p], n, del, chk = p, noted)
    BY <1>1, <1>2, <1>3, OpenKeeps
  <2>3. Fits(s.active, p, n) /\ (s.c[p].overwritten => n.overwritten)
    BY <1>0, <1>1, <1>2, OpenFits
  <2> HIDE DEF n
  <2>4. t.c = [s.c EXCEPT ![p] = n] /\ Same(s, t)
    BY <2>2, SetNet
  <2> HIDE DEF t
  <2> QED
    BY <1>0, <2>1, <2>3, <2>4, OneFits
<1>4. CASE s.dns[host[p]].result # "ok"
  <2>1. OnResolved(s, p) = Reconnect(s, p)
    BY <1>4, Zenon DEF OnResolved
  <2>3. p = 0 => noted \/ s.c[p].sock = "none"
    BY <1>1, <1>2 DEF ClientOK, StratumOK, Tidy, FirstOK, Stratum
  <2> QED
    BY <1>0, <1>2, <2>1, <2>3, ReconnectChoice
<1> QED
  BY <1>3, <1>4

LEMMA FailDaemonChoice ==
  ASSUME ConfigOK, tip \in Int, NEW s \in States, NEW del, NEW chk, NEW noted,
         NetOK(s, del, chk, noted), NEW p \in Pools \ Stratum, ~Dropped(p, del), ChoiceOK(s)
  PROVE  ChoiceOK(FailDaemon(s, p)) /\ FailDaemon(s, p).active \in {s.active, None}
<1> DEFINE n == DaemonRetry(s.c[p])
           t == [s EXCEPT !.c[p] = n]
<1>1. s.c[p] \in Clients /\ ClientOK(p, s.c[p], del, chk = p, noted)
  BY DEF States, NetOK
<1>9. Rest(s, p) /\ FieldsOK(s.c[p])
  BY RestFits
<1>2. Keeps(p, s.c[p], n, del, chk = p, noted) /\ n.state # "Connected"
  BY <1>1, DaemonRetryKeeps
<1>3. FieldsOK(n) /\ ~LoggedOn(p, n) /\ n.failures # Disconnected
  BY <1>1, <1>9, DaemonKind, DaemonRetryFits, Zenon
<1>4. FailDaemon(s, p) = OnClose(t, p, t.c[p].failures)
  BY Zenon DEF FailDaemon
<1> HIDE DEF n
<1>0. p \in Pools
  OBVIOUS
<1>5. t \in States /\ t.c = [s.c EXCEPT ![p] = n] /\ NetOK(t, del, chk, noted) /\ Same(s, t)
  BY <1>0, <1>2, SetNet
<1>6. t.c[p] = n /\ \A q \in Pools \ {p} : t.c[q] = s.c[q]
  BY <1>5 DEF States
<1> HIDE DEF t
<1>7. MayPause(t, p, del, chk, noted)
  BY <1>2, <1>6 DEF MayPause, Leads, Gives, Stratum
<1>8. Rest(t, p) /\ t.active = s.active
  BY <1>5, <1>6, <1>9 DEF Rest, Same, IndexOK
<1> HIDE DEF MayPause
<1>10. Follows(t, OnClose(t, p, t.c[p].failures))
  BY <1>0, <1>3, <1>5, <1>6, <1>7, <1>8, OnCloseChoice
<1> QED
  BY <1>4, <1>8, <1>10 DEF Follows

-----------------------------------------------------------------------------
(* Who is made active when a pool logs on.                                 *)

\* From one active pool to another only the first one leads.
Handed(a, b) == a = b \/ a = None \/ b = None \/ (a > 0 /\ b = 0)

LEMMA DisconnectPoolsFields ==
  ASSUME ConfigOK, NEW s \in States, NEW del, NEW chk, NEW noted,
         \A q \in Pools : ClientOK(q, s.c[q], del, chk = q, noted),
         NEW which \in SUBSET Pools
  PROVE  \A q \in Pools :
           DisconnectPools(s, which).c[q]
             = IF q \notin which THEN s.c[q]
               ELSE IF kind[q] = "pool" THEN Disconnect(s.c[q]) ELSE DaemonDisconnect(s.c[q])
<1> DEFINE d == [q \in Pools |-> IF q \notin which THEN s.c[q]
                                 ELSE IF kind[q] = "pool" THEN Disconnect(s.c[q])
                                 ELSE DaemonDisconnect(s.c[q])]
           t == Changed(s, d)
<1>1. \A q \in Pools : s.c[q] \in Clients
  BY DEF States
<1>2. \A q \in Pools : d[q] = IF q \notin which THEN s.c[q]
                              ELSE IF kind[q] = "pool" THEN Disconnect(s.c[q])
                              ELSE DaemonDisconnect(s.c[q])
  OBVIOUS
<1>3. d = [q \in Pools |-> d[q]]
  OBVIOUS
<1>4. DisconnectPools(s, which) = t
  BY Zenon DEF DisconnectPools
<1> HIDE DEF d
<1>5. \A q \in Pools : d[q] \in Clients
  BY <1>1, <1>2, DisconnectEffect, DaemonDisconnectFacts
<1>6. \A q \in Pools \ Stratum : d[q].sock = "none"
  <2> SUFFICES ASSUME NEW q \in Pools \ Stratum PROVE d[q].sock = "none"
    OBVIOUS
  <2>1. s.c[q].sock = "none" /\ s.c[q] \in Clients
    BY <1>1, NoSocket
  <2>2. d[q] = s.c[q] \/ d[q] = DaemonDisconnect(s.c[q])
    BY <1>2 DEF Stratum
  <2> QED
    BY <2>1, <2>2, DaemonDisconnectFacts
<1>7. d \in [Pools -> Clients]
  BY <1>3, <1>5
<1>8. t.c = d
  BY <1>6, <1>7, ChangedFacts, Zenon
<1> HIDE DEF t
<1> QED
  BY <1>2, <1>4, <1>8

LEMMA LetGoFits ==
  ASSUME ConfigOK, NEW q \in Pools, NEW n \in Clients, FieldsOK(n), NEW a, a # q
  PROVE  Fits(a, q, IF kind[q] = "pool" THEN Disconnect(n) ELSE DaemonDisconnect(n))
<1>1. CASE kind[q] = "pool"
  <2>1. q \in Stratum
    BY <1>1 DEF Stratum
  <2> QED
    BY <1>1, <2>1, DisconnectFits
<1>2. CASE kind[q] # "pool"
  <2>1. q \in Pools \ Stratum /\ kind[q] = "daemon"
    BY <1>2, DaemonKind DEF Stratum
  <2> QED
    BY <1>2, <2>1, DaemonDisconnectFits
<1> QED
  BY <1>1, <1>2

\* The pool p has logged on and a is chosen: the first pool, one that found none
\* active, or the one that was. The other backups are let go.
LEMMA ChosenFits ==
  ASSUME ConfigOK, NEW s \in States, ChoiceOK(s),
         NEW p \in Used, NEW n \in Clients, LoggedOn(p, n), FieldsOK(n),
         NEW a, IF p = 0 \/ s.active = None THEN a = p ELSE a = s.active,
         NEW q \in Pools, NEW m, m = IF q = p THEN n ELSE s.c[q]
  PROVE  Fits(a, q, IF q \notin {i \in Used : i >= 1 /\ i # a} THEN m
                    ELSE IF kind[q] = "pool" THEN Disconnect(m) ELSE DaemonDisconnect(m))
<1>1. m \in Clients /\ FieldsOK(m)
  BY DEF States, ChoiceOK, Fits
<1>2. CASE q \in {i \in Used : i >= 1 /\ i # a}
  <2>1. a # q
    BY <1>2
  <2> QED
    BY <1>1, <1>2, <2>1, LetGoFits
<1>3. CASE q \notin {i \in Used : i >= 1 /\ i # a}
  <2>1. Fits(a, q, m)
    <3>1. CASE q = p
      <4>1. a = p
        <5>1. p = 0 \/ p >= 1
          BY LastPoolAssumption DEF Used, Pools
        <5> QED
          BY <1>3, <3>1, <5>1
      <4> QED
        BY <3>1, <4>1 DEF Fits
    <3>2. CASE q # p
      <4>1. m = s.c[q] /\ Fits(s.active, q, m) /\ s.active \in Used \cup {None}
        BY <3>2 DEF ChoiceOK, IndexOK
      <4>2. CASE a = s.active
        BY <4>1, <4>2
      <4>3. CASE a # s.active
        <5>1. a = p /\ (p = 0 \/ s.active = None)
          BY <4>3
        <5>2. s.active # q
          <6>1. q \notin Used \/ q = 0
            BY <1>3, <3>2, <5>1, LastPoolAssumption DEF Used, Pools
          <6>2. q # None
            BY DEF None, Pools
          <6> QED
            BY <3>2, <4>1, <5>1, <6>1, <6>2
        <5> QED
          BY <3>2, <4>1, <5>1, <5>2 DEF Fits
      <4> QED
        BY <4>2, <4>3
    <3> QED
      BY <3>1, <3>2
  <2> QED
    BY <1>3, <2>1
<1> QED
  BY <1>2, <1>3

LEMMA LoginChoice ==
  ASSUME ConfigOK, NEW s \in States, NEW del, NEW chk, NEW noted, NetOK(s, del, chk, noted),
         NEW p \in Used, NEW n \in Clients, ClientOK(p, n, del, chk = p, noted),
         ChoiceOK(s), LoggedOn(p, n), FieldsOK(n)
  PROVE  LET u == OnJob(OnLoginSuccess([s EXCEPT !.c[p] = n], p), p)
         IN  ChoiceOK(u) /\ Handed(s.active, u.active)
<1> DEFINE d == [s.c EXCEPT ![p] = n]
           t == [s EXCEPT !.c[p] = n]
           a == Chosen(t, p)
           r == OnLoginSuccess(t, p)
           u == OnJob(r, p)
<1>1. /\ p \in Pools /\ 0 \in Pools /\ s.c \in [Pools -> Clients]
      /\ \A q \in Pools : ClientOK(q, s.c[q], del, chk = q, noted)
      /\ IndexOK(s) /\ s.active \in Used \cup {None}
  BY LastPoolAssumption DEF States, NetOK, Used, Pools, ChoiceOK, IndexOK
<1>2. d \in [Pools -> Clients] /\ \A q \in Pools : d[q] = IF q = p THEN n ELSE s.c[q]
  BY <1>1
<1>3. t = [s EXCEPT !.c = d]
  BY Zenon
<1> HIDE DEF d
<1>4. /\ [s EXCEPT !.c = d] \in States /\ [s EXCEPT !.c = d].c = d
      /\ Same(s, [s EXCEPT !.c = d])
  BY <1>2, SetClients, Zenon
<1>5. t \in States /\ t.c = d /\ t.active = s.active /\ t.index = s.index
  BY <1>3, <1>4, Zenon DEF Same
<1> HIDE DEF t
<1>6. \A q \in Pools : ClientOK(q, t.c[q], del, chk = q, noted)
  BY <1>1, <1>2, <1>5
<1>7. IF p = 0 \/ s.active = None THEN a = p ELSE a = s.active
  BY <1>5 DEF Chosen
<1> HIDE DEF a
<1>8. a \in Used /\ Handed(s.active, a)
  BY <1>1, <1>7, LastPoolAssumption DEF Used, Pools, Handed, None
<1>9. ChoiceOK(r) /\ r.active = a /\ r \in States
  <2>1. CASE Single
    <3> DEFINE v == [t EXCEPT !.active = p]
    <3>1. v \in States /\ v.c = t.c /\ v.active = p /\ v.index = t.index
      BY <1>1, <1>5 DEF States
    <3>2. r = v
      BY <2>1, Zenon DEF OnLoginSuccess
    <3>3. p = 0 /\ a = 0
      BY <1>7, <2>1, LastPoolAssumption DEF Single, Used, Pools
    <3> HIDE DEF v, r
    <3>4. ASSUME NEW q \in Pools PROVE Fits(a, q, r.c[q])
      <4> DEFINE m == IF q = p THEN n ELSE s.c[q]
      <4>1. q \notin {i \in Used : i >= 1 /\ i # a}
        BY <2>1, LastPoolAssumption DEF Single, Used, Pools
      <4>2. r.c[q] = m
        BY <1>2, <1>5, <3>1, <3>2
      <4> HIDE DEF m
      <4>3. Fits(a, q, IF q \notin {i \in Used : i >= 1 /\ i # a} THEN m
                       ELSE IF kind[q] = "pool" THEN Disconnect(m) ELSE DaemonDisconnect(m))
        BY <1>7, ChosenFits DEF m
      <4> QED
        BY <4>1, <4>2, <4>3
    <3> QED
      BY <1>8, <2>1, <3>1, <3>2, <3>3, <3>4 DEF ChoiceOK, IndexOK
  <2>2. CASE ~Single
    <3> DEFINE which == {i \in Used : i >= 1 /\ i # a}
               v == DisconnectPools(t, which)
               w == [v EXCEPT !.index = a, !.active = a]
    <3>1. which \in SUBSET (Pools \ {0}) /\ which \in SUBSET Pools
      BY DEF Used, Pools
    <3>2. r = IF a # t.active THEN w ELSE v
      BY <2>2, Zenon DEF OnLoginSuccess, a
    <3>9. \A q \in Pools : (q \in which) <=> (q \in {i \in Used : i >= 1 /\ i # a})
      OBVIOUS
    <3> HIDE DEF which
    <3>3. v \in States /\ Same(t, v)
      BY <1>5, <1>6, <3>1, DisconnectPoolsFacts, Zenon
    <3>4. \A q \in Pools :
            v.c[q] = IF q \notin which THEN t.c[q]
                     ELSE IF kind[q] = "pool" THEN Disconnect(t.c[q]) ELSE DaemonDisconnect(t.c[q])
      BY <1>5, <1>6, <3>1, DisconnectPoolsFields, Zenon
    <3> HIDE DEF v
    <3>5. a \in Nat /\ a \in Pools
      BY <1>8, LastPoolAssumption DEF Used, Pools
    <3>6. w \in States /\ w.c = v.c /\ w.active = a /\ w.index = a
      BY <3>3, <3>5 DEF States
    <3> HIDE DEF w, r
    <3>7. r \in States /\ r.c = v.c /\ r.active = a /\ r.index = IF a # s.active THEN a ELSE s.index
      BY <1>5, <3>2, <3>3, <3>6 DEF Same
    <3>8. ASSUME NEW q \in Pools PROVE Fits(a, q, r.c[q])
      <4> DEFINE m == IF q = p THEN n ELSE s.c[q]
      <4>1. t.c[q] = m
        BY <1>2, <1>5
      <4> HIDE DEF m
      <4>2. Fits(a, q, IF q \notin {i \in Used : i >= 1 /\ i # a} THEN m
                       ELSE IF kind[q] = "pool" THEN Disconnect(m) ELSE DaemonDisconnect(m))
        BY <1>7, ChosenFits DEF m
      <4>3. r.c[q] = IF q \notin {i \in Used : i >= 1 /\ i # a} THEN m
                     ELSE IF kind[q] = "pool" THEN Disconnect(m) ELSE DaemonDisconnect(m)
        BY <3>4, <3>7, <3>9, <4>1
      <4> QED
        BY <4>2, <4>3
    <3>10. IndexOK(r)
      BY <1>1, <1>8, <3>7 DEF IndexOK
    <3> QED
      BY <3>7, <3>8, <3>10 DEF ChoiceOK
  <2> QED
    BY <2>1, <2>2
<1> HIDE DEF r
<1>10. u.c = r.c /\ u.active = r.active /\ u.index = r.index
  BY <1>9, Zenon DEF OnJob, States
<1> HIDE DEF u
<1>11. ChoiceOK(u)
  BY <1>9, <1>10, ChoiceFrame, Zenon DEF Follows
<1> QED
  BY <1>8, <1>9, <1>10, <1>11 DEF u, r, t

-----------------------------------------------------------------------------
(* The second invariant, which NetInv and a strategy that is not deleted   *)
(* give: who is logged on is active, and whoever is active is logged on.   *)

ChoiceInv == ~deleted => ChoiceOK(Now)

Goes == ChoiceOK(Now)' /\ Handed(active, active')

LEMMA StepChoice ==
  ASSUME UNCHANGED config, NEW s, ChoiceOK(s), Handed(active, s.active),
         c' = s.c, active' = s.active, index' = s.index
  PROVE  Goes
<1>1. kind' = kind /\ last' = last
  BY DEF config
<1>2. Now'.c = s.c /\ Now'.active = s.active /\ Now'.index = s.index
  BY DEF Now
<1>3. ChoiceOK(Now)'
  BY <1>1, <1>2 DEF ChoiceOK, Fits, FieldsOK, LoggedOn, IndexOK, Used, Single
<1> QED
  BY <1>3 DEF Goes

LEMMA BecomeChoice ==
  ASSUME UNCHANGED config, NEW s, Become(s), ChoiceOK(s), s.active \in {active, None}
  PROVE  Goes
<1>1. c' = s.c /\ active' = s.active /\ index' = s.index
  BY Zenon DEF Become
<1>2. Handed(active, s.active)
  BY DEF Handed
<1> QED
  BY <1>1, <1>2, StepChoice

LEMMA FrameChoice ==
  ASSUME UNCHANGED <<config, c, active, index>>, ChoiceOK(Now)
  PROVE  Goes
BY StepChoice, NowIs DEF Handed

\* What happens to the socket, or the requests, of one client.
LEMMA WithChoice ==
  ASSUME NetInv, Modelled, ChoiceOK(Now), UNCHANGED config,
         NEW chk, NetOK(Now, deleted, chk, Noted),
         NEW p \in Pools, NEW n, Keeps(p, c[p], n, deleted, chk = p, Noted), Fits(active, p, n),
         Become(With(Now, p, n)) \/ Become([Now EXCEPT !.c[p] = n])
  PROVE  Goes
<1>1. Now \in States /\ Keeps(p, Now.c[p], n, deleted, chk = p, Noted)
  BY NowIs DEF NetInv
<1>2. /\ With(Now, p, n).c = [Now.c EXCEPT ![p] = n] /\ Same(Now, With(Now, p, n))
      /\ [Now EXCEPT !.c[p] = n].c = [Now.c EXCEPT ![p] = n] /\ Same(Now, [Now EXCEPT !.c[p] = n])
  BY <1>1, SetNet, WithNet
<1>3. Rest(Now, p) /\ Fits(Now.active, p, n) /\ ~Now.c[p].overwritten
  BY RestFits, NowIs DEF Modelled
<1>4. Follows(Now, With(Now, p, n)) /\ Follows(Now, [Now EXCEPT !.c[p] = n])
  BY <1>1, <1>2, <1>3, OneFits
<1> QED
  BY <1>4, BecomeChoice, NowIs DEF Follows

\* A callback finds the clients fitting.
LEMMA HereFits ==
  ASSUME NetInv, ChoiceOK(Now)
  PROVE  \A p \in Pools : Fits(active, p, c[p]) /\ FieldsOK(c[p])
BY NowIs DEF ChoiceOK, Fits

LEMMA StratumHere ==
  ASSUME NEW p \in Stratum, NEW n, NEW del, NEW chk, NEW noted, ClientOK(p, n, del, chk, noted)
  PROVE  StratumOK(n, chk)
BY DEF ClientOK, Stratum

LEMMA StartChoice ==
  ASSUME NetInv, ChoiceOK(Now), Start
  PROVE  Goes
<1>1. /\ UNCHANGED <<config, deleted, notices>> /\ ~deleted
      /\ c[0].state = "Unconnected" /\ Become(Connect(Now, 0))
  BY ApartFrame DEF Start
<1>2. MayConnect(Now, 0, deleted, Noted)
  <2>1. ClientOK(0, c[0], deleted, None = 0, Noted)
    BY Here
  <2>2. kind[0] = "pool" => Noted \/ c[0].sock = "none"
    BY <1>1, <2>1 DEF ClientOK, StratumOK, Tidy, FirstOK
  <2> QED
    BY <1>1, <2>2, NowIs DEF MayConnect, Dropped
<1>3. Follows(Now, Connect(Now, 0))
  BY <1>1, <1>2, Here, NowIs, ConnectChoice
<1> QED
  BY <1>1, <1>3, BecomeChoice, NowIs DEF Follows

LEMMA ConnectDoneChoice ==
  ASSUME NetInv, ChoiceOK(Now), NEW p \in Used, NEW ok \in BOOLEAN, NEW written \in BOOLEAN,
         ConnectDone(p, ok, written)
  PROVE  Goes
<1> DEFINE n == IF ok THEN OnConnect(c[p], p \in secure, written) ELSE OnConnectFailed(c[p])
<1>1. /\ UNCHANGED config /\ Modelled
      /\ c[p].sock = "connecting" /\ Become(With(Now, p, n))
  BY DEF ConnectDone, Apart, Polls, Ready, Polling
<1>2. /\ p \in Pools /\ c[p] \in Clients /\ ClientOK(p, c[p], deleted, None = p, Noted)
      /\ Fits(active, p, c[p])
  BY Here, HereFits
<1>3. p \in Stratum
  BY <1>1, <1>2, NoSocket
<1>4. StratumOK(c[p], None = p)
  BY <1>2, <1>3, StratumHere
<1>5. Keeps(p, c[p], n, deleted, None = p, Noted)
  BY <1>1, <1>2, <1>3, OnConnectKeeps, OnConnectFailedKeeps
<1>6. Fits(active, p, n)
  BY <1>1, <1>2, <1>3, <1>4, OnConnectFits
<1> HIDE DEF n
<1> QED
  BY <1>1, <1>2, <1>5, <1>6, Here, WithChoice

LEMMA HandshakeDoneChoice ==
  ASSUME NetInv, ChoiceOK(Now), NEW p \in Used, NEW written \in BOOLEAN, HandshakeDone(p, written)
  PROVE  Goes
<1> DEFINE n == Login(c[p], written)
<1>1. /\ UNCHANGED config /\ Modelled /\ c[p].login = "no"
      /\ c[p].sock = "open" /\ Become(With(Now, p, n))
  BY DEF HandshakeDone, Apart, Polls, Ready, Polling
<1>2. /\ p \in Pools /\ c[p] \in Clients /\ ClientOK(p, c[p], deleted, None = p, Noted)
      /\ Fits(active, p, c[p])
  BY Here, HereFits
<1>3. p \in Stratum
  BY <1>1, <1>2, NoSocket
<1>4. Keeps(p, c[p], n, deleted, None = p, Noted)
  BY <1>1, <1>2, <1>3, LoginKeeps
<1>5. Fits(active, p, n)
  BY <1>1, <1>2, <1>3, LoginFits
<1> HIDE DEF n
<1> QED
  BY <1>1, <1>2, <1>4, <1>5, Here, WithChoice

LEMMA ClosesChoice ==
  ASSUME NetInv, ChoiceOK(Now), Modelled, UNCHANGED config, NEW p \in Stratum,
         Become(With(Now, p, Close(c[p])))
  PROVE  Goes
<1> DEFINE n == Close(c[p])
<1>1. /\ p \in Pools /\ c[p] \in Clients /\ ClientOK(p, c[p], deleted, None = p, Noted)
      /\ Fits(active, p, c[p])
  BY Here, HereFits DEF Stratum
<1>2. Keeps(p, c[p], n, deleted, None = p, Noted) /\ StratumOK(c[p], None = p)
  BY <1>1, CloseKeeps, StratumHere
<1>3. Fits(active, p, n)
  BY <1>1, <1>2, CloseFits
<1> HIDE DEF n
<1>4. Become(With(Now, p, n))
  BY DEF n
<1> QED
  BY <1>1, <1>2, <1>3, <1>4, Here, WithChoice

LEMMA ReadErrorChoice ==
  ASSUME NetInv, ChoiceOK(Now), NEW p \in Used, ReadError(p)
  PROVE  Goes
<1>1. /\ UNCHANGED config /\ Modelled /\ c[p].sock = "open" /\ Become(With(Now, p, Close(c[p])))
  BY DEF ReadError, Apart, Polls, Ready, Polling
<1>2. p \in Stratum
  BY <1>1, Here, NoSocket
<1> QED
  BY <1>1, <1>2, ClosesChoice

LEMMA WriteErrorChoice ==
  ASSUME NetInv, ChoiceOK(Now), NEW p \in Used, WriteError(p)
  PROVE  Goes
<1>1. /\ UNCHANGED config /\ Modelled /\ c[p].login = "in" /\ Become(With(Now, p, Close(c[p])))
  BY DEF WriteError, Apart, Polls, Ready, Polling
<1>2. p \in Stratum
  BY <1>1, Here DEF ClientOK, DaemonOK, Stratum
<1> QED
  BY <1>1, <1>2, ClosesChoice

LEMMA ExpireChoice ==
  ASSUME NetInv, ChoiceOK(Now), NEW p \in Used, Expire(p)
  PROVE  Goes
<1>1. /\ UNCHANGED config /\ Modelled /\ ~deleted /\ kind[p] = "pool"
      /\ \/ Become(With(Now, p, Close(c[p])))
         \/ c[p].state = "Reconnecting" /\ Become(Connect(Now, p))
  BY DEF Expire, Apart, Polls, Ready, Polling
<1>2. p \in Pools /\ ClientOK(p, c[p], deleted, None = p, Noted) /\ p \in Stratum
  BY <1>1, Here DEF Stratum
<1>3. CASE Become(With(Now, p, Close(c[p])))
  BY <1>1, <1>2, <1>3, ClosesChoice
<1>4. CASE c[p].state = "Reconnecting" /\ Become(Connect(Now, p))
  <2>1. MayConnect(Now, p, deleted, Noted)
    BY <1>1, <1>2, <1>4, NowIs DEF MayConnect, Dropped, ClientOK, FirstOK
  <2>2. Follows(Now, Connect(Now, p))
    BY <1>1, <1>2, <2>1, Here, ConnectChoice
  <2> QED
    BY <1>1, <1>4, <2>2, BecomeChoice, NowIs DEF Follows
<1> QED
  BY <1>1, <1>3, <1>4

LEMMA QuietChoice ==
  ASSUME NetInv, ChoiceOK(Now),
         \/ NewBlock \/ EndTurn
         \/ \E h \in Hosts : DnsStale(h) \/ \E ok \in BOOLEAN : DnsDone(h, ok)
         \/ \E p \in Used : JobReceived(p)
  PROVE  Goes
<1>1. CASE NewBlock
  BY <1>1, FrameChoice, NowIs DEF NewBlock, Polls, Become
<1>2. CASE EndTurn
  BY <1>2, FrameChoice DEF EndTurn
<1>3. ASSUME NEW h \in Hosts, DnsStale(h) PROVE Goes
  <2> DEFINE s == [Now EXCEPT !.dns[h].fresh = FALSE]
  <2>1. UNCHANGED config /\ Become(s)
    BY <1>3, Zenon DEF DnsStale, Polls
  <2>2. s.c = c /\ s.active = active /\ s.index = index
    BY DEF Now
  <2> HIDE DEF s
  <2> QED
    BY <2>1, <2>2, FrameChoice, Zenon DEF Become
<1>4. ASSUME NEW h \in Hosts, NEW ok \in BOOLEAN, DnsDone(h, ok) PROVE Goes
  <2> DEFINE s == [Now EXCEPT !.dns[h].fresh = TRUE, !.dns[h].result = IF ok THEN "ok" ELSE "error"]
             t == [s EXCEPT !.telling = <<[host |-> h, told |-> None, rest |-> s.dns[h].queue]>> \o @]
  <2>1. UNCHANGED config /\ Become(Notify(s, h))
    BY <1>4, Zenon DEF DnsDone, Apart, Polls
  <2>2. Notify(s, h) = t
    BY Zenon DEF Notify
  <2>3. t.c = c /\ t.active = active /\ t.index = index
    BY DEF Now
  <2> HIDE DEF t, s
  <2> QED
    BY <2>1, <2>2, <2>3, FrameChoice, Zenon DEF Become
<1>5. ASSUME NEW p \in Used, JobReceived(p) PROVE Goes
  <2> DEFINE s == OnJob(Now, p)
  <2>1. UNCHANGED config /\ Become(s)
    BY <1>5 DEF JobReceived, Line, Polls
  <2>2. s.c = c /\ s.active = active /\ s.index = index
    <3> DEFINE r == [Now EXCEPT !.work = p]
    <3>1. s = Now \/ s = r
      BY Zenon DEF OnJob
    <3>2. r.c = c /\ r.active = active /\ r.index = index
      BY DEF Now
    <3> HIDE DEF r, s
    <3> QED
      BY <3>1, <3>2, NowIs, Zenon
  <2> HIDE DEF s
  <2> QED
    BY <2>1, <2>2, FrameChoice, Zenon DEF Become
<1> QED
  BY <1>1, <1>2, <1>3, <1>4, <1>5

LEMMA BadAnswerChoice ==
  ASSUME NetInv, ChoiceOK(Now), NEW p \in Used,
         BadJob(p) \/ \E critical \in BOOLEAN : ErrorAnswer(p, critical)
  PROVE  Goes
<1>1. /\ UNCHANGED config /\ Modelled /\ Line(p) /\ c[p].login \in {"sent", "in"}
      /\ \/ Become(With(Now, p, Close([c[p] EXCEPT !.login = IF @ = "sent" THEN "refused" ELSE @])))
         \/ \E critical \in BOOLEAN : Become(With(Now, p, OnError(c[p], p, critical)))
  BY Zenon DEF BadJob, ErrorAnswer, Line, Polls, Ready, Polling
<1>2. /\ NetOK(Now, deleted, p, Noted) /\ p \in Stratum /\ p \in Pools /\ c[p] \in Clients
      /\ ClientOK(p, c[p], deleted, p = p, Noted) /\ StratumOK(c[p], p = p)
  BY <1>1, LineHere, StratumHere
<1>3. Fits(active, p, c[p])
  BY <1>2, HereFits
<1> DEFINE r == Close([c[p] EXCEPT !.login = IF @ = "sent" THEN "refused" ELSE @])
<1>4. /\ Keeps(p, c[p], r, deleted, p = p, Noted) /\ Fits(active, p, r)
      /\ \A critical : /\ Keeps(p, c[p], OnError(c[p], p, critical), deleted, p = p, Noted)
                       /\ Fits(active, p, OnError(c[p], p, critical))
  BY <1>1, <1>2, <1>3, RefusedKeeps, RefusedFits, Zenon
<1>5. \E n : /\ Become(With(Now, p, n)) /\ Keeps(p, c[p], n, deleted, p = p, Noted)
             /\ Fits(active, p, n)
  BY <1>1, <1>4, Zenon
<1> QED
  BY <1>1, <1>2, <1>5, WithChoice

LEMMA LoginAcceptedChoice ==
  ASSUME NetInv, ChoiceOK(Now), NEW p \in Used, LoginAccepted(p)
  PROVE  Goes
<1> DEFINE n == LoggedIn(c[p])
           u == OnJob(OnLoginSuccess([Now EXCEPT !.c[p] = n], p), p)
<1>1. /\ Line(p) /\ UNCHANGED config
      /\ Become(OnJob(OnLoginSuccess([Now EXCEPT !.c[p] = LoggedIn(@)], p), p))
  BY DEF LoginAccepted, Line, Polls
<1>2. OnJob(OnLoginSuccess([Now EXCEPT !.c[p] = LoggedIn(@)], p), p) = u
  BY NowIs, Zenon
<1>3. n \in Clients /\ ClientOK(p, n, deleted, p = p, Noted)
  BY <1>1, LineHere, LoggedInOK
<1>4. FieldsOK(n) /\ LoggedOn(p, n)
  BY <1>1, LineHere, HereFits, LoggedInFits
<1> HIDE DEF n
<1>5. ChoiceOK(u) /\ Handed(active, u.active)
  BY <1>1, <1>3, <1>4, LineHere, LoginChoice, NowIs, Zenon
<1> HIDE DEF u
<1>6. Become(u)
  BY <1>1, <1>2
<1> QED
  BY <1>1, <1>5, <1>6, StepChoice, Zenon DEF Become

LEMMA ReconnectNoticeChoice ==
  ASSUME NetInv, ChoiceOK(Now), ~deleted, NEW p \in Used, ReconnectNotice(p)
  PROVE  Goes
<1>1. /\ Line(p) /\ UNCHANGED config /\ Become(Reconnect(Now, p))
  BY DEF ReconnectNotice, Line, Polls
<1>2. NetOK(Now, deleted, p, TRUE)
  BY <1>1, LineHere, NotedNet
<1>3. c[p].listener
  BY <1>1, LineHere DEF ClientOK, Stratum, Dropped
<1>4. Rest(Now, p) /\ Fits(Now.active, p, Now.c[p]) /\ FieldsOK(Now.c[p])
  BY <1>1, LineHere, RestFits
<1>5. Follows(Now, Reconnect(Now, p))
  BY <1>1, <1>2, <1>3, <1>4, LineHere, ReconnectChoice, NowIs
<1> QED
  BY <1>1, <1>5, BecomeChoice, NowIs DEF Follows

LEMMA TimerFiresChoice ==
  ASSUME NetInv, ChoiceOK(Now), NEW p \in Used, NEW old \in BOOLEAN, TimerFires(p, old)
  PROVE  Goes
<1> DEFINE n == DaemonTimer(c[p], old, tip)
<1>1. /\ UNCHANGED config /\ Modelled /\ kind[p] = "daemon" /\ c[p].expire
  BY DEF TimerFires, Apart, Polls, Ready, Polling
<1>2. Become([Now EXCEPT !.c[p] = n])
  BY NowIs, Zenon DEF TimerFires
<1>3. /\ p \in Pools /\ p \in Pools \ Stratum /\ c[p] \in Clients /\ tip \in Int
      /\ ClientOK(p, c[p], deleted, None = p, Noted) /\ Fits(active, p, c[p])
  BY <1>1, Here, HereFits DEF Stratum
<1>4. ~Dropped(p, deleted)
  BY <1>1, <1>3 DEF ClientOK, DaemonOK
<1>5. Keeps(p, c[p], n, deleted, None = p, Noted)
  BY <1>3, <1>4, DaemonTimerKeeps
<1>6. Fits(active, p, n)
  BY <1>1, <1>3, DaemonTimerFits
<1> HIDE DEF n
<1> QED
  BY <1>1, <1>2, <1>3, <1>5, <1>6, Here, WithChoice

LEMMA SubmitBlockChoice ==
  ASSUME NetInv, ChoiceOK(Now), NEW p \in Used, SubmitBlock(p)
  PROVE  Goes
<1> DEFINE n == Fetch(c[p], "submit", tip)
<1>1. /\ UNCHANGED config /\ Modelled /\ kind[p] = "daemon" /\ ~deleted /\ active = p
  BY DEF SubmitBlock, Apart, Polls, Ready, Polling
<1>2. Become([Now EXCEPT !.c[p] = n])
  BY NowIs, Zenon DEF SubmitBlock
<1>3. /\ p \in Pools /\ p \in Pools \ Stratum /\ c[p] \in Clients /\ tip \in Int
      /\ ClientOK(p, c[p], deleted, None = p, Noted) /\ Fits(active, p, c[p])
  BY <1>1, Here, HereFits DEF Stratum
<1>4. ~Dropped(p, deleted)
  BY <1>1 DEF Dropped
<1>5. p = 0 => c[p].state # "Unconnected"
  <2>1. MinerOK(Now, deleted, None = 0, Noted)
    BY Here DEF NetOK
  <2> QED
    BY <1>1, <2>1, NowIs DEF MinerOK, Waits
<1>6. Keeps(p, c[p], n, deleted, None = p, Noted)
  BY <1>3, <1>4, <1>5, FetchKeeps
<1>7. Fits(active, p, n)
  BY <1>1, <1>3, FetchAlike, AlikeFits
<1> HIDE DEF n
<1> QED
  BY <1>1, <1>2, <1>3, <1>6, <1>7, Here, WithChoice

LEMMA LoseRequestChoice ==
  ASSUME NetInv, ChoiceOK(Now), NEW p \in Used, NEW r \in c[p].reqs, LoseRequest(p, r)
  PROVE  Goes
<1> DEFINE n == [c[p] EXCEPT !.reqs = @ \ {r}]
<1>1. /\ UNCHANGED config /\ Modelled /\ Become([Now EXCEPT !.c[p].reqs = @ \ {r}])
  BY DEF LoseRequest, Apart, Polls, Ready, Polling
<1>2. [Now EXCEPT !.c[p].reqs = @ \ {r}] = [Now EXCEPT !.c[p] = n]
  BY NowIs, Zenon
<1>3. Keeps(p, c[p], n, deleted, None = p, Noted) /\ p \in Pools /\ p \in Pools \ Stratum
      /\ c[p] \in Clients /\ kind[p] = "daemon" /\ Fits(active, p, c[p])
  BY Waiting, AnsweredKeeps, DaemonKind, Here, HereFits
<1>4. Fits(active, p, n)
  BY <1>3, AnsweredAlike, AlikeFits
<1> HIDE DEF n
<1> QED
  BY <1>1, <1>2, <1>3, <1>4, Here, WithChoice

LEMMA TemplatedChoice ==
  ASSUME ConfigOK, NEW s \in States, NEW del, NEW chk, NEW noted, NetOK(s, del, chk, noted),
         NEW p \in Used, p \notin Stratum, ~Dropped(p, del), NEW seen \in Int, ChoiceOK(s),
         ~s.c[p].overwritten
  PROVE  ChoiceOK(Templated(s, p, seen)) /\ Handed(s.active, Templated(s, p, seen).active)
<1> DEFINE n == OnTemplate(s.c[p], seen)
           t == [s EXCEPT !.c[p] = n]
<1>1. p \in Pools /\ p \in Pools \ Stratum /\ kind[p] = "daemon"
  BY DaemonKind DEF Used
<1>2. /\ s.c[p] \in Clients /\ ClientOK(p, s.c[p], del, chk = p, noted)
      /\ Rest(s, p) /\ Fits(s.active, p, s.c[p])
  BY <1>1, RestFits DEF States, NetOK
<1>3. /\ n \in Clients /\ ClientOK(p, n, del, chk = p, noted)
      /\ s.c[p].state # "Connecting" => Keeps(p, s.c[p], n, del, chk = p, noted)
  BY <1>1, <1>2, OnTemplateOK
<1>4. IF s.c[p].state = "Connecting" THEN FieldsOK(n) /\ LoggedOn(p, n) ELSE Fits(s.active, p, n)
  BY <1>1, <1>2, OnTemplateFits
<1>5. Templated(s, p, seen)
        = OnJob(IF s.c[p].state = "Connecting" THEN OnLoginSuccess(t, p) ELSE t, p)
  BY Zenon DEF Templated
<1> HIDE DEF n
<1>6. CASE s.c[p].state = "Connecting"
  <2>1. FieldsOK(n) /\ LoggedOn(p, n)
    BY <1>4, <1>6
  <2>2. Templated(s, p, seen) = OnJob(OnLoginSuccess(t, p), p)
    BY <1>5, <1>6, Zenon
  <2>3. /\ ChoiceOK(OnJob(OnLoginSuccess(t, p), p))
        /\ Handed(s.active, OnJob(OnLoginSuccess(t, p), p).active)
    BY <1>3, <2>1, LoginChoice, Zenon
  <2> QED
    BY <2>2, <2>3, Zenon
<1>7. CASE s.c[p].state # "Connecting"
  <2>1. t \in States /\ t.c = [s.c EXCEPT ![p] = n] /\ Same(s, t)
    BY <1>1, <1>3, <1>7, SetNet
  <2>2. Templated(s, p, seen) = OnJob(t, p)
    BY <1>5, <1>7, Zenon
  <2> HIDE DEF t
  <2>3. Follows(s, t)
    BY <1>1, <1>2, <1>4, <1>7, <2>1, OneFits
  <2> DEFINE u == OnJob(t, p)
  <2>4. u.c = t.c /\ u.active = t.active /\ u.index = t.index
    BY <2>1, Zenon DEF OnJob, States
  <2> HIDE DEF u
  <2>5. ChoiceOK(u)
    BY <2>3, <2>4, ChoiceFrame, Zenon DEF Follows
  <2>6. u.active = s.active
    BY <2>1, <2>4 DEF Same
  <2> QED
    BY <2>2, <2>5, <2>6 DEF u, Handed
<1> QED
  BY <1>6, <1>7

LEMMA HttpAnswerChoice ==
  ASSUME NetInv, ChoiceOK(Now), NEW p \in Used, NEW r \in c[p].reqs, NEW ok \in BOOLEAN,
         HttpAnswer(p, r, ok)
  PROVE  Goes
<1> DEFINE n == [c[p] EXCEPT !.reqs = @ \ {r}]
           s == [Now EXCEPT !.c[p] = n]
<1>1. UNCHANGED config /\ Modelled
  BY DEF HttpAnswer, Apart, Polls, Ready, Polling
<1>2. [Now EXCEPT !.c[p].reqs = @ \ {r}] = s
  BY NowIs, Zenon
<1>3. /\ p \in Pools /\ p \in Pools \ Stratum /\ p \notin Stratum /\ c[p] \in Clients
      /\ ~Dropped(p, deleted) /\ ClientOK(p, c[p], deleted, None = p, Noted)
      /\ p = 0 => c[p].state # "Unconnected"
  BY Waiting
<1>4. kind[p] = "daemon" /\ Fits(active, p, c[p]) /\ ~c[p].overwritten
  BY <1>1, <1>3, Here, HereFits, DaemonKind DEF Modelled
<1>5. Keeps(p, c[p], n, deleted, None = p, Noted) /\ Alike(c[p], n)
  BY <1>3, AnsweredKeeps, AnsweredAlike
<1>6. \/ Become(FailDaemon(s, p))
      \/ \E seen \in r.from..tip : \/ Become(Templated(s, p, seen))
                                   \/ Become([s EXCEPT !.c[p] = OnHeight(@, seen, tip)])
                                   \/ Become([s EXCEPT !.c[p] = Fetch(@, "template", tip)])
  <2>1. CASE ~ok
    BY <1>2, <2>1 DEF HttpAnswer
  <2>2. CASE ok
    <3>1. PICK seen \in r.from..tip :
            Become(CASE r.kind = "template" -> Templated(s, p, seen)
                     [] r.kind = "height" -> [s EXCEPT !.c[p] = OnHeight(@, seen, tip)]
                     [] r.kind = "submit" -> [s EXCEPT !.c[p] = Fetch(@, "template", tip)])
      BY <1>2, <2>2, Zenon DEF HttpAnswer
    <3>2. r.kind \in {"template", "height", "submit"}
      BY <1>3 DEF Clients, Requests
    <3> HIDE DEF s
    <3> QED
      BY <3>1, <3>2
  <2> QED
    BY <2>1, <2>2
<1> HIDE DEF n
<1>7. Fits(active, p, n) /\ ~n.overwritten /\ n \in Clients
  BY <1>3, <1>4, <1>5, AlikeFits DEF Alike, Keeps
<1>8. /\ Now \in States /\ NetOK(Now, deleted, None, Noted) /\ ConfigOK /\ tip \in Int
      /\ Now.c = c /\ Now.active = active
      /\ Keeps(p, Now.c[p], n, deleted, None = p, Noted) /\ Rest(Now, p)
  BY <1>3, <1>5, Here, NowIs, RestFits
<1>9. s \in States /\ s.c = [Now.c EXCEPT ![p] = n] /\ Same(Now, s) /\ NetOK(s, deleted, None, Noted)
  BY <1>3, <1>8, SetNet
<1> HIDE DEF s
<1>10. s.c[p] = n /\ s.active = active
  BY <1>3, <1>8, <1>9 DEF States, Same
<1>11. ChoiceOK(s)
  BY <1>3, <1>4, <1>7, <1>8, <1>9, OneFits DEF Follows
<1>12. /\ ClientOK(p, s.c[p], deleted, None = p, Noted) /\ Rest(s, p)
       /\ Fits(s.active, p, s.c[p])
  BY <1>3, <1>9, <1>11, RestFits DEF NetOK
<1>13. CASE Become(FailDaemon(s, p))
  <2>1. ChoiceOK(FailDaemon(s, p)) /\ FailDaemon(s, p).active \in {active, None}
    BY <1>3, <1>8, <1>9, <1>10, <1>11, FailDaemonChoice
  <2> QED
    BY <1>1, <1>13, <2>1, BecomeChoice
<1>14. ASSUME NEW seen \in r.from..tip, Become(Templated(s, p, seen)) PROVE Goes
  <2>1. seen \in Int
    BY <1>14
  <2>2. ConfigOK /\ p \notin Stratum /\ ~Dropped(p, deleted) /\ ~s.c[p].overwritten
    BY <1>3, <1>7, <1>8, <1>10
  <2>3. s \in States /\ NetOK(s, deleted, None, Noted)
    BY <1>9
  <2>4. ChoiceOK(Templated(s, p, seen)) /\ Handed(s.active, Templated(s, p, seen).active)
    BY <1>11, <2>1, <2>2, <2>3, TemplatedChoice
  <2>5. ChoiceOK(Templated(s, p, seen)) /\ Handed(active, Templated(s, p, seen).active)
    BY <1>10, <2>4
  <2> QED
    BY <1>1, <1>14, <2>5, StepChoice, Zenon DEF Become
<1>15. ASSUME NEW m, Keeps(p, s.c[p], m, deleted, None = p, Noted), Alike(s.c[p], m),
              Become([s EXCEPT !.c[p] = m])
       PROVE  Goes
  <2> DEFINE t == [s EXCEPT !.c[p] = m]
  <2>0. s \in States /\ NetOK(s, deleted, None, Noted) /\ p \in Pools
    BY <1>3, <1>9
  <2>1. t.c = [s.c EXCEPT ![p] = m] /\ Same(s, t)
    BY <1>15, <2>0, SetNet
  <2> HIDE DEF t
  <2>2. Fits(s.active, p, m)
    BY <1>3, <1>4, <1>12, <1>15, AlikeFits
  <2>3. ChoiceOK(t) /\ t.active = active
    BY <1>3, <1>7, <1>9, <1>10, <1>12, <2>1, <2>2, OneFits DEF Follows, Same
  <2> QED
    BY <1>1, <1>15, <2>3, BecomeChoice DEF t
<1>16. ASSUME NEW seen \in r.from..tip, Become([s EXCEPT !.c[p] = OnHeight(@, seen, tip)])
       PROVE  Goes
  <2>1. seen \in Int
    BY <1>16
  <2>2. /\ Keeps(p, s.c[p], OnHeight(s.c[p], seen, tip), deleted, None = p, Noted)
        /\ Alike(s.c[p], OnHeight(s.c[p], seen, tip))
    <3>1. p = 0 => s.c[p].state # "Unconnected"
      BY <1>3, <1>5, <1>10 DEF Alike
    <3> QED
      BY <1>3, <1>7, <1>8, <1>10, <1>12, <2>1, <3>1, OnHeightKeeps, OnHeightAlike
  <2>3. Become([s EXCEPT !.c[p] = OnHeight(s.c[p], seen, tip)])
    BY <1>16, Zenon
  <2> QED
    BY <1>15, <2>2, <2>3
<1>17. ASSUME Become([s EXCEPT !.c[p] = Fetch(@, "template", tip)])
       PROVE  Goes
  <2>1. /\ Keeps(p, s.c[p], Fetch(s.c[p], "template", tip), deleted, None = p, Noted)
        /\ Alike(s.c[p], Fetch(s.c[p], "template", tip))
    <3>1. p = 0 => s.c[p].state # "Unconnected"
      BY <1>3, <1>5, <1>10 DEF Alike
    <3> QED
      BY <1>3, <1>7, <1>8, <1>10, <1>12, <3>1, FetchKeeps, FetchAlike
  <2>2. Become([s EXCEPT !.c[p] = Fetch(s.c[p], "template", tip)])
    BY <1>17, Zenon
  <2> QED
    BY <1>15, <2>1, <2>2
<1> QED
  BY <1>6, <1>13, <1>14, <1>16, <1>17

LEMMA TellChoice ==
  ASSUME NetInv, ChoiceOK(Now), ~deleted, Tell
  PROVE  Goes /\ \A q \in Pools : c[q].overwritten => c'[q].overwritten
<1> DEFINE f == Head(telling)
           s == IF f.told = None THEN Now ELSE [Now EXCEPT !.c[f.told].lookup = FALSE]
           done == [s EXCEPT !.telling = Tail(@), !.dns[f.host].queue = <<>>,
                             !.dns[f.host].runs = FALSE]
           p == Head(f.rest)
           x == IF s.c[p].lookup THEN p ELSE None
           t == [s EXCEPT !.telling[1].rest = Tail(@), !.telling[1].told = x]
           u == IF s.c[p].lookup THEN OnResolved(t, p) ELSE t
<1>1. /\ telling # <<>> /\ UNCHANGED config
      /\ IF f.rest = <<>> THEN Become(done) ELSE Become(u)
  BY DEF Tell
<1>2. /\ ConfigOK /\ tip \in Int /\ notices \in Nat
      /\ Now \in States /\ NetOK(Now, deleted, chunk, Noted)
  BY DEF NetInv
<1>3. telling \in Seq(Tellings)
  BY <1>2, NowIs DEF States
<1>4. f \in Tellings /\ Tail(telling) \in Seq(Tellings) /\ telling[1] = f /\ 1 \in DOMAIN telling
  BY <1>1, <1>3
<1>5. f.host \in Hosts /\ f.told \in Pools \cup {None} /\ f.rest \in Seq(Pools)
  BY <1>4 DEF Tellings
<1> HIDE DEF f
<1>6. /\ s \in States /\ NetOK(s, deleted, chunk, Noted) /\ s.telling = telling
      /\ Follows(Now, s)
  <2>1. CASE f.told = None
    BY <1>2, <2>1, NowIs, ChoiceFrame
  <2>2. CASE f.told # None
    <3>1. f.told \in Pools
      BY <1>5, <2>2
    <3>2. s \in States /\ NetOK(s, deleted, chunk, Noted) /\ s.telling = telling
      BY <1>2, <2>2, <3>1, ToldNet, NowIs
    <3> DEFINE n == [Now.c[f.told] EXCEPT !.lookup = FALSE]
    <3>3. /\ Now.c[f.told] \in Clients /\ Rest(Now, f.told)
          /\ Fits(Now.active, f.told, Now.c[f.told])
      BY <1>2, <3>1, RestFits DEF States
    <3>4. Fits(Now.active, f.told, n) /\ n.overwritten = Now.c[f.told].overwritten
      BY <3>3, ToldFits, Zenon
    <3>5. s = [Now EXCEPT !.c[f.told] = n]
      BY <2>2, Zenon
    <3> HIDE DEF n
    <3>6. s.c = [Now.c EXCEPT ![f.told] = n] /\ Same(Now, s)
      BY <1>2, <3>5 DEF States, Same
    <3> QED
      BY <1>2, <3>1, <3>2, <3>3, <3>4, <3>6, OneFits
  <2> QED
    BY <2>1, <2>2
<1> HIDE DEF s
<1>7. ASSUME NEW v, Follows(s, v), Become(v)
      PROVE  Goes /\ \A q \in Pools : c[q].overwritten => c'[q].overwritten
  <2>1. Follows(Now, v)
    BY <1>6, <1>7, FollowsTwice DEF Follows
  <2>2. c' = v.c
    BY <1>7, Zenon DEF Become
  <2>3. Goes
    BY <1>1, <1>7, <2>1, BecomeChoice, NowIs DEF Follows
  <2> QED
    BY <2>1, <2>2, <2>3, NowIs DEF Follows
<1>8. CASE f.rest = <<>>
  <2>1. done.c = s.c /\ done.active = s.active /\ done.index = s.index
    BY <1>6 DEF States
  <2>2. Become(done)
    BY <1>1, <1>8
  <2> HIDE DEF done
  <2>3. Follows(s, done)
    BY <1>6, <2>1, ChoiceFrame DEF Follows
  <2> QED
    BY <1>7, <2>2, <2>3
<1>9. CASE f.rest # <<>>
  <2>1. p \in Pools /\ Tail(f.rest) \in Seq(Pools)
    BY <1>5, <1>9
  <2> DEFINE y == [telling[1] EXCEPT !.rest = Tail(@), !.told = x]
             e == [telling EXCEPT ![1] = y]
             a == [s EXCEPT !.telling = e]
  <2>2. x \in Pools \cup {None}
    BY <2>1
  <2>3. t = a
    BY <1>6, Zenon
  <2> HIDE DEF t, x
  <2>4. y \in Tellings
    BY <1>4, <2>1, <2>2 DEF Tellings
  <2> HIDE DEF y
  <2>5. e \in Seq(Tellings)
    BY <1>3, <1>4, <2>4
  <2> HIDE DEF e
  <2>6. a \in States /\ Aside(s, a)
    BY <1>6, <2>5, SetTelling
  <2> HIDE DEF a
  <2>7. t \in States /\ NetOK(t, deleted, chunk, Noted) /\ t.c = s.c
    BY <1>6, <2>3, <2>6, NetFrame, Zenon DEF Aside
  <2>8. Follows(s, t)
    BY <1>6, <2>3, <2>6, ChoiceFrame, Zenon DEF Follows, Aside
  <2> HIDE DEF p
  <2>9. Follows(s, u)
    <3>1. CASE s.c[p].lookup
      <4>1. Follows(t, OnResolved(t, p))
        BY <1>2, <2>1, <2>7, <2>8, <3>1, OnResolvedChoice DEF Follows
      <4> QED
        BY <2>8, <3>1, <4>1, FollowsTwice DEF Follows
    <3>2. CASE ~s.c[p].lookup
      BY <2>8, <3>2
    <3> QED
      BY <3>1, <3>2
  <2> HIDE DEF u
  <2> QED
    BY <1>1, <1>7, <1>9, <2>9
<1> QED
  BY <1>8, <1>9

LEMMA CloseCallbackChoice ==
  ASSUME NetInv, ChoiceOK(Now), ~deleted, CloseCallback
  PROVE  Goes
<1>1. closing # <<>> /\ UNCHANGED config /\ Modelled
  BY DEF CloseCallback
<1>2. /\ ConfigOK /\ tip \in Int /\ notices \in Nat
      /\ Now \in States /\ NetOK(Now, deleted, chunk, Noted)
  BY DEF NetInv
<1> DEFINE e(p) == LET others == Head(closing) \ {p}
                   IN  (IF others = {} THEN <<>> ELSE <<others>>) \o Tail(closing)
<1>3. PICK p \in Head(closing) :
        Become(Reconnect([Now EXCEPT !.closing = e(p), !.c[p] = OnClosed(@)], p))
  BY NowIs, Zenon DEF CloseCallback
<1>4. closing \in Seq(SUBSET Stratum)
  BY <1>2, NowIs DEF States
<1>5. Head(closing) \in SUBSET Stratum /\ Tail(closing) \in Seq(SUBSET Stratum)
  BY <1>1, <1>4
<1>6. p \in Stratum /\ p \in Pools
  BY <1>5 DEF Stratum
<1>7. e(p) \in Seq(SUBSET Stratum)
  <2> DEFINE others == Head(closing) \ {p}
  <2>1. <<others>> \o Tail(closing) \in Seq(SUBSET Stratum)
    BY <1>5, PushType
  <2>2. <<>> \o Tail(closing) \in Seq(SUBSET Stratum)
    BY <1>5
  <2> QED
    BY <2>1, <2>2
<1> DEFINE b == [Now EXCEPT !.closing = e(p)]
           n == OnClosed(b.c[p])
           s == [b EXCEPT !.c[p] = n]
<1>8. [Now EXCEPT !.closing = e(p), !.c[p] = OnClosed(@)] = s
  BY NowIs, Zenon
<1> HIDE DEF e
<1>9. /\ b \in States /\ b.c = Now.c /\ b.active = Now.active /\ b.work = Now.work
      /\ b.index = Now.index
  BY <1>2, <1>7 DEF States
<1>10. NetOK(b, deleted, chunk, Noted)
  BY <1>2, <1>9, NetFrame, Zenon
<1>11. ChoiceOK(b)
  BY <1>9, ChoiceFrame DEF Follows
<1> HIDE DEF b
<1>12. /\ b.c[p] \in Clients /\ ClientOK(p, b.c[p], deleted, chunk = p, Noted)
       /\ Rest(b, p) /\ Fits(b.active, p, b.c[p]) /\ FieldsOK(b.c[p])
       /\ ~b.c[p].overwritten
  BY <1>1, <1>6, <1>9, <1>10, <1>11, RestFits, NowIs DEF States, NetOK, Modelled
<1>13. n \in Clients /\ n.sock = "none" /\ n.listener
  BY <1>6, <1>12, OnClosedFacts DEF ClientOK, Dropped, Stratum
<1>14. FieldsOK(n) /\ ~LoggedOn(p, n) /\ n.failures = b.c[p].failures
  BY <1>6, <1>12, OnClosedFits
<1>15. Keeps(p, b.c[p], n, deleted, chunk = p, Noted)
  <2>1. p \in Stratum /\ b.c[p] \in Clients /\ ClientOK(p, b.c[p], deleted, chunk = p, Noted)
    BY <1>6, <1>12
  <2>2. b.c[p].listener
    BY <1>13, <2>1, OnClosedFacts
  <2> QED
    BY <2>1, <2>2, OnClosedKeeps
<1> HIDE DEF n
<1>16. s \in States /\ NetOK(s, deleted, chunk, Noted) /\ s.c = [b.c EXCEPT ![p] = n] /\ Same(b, s)
  BY <1>6, <1>9, <1>10, <1>15, SetNet
<1> HIDE DEF s
<1>17. s.c[p] = n /\ s.active = active /\ \A q \in Pools \ {p} : s.c[q] = b.c[q]
  BY <1>6, <1>9, <1>16, NowIs DEF States, Same
<1>18. Rest(s, p)
  BY <1>12, <1>16, <1>17 DEF Rest, IndexOK, Same
<1>19. n.failures = Disconnected => Fits(active, p, n)
  <2> SUFFICES ASSUME n.failures = Disconnected PROVE Fits(active, p, n)
    OBVIOUS
  <2>1. active # p
    BY <1>9, <1>12, <1>14, NowIs DEF Fits, LoggedOn, Disconnected
  <2> QED
    BY <1>14, <2>1 DEF Fits
<1>20. Follows(s, Reconnect(s, p))
  BY <1>2, <1>6, <1>13, <1>14, <1>16, <1>17, <1>18, <1>19, ReconnectChoice
<1> QED
  BY <1>1, <1>3, <1>8, <1>17, <1>20, BecomeChoice DEF Follows

LEMMA InitChoice ==
  ASSUME Init
  PROVE  ChoiceInv
<1>1. active = None /\ \A p \in Pools : c[p] = NewClient
  BY DEF Init
<1>2. NewClient.failures = 0 /\ NewClient.state = "Unconnected" /\ NewClient.login = "no"
      /\ ~NewClient.overwritten
  BY DEF NewClient
<1>3. ASSUME NEW p \in Pools PROVE Fits(active, p, c[p])
  <2>1. c[p] = NewClient /\ active # p
    BY <1>1, <1>3, LastPoolAssumption DEF Pools, None
  <2> QED
    BY <1>2, <2>1 DEF Fits, FieldsOK, LoggedOn, Disconnected
<1>4. IndexOK(Now)
  BY <1>1, NowIs DEF IndexOK
<1> QED
  BY <1>3, <1>4, NowIs DEF ChoiceInv, ChoiceOK

\* What every step leaves alone, and that none but a notification (Tell) is taken
\* once a client has overwritten its socket.
Plain == UNCHANGED config /\ (deleted => deleted') /\ notices' \in {notices, notices + 1}

LEMMA PollShape ==
  /\ Polls => Modelled /\ UNCHANGED config
  /\ Apart => Polls /\ notices' = notices
  /\ \A p \in Used : Line(p) => Polls /\ deleted' = deleted
BY DEF Polls, Ready, Polling, Apart, Line

LEMMA NextShape ==
  ASSUME [Next]_vars
  PROVE  Plain /\ (Modelled \/ Tell \/ UNCHANGED vars)
<1>1. CASE Start \/ ChangeConfig
  BY <1>1, PollShape DEF Start, ChangeConfig, Plain
<1>2. CASE NewBlock
  BY <1>2, PollShape DEF NewBlock, Plain
<1>3. CASE EndTurn
  BY <1>3 DEF EndTurn, Ready, Polling, bounds, Plain
<1>4. CASE CloseCallback
  BY <1>4 DEF CloseCallback, bounds, Plain
<1>5. CASE Tell
  <2>1. Plain
    BY <1>5 DEF Tell, bounds, Plain
  <2> QED
    BY <1>5, <2>1
<1>6. CASE \E h \in Hosts : DnsStale(h) \/ \E ok \in BOOLEAN : DnsDone(h, ok)
  <2>1. ASSUME NEW h \in Hosts, DnsStale(h) PROVE Plain /\ Modelled
    BY <2>1, PollShape DEF DnsStale, Plain
  <2>2. ASSUME NEW h \in Hosts, NEW ok \in BOOLEAN, DnsDone(h, ok) PROVE Plain /\ Modelled
    <3>1. Apart /\ UNCHANGED <<deleted, tip, lost>>
      BY <2>2, Zenon DEF DnsDone
    <3> QED
      BY <3>1, PollShape DEF Plain
  <2> QED
    BY <1>6, <2>1, <2>2
<1>7. ASSUME NEW p \in Used,
             LoginAccepted(p) \/ BadJob(p) \/ JobReceived(p) \/ \E b \in BOOLEAN : ErrorAnswer(p, b)
      PROVE  Plain /\ Modelled
  <2>1. Line(p) /\ notices' = notices
    BY <1>7 DEF LoginAccepted, BadJob, JobReceived, ErrorAnswer
  <2> QED
    BY <2>1, PollShape DEF Plain
<1>8. ASSUME NEW p \in Used, ReconnectNotice(p) PROVE Plain /\ Modelled
  BY <1>8, PollShape DEF ReconnectNotice, Plain
<1>9. ASSUME NEW p \in Used,
             \/ ReadError(p) \/ WriteError(p) \/ Expire(p) \/ SubmitBlock(p)
             \/ \E b \in BOOLEAN : HandshakeDone(p, b) \/ TimerFires(p, b)
             \/ \E ok, written \in BOOLEAN : ConnectDone(p, ok, written)
      PROVE  Plain /\ Modelled
  <2>1. Apart /\ deleted' = deleted
    <3>1. CASE ReadError(p) \/ WriteError(p)
      BY <3>1 DEF ReadError, WriteError
    <3>2. CASE Expire(p) \/ SubmitBlock(p)
      BY <3>2 DEF Expire, SubmitBlock
    <3>3. CASE \E b \in BOOLEAN : HandshakeDone(p, b) \/ TimerFires(p, b)
      BY <3>3 DEF HandshakeDone, TimerFires
    <3>4. CASE \E ok, written \in BOOLEAN : ConnectDone(p, ok, written)
      BY <3>4 DEF ConnectDone
    <3> QED
      BY <1>9, <3>1, <3>2, <3>3, <3>4
  <2> QED
    BY <2>1, PollShape DEF Plain
<1>10. ASSUME NEW p \in Used, NEW r \in c[p].reqs, LoseRequest(p, r)
       PROVE  Plain /\ Modelled
  BY <1>10, PollShape DEF LoseRequest, Plain
<1>11. ASSUME NEW p \in Used, NEW r \in c[p].reqs, NEW ok \in BOOLEAN, HttpAnswer(p, r, ok)
       PROVE  Plain /\ Modelled
  BY <1>11, PollShape DEF HttpAnswer, Plain
<1>12. CASE UNCHANGED vars
  BY <1>12 DEF vars, bounds, Plain
<1> QED
  BY <1>1, <1>2, <1>3, <1>4, <1>5, <1>6, <1>7, <1>8, <1>9, <1>10, <1>11, <1>12, Zenon DEF Next

LEMMA NextGoes ==
  ASSUME NetInv, ChoiceOK(Now), ~deleted, ~deleted', [Next]_vars
  PROVE  Goes
<1>1. CASE Start \/ CloseCallback \/ Tell
  BY <1>1, StartChoice, CloseCallbackChoice, TellChoice
<1>2. CASE \/ NewBlock \/ EndTurn
           \/ \E h \in Hosts : DnsStale(h) \/ \E ok \in BOOLEAN : DnsDone(h, ok)
           \/ \E p \in Used : JobReceived(p)
  BY <1>2, QuietChoice
<1>3. CASE ChangeConfig
  BY <1>3 DEF ChangeConfig
<1>4. CASE \E p \in Used :
             \/ LoginAccepted(p) \/ BadJob(p) \/ ReconnectNotice(p)
             \/ ReadError(p) \/ WriteError(p) \/ Expire(p) \/ SubmitBlock(p)
  BY <1>4, LoginAcceptedChoice, BadAnswerChoice, ReconnectNoticeChoice, ReadErrorChoice,
     WriteErrorChoice, ExpireChoice, SubmitBlockChoice
<1>5. CASE \E p \in Used, b \in BOOLEAN :
             HandshakeDone(p, b) \/ ErrorAnswer(p, b) \/ TimerFires(p, b)
  BY <1>5, HandshakeDoneChoice, BadAnswerChoice, TimerFiresChoice
<1>6. CASE \E p \in Used, ok \in BOOLEAN, written \in BOOLEAN : ConnectDone(p, ok, written)
  BY <1>6, ConnectDoneChoice
<1>7. CASE \E p \in Used : \E r \in c[p].reqs :
             LoseRequest(p, r) \/ \E ok \in BOOLEAN : HttpAnswer(p, r, ok)
  BY <1>7, LoseRequestChoice, HttpAnswerChoice
<1>8. CASE UNCHANGED vars
  BY <1>8, FrameChoice DEF vars
<1> QED
  BY <1>1, <1>2, <1>3, <1>4, <1>5, <1>6, <1>7, <1>8, Zenon DEF Next

LEMMA NextChoice ==
  ASSUME NetInv, ChoiceInv, [Next]_vars, ~deleted'
  PROVE  Goes
<1>1. ~deleted
  BY NextShape DEF Plain
<1>2. ChoiceOK(Now)
  BY <1>1 DEF ChoiceInv
<1> QED
  BY <1>1, <1>2, NextGoes

\* While the strategy is not deleted, its active pool is the one that is logged on, and
\* a pool that is logged on is the active one unless it is a backup whose client was
\* let go in the middle of a lookup (FailoverStrategy::onLoginSuccess, onClose).
THEOREM ChoiceCorrect == Spec => []ChoiceInv
<1>1. NetInv /\ ChoiceInv /\ [Next]_vars => ChoiceInv'
  BY NextChoice DEF ChoiceInv, Goes
<1> QED
  BY <1>1, InitChoice, NetCorrect, PTL DEF Spec

\* The strategy gets a pool from none, drops the one it has, or passes from a backup to
\* the first pool, whatever the pools and the network do (Chosen, FailoverStrategy::onClose).
THEOREM HandsOver == Spec => [][~deleted' => Handed(active, active')]_vars
<1>1. NetInv /\ ChoiceInv /\ [Next]_vars => [~deleted' => Handed(active, active')]_vars
  BY NextChoice DEF Goes
<1> QED
  BY <1>1, NetCorrect, ChoiceCorrect, PTL DEF Spec

-----------------------------------------------------------------------------
(* The strategies implement PoolChoice.                                    *)

Up == {p \in Pools : LoggedOn(p, c[p]) /\ (c[p].again => active = p)}

LEMMA NoneIsNoPool == None \notin Pools
BY LastPoolAssumption DEF Pools, None

LEMMA UpIs ==
  NetInv /\ ChoiceInv /\ ~Retired =>
    /\ active \in Pools \cup {None} /\ work = active
    /\ Up = IF active = None THEN {} ELSE {active}
<1> SUFFICES ASSUME NetInv, ChoiceInv, ~Retired
    PROVE  /\ active \in Pools \cup {None} /\ work = active
           /\ Up = IF active = None THEN {} ELSE {active}
  OBVIOUS
<1>1. ~deleted /\ Modelled /\ ~(Single /\ notices > 0)
  BY DEF Retired
<1>2. work = active
  BY <1>1, NowIs, Zenon DEF NetInv, NetOK, MinerOK, Noted
<1>3. /\ \A p \in Pools : Fits(active, p, c[p]) /\ ~c[p].overwritten
      /\ active \in Pools \cup {None}
  BY <1>1, NowIs, Here DEF ChoiceInv, ChoiceOK, IndexOK, Modelled
<1>4. \A p \in Pools : p \in Up <=> active = p
  BY <1>3 DEF Up, Fits
<1>5. Up \subseteq Pools
  BY DEF Up
<1> QED
  BY <1>2, <1>3, <1>4, <1>5, NoneIsNoPool

LEMMA RetiredStays ==
  ASSUME NetInv, ChoiceInv, [Next]_vars, Retired
  PROVE  Retired'
<1>1. CASE deleted
  BY <1>1, NextShape DEF Retired, Plain
<1>2. CASE Single /\ notices > 0
  <2>1. last' = last /\ (notices' = notices \/ notices' = notices + 1) /\ notices \in Nat
    BY NextShape DEF NetInv, Plain, config
  <2> QED
    BY <1>2, <2>1 DEF Retired, Single
<1>3. CASE ~deleted /\ ~Modelled
  <2>1. CASE UNCHANGED vars
    BY <1>3, <2>1 DEF Retired, Modelled, vars
  <2>2. CASE Tell
    <3>1. \A q \in Pools : c[q].overwritten => c'[q].overwritten
      BY <1>3, <2>2, TellChoice DEF ChoiceInv
    <3> QED
      BY <1>3, <3>1 DEF Retired, Modelled
  <2> QED
    BY <1>3, <2>1, <2>2, NextShape
<1> QED
  BY <1>1, <1>2, <1>3 DEF Retired

LEMMA InitImplementsChoice ==
  ASSUME Init
  PROVE  Choice!Init
<1>1. NetInv /\ ChoiceInv /\ active = None
  BY InitInv, InitChoice DEF Init
<1>2. ~Retired
  <2>1. ~deleted /\ notices = 0 /\ \A p \in Pools : c[p] = NewClient
    BY DEF Init
  <2>2. ~NewClient.overwritten
    BY DEF NewClient
  <2> QED
    BY <2>1, <2>2 DEF Retired, Modelled
<1> QED
  BY <1>1, <1>2, UpIs DEF Choice!Init, Up

LEMMA StepMoves ==
  ASSUME NetInv, ChoiceInv, [Next]_vars, NetInv', ChoiceInv', ~Retired, ~Retired'
  PROVE  UNCHANGED Choice!vars \/ \E p \in Pools : Choice!LogOn(p) \/ Choice!Fail(p)
<1>1. /\ active \in Pools \cup {None} /\ work = active
      /\ Up = IF active = None THEN {} ELSE {active}
  BY UpIs
<1>2. (NetInv /\ ChoiceInv /\ ~Retired =>
        /\ active \in Pools \cup {None} /\ work = active
        /\ Up = IF active = None THEN {} ELSE {active})'
  BY UpIs, PTL
<1>3. /\ active' \in Pools \cup {None} /\ work' = active'
      /\ Up' = IF active' = None THEN {} ELSE {active'}
  BY <1>2
<1>4. Handed(active, active')
  <2>1. ~deleted'
    BY DEF Retired
  <2> QED
    BY <2>1, NextChoice DEF Goes
<1>5. /\ (IF Retired THEN None ELSE active) = active /\ (IF Retired THEN None ELSE active)' = active'
      /\ (IF Retired THEN None ELSE work) = work /\ (IF Retired THEN None ELSE work)' = work'
      /\ Retired' = Retired
  BY DEF Retired
<1>6. /\ (IF Retired THEN {} ELSE {p \in Pools : LoggedOn(p, c[p]) /\ (c[p].again => active = p)})
         = Up
      /\ (IF Retired THEN {} ELSE {p \in Pools : LoggedOn(p, c[p]) /\ (c[p].again => active = p)})'
         = Up'
  BY DEF Up
<1>7. CASE active' = active
  BY <1>1, <1>3, <1>5, <1>6, <1>7 DEF Choice!vars
<1>8. ASSUME NEW p \in Pools, active' = p, active # p
      PROVE  Choice!LogOn(p)
  <2>1. p \notin Up /\ (p = 0 \/ Up = {}) /\ Up' = {p} /\ work' = p
    BY <1>1, <1>3, <1>4, <1>8, NoneIsNoPool DEF Handed
  <2> QED
    BY <1>5, <1>6, <1>8, <2>1 DEF Choice!LogOn
<1>9. ASSUME NEW p \in Pools, active = p, active' = None
      PROVE  Choice!Fail(p)
  <2>1. p \in Up /\ Up' = Up \ {p} /\ work' = None
    BY <1>1, <1>3, <1>9, NoneIsNoPool
  <2> QED
    BY <1>5, <1>6, <1>9, <2>1 DEF Choice!Fail
<1> QED
  BY <1>1, <1>3, <1>7, <1>8, <1>9

LEMMA StepImplementsChoice ==
  NetInv /\ ChoiceInv /\ [Next]_vars /\ NetInv' /\ ChoiceInv' => [Choice!Next]_Choice!vars
<1> SUFFICES ASSUME NetInv, ChoiceInv, [Next]_vars, NetInv', ChoiceInv'
    PROVE  [Choice!Next]_Choice!vars
  OBVIOUS
<1>1. CASE Retired
  BY <1>1, RetiredStays DEF Choice!vars
<1>2. CASE ~Retired /\ Retired'
  <2>1. Choice!Retire
    BY <1>2 DEF Choice!Retire
  <2> QED
    BY <2>1 DEF Choice!Next
<1>3. CASE ~Retired /\ ~Retired'
  BY <1>3, StepMoves DEF Choice!Next
<1> QED
  BY <1>1, <1>2, <1>3

\* Every behaviour of the strategy, its clients and the resolver is a behaviour of
\* PoolChoice: the miner works for a pool that is logged on, and no other pool gets
\* logged on but the first one, which takes over with its first job.
THEOREM ImplementsPoolChoice == Spec => ImplementsChoice
<1> QED
  BY InitImplementsChoice, StepImplementsChoice, NetCorrect, ChoiceCorrect, PTL
     DEF Spec, ImplementsChoice, Choice!Spec

=============================================================================

------------------------------- MODULE Client -------------------------------
(***************************************************************************)
(* A pool's client, as a record and the operators of its handlers: the     *)
(* stratum client (base/net/stratum/Client.cpp), which owns a TCP socket,  *)
(* and the daemon client (DaemonClient.cpp), which polls a node over HTTP. *)
(* An operator returns the record a handler leaves behind; what a handler  *)
(* tells its listener is up to Network, which composes the clients with    *)
(* the strategy, the resolver and the event loop.                          *)
(*                                                                         *)
(* Time is abstract: expire says that m_expire (or the timer) is armed, an *)
(* armed one may run out at any time.                                      *)
(***************************************************************************)
EXTENDS Integers

CONSTANTS Retries,      \* m_retries: failures of the first pool before a backup is tried
          MaxTip        \* bound: blocks the node's chain grows to

ASSUME RetriesAssumption == Retries \in Nat \ {0}

Disconnected == -1      \* m_failures of a client that was told to disconnect

\* state is "Unconnected", "HostLookup", "Connecting", "Connected", "Closing" or
\* "Reconnecting" (BaseClient's SocketState).  sock: the socket the client holds (m_socket), "none",
\* "connecting", "open", "dead" or "closing"; login: what has become of the login
\* request sent over it, "no", "sent", "refused" or "in"; again: connect() was
\* called while it held one; reqs: requests of a daemon client under way, with the
\* block its node was at.
NewClient ==
  [state |-> "Unconnected", failures |-> 0, expire |-> FALSE, listener |-> TRUE,
   alive |-> TRUE, lookup |-> FALSE, sock |-> "none", login |-> "no", again |-> FALSE,
   overwritten |-> FALSE, reqs |-> {}, polls |-> FALSE, job |-> 0, asked |-> 0]

\* Counted up to Retries, the only number it is compared with.
OneMore(failures) == IF failures < Retries THEN failures + 1 ELSE failures

-----------------------------------------------------------------------------
(* The stratum client.                                                     *)

\* setState: a state that is entered again leaves the time-out as it is.
SetStateFaulty(c, state) ==
  IF c.state = state THEN c
  ELSE [c EXCEPT !.state = state, !.expire = state = "Connecting"]
SetState(c, state) ==
  IF c.state = state THEN c
  ELSE [c EXCEPT !.state = state,
                 !.expire = (@ \/ state \in {"Connecting", "Reconnecting"})
                            /\ state # "HostLookup"]

\* close() begins to close the socket the client holds.
Closes(c) == c.state \notin {"Closing", "Unconnected"} /\ c.sock # "none"
Close(c) == IF Closes(c) THEN [SetState(c, "Closing") EXCEPT !.sock = "closing"] ELSE c

Disconnect(c) == Close([c EXCEPT !.expire = FALSE, !.failures = Disconnected])

\* connect(): look the host up; a disconnected client counts anew.
Resolve(c) ==
  [SetState(c, "HostLookup") EXCEPT !.lookup = TRUE, !.again = @ \/ c.sock # "none",
     !.failures = IF @ = Disconnected THEN 0 ELSE @]

\* connect(addr): a new socket takes the place of the one the client held, if
\* any. (What becomes of a socket that is overwritten is not modelled.)
Open(c) ==
  [SetState(c, "Connecting") EXCEPT !.sock = "connecting", !.login = "no",
     !.lookup = FALSE, !.overwritten = c.sock # "none"]

\* send: the time-out of the answer is set, and cleared by startTimeout.
Login(c, written) ==
  IF written THEN [c EXCEPT !.login = "sent", !.expire = FALSE] ELSE Close(c)

\* onConnect and handshake(): a pool with TLS first shakes hands, under a
\* time-out; others log in at once. A failure counts while connecting only.
OnConnect(c, secure, written) ==
  LET n == SetState([c EXCEPT !.sock = "open"], "Connected")
  IN  IF secure THEN [n EXCEPT !.expire = TRUE] ELSE Login(n, written)
OnConnectFailedFaulty(c) ==
  IF c.state = "Connecting" THEN SetState(c, "Reconnecting") ELSE c
OnConnectFailed(c) ==
  IF c.state = "Connecting" THEN Close(c) ELSE [c EXCEPT !.sock = "dead"]

\* parseLogin succeeded.
LoggedIn(c) == [c EXCEPT !.failures = 0, !.login = "in"]

\* onClose() deletes the socket.
OnClosed(c) == [SetState(c, "Unconnected") EXCEPT !.sock = "none"]

\* reconnect() of a client that was not told to disconnect.
Reconnecting(c) == [SetState(c, "Reconnecting") EXCEPT !.failures = OneMore(@)]

\* A critical error, and any error on the pool with id 1, closes the client.
OnError(c, p, critical) ==
  LET r == [c EXCEPT !.login = IF @ = "sent" THEN "refused" ELSE @]
  IN  IF p = 1 \/ critical THEN Close(r) ELSE r

-----------------------------------------------------------------------------
(* The daemon client, without ZeroMQ. expire: m_timer is armed; polls: it  *)
(* repeats; asked: m_blocktemplateRequestHash; job: m_prevHash.            *)

Fetch(c, kind, tip) == [c EXCEPT !.reqs = @ \cup {[kind |-> kind, from |-> tip]}]

DaemonConnect(c, tip) == Fetch([c EXCEPT !.state = "Connecting"], "template", tip)

DaemonDisconnect(c) ==
  IF c.state = "Unconnected" THEN c
  ELSE [c EXCEPT !.state = "Unconnected", !.failures = Disconnected,
                 !.expire = FALSE, !.polls = FALSE]

\* retry(): also a disconnected client arms its timer.
DaemonRetry(c) ==
  [c EXCEPT !.failures = OneMore(@), !.expire = TRUE, !.polls = FALSE,
            !.state = IF @ = "Connected" THEN "Connecting" ELSE @]

\* onTimer; old: the job has outlived its time-out, ask for another one.
DaemonTimerFaulty(c, old, tip) ==
  LET t == [c EXCEPT !.expire = c.polls, !.job = IF old THEN 0 ELSE @]
  IN  CASE c.state = "Connecting" -> DaemonConnect(t, tip)
        [] c.state = "Connected" -> Fetch(t, "height", tip)
        [] OTHER -> t
DaemonTimer(c, old, tip) ==
  LET t == [c EXCEPT !.expire = c.polls, !.job = IF old THEN 0 ELSE @,
                     !.asked = IF old THEN 0 ELSE @]
  IN  CASE c.state = "Connecting" -> DaemonConnect(t, tip)
        [] c.state = "Connected" -> Fetch(t, "height", tip)
        [] OTHER -> t

\* The answer to /getheight: a template is asked for once per block.
OnHeight(c, seen, tip) ==
  IF c.job # seen /\ c.asked # seen
  THEN Fetch([c EXCEPT !.asked = seen], "template", tip) ELSE c

\* parseJob: the first template makes the client connected.
OnTemplate(c, seen) ==
  IF c.state = "Connecting"
  THEN [c EXCEPT !.job = seen, !.state = "Connected", !.failures = 0,
                 !.expire = TRUE, !.polls = TRUE]
  ELSE [c EXCEPT !.job = seen]
=============================================================================

------------------------------ MODULE Network ------------------------------
(***************************************************************************)
(* The network side of the miner: the strategy that chooses among the      *)
(* pools (FailoverStrategy, SinglePoolStrategy), their clients, the shared *)
(* resolver (DnsUvBackend) and the event loop that calls them (libuv:      *)
(* handles closed in one turn get their close callbacks at its end, last   *)
(* closed first).                                                          *)
(*                                                                         *)
(* One action is one callback of the loop, with the calls it makes, which  *)
(* are operators from state to state; Become installs the last one. Only   *)
(* DnsUvBackend::notify, which tells one client after the other how a      *)
(* lookup ended, takes an action, Tell, for each: a client that is told    *)
(* of a failure tells the strategy, which connects the next pool, whose    *)
(* host may be known to be unreachable, so that notify calls itself. The   *)
(* calls of notify that have not returned are a stack, telling.            *)
(***************************************************************************)
EXTENDS Client, Sequences, SequencesExt

CONSTANTS LastPool,     \* the pools a configuration may name are 0..LastPool, in order
          Hosts,        \* the hosts they are at, each named by the first pool there
          Daemons,      \* the pools that may be daemons
          Configs       \* configurations: [last, kind, host, secure, limits], see below

ASSUME LastPoolAssumption == LastPool \in Nat

Pools == 0..LastPool

\* Every enabled pool of a configuration is there, of some kind, on some host.
ASSUME ConfigsAssumption ==
  \A f \in Configs : /\ f.last \in Pools
                     /\ f.kind \in [Pools -> {"pool", "daemon"}]
                     /\ f.host \in [Pools -> Hosts]

VARIABLES kind,       \* "pool" or "daemon", of each pool
          host,       \* the pool's host
          secure,     \* the pools with TLS
          last,       \* the last enabled pool
          limits,     \* bounds: faults of the pools, the network and the resolver;
                      \* client.reconnect notices; tip, the node's last block
          c,          \* the clients
          index, active,   \* FailoverStrategy::m_index, m_active
          work,       \* the pool whose job Miner has, None when paused
          dns,        \* of each host: who waits, whether a lookup runs, its last outcome
          closing,    \* the stack of handles whose close callback is due: a set for
                      \* those closed in one loop over the pools, in their order
          telling,    \* the stack of calls of notify: [host, told, rest], the client
                      \* whose onResolved it has called, and those still to be told
          draining,   \* the loop runs the close callbacks
          chunk,      \* the client in the middle of the lines it has received
          deleted,    \* the configuration has changed: the strategy is deleted
          tip,        \* the block a daemon is at
          faults, notices, lost   \* faults and notices so far; a request was lost

config == <<kind, host, secure, last, limits>>
bounds == <<faults, notices, lost>>
vars == <<config, c, index, active, work, dns, closing, telling, draining, chunk,
          deleted, tip, bounds>>

None == -1
Used == {p \in Pools : p <= last}
Single == last = 0

-----------------------------------------------------------------------------
(* States of the program, and the calls that lead from one to the next.    *)

Now == [c |-> c, index |-> index, active |-> active, work |-> work, dns |-> dns,
        closing |-> closing, telling |-> telling]
Become(s) ==
  \E n \in {s} : /\ c' = n.c /\ index' = n.index /\ active' = n.active /\ work' = n.work
                 /\ dns' = n.dns /\ closing' = n.closing /\ telling' = n.telling

\* The clients are now d. uv_close pushes a handle on the stack of the loop.
Changed(s, d) ==
  LET handles == {p \in Pools : d[p].sock = "closing" /\ s.c[p].sock # "closing"}
  IN  [s EXCEPT !.c = d, !.closing = IF handles = {} THEN @ ELSE <<handles>> \o @]
With(s, p, n) == Changed(s, [s.c EXCEPT ![p] = n])

DisconnectPools(s, which) ==
  Changed(s, [p \in Pools |-> IF p \notin which THEN s.c[p]
                              ELSE IF kind[p] = "pool" THEN Disconnect(s.c[p])
                              ELSE DaemonDisconnect(s.c[p])])

\* Network::onPause, once the strategy has no active client.
Pause(s) == [s EXCEPT !.active = None, !.work = None]

\* onJobReceived: Failover passes on the jobs of its active client only.
OnJobFaulty(s, p) == IF s.c[p].listener THEN [s EXCEPT !.work = p] ELSE s
OnJob(s, p) ==
  IF ~s.c[p].listener THEN s
  ELSE IF Single \/ s.active = p THEN [s EXCEPT !.work = p] ELSE s

\* The first pool takes over from a backup; the other backups are let go.
ChosenFaulty(s, p) == IF s.active = None THEN p ELSE s.active
Chosen(s, p) == IF p = 0 \/ s.active = None THEN p ELSE s.active
OnLoginSuccessFaulty(s, p) ==
  IF Single \/ Chosen(s, p) = s.active THEN [s EXCEPT !.active = Chosen(s, p)]
  ELSE [s EXCEPT !.index = Chosen(s, p), !.active = Chosen(s, p)]
OnLoginSuccess(s, p) ==
  IF Single THEN [s EXCEPT !.active = p]
  ELSE LET a == Chosen(s, p)
           t == DisconnectPools(s, {i \in Used : i >= 1 /\ i # a})
       IN  IF a # s.active THEN [t EXCEPT !.index = a, !.active = a] ELSE t

\* notify goes through the clients that wait for the host.
Notify(s, h) ==
  [s EXCEPT !.telling = <<[host |-> h, told |-> None, rest |-> s.dns[h].queue]>> \o @]

\* DnsUvBackend::resolve: an answer that is still fresh is given at once. A client
\* has dropped an earlier request of its own.
Without(q, p) ==
  IF \E i \in DOMAIN q : q[i] = p THEN RemoveAt(q, CHOOSE i \in DOMAIN q : q[i] = p) ELSE q
Lookup(s, p) ==
  LET h == host[p]
      q == [s EXCEPT !.dns[h].queue = Append(Without(@, p), p)]
  IN  IF q.dns[h].fresh THEN Notify(q, h) ELSE [q EXCEPT !.dns[h].runs = TRUE]

Connect(s, p) ==
  IF kind[p] = "daemon" THEN [s EXCEPT !.c[p] = DaemonConnect(@, tip)]
  ELSE Lookup([s EXCEPT !.c[p] = Resolve(@)], p)

\* The strategies' onClose: a backup is tried once the first pool has failed
\* often enough, the next one when a backup fails.
OnClose(s, p, failures) ==
  IF Single THEN (IF s.active = p THEN Pause(s) ELSE s)
  ELSE LET t == IF s.active = p THEN Pause(s) ELSE s
       IN  CASE failures = Disconnected -> s
             [] failures # Disconnected /\ t.index = 0 /\ failures < Retries -> t
             [] failures # Disconnected /\ ~(t.index = 0 /\ failures < Retries) ->
                  IF t.index = p /\ p < last
                  THEN Connect([t EXCEPT !.index = p + 1], p + 1) ELSE t

Gone(s, p) == [s EXCEPT !.c[p].alive = FALSE, !.c[p].lookup = FALSE]

Reconnect(s, p) ==
  CASE ~s.c[p].listener -> Gone(s, p)
    [] s.c[p].listener /\ s.c[p].failures = Disconnected -> OnClose(s, p, Disconnected)
    [] OTHER -> LET t == With(s, p, Reconnecting(s.c[p]))
                IN  OnClose(t, p, t.c[p].failures)

OnResolved(s, p) ==
  IF s.c[p].listener /\ s.dns[host[p]].result = "ok" THEN [s EXCEPT !.c[p] = Open(@)]
  ELSE Reconnect(s, p)

\* retry() of the daemon client.
FailDaemon(s, p) ==
  LET t == [s EXCEPT !.c[p] = DaemonRetry(@)] IN OnClose(t, p, t.c[p].failures)

\* Deleting the strategy: a client that has nothing to close goes at once.
DeletedFaulty(n, p) ==
  LET m == Disconnect([n EXCEPT !.listener = FALSE])
  IN  IF m.state \in {"Closing", "Reconnecting"} THEN m
      ELSE [m EXCEPT !.alive = FALSE, !.lookup = FALSE]
Deleted(n, p) ==
  IF kind[p] = "daemon" THEN [n EXCEPT !.reqs = {}, !.expire = FALSE, !.alive = FALSE, !.lookup = FALSE]
  ELSE LET m == Disconnect([n EXCEPT !.listener = FALSE])
       IN  IF m.state = "Closing" THEN m ELSE [m EXCEPT !.alive = FALSE, !.lookup = FALSE]

-----------------------------------------------------------------------------
(* The callbacks of the event loop. Costs bounds the faults.               *)

NoLookup == [queue |-> <<>>, runs |-> FALSE, fresh |-> FALSE, result |-> "none"]

Init ==
  /\ \E f \in Configs :
       /\ last = f.last /\ kind = f.kind /\ host = f.host /\ secure = f.secure
       /\ limits = f.limits
  /\ dns = [h \in Hosts |-> NoLookup]
  /\ c = [p \in Pools |-> NewClient]
  /\ index = 0 /\ active = None /\ work = None
  /\ closing = <<>> /\ telling = <<>> /\ draining = FALSE /\ chunk = None /\ deleted = FALSE
  /\ tip = 1 /\ faults = 0 /\ notices = 0 /\ lost = FALSE

Costs(fault) ==
  IF fault THEN faults < limits.faults /\ faults' = faults + 1 ELSE faults' = faults

\* The model ends where a client overwrites the socket it holds.
Modelled == \A p \in Pools : ~c[p].overwritten
Polling == Modelled /\ ~draining
Ready == Polling /\ telling = <<>>
Polls == Ready /\ UNCHANGED <<config, draining>>
Apart == Polls /\ chunk' = None /\ UNCHANGED notices

Start ==
  /\ Apart /\ Costs(FALSE) /\ ~deleted
  /\ c[0].state = "Unconnected"
  /\ Become(Connect(Now, 0))
  /\ UNCHANGED <<deleted, tip, lost>>

\* DnsUvBackend::onResolved: the outcome, good or bad, is kept for a while.
DnsDone(h, ok) ==
  /\ Apart /\ Costs(~ok)
  /\ dns[h].runs
  /\ LET s == [Now EXCEPT !.dns[h].fresh = TRUE,
                          !.dns[h].result = IF ok THEN "ok" ELSE "error"]
     IN  Become(Notify(s, h))
  /\ UNCHANGED <<deleted, tip, lost>>

\* Everyone in the queue whose request is still alive is told. The one that is being
\* told counts as alive for a call of notify that its own one leads to.
Tell ==
  /\ telling # <<>>
  /\ LET f == Head(telling)
         s == IF f.told = None THEN Now ELSE [Now EXCEPT !.c[f.told].lookup = FALSE]
     IN  IF f.rest = <<>>
         THEN Become([s EXCEPT !.telling = Tail(@), !.dns[f.host].queue = <<>>,
                               !.dns[f.host].runs = FALSE])
         ELSE LET p == Head(f.rest)
                  t == [s EXCEPT !.telling[1].rest = Tail(@),
                                 !.telling[1].told = IF s.c[p].lookup THEN p ELSE None]
              IN  Become(IF s.c[p].lookup THEN OnResolved(t, p) ELSE t)
  /\ draining' = (draining /\ (closing' # <<>> \/ telling' # <<>>))
  /\ UNCHANGED <<config, chunk, deleted, tip, bounds>>

DnsStale(h) ==
  /\ Polls /\ Costs(FALSE)
  /\ dns[h].fresh
  /\ Become([Now EXCEPT !.dns[h].fresh = FALSE])
  /\ UNCHANGED <<chunk, deleted, tip, lost, notices>>

ConnectDone(p, ok, written) ==
  /\ Apart /\ Costs(~ok \/ ~written)
  /\ c[p].sock = "connecting"
  /\ Become(With(Now, p, IF ok THEN OnConnect(c[p], p \in secure, written)
                                ELSE OnConnectFailed(c[p])))
  /\ UNCHANGED <<deleted, tip, lost>>

\* A line arrives on an open socket, or is left in the chunk that was being
\* parsed when an earlier line made the client close the socket.
Line(p) ==
  /\ Polls /\ chunk' = p
  /\ \/ c[p].sock = "open"
     \/ chunk = p /\ c[p].sock = "closing"
  /\ UNCHANGED <<deleted, tip, lost>>

HandshakeDone(p, written) ==
  /\ Apart /\ Costs(~written)
  /\ p \in secure /\ c[p].state = "Connected" /\ c[p].login = "no"
  /\ c[p].sock = "open"
  /\ Become(With(Now, p, Login(c[p], written)))
  /\ UNCHANGED <<deleted, tip, lost>>

LoginAccepted(p) ==
  /\ Line(p) /\ Costs(FALSE) /\ UNCHANGED notices
  /\ c[p].login = "sent"
  /\ Become(OnJob(OnLoginSuccess([Now EXCEPT !.c[p] = LoggedIn(@)], p), p))

\* A login or a notification with a job that cannot be used, or is the same
\* as the last one.
BadJob(p) ==
  /\ Line(p) /\ Costs(TRUE) /\ UNCHANGED notices
  /\ c[p].login \in {"sent", "in"}
  /\ Become(With(Now, p, Close([c[p] EXCEPT !.login = IF @ = "sent" THEN "refused" ELSE @])))

JobReceived(p) ==
  /\ Line(p) /\ Costs(FALSE) /\ UNCHANGED notices
  /\ c[p].login = "in"
  /\ Become(OnJob(Now, p))

ErrorAnswer(p, critical) ==
  /\ Line(p) /\ Costs(TRUE) /\ UNCHANGED notices
  /\ c[p].login \in {"sent", "in"}
  /\ Become(With(Now, p, OnError(c[p], p, critical)))

\* client.reconnect: the client retries later and keeps the socket open.
ReconnectNotice(p) ==
  /\ Line(p) /\ Costs(FALSE)
  /\ notices < limits.notices /\ notices' = notices + 1
  /\ c[p].login = "in"
  /\ Become(Reconnect(Now, p))

\* The peer has closed the connection; a refused login makes it do so.
ReadError(p) ==
  /\ Apart /\ Costs(c[p].login # "refused")
  /\ c[p].sock = "open"
  /\ Become(With(Now, p, Close(c[p])))
  /\ UNCHANGED <<deleted, tip, lost>>

\* A share or a keep-alive message cannot be written.
WriteError(p) ==
  /\ Apart /\ Costs(TRUE)
  /\ c[p].state = "Connected" /\ c[p].login = "in"
  /\ Become(With(Now, p, Close(c[p])))
  /\ UNCHANGED <<deleted, tip, lost>>

\* tick: a time-out has passed; that a pool does not answer in time is a fault.
Expire(p) ==
  /\ Apart /\ Costs(c[p].state # "Reconnecting") /\ ~deleted
  /\ kind[p] = "pool" /\ c[p].expire
  /\ \/ /\ c[p].state \in {"Connected", "Connecting"}
        /\ Become(With(Now, p, Close(c[p])))
     \/ /\ c[p].state = "Reconnecting"
        /\ Become(Connect(Now, p))
  /\ UNCHANGED <<deleted, tip, lost>>

TimerFires(p, old) ==
  /\ Apart /\ Costs(FALSE)
  /\ kind[p] = "daemon" /\ c[p].expire
  /\ Become([Now EXCEPT !.c[p] = DaemonTimer(@, old, tip)])
  /\ UNCHANGED <<deleted, tip, lost>>

\* The first template of a connection also means the login has succeeded.
Templated(s, p, seen) ==
  LET t == [s EXCEPT !.c[p] = OnTemplate(@, seen)]
  IN  OnJob(IF s.c[p].state = "Connecting" THEN OnLoginSuccess(t, p) ELSE t, p)

\* onHttpData; the node answers with a block it was at since the request.
HttpAnswer(p, r, ok) ==
  /\ Apart /\ Costs(~ok)
  /\ r \in c[p].reqs
  /\ LET s == [Now EXCEPT !.c[p].reqs = @ \ {r}]
     IN  IF ~ok THEN Become(FailDaemon(s, p))
         ELSE \E seen \in r.from..tip :
                Become(CASE r.kind = "template" -> Templated(s, p, seen)
                         [] r.kind = "height" ->
                              [s EXCEPT !.c[p] = OnHeight(@, seen, tip)]
                         [] r.kind = "submit" ->
                              [s EXCEPT !.c[p] = Fetch(@, "template", tip)])
  /\ UNCHANGED <<deleted, tip, lost>>

\* HttpClient::onResolved: the host is not found, and nobody is told.
LoseRequest(p, r) ==
  /\ Apart /\ Costs(TRUE)
  /\ r \in c[p].reqs
  /\ Become([Now EXCEPT !.c[p].reqs = @ \ {r}])
  /\ lost' = TRUE
  /\ UNCHANGED <<deleted, tip>>

SubmitBlock(p) ==
  /\ Apart /\ Costs(FALSE) /\ ~deleted
  /\ kind[p] = "daemon" /\ work = p /\ active = p /\ c[p].job # 0
  /\ Become([Now EXCEPT !.c[p] = Fetch(@, "submit", tip)])
  /\ UNCHANGED <<deleted, tip, lost>>

NewBlock ==
  /\ Polls /\ tip < limits.tip /\ tip' = tip + 1
  /\ Costs(FALSE) /\ Become(Now)
  /\ UNCHANGED <<chunk, deleted, lost, notices>>

\* Network::onConfigChanged: stop the strategy, then delete it.
Stopped ==
  LET t == DisconnectPools(Now, Used)
  IN  IF Single THEN t ELSE Pause([t EXCEPT !.index = 0])
ChangeConfig ==
  /\ Apart /\ Costs(FALSE)
  /\ ~deleted /\ deleted' = TRUE
  /\ LET d == [p \in Pools |-> IF p \in Used THEN Deleted(Stopped.c[p], p) ELSE c[p]]
     IN  Become(Changed(Stopped, d))
  /\ UNCHANGED <<tip, lost>>

EndTurn ==
  /\ Ready /\ closing # <<>>
  /\ draining' = TRUE /\ chunk' = None
  /\ UNCHANGED <<config, c, index, active, work, dns, closing, telling, deleted, tip, bounds>>

\* Client::onClose finds the client by its key, deletes its socket and retries.
CloseCallback ==
  /\ draining /\ Modelled /\ telling = <<>> /\ closing # <<>>
  /\ \E p \in Head(closing) :
       /\ \A q \in Head(closing) : q <= p
       /\ LET others == Head(closing) \ {p}
              s == [Now EXCEPT !.closing = (IF others = {} THEN <<>> ELSE <<others>>) \o Tail(@),
                               !.c[p] = OnClosed(@)]
          IN  Become(Reconnect(s, p))
  /\ draining' = (closing' # <<>> \/ telling' # <<>>)
  /\ UNCHANGED <<config, chunk, deleted, tip, bounds>>

Next ==
  \/ Start \/ NewBlock \/ ChangeConfig \/ EndTurn \/ CloseCallback \/ Tell
  \/ \E h \in Hosts : DnsStale(h) \/ \E ok \in BOOLEAN : DnsDone(h, ok)
  \/ \E p \in Used :
       \/ LoginAccepted(p) \/ BadJob(p) \/ JobReceived(p) \/ ReconnectNotice(p)
       \/ ReadError(p) \/ WriteError(p) \/ Expire(p) \/ SubmitBlock(p)
       \/ \E b \in BOOLEAN : HandshakeDone(p, b) \/ ErrorAnswer(p, b) \/ TimerFires(p, b)
       \/ \E ok, written \in BOOLEAN : ConnectDone(p, ok, written)
       \/ \E r \in c[p].reqs : LoseRequest(p, r) \/ \E ok \in BOOLEAN : HttpAnswer(p, r, ok)

\* What comes next of a pool or a node that works: a connection, a login or the
\* end of a refused one, a new attempt, a template.
Answered(p) ==
  \/ ConnectDone(p, TRUE, TRUE) \/ HandshakeDone(p, TRUE) \/ LoginAccepted(p)
  \/ c[p].login = "refused" /\ ReadError(p)
  \/ c[p].state = "Reconnecting" /\ Expire(p)
  \/ \E r \in c[p].reqs : r.kind = "template" /\ HttpAnswer(p, r, TRUE)
AnswerDue(p) ==
  \/ c[p].sock = "connecting"
  \/ c[p].sock = "open" /\ c[p].login \in {"sent", "refused"}
  \/ c[p].sock = "open" /\ c[p].login = "no" /\ p \in secure /\ c[p].state = "Connected"
  \/ c[p].sock = "closing" /\ chunk = p /\ c[p].login = "sent"
  \/ kind[p] = "pool" /\ c[p].expire /\ c[p].state = "Reconnecting" /\ ~deleted
  \/ \E r \in c[p].reqs : r.kind = "template"
HeightAnswered(p) == \E r \in c[p].reqs : r.kind = "height" /\ HttpAnswer(p, r, TRUE)

LoopTurns == Start \/ EndTurn \/ CloseCallback \/ Tell
LoopDue == telling # <<>> \/ draining \/ closing # <<>> \/ (c[0].state = "Unconnected" /\ ~deleted)
HeightDue(p) == \E r \in c[p].reqs : r.kind = "height"
TimerDue(p) == kind[p] = "daemon" /\ c[p].expire

\* The loop makes its callbacks, lookups end and are forgotten, timers fire,
\* pools and nodes answer (weak fairness), and a job that is kept grows old
\* (strong fairness); with the conditions that enable the actions written out.
Fairness ==
  /\ []<>(~Modelled \/ ~LoopDue) \/ []<><<LoopTurns>>_vars
  /\ \A h \in Hosts : []<>(~Polling \/ ~(dns[h].runs \/ dns[h].fresh))
                      \/ []<><<DnsDone(h, TRUE) \/ DnsStale(h)>>_vars
  /\ \A p \in Pools : []<>(~Polling \/ ~AnswerDue(p)) \/ []<><<Answered(p)>>_vars
  /\ \A p \in Daemons :
       /\ []<>(~Polling \/ ~HeightDue(p)) \/ []<><<HeightAnswered(p)>>_vars
       /\ <>[](~Polling \/ ~TimerDue(p)) \/ []<><<TimerFires(p, TRUE)>>_vars

Spec == Init /\ [][Next]_vars /\ Fairness

-----------------------------------------------------------------------------
(* Properties. Faults are finite, so that they end.                        *)

\* The miner works for the active pool and for nobody else (Network::onJob,
\* onPause): the jobs of a backup that logs in late, of a pool that is being
\* closed, or of a node that answers after it was given up, do not get through.
MinesActivePool == ~deleted /\ ~(Single /\ notices > 0) => work = active

\* The pool is logged on and has not failed since: n is its client.
LoggedOn(p, n) ==
  /\ n.failures = 0
  /\ IF kind[p] = "daemon" THEN n.state = "Connected"
     ELSE n.login = "in" /\ n.sock \in {"open", "closing"}

\* The strategy is deleted, or the model says no more of it.
Retired == deleted \/ ~Modelled \/ (Single /\ notices > 0)

\* A backup's client that is let go in the middle of a lookup, and connects while it
\* holds a socket (again), counts only while its pool is the active one.
Choice == INSTANCE PoolChoice
  WITH active <- IF Retired THEN None ELSE active,
       job <- IF Retired THEN None ELSE work,
       up <- IF Retired THEN {}
             ELSE {p \in Pools : LoggedOn(p, c[p]) /\ (c[p].again => active = p)},
       retired <- Retired

\* The strategies, with their clients, the resolver and the loop, do what
\* PoolChoice promises: of the logins, failures and answers that arrive in any order,
\* one pool's at a time get through to the miner, that pool is logged on, the others
\* have been let go, and only the first pool takes over from another
\* (FailoverStrategy::onLoginSuccess, onClose; Network::onJob, onPause).
ImplementsChoice == Choice!Spec

\* A backup is active only while the first pool is not: whoever logs in, fails
\* or is let go in between, in whatever order (FailoverStrategy::onLoginSuccess).
FirstPoolPreferred ==
  ~Single /\ active > 0 =>
    IF kind[0] = "daemon" THEN c[0].state # "Connected"
    ELSE ~(c[0].state = "Connected" /\ c[0].login = "in")

\* The first pool's client never connects while it holds a connection, but for
\* a client.reconnect notice, which does not close the one it came over.
\* (A backup may: it is let go in the middle of a lookup that goes on.)
FirstPoolHoldsOne == kind[0] = "pool" /\ c[0].again => notices > 0

\* A client that has lost its listener gets no callback but its close's, and
\* none once it is removed from the storage: the assertions of
\* Client::onResolved, Client::read and Storage::get.
GoneIsSilent ==
  \A p \in Pools : kind[p] = "pool" /\ ~c[p].listener /\ ~c[p].again =>
    ~c[p].lookup /\ (IF c[p].alive THEN c[p].sock = "closing" ELSE c[p].sock = "none")

\* Once the faults are over some pool gets to be mined on.
Recovers == []<>(deleted \/ active # None \/ lost \/ ~Modelled)

\* The changed configuration gets rid of the old clients.
ClientsRemoved == deleted ~> (~Modelled \/ \A p \in Used : ~c[p].alive)

\* Backups that were let go, even in the middle of a lookup that nobody
\* cancels, end up idle.
Idle(p) ==
  IF kind[p] = "daemon" THEN c[p].state = "Unconnected"
  ELSE ~c[p].lookup /\ c[p].state \notin {"Connecting", "Connected", "Closing"}
BackupsReleased ==
  \A p \in Pools : p > 0 /\ p <= last => (active = 0) ~> (active # 0 \/ ~Modelled \/ Idle(p))

\* The daemon's client gets to the node's newest block, although answers arrive
\* late and out of order and a block's template is asked for only once.
FollowsChain ==
  [](active = 0 /\ kind[0] = "daemon" => <>(active # 0 \/ deleted \/ c[0].job = tip))
=============================================================================

-------------------------------- MODULE Httpd --------------------------------
(***************************************************************************)
(* The HTTP server example: Rust accepts connections and parks requests in *)
(* a bounded queue (examples/httpd/src/lib.rs); Lisp pullers take and      *)
(* answer them, and STOP ends both sides (examples/httpd/web.lisp).        *)
(*                                                                         *)
(* A connection carries any number of requests (HTTP/2), each of them one  *)
(* run of park (rpc).  A future can be dropped only where it awaits.  A    *)
(* puller (ppc) runs %SERVE; a thread inside STOP has its own counter      *)
(* (spc), because a handler may call STOP.                                 *)
(*                                                                         *)
(* Every wait of a Lisp thread is capped, so it may end at any time and    *)
(* the condition variable behind it needs no state.  Timers may fire as    *)
(* soon as they run.                                                       *)
(***************************************************************************)
EXTENDS Naturals, Sequences, FiniteSets

CONSTANTS
    Conns,           \* connections clients may open
    Reqs,            \* requests they may make
    Pullers,         \* threads made by START
    Main,            \* another Lisp thread
    Stoppers,        \* threads that may call STOP
    Cap,             \* QUEUE: places in the queue, and bodies read at a time
    MaxConnections,
    HandlerLimit,    \* is there a HANDLER-MS?
    Timed,           \* bound: the requests whose timers may fire
    NoConn, NoReq    \* model values

ASSUME SetsAssumption ==
    /\ IsFiniteSet(Conns) /\ IsFiniteSet(Reqs) /\ IsFiniteSet(Pullers)
    /\ Pullers # {} /\ Main \notin Pullers
    /\ Stoppers \subseteq Pullers \cup {Main}
    /\ NoConn \notin Conns /\ NoReq \notin Reqs
ASSUME LimitsAssumption ==
    /\ Cap \in Nat \ {0} /\ MaxConnections \in Nat \ {0}
    /\ HandlerLimit \in BOOLEAN /\ Timed \subseteq Reqs

VARIABLES
    \* Svc and ServerInner
    down, q, bodyPermits, inFlight, connections, stopNote, finished, rtUp,
    \* accept_loop
    acceptor, connPermits, conn,
    \* park, per request
    rpc, on,
    notified,        \* its Notified future has been notified
    expired,         \* its QUEUE-WAIT has passed
    chan,            \* its oneshot channel
    answer,          \* the status its client is sent
    \* %serve, per puller
    ppc, req,
    held,            \* the Request still has its sender
    \* STOP
    stopCell, registered,
    spc,
    quiescing,       \* in SERVER-SHUTDOWN, after SERVER-STOP
    drained,
    \* history: was the request pulled, and what RESPOND answered
    pulled, told

flags == <<down, stopNote, finished, rtUp>>
svcVars == <<flags, q, bodyPermits, inFlight>>
connVars == <<connections, acceptor, connPermits, conn>>
parkVars == <<rpc, on, notified, expired, answer>>
reqVars == <<parkVars, chan>>
histVars == <<pulled, told>>
pullVars == <<ppc, req, held, histVars>>
stopVars == <<stopCell, registered, spc, quiescing, drained>>
lispVars == <<pullVars, stopVars>>
vars == <<svcVars, connVars, reqVars, lispVars>>

Threads == Pullers \cup {Main}

\* Where park awaits, and where it is between two awaits.
Awaits == {"permit", "body", "await", "reply"}
Runs == {"enable", "check", "wake", "release", "late"}
Reading == {"body", "enable", "check", "await", "wake", "release"}
ParkPoints == {"idle", "done", "dropped"} \cup Awaits \cup Runs
Sent == {"lisp", "500", "503"}
PullPoints == {"loop", "wait", "look", "sleep", "take", "pop", "notify", "count",
               "handle", "send", "send500", "free", "uncount", "returned"}
StopPoints == {"none", "join", "down", "note", "drain", "send", "poll",
               "runtime", "over"}

TypeOK ==
    /\ down \in BOOLEAN /\ stopNote \in BOOLEAN
    /\ finished \in BOOLEAN /\ rtUp \in BOOLEAN
    /\ q \in Seq(Reqs)
    /\ bodyPermits \in Nat /\ inFlight \in Nat
    /\ connections \in Nat /\ connPermits \in Nat
    /\ acceptor \in {"permit", "accept", "closing", "ended"}
    /\ conn \in [Conns -> {"waiting", "open", "ended", "uncounted", "closed"}]
    /\ rpc \in [Reqs -> ParkPoints]
    /\ on \in [Reqs -> Conns \cup {NoConn}]
    /\ notified \in [Reqs -> BOOLEAN] /\ expired \in [Reqs -> BOOLEAN]
    /\ chan \in [Reqs -> {"none", "open", "closed", "lost"} \cup Sent]
    /\ answer \in [Reqs -> {"none", "408", "413", "504"} \cup Sent]
    /\ ppc \in [Pullers -> PullPoints]
    /\ req \in [Pullers -> Reqs \cup {NoReq}]
    /\ held \in [Pullers -> BOOLEAN]
    /\ pulled \in [Reqs -> BOOLEAN]
    /\ told \in [Reqs -> {"none", "ok", "gone"}]
    /\ stopCell \in BOOLEAN /\ registered \in BOOLEAN
    /\ spc \in [Threads -> StopPoints]
    /\ quiescing \in [Threads -> BOOLEAN]
    /\ drained \in [Threads -> Seq(Reqs)]

\* BIND, and START of the pullers.
Init ==
    /\ down = FALSE /\ stopNote = FALSE /\ finished = FALSE /\ rtUp = TRUE
    /\ q = <<>>
    /\ bodyPermits = Cap /\ inFlight = 0
    /\ connections = 0 /\ connPermits = MaxConnections
    /\ acceptor = "permit"
    /\ conn = [c \in Conns |-> "waiting"]
    /\ rpc = [r \in Reqs |-> "idle"]
    /\ on = [r \in Reqs |-> NoConn]
    /\ notified = [r \in Reqs |-> FALSE]
    /\ expired = [r \in Reqs |-> FALSE]
    /\ chan = [r \in Reqs |-> "none"]
    /\ answer = [r \in Reqs |-> "none"]
    /\ ppc = [p \in Pullers |-> "loop"]
    /\ req = [p \in Pullers |-> NoReq]
    /\ held = [p \in Pullers |-> FALSE]
    /\ pulled = [r \in Reqs |-> FALSE]
    /\ told = [r \in Reqs |-> "none"]
    /\ stopCell = FALSE /\ registered = TRUE
    /\ spc = [t \in Threads |-> "none"]
    /\ quiescing = [t \in Threads |-> FALSE]
    /\ drained = [t \in Threads |-> <<>>]

Park(r, p) == rpc' = [rpc EXCEPT ![r] = p]
Pull(p, l) == ppc' = [ppc EXCEPT ![p] = l]
Stop(t, l) == spc' = [spc EXCEPT ![t] = l]

-----------------------------------------------------------------------------
(***************************************************************************)
(* accept_loop and its connections.                                        *)
(***************************************************************************)

\* A permit for the next connection,
AcceptPermit ==
    /\ acceptor = "permit"
    /\ connPermits > 0
    /\ connPermits' = connPermits - 1
    /\ acceptor' = "accept"
    /\ UNCHANGED <<connections, conn, svcVars, reqVars, lispVars>>

\* the connection, its place in the count and its task,
Accept(c) ==
    /\ acceptor = "accept"
    /\ conn[c] = "waiting"
    /\ conn' = [conn EXCEPT ![c] = "open"]
    /\ connections' = connections + 1
    /\ acceptor' = "permit"
    /\ UNCHANGED <<connPermits, svcVars, reqVars, lispVars>>

\* or an error: the permit goes back.
AcceptFails ==
    /\ acceptor = "accept"
    /\ connPermits' = connPermits + 1
    /\ acceptor' = "permit"
    /\ UNCHANGED <<connections, conn, svcVars, reqVars, lispVars>>

\* The loop notices the stop and closes the port.
AcceptStops ==
    /\ acceptor \in {"permit", "accept"}
    /\ stopNote
    /\ stopNote' = FALSE
    /\ connPermits' = connPermits + (IF acceptor = "accept" THEN 1 ELSE 0)
    /\ acceptor' = "closing"
    /\ UNCHANGED <<down, finished, rtUp, q, bodyPermits, inFlight, connections,
                   conn, reqVars, lispVars>>

\* graceful.shutdown: no connection is left.
AcceptFinishes ==
    /\ acceptor = "closing"
    /\ \A c \in Conns : conn[c] # "open"
    /\ finished' = TRUE
    /\ acceptor' = "ended"
    /\ UNCHANGED <<down, stopNote, rtUp, q, bodyPermits, inFlight, connections,
                   connPermits, conn, reqVars, lispVars>>

\* A runtime that is taken down drops the loop where it awaits.
AcceptDropped ==
    /\ ~rtUp
    /\ acceptor # "ended"
    /\ connPermits' = connPermits + (IF acceptor = "accept" THEN 1 ELSE 0)
    /\ acceptor' = "ended"
    /\ UNCHANGED <<connections, conn, svcVars, reqVars, lispVars>>

\* A connection ends: the client leaves, a timer closes it, it is idle during a
\* graceful stop, its task panics or the runtime drops it.
ConnEnds(c) ==
    /\ conn[c] = "open"
    /\ conn' = [conn EXCEPT ![c] = "ended"]
    /\ UNCHANGED <<connections, acceptor, connPermits, svcVars, reqVars, lispVars>>

\* ConnGuard::drop leaves the count, then its field the permit.
ConnUncounted(c) ==
    /\ conn[c] = "ended"
    /\ conn' = [conn EXCEPT ![c] = "uncounted"]
    /\ connections' = connections - 1
    /\ UNCHANGED <<acceptor, connPermits, svcVars, reqVars, lispVars>>

ConnReleased(c) ==
    /\ conn[c] = "uncounted"
    /\ conn' = [conn EXCEPT ![c] = "closed"]
    /\ connPermits' = connPermits + 1
    /\ UNCHANGED <<connections, acceptor, svcVars, reqVars, lispVars>>

-----------------------------------------------------------------------------
(***************************************************************************)
(* Svc.                                                                    *)
(***************************************************************************)

\* Svc::prune keeps the entries whose receiver is still there,
Kept(s) == {i \in 1..Len(s) : chan[s[i]] # "closed"}

\* and they stay in their order: the n-th of them is the one with n of them up
\* to it.
Live(s) ==
    [n \in 1..Cardinality(Kept(s)) |->
        s[CHOOSE i \in Kept(s) : Cardinality({j \in Kept(s) : j <= i}) = n]]

\* Notify::notify_waiters, for the futures that are enabled.
NotifyWaiters ==
    notified' = [r \in Reqs |-> notified[r] \/ rpc[r] \in {"check", "await"}]

\* The park future of r returns this status.
Return(r, status) ==
    /\ Park(r, "done")
    /\ answer' = [answer EXCEPT ![r] = status]

\* A receiver is dropped; a value that was sent before is lost.
Hangup(r) ==
    chan' = [chan EXCEPT ![r] = IF @ = "open" THEN "closed" ELSE @]

\* oneshot::Sender::send.
Send(r, status) ==
    chan' = [chan EXCEPT ![r] = IF @ = "open" THEN status ELSE @]

-----------------------------------------------------------------------------
(***************************************************************************)
(* park, with Svc::push.                                                   *)
(***************************************************************************)

\* A request arrives on an open connection.
Arrive(r, c) ==
    /\ rpc[r] = "idle"
    /\ conn[c] = "open"
    /\ on' = [on EXCEPT ![r] = c]
    /\ IF down THEN Return(r, "503") ELSE Park(r, "permit") /\ UNCHANGED answer
    /\ UNCHANGED <<notified, expired, chan, svcVars, connVars, lispVars>>

\* A permit to read the body,
BodyPermit(r) ==
    /\ rpc[r] = "permit"
    /\ bodyPermits > 0
    /\ bodyPermits' = bodyPermits - 1
    /\ Park(r, "body")
    /\ UNCHANGED <<q, inFlight, on, notified, expired, answer, chan, flags,
                   connVars, lispVars>>

\* or none within QUEUE-WAIT-MS.
BodyPermitTimeout(r) ==
    /\ r \in Timed
    /\ rpc[r] = "permit"
    /\ Return(r, "503")
    /\ UNCHANGED <<on, notified, expired, chan, svcVars, connVars, lispVars>>

\* The body is there: the channel is made and push is called.
BodyRead(r) ==
    /\ rpc[r] = "body"
    /\ chan' = [chan EXCEPT ![r] = "open"]
    /\ Park(r, "enable")
    /\ UNCHANGED <<on, notified, expired, answer, svcVars, connVars, lispVars>>

\* Mutant: the permit was forgotten and nobody returns it.
BodyRefusedForgets(r, status) ==
    /\ rpc[r] = "body"
    /\ Return(r, status)
    /\ UNCHANGED <<on, notified, expired, chan, svcVars, connVars, lispVars>>

\* BODY-MS has passed, or BODY-CAP is exceeded.
BodyRefused(r, status) ==
    /\ rpc[r] = "body"
    /\ Return(r, status)
    /\ bodyPermits' = bodyPermits + 1
    /\ UNCHANGED <<q, inFlight, on, notified, expired, chan, flags, connVars,
                   lispVars>>

\* push is to be notified of free slots from here on.
PushEnable(r) ==
    /\ rpc[r] = "enable"
    /\ notified' = [notified EXCEPT ![r] = FALSE]
    /\ Park(r, "check")
    /\ UNCHANGED <<on, expired, answer, chan, svcVars, connVars, lispVars>>

\* push returns, and its future and its deadline are no more.
LeavePush(r) ==
    /\ notified' = [notified EXCEPT ![r] = FALSE]
    /\ expired' = [expired EXCEPT ![r] = FALSE]

\* push returns Err: the entry is dropped and the permit goes back.
PushRefused(r) ==
    /\ LeavePush(r)
    /\ Return(r, "503")
    /\ Hangup(r)
    /\ bodyPermits' = bodyPermits + 1
    /\ UNCHANGED q

\* The queue is full: push waits, unless its deadline has passed.
PushFull(r) ==
    IF expired[r]
    THEN PushRefused(r)
    ELSE /\ Park(r, "await")
         /\ UNCHANGED <<q, bodyPermits, notified, expired, answer, chan>>

\* The entry is in the queue.
Pushed(r) ==
    /\ q' = Append(Live(q), r)
    /\ Park(r, IF Live(q) # q THEN "wake" ELSE "release")
    /\ LeavePush(r)
    /\ UNCHANGED <<bodyPermits, answer, chan>>

\* Mutant: the flag is tested before the lock, by park alone.
PushCheckOpen(r) ==
    /\ rpc[r] = "check"
    /\ \/ Len(Live(q)) < Cap /\ Pushed(r)
       \/ Len(Live(q)) >= Cap /\ PushFull(r)
    /\ UNCHANGED <<inFlight, on, flags, connVars, lispVars>>

\* One look at the queue, under its lock.
PushCheck(r) ==
    /\ rpc[r] = "check"
    /\ \/ down /\ PushRefused(r)
       \/ ~down /\ Len(Live(q)) < Cap /\ Pushed(r)
       \/ ~down /\ Len(Live(q)) >= Cap /\ PushFull(r)
    /\ UNCHANGED <<inFlight, on, flags, connVars, lispVars>>

Expire(r) ==
    /\ r \in Timed
    /\ rpc[r] \in {"enable", "check", "await"}
    /\ ~expired[r]
    /\ expired' = [expired EXCEPT ![r] = TRUE]
    /\ UNCHANGED <<rpc, on, notified, answer, chan, svcVars, connVars, lispVars>>

AwaitReturns(r) ==
    /\ rpc[r] = "await"
    /\ notified[r] \/ expired[r]
    /\ Park(r, "enable")
    /\ UNCHANGED <<on, notified, expired, answer, chan, svcVars, connVars,
                   lispVars>>

\* push wakes the others if it pruned, and returns; the body permit goes back.
PushReturns(r) ==
    /\ rpc[r] \in {"wake", "release"}
    /\ IF rpc[r] = "wake" THEN NotifyWaiters ELSE UNCHANGED notified
    /\ bodyPermits' = bodyPermits + 1
    /\ Park(r, "reply")
    /\ UNCHANGED <<q, inFlight, on, expired, answer, chan, flags, connVars,
                   lispVars>>

\* The answer has come, or the sender was dropped without one,
Reply(r) ==
    /\ rpc[r] = "reply"
    /\ chan[r] \in Sent \cup {"lost"}
    /\ Return(r, IF chan[r] = "lost" THEN "503" ELSE chan[r])
    /\ UNCHANGED <<on, notified, expired, chan, svcVars, connVars, lispVars>>

\* or nothing had come when the timer was looked at.
HandlerTimeout(r) ==
    /\ HandlerLimit /\ r \in Timed
    /\ rpc[r] = "reply"
    /\ chan[r] = "open"
    /\ Park(r, "late")
    /\ UNCHANGED <<on, notified, expired, answer, chan, svcVars, connVars,
                   lispVars>>

LateReturns(r) ==
    /\ rpc[r] = "late"
    /\ Return(r, "504")
    /\ Hangup(r)
    /\ UNCHANGED <<on, notified, expired, svcVars, connVars, lispVars>>

\* The future is dropped with its connection.
Dropped(r) ==
    /\ rpc[r] \in Awaits
    /\ conn[on[r]] # "open"
    /\ Park(r, "dropped")
    /\ Hangup(r)
    /\ LeavePush(r)
    /\ bodyPermits' = bodyPermits + (IF rpc[r] \in Reading THEN 1 ELSE 0)
    /\ UNCHANGED <<q, inFlight, on, answer, flags, connVars, lispVars>>

-----------------------------------------------------------------------------
(***************************************************************************)
(* %SERVE and %HANDLE.  A puller whose handler has called STOP is inside   *)
(* STOP until that returns.                                                *)
(***************************************************************************)

At(p, l) == ppc[p] = l /\ spc[p] \in {"none", "over"}

\* Mutant: the stop cell is not looked at.
ServeLoopBlind(p) ==
    /\ At(p, "loop")
    /\ Pull(p, "wait")
    /\ UNCHANGED <<req, held, svcVars, connVars, reqVars, histVars, stopVars>>

\* The loop looks at the stop cell.
ServeLoop(p) ==
    /\ At(p, "loop")
    /\ Pull(p, IF stopCell THEN "returned" ELSE "wait")
    /\ UNCHANGED <<req, held, svcVars, connVars, reqVars, histVars, stopVars>>

\* Server::wait and Request::take refuse a server that is down.
CheckUp(p, before, after) ==
    /\ At(p, before)
    /\ Pull(p, IF down THEN "returned" ELSE after)
    /\ UNCHANGED <<req, held, svcVars, connVars, reqVars, histVars, stopVars>>

ServerWait(p) == CheckUp(p, "wait", "look")

TakeRequest(p) == CheckUp(p, "take", "pop")

\* Svc::wait prunes, notifies under the lock, and answers or sleeps.
WaitLook(p) ==
    /\ At(p, "look")
    /\ q' = Live(q)
    /\ IF Live(q) # q THEN NotifyWaiters ELSE UNCHANGED notified
    /\ Pull(p, IF Live(q) # <<>> THEN "take" ELSE "sleep")
    /\ UNCHANGED <<bodyPermits, inFlight, rpc, on, expired, answer, chan, req,
                   held, flags, connVars, histVars, stopVars>>

\* It does not prune again when it wakes.
WaitWakes(p) ==
    /\ At(p, "sleep")
    /\ Pull(p, IF q # <<>> THEN "take" ELSE "loop")
    /\ UNCHANGED <<req, held, svcVars, connVars, reqVars, histVars, stopVars>>

\* Svc::take, under the lock: "empty", perhaps after pruning, or the first entry.
TakePop(p) ==
    /\ At(p, "pop")
    /\ IF Live(q) = <<>>
       THEN /\ q' = <<>>
            /\ Pull(p, IF q # <<>> THEN "notify" ELSE "loop")
            /\ UNCHANGED <<req, pulled>>
       ELSE LET r == Head(Live(q))
            IN  /\ q' = Tail(Live(q))
                /\ req' = [req EXCEPT ![p] = r]
                /\ pulled' = [pulled EXCEPT ![r] = TRUE]
                /\ Pull(p, "notify")
    /\ UNCHANGED <<bodyPermits, inFlight, held, told, flags, connVars, reqVars,
                   stopVars>>

\* Mutant: a take that only pruned notifies nobody.
TakeNotifyTaken(p) ==
    /\ At(p, "notify")
    /\ IF req[p] # NoReq THEN NotifyWaiters ELSE UNCHANGED notified
    /\ Pull(p, IF req[p] = NoReq THEN "loop" ELSE "count")
    /\ UNCHANGED <<rpc, on, expired, answer, chan, req, held, svcVars, connVars,
                   histVars, stopVars>>

\* Svc::take, after the unlock: whoever waits for a place is notified.
TakeNotify(p) ==
    /\ At(p, "notify")
    /\ NotifyWaiters
    /\ Pull(p, IF req[p] = NoReq THEN "loop" ELSE "count")
    /\ UNCHANGED <<rpc, on, expired, answer, chan, req, held, svcVars, connVars,
                   histVars, stopVars>>

\* Request::take makes the handle.
TakeCount(p) ==
    /\ At(p, "count")
    /\ inFlight' = inFlight + 1
    /\ held' = [held EXCEPT ![p] = TRUE]
    /\ Pull(p, "handle")
    /\ UNCHANGED <<q, bodyPermits, req, flags, connVars, reqVars, histVars,
                   stopVars>>

\* Request::send takes the sender, if it is still there.
TakeSender(p, sending, otherwise) ==
    /\ held' = [held EXCEPT ![p] = FALSE]
    /\ inFlight' = inFlight - (IF held[p] THEN 1 ELSE 0)
    /\ Pull(p, IF held[p] THEN sending ELSE otherwise)
    /\ UNCHANGED <<q, bodyPermits, req, flags, connVars, reqVars, histVars,
                   stopVars>>

\* The handler answers; a second answer is refused.
HandlerAnswers(p) == At(p, "handle") /\ TakeSender(p, "send", "handle")

\* The handler signals, and %RESPOND-500 answers if it still can.
HandlerSignals(p) == At(p, "handle") /\ TakeSender(p, "send500", "free")

\* The answer goes out, or the client is gone.
SendAnswer(p) ==
    /\ At(p, "send")
    /\ Send(req[p], "lisp")
    /\ told' = [told EXCEPT ![req[p]] = IF chan[req[p]] = "open" THEN "ok" ELSE "gone"]
    /\ Pull(p, "handle")
    /\ UNCHANGED <<req, held, pulled, svcVars, connVars, parkVars, stopVars>>

Send500(p) ==
    /\ At(p, "send500")
    /\ Send(req[p], "500")
    /\ Pull(p, "free")
    /\ UNCHANGED <<req, held, svcVars, connVars, parkVars, histVars, stopVars>>

\* The handler returns, or its request is skipped.
HandlerReturns(p) ==
    /\ At(p, "handle")
    /\ Pull(p, "free")
    /\ UNCHANGED <<req, held, svcVars, connVars, reqVars, histVars, stopVars>>

\* Mutant: the count is left whether the sender is there or not.
FreeRequestCounts(p) ==
    /\ At(p, "free")
    /\ IF held[p] THEN Send(req[p], "500") ELSE UNCHANGED chan
    /\ req' = [req EXCEPT ![p] = NoReq]
    /\ held' = [held EXCEPT ![p] = FALSE]
    /\ Pull(p, "uncount")
    /\ UNCHANGED <<svcVars, connVars, parkVars, histVars, stopVars>>

\* Mutant: the handle goes without a word.
FreeRequestMute(p) ==
    /\ At(p, "free")
    /\ IF held[p] THEN Send(req[p], "lost") ELSE UNCHANGED chan
    /\ req' = [req EXCEPT ![p] = NoReq]
    /\ held' = [held EXCEPT ![p] = FALSE]
    /\ Pull(p, IF held[p] THEN "uncount" ELSE "loop")
    /\ UNCHANGED <<svcVars, connVars, parkVars, histVars, stopVars>>

\* Request::drop: an unanswered request answers 500,
FreeRequest(p) ==
    /\ At(p, "free")
    /\ IF held[p] THEN Send(req[p], "500") ELSE UNCHANGED chan
    /\ req' = [req EXCEPT ![p] = NoReq]
    /\ held' = [held EXCEPT ![p] = FALSE]
    /\ Pull(p, IF held[p] THEN "uncount" ELSE "loop")
    /\ UNCHANGED <<svcVars, connVars, parkVars, histVars, stopVars>>

\* and leaves the count.
Uncount(p) ==
    /\ At(p, "uncount")
    /\ inFlight' = inFlight - 1
    /\ Pull(p, "loop")
    /\ UNCHANGED <<q, bodyPermits, req, held, flags, connVars, reqVars,
                   histVars, stopVars>>

-----------------------------------------------------------------------------
(***************************************************************************)
(* STOP and SHUTDOWN of web.lisp; Server::stop, ServerInner::quiesce.      *)
(***************************************************************************)

\* STOP, from outside or from a handler: the pullers are told,
StopBegins(t) ==
    /\ t \in Stoppers
    /\ spc[t] = "none"
    /\ t \in Pullers => ppc[t] = "handle"
    /\ IF registered
       THEN stopCell' = TRUE /\ Stop(t, "join")
       ELSE Stop(t, "down") /\ UNCHANGED stopCell
    /\ UNCHANGED <<registered, quiescing, drained, svcVars, connVars, reqVars,
                   pullVars>>

\* The dump hook, shutdown_all, quiesces without any of that.
DumpHook ==
    /\ spc[Main] = "none"
    /\ Stop(Main, "down")
    /\ quiescing' = [quiescing EXCEPT ![Main] = TRUE]
    /\ UNCHANGED <<stopCell, registered, drained, svcVars, connVars, reqVars,
                   pullVars>>

\* and joined, except the one that calls.
Join(t) ==
    /\ spc[t] = "join"
    /\ \A p \in Pullers \ {t} : ppc[p] = "returned"
    /\ registered' = FALSE
    /\ Stop(t, "down")
    /\ UNCHANGED <<stopCell, quiescing, drained, svcVars, connVars, reqVars,
                   pullVars>>

\* Server::stop: the flag,
SetDown(t) ==
    /\ spc[t] = "down"
    /\ down' = TRUE
    /\ Stop(t, "note")
    /\ UNCHANGED <<stopNote, finished, rtUp, q, bodyPermits, inFlight, stopCell,
                   registered, quiescing, drained, connVars, reqVars, pullVars>>

\* the accept loop,
NotifyStop(t) ==
    /\ spc[t] = "note"
    /\ stopNote' = TRUE
    /\ Stop(t, "drain")
    /\ UNCHANGED <<down, finished, rtUp, q, bodyPermits, inFlight, stopCell,
                   registered, quiescing, drained, connVars, reqVars, pullVars>>

\* the queue, which is emptied under its lock,
Drain(t) ==
    /\ spc[t] = "drain"
    /\ drained' = [drained EXCEPT ![t] = q]
    /\ q' = <<>>
    /\ Stop(t, "send")
    /\ UNCHANGED <<bodyPermits, inFlight, stopCell, registered, quiescing,
                   flags, connVars, reqVars, pullVars>>

\* and, after the unlock, the answers to what it held.
DrainSends(t) ==
    /\ spc[t] = "send"
    /\ chan' = [r \in Reqs |->
                  IF chan[r] = "open" /\ \E i \in 1..Len(drained[t]) : drained[t][i] = r
                  THEN "503" ELSE chan[r]]
    /\ NotifyWaiters
    /\ drained' = [drained EXCEPT ![t] = <<>>]
    /\ Stop(t, "poll")
    /\ UNCHANGED <<rpc, on, expired, answer, stopCell, registered, quiescing,
                   svcVars, connVars, pullVars>>

\* SHUTDOWN polls SERVER-STOPPED, quiesce waits: until the loop has finished or
\* the grace period is over.
PollEnds(t) ==
    /\ spc[t] = "poll"
    /\ quiescing' = [quiescing EXCEPT ![t] = TRUE]
    /\ Stop(t, IF quiescing[t] THEN "runtime" ELSE "down")
    /\ UNCHANGED <<stopCell, registered, drained, svcVars, connVars, reqVars,
                   pullVars>>

\* quiesce takes the runtime down.
TakeRuntime(t) ==
    /\ spc[t] = "runtime"
    /\ rtUp' = FALSE
    /\ Stop(t, "over")
    /\ UNCHANGED <<down, stopNote, finished, q, bodyPermits, inFlight, stopCell,
                   registered, quiescing, drained, connVars, reqVars, pullVars>>

-----------------------------------------------------------------------------

AcceptStep == AcceptStops \/ AcceptFinishes \/ AcceptDropped

ConnStep(c) == ConnUncounted(c) \/ ConnReleased(c) \/ (~rtUp /\ ConnEnds(c))

ParkStep(r) ==
    \/ BodyPermit(r) \/ BodyPermitTimeout(r)
    \/ (r \in Timed /\ BodyRefused(r, "408"))
    \/ PushEnable(r) \/ PushCheck(r) \/ Expire(r) \/ AwaitReturns(r)
    \/ PushReturns(r) \/ Reply(r) \/ LateReturns(r) \/ Dropped(r)

PullStep(p) ==
    \/ ServeLoop(p) \/ ServerWait(p) \/ WaitLook(p) \/ WaitWakes(p)
    \/ TakeRequest(p) \/ TakePop(p) \/ TakeNotify(p) \/ TakeCount(p)
    \/ HandlerAnswers(p) \/ HandlerSignals(p) \/ HandlerReturns(p)
    \/ SendAnswer(p) \/ Send500(p) \/ FreeRequest(p) \/ Uncount(p)

StopStep(t) ==
    \/ Join(t) \/ SetDown(t) \/ NotifyStop(t) \/ Drain(t) \/ DrainSends(t)
    \/ PollEnds(t) \/ TakeRuntime(t)

ClientStep ==
    \/ AcceptPermit \/ AcceptFails
    \/ \E c \in Conns : Accept(c) \/ ConnEnds(c)
    \/ \E r \in Reqs, c \in Conns : Arrive(r, c)
    \/ \E r \in Reqs : BodyRead(r) \/ BodyRefused(r, "413") \/ HandlerTimeout(r)

Next ==
    \/ ClientStep \/ AcceptStep
    \/ \E c \in Conns : ConnStep(c)
    \/ \E r \in Reqs : ParkStep(r)
    \/ \E p \in Pullers : PullStep(p)
    \/ \E t \in Threads : StopBegins(t) \/ StopStep(t)
    \/ DumpHook

Spec == Init /\ [][Next]_vars

\* Lisp threads run and handlers return.  Nothing is assumed of the clients,
\* nor of the tasks of the runtime.
FairSpec ==
    /\ Spec
    /\ \A p \in Pullers : WF_vars(PullStep(p))
    /\ \A t \in Stoppers \cup {Main} : WF_vars(StopStep(t))

-----------------------------------------------------------------------------
(***************************************************************************)
(* Properties.                                                             *)
(***************************************************************************)

\* No path through accept, park and their cancellation at any await loses or
\* doubles a permit: at most MAX-CONNECTIONS are counted, at most QUEUE bodies
\* are read and QUEUE requests parked, and IN-FLIGHT ("requests pulled by Lisp
\* and not yet answered") counts exactly the handles that still hold their
\* sender, and one whose drop is not finished.
LimitsHold ==
    /\ bodyPermits + Cardinality({r \in Reqs : rpc[r] \in Reading}) = Cap
    /\ connPermits + Cardinality({c \in Conns : conn[c] \in {"open", "ended", "uncounted"}})
         + (IF acceptor = "accept" THEN 1 ELSE 0) = MaxConnections
    /\ connections = Cardinality({c \in Conns : conn[c] \in {"open", "ended"}})
    /\ connections <= MaxConnections
    /\ Len(q) <= Cap
    /\ inFlight = Cardinality({p \in Pullers : held[p] \/ ppc[p] = "uncount"})

\* A push that sleeps while there is room has a notification on its way: the
\* future was enabled before the queue was looked at.
NoLostSlot ==
    \A r \in Reqs : rpc[r] = "await" /\ ~notified[r] =>
        \/ Len(q) >= Cap
        \/ \E p \in Pullers : ppc[p] = "notify"
        \/ \E s \in Reqs : rpc[s] = "wake"
        \/ \E t \in Threads : spc[t] = "send"

\* What the client is sent and what RESPOND told Lisp, whatever timers, drops and
\* stops race them.  The client gets an answer of Lisp's only if RESPOND returned
\* normally.  RESPOND returns normally only if its answer was in the channel while
\* the receiver was there; then the client has it, has yet to get it, has left,
\* or, if HANDLER-MS had passed and the receiver was only still to be dropped,
\* gets a 504 instead: LateIsGone, below, says that this never happens, and it
\* does.  RESPOND says "gone" only if nothing but a 504 reaches the client.  500
\* goes out only if no answer did, and 503, which invites a retry, only if no
\* handler was ever given the request.
AnswersAgree ==
    \A r \in Reqs :
        /\ answer[r] = "lisp" => told[r] = "ok"
        /\ told[r] = "ok" => chan[r] = "lisp" /\ answer[r] \in {"none", "lisp", "504"}
        /\ told[r] = "gone" => answer[r] \in {"none", "504"}
        /\ answer[r] = "500" => pulled[r] /\ told[r] = "none"
        /\ answer[r] = "503" => ~pulled[r]
        /\ answer[r] = "504" => HandlerLimit

\* "Lisp did not answer in time; its later respond is "gone"" (lib.rs:323): Lisp
\* is never told that all is well for a request whose client is sent a 504.
LateIsGone ==
    \A r \in Reqs : answer[r] = "504" => told[r] # "ok"

\* A parked request is never left alone: there is a puller that still serves, or
\* a stop that has yet to drain the queue, although pullers end for three
\* reasons and each of them on its own.  And "nothing parks after stop": once a
\* stop has drained the queue it is empty for good, however pushes and pulls
\* race it.
ParkedIsServed ==
    q # <<>> =>
        /\ \/ \E p \in Pullers : ppc[p] # "returned"
           \/ \E t \in Threads : spc[t] \in {"join", "down", "note", "drain"}
        /\ \A t \in Threads : spc[t] \notin {"send", "poll", "runtime", "over"}

\* STOP and the dump hook return: no thread stays in one for ever, whatever the
\* clients do and whether or not the tasks of the runtime ever move, unless two
\* handlers call STOP (JoinedWakes).  A thread that has begun is never at "none"
\* again.
StopReturns ==
    \A t \in Stoppers \cup {Main} : []<>(spc[t] \in {"none", "over"})

\* "each wakes within one 100 ms tick and is joined": no puller that STOP is
\* joining is itself waiting for the thread that joins it.
JoinedWakes ==
    \A s, t \in Pullers : s # t /\ spc[s] = "join" => spc[t] # "join"

=============================================================================

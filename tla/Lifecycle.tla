------------------------------ MODULE Lifecycle ------------------------------
(***************************************************************************)
(* Shutdown of the writer process (internal/lifecycle/lifecycle.go and the *)
(* end of runArgs in cmd/onlybackup-writer/main.go).                       *)
(*                                                                         *)
(* One Tracker counts the requests of three HTTP servers: the deposit      *)
(* server, run by Serve, and two local servers with goroutines of their    *)
(* own.  Each request is a goroutine that may reach Tracker.Handler at any *)
(* time after its connection was accepted, also after Shutdown or Close.   *)
(* When Serve and the local servers are done, the deferred calls of        *)
(* runArgs close the catalogue and release the archive lock.               *)
(***************************************************************************)
EXTENDS Integers, FiniteSets

CONSTANTS
    Deposits,   \* requests to the deposit server
    Locals,     \* requests to the administration and maintenance servers
    Servers     \* the local servers, in the order they are shut down in

Requests == Deposits \cup Locals

ASSUME LifecycleAssumption ==
    /\ IsFiniteSet(Deposits) /\ IsFiniteSet(Locals)
    /\ Deposits \cap Locals = {}
    /\ Servers \in Nat

VARIABLES
    \* Tracker.
    active, stopping,
    drained,    \* the channel in Tracker.drained, numbered by creation
    closed,     \* the closed channels
    \* net/http, as the process uses it.
    req,        \* req[r]: where the goroutine of request r is
    accepting,  \* the deposit listener is open
    open,       \* local servers whose listener is open: 1 .. open of them
    \* runArgs and Serve.
    pc,
    awaited,    \* the channel Wait receives from, 0 before
    served,     \* serve() returned: serveDone holds its result
    cancelled   \* ctx is done

tracker == <<active, stopping, drained, closed>>
servers == <<req, accepting, open>>
vars == <<tracker, servers, pc, awaited, served, cancelled>>

Running == {r \in Requests : req[r] = "running"}

TypeOK ==
    /\ active \in Nat /\ stopping \in BOOLEAN
    /\ drained \in Nat /\ closed \subseteq Nat
    /\ req \in [Requests -> {"none", "accepted", "running", "ended"}]
    /\ accepting \in BOOLEAN /\ open \in Nat
    /\ pc \in {"serving", "failed", "stop", "shutdown", "close", "wait",
               "receive", "result", "return", "locals", "closed"}
    /\ awaited \in Nat /\ served \in BOOLEAN /\ cancelled \in BOOLEAN

\* NewTracker: the first channel is closed.  All servers listen.
Init ==
    /\ active = 0 /\ stopping = FALSE /\ drained = 1 /\ closed = {1}
    /\ req = [r \in Requests |-> "none"] /\ accepting = TRUE /\ open = Servers
    /\ pc = "serving" /\ awaited = 0 /\ served = FALSE /\ cancelled = FALSE

-----------------------------------------------------------------------------
(* Requests.                                                               *)

Accept(r) ==
    /\ req[r] = "none"
    /\ IF r \in Deposits THEN accepting ELSE open > 0
    /\ req' = [req EXCEPT ![r] = "accepted"]
    /\ UNCHANGED <<tracker, accepting, open, pc, awaited, served, cancelled>>

\* Handler calls Enter, and next when it is admitted.
Enter(r) ==
    /\ req[r] = "accepted" /\ ~stopping
    /\ drained' = IF active = 0 THEN drained + 1 ELSE drained
    /\ active' = active + 1
    /\ req' = [req EXCEPT ![r] = "running"]
    /\ UNCHANGED <<stopping, closed, accepting, open, pc, awaited, served,
                   cancelled>>

\* Enter returns false: 503, next is not called.
Reject(r) ==
    /\ req[r] = "accepted" /\ stopping
    /\ req' = [req EXCEPT ![r] = "ended"]
    /\ UNCHANGED <<tracker, accepting, open, pc, awaited, served, cancelled>>

\* The connection of an accepted request is closed before it is read.
Hangup(r) ==
    /\ req[r] = "accepted"
    /\ req' = [req EXCEPT ![r] = "ended"]
    /\ UNCHANGED <<tracker, accepting, open, pc, awaited, served, cancelled>>

\* next returns (or panics) and the deferred Leave runs.
Leave(r) ==
    /\ req[r] = "running"
    /\ active' = active - 1
    /\ closed' = IF active = 1 THEN closed \cup {drained} ELSE closed
    /\ req' = [req EXCEPT ![r] = "ended"]
    /\ UNCHANGED <<stopping, drained, accepting, open, pc, awaited, served,
                   cancelled>>

-----------------------------------------------------------------------------
(* Serve, called by runArgs.                                               *)

\* serve() fails without having been asked to end.
ServeFails ==
    /\ ~served
    /\ served' = TRUE /\ accepting' = FALSE
    /\ UNCHANGED <<tracker, req, open, pc, awaited, cancelled>>

\* The select: either case may be taken when both are ready.
SelectFailed ==
    /\ pc = "serving" /\ served
    /\ pc' = "failed"
    /\ UNCHANGED <<tracker, servers, awaited, served, cancelled>>
SelectDone ==
    /\ pc = "serving" /\ cancelled
    /\ pc' = "stop"
    /\ UNCHANGED <<tracker, servers, awaited, served, cancelled>>

Stop(from, to) ==
    /\ pc = from /\ pc' = to
    /\ stopping' = TRUE
    /\ UNCHANGED <<active, drained, closed, servers, awaited, served, cancelled>>

\* Shutdown closes the listener, which ends serve(), ...
ShutdownBegins ==
    /\ pc = "shutdown" /\ accepting
    /\ accepting' = FALSE /\ served' = TRUE
    /\ UNCHANGED <<tracker, req, open, pc, awaited, cancelled>>
\* ... and returns once no deposit connection is active, or when the grace
\* period expires, in which case Close follows.  A connection that was accepted
\* but not read counts as idle after a while.
ShutdownReturns ==
    /\ pc = "shutdown" /\ ~accepting
    /\ Running \cap Deposits = {}
    /\ pc' = "wait"
    /\ UNCHANGED <<tracker, servers, awaited, served, cancelled>>
GraceExpires ==
    /\ pc = "shutdown" /\ ~accepting
    /\ pc' = "close"
    /\ UNCHANGED <<tracker, servers, awaited, served, cancelled>>

\* Close cuts the connections; their handlers go on until they notice.
Close ==
    /\ pc = "close"
    /\ accepting' = FALSE
    /\ pc' = "wait"
    /\ UNCHANGED <<tracker, req, open, awaited, served, cancelled>>

\* Wait: one critical section stops admission and reads the channel ...
WaitStaleChannel ==
    /\ pc = "wait" /\ pc' = "receive"
    /\ awaited' = 1
    /\ stopping' = TRUE
    /\ UNCHANGED <<active, drained, closed, servers, served, cancelled>>
WaitBegins ==
    /\ pc = "wait" /\ pc' = "receive"
    /\ stopping' = TRUE /\ awaited' = drained
    /\ UNCHANGED <<active, drained, closed, servers, served, cancelled>>
\* ... and the receive returns when it is closed.
WaitReturns ==
    /\ pc = "receive" /\ awaited \in closed
    /\ pc' = "result"
    /\ UNCHANGED <<tracker, servers, awaited, served, cancelled>>

\* serveErr := <-serveDone (taken before Close when serve failed by itself).
Result ==
    /\ pc = "result" /\ served
    /\ pc' = "return"
    /\ UNCHANGED <<tracker, servers, awaited, served, cancelled>>

\* runArgs: cancel(), then localServers.Wait().
CancelForgotten ==
    /\ pc = "return" /\ pc' = "locals"
    /\ UNCHANGED <<tracker, servers, awaited, served, cancelled>>
Cancel ==
    /\ pc = "return" /\ pc' = "locals"
    /\ cancelled' = TRUE
    /\ UNCHANGED <<tracker, servers, awaited, served>>
LocalsDone ==
    /\ pc = "locals" /\ open = 0
    /\ pc' = "closed"
    /\ UNCHANGED <<tracker, servers, awaited, served, cancelled>>

-----------------------------------------------------------------------------
(* The local servers and the signal.                                       *)

\* SIGTERM or SIGINT.
Signal ==
    /\ ~cancelled /\ cancelled' = TRUE
    /\ UNCHANGED <<tracker, servers, pc, awaited, served>>

\* A local server fails: serveLocal cancels ctx.  The last one open fails here;
\* which one it is does not matter to the others.
LocalFails ==
    /\ open > 0 /\ open' = open - 1
    /\ cancelled' = TRUE
    /\ UNCHANGED <<tracker, req, accepting, pc, awaited, served>>

\* The goroutine waiting for ctx shuts the local servers down one by one; each
\* Shutdown takes at most what is left of the grace period.
LocalShutdown ==
    /\ cancelled /\ open > 0
    /\ open' = open - 1
    /\ UNCHANGED <<tracker, req, accepting, pc, awaited, served, cancelled>>

-----------------------------------------------------------------------------
Serve ==
    \/ SelectFailed \/ SelectDone
    \/ Stop("failed", "close") \/ Stop("stop", "shutdown")
    \/ ShutdownBegins \/ ShutdownReturns \/ GraceExpires \/ Close
    \/ WaitBegins \/ WaitReturns \/ Result \/ Cancel \/ LocalsDone

Finished == pc = "closed" /\ UNCHANGED vars

Next ==
    \/ \E r \in Requests : Accept(r) \/ Enter(r) \/ Reject(r) \/ Hangup(r) \/ Leave(r)
    \/ ServeFails \/ Signal \/ LocalFails \/ LocalShutdown
    \/ Serve
    \/ Finished

\* Handlers end because their connections have read and write timeouts and are
\* cut by Close; the goroutines of runArgs run.  Nobody is obliged to send a
\* request or a signal.
Fairness ==
    /\ \A r \in Requests : WF_vars(Leave(r))
    /\ WF_vars(Serve) /\ WF_vars(LocalShutdown)

Spec     == Init /\ [][Next]_vars
FairSpec == Spec /\ Fairness
-----------------------------------------------------------------------------
(* Properties.                                                             *)

\* The catalogue is closed and the archive lock released only when no handler
\* of any of the servers is running, although requests reach the tracker during
\* and after Shutdown, and although the drained channel is replaced whenever
\* the process becomes busy again.
CatalogueOutlivesHandlers == pc = "closed" => Running = {}

\* Leave never panics: while a handler runs the count is positive and the
\* channel the last Leave will close is still open.
LeaveNeverPanics == Running # {} => active > 0 /\ drained \notin closed

\* After Wait has chosen its channel no request is admitted any more, so the
\* channel it waits for is the one the last handler closes.
NothingAdmittedLate ==
    [][awaited # 0 => \A r \in Requests :
         req'[r] = "running" => req[r] = "running"]_vars

\* What makes the above hold: the count is the number of running handlers, the
\* current channel is closed exactly when it is zero, and from the moment Wait
\* chooses a channel nothing replaces it.
Inductive ==
    /\ TypeOK
    /\ active = Cardinality(Running)
    /\ drained \in closed <=> active = 0
    /\ \A c \in closed : c <= drained
    /\ drained > 0
    /\ awaited # 0 => stopping /\ awaited = drained
    /\ pc \in {"receive", "result", "return", "locals", "closed"} => awaited # 0
    /\ pc \in {"result", "return", "locals", "closed"} => awaited \in closed

\* Once a signal arrives or a server fails, the process does stop.
ShutdownCompletes == (cancelled \/ served) ~> pc = "closed"
=============================================================================

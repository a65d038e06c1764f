------------------------------ MODULE Runners ------------------------------
(***************************************************************************)
(* The life of the process: app/main.py starts the store's maintenance     *)
(* loop, registers the fast symbols, starts the tasks of the pipeline and  *)
(* waits for them in one asyncio.gather.  The viewer's servers retry a     *)
(* port that is taken and swallow every way they can end; the listeners    *)
(* reconnect for ever; the producer and the warm-up requester let an       *)
(* exception out.  Ctrl-C cancels the gather, run_pipeline's finally       *)
(* cancels what is left, asyncio.run cancels everything once more.         *)
(*                                                                         *)
(* Delays of the retries, logging and the debug viewer's window are left   *)
(* out.  SIGTERM has no handler and is the Crash of UnifiedStore.          *)
(***************************************************************************)
EXTENDS Naturals

CONSTANTS
    Servers,      \* the HTTP, viewer and OHLCV WebSocket servers
    Core,         \* the tasks an exception can leave: producer, requester
    Loops,        \* the listeners, the broadcaster, the metrics
    Maintenance   \* the store's loop, started by bootstrap, not gathered

VARIABLES
    main,      \* where run_pipeline, or asyncio.run after it, is
    result,    \* how run_pipeline ends: none, returned, raised, cancelled
    task,      \* task -> none, binding, up, waiting, draining, closing, over
    how,       \* task -> how it ended: none, returned, raised, cancelled
    asked,     \* the tasks with a cancellation they have not seen yet
    stopped,   \* Ctrl-C was pressed
    blocked,   \* servers whose port is taken, or Redis refuses, at present
    badHost,   \* servers whose address can never be bound
    clients    \* servers with an open connection

vars == <<main, result, task, how, asked, stopped, blocked, badHost, clients>>
Gathered == Servers \cup Core \cup Loops
Tasks == Gathered \cup {Maintenance}

ASSUME KindsAssumption ==
    /\ Maintenance \notin Gathered
    /\ Servers \cap Core = {} /\ Servers \cap Loops = {} /\ Core \cap Loops = {}

Unfinished(T) == {t \in T : task[t] \notin {"none", "over"}}

Init ==
    /\ main = "boot" /\ result = "none" /\ stopped = FALSE
    /\ task = [t \in Tasks |-> "none"] /\ how = [t \in Tasks |-> "none"]
    /\ asked = {} /\ clients = {}
    /\ blocked \in SUBSET Servers /\ badHost \in SUBSET Servers

-----------------------------------------------------------------------------
(* run_pipeline *)

\* run_pipeline ends with outcome r; its finally cancels what it started.
Unwind(r) ==
    /\ main' = "unwound" /\ result' = r
    /\ asked' = asked \cup Unfinished(Gathered)

Bootstrap ==
    /\ main = "boot" /\ main' = "symbols"
    /\ task' = [task EXCEPT ![Maintenance] = "up"]
    /\ UNCHANGED <<result, how, asked, stopped, blocked, badHost, clients>>

BootstrapFails ==
    /\ main = "boot" /\ Unwind("raised")
    /\ UNCHANGED <<task, how, stopped, blocked, badHost, clients>>

\* No fast symbols, or Redis does not take them: run_pipeline just returns.
NoSymbols ==
    /\ main = "symbols" /\ Unwind("returned")
    /\ UNCHANGED <<task, how, stopped, blocked, badHost, clients>>

Launch ==
    /\ main = "symbols" /\ main' = "gather"
    /\ task' = [t \in Tasks |-> IF t \in Servers THEN "binding" ELSE "up"]
    /\ UNCHANGED <<result, how, asked, stopped, blocked, badHost, clients>>

\* Ctrl-C cancels the main task: a gather passes it on to its children, and
\* an await of the start raises at once.
CtrlC ==
    /\ ~stopped /\ main \in {"boot", "symbols", "gather"}
    /\ stopped' = TRUE
    /\ IF main = "gather"
       THEN asked' = asked \cup Unfinished(Gathered) /\ UNCHANGED <<main, result>>
       ELSE Unwind("cancelled")
    /\ UNCHANGED <<task, how, blocked, badHost, clients>>

\* The first child that raises or is cancelled completes the gather.
GatherEnds ==
    /\ main = "gather" /\ result # "none" /\ Unwind(result)
    /\ UNCHANGED <<task, how, stopped, blocked, badHost, clients>>

AsyncioRunCancels ==
    /\ main = "unwound" /\ main' = "closing"
    /\ asked' = asked \cup Unfinished(Tasks)
    /\ UNCHANGED <<result, task, how, stopped, blocked, badHost, clients>>

Exit ==
    /\ main = "closing" /\ Unfinished(Tasks) = {} /\ clients = {}
    /\ main' = "exited"
    /\ UNCHANGED <<result, task, how, asked, stopped, blocked, badHost, clients>>

-----------------------------------------------------------------------------
(* The tasks *)

\* Mutant: gather(return_exceptions=True).
Failure_Collected == {"cancelled"}

Failure == {"raised", "cancelled"}

\* Task t ends as h; a failure completes a gather nothing has completed yet.
Over(t, h) ==
    /\ task' = [task EXCEPT ![t] = "over"] /\ how' = [how EXCEPT ![t] = h]
    /\ asked' = asked \ {t}
    /\ result' = IF main = "gather" /\ result = "none" /\ h \in Failure
                 THEN h ELSE result
    /\ UNCHANGED <<main, stopped, blocked, badHost, clients>>

\* Task t goes on to state s, having seen its cancellation if there was one.
Goes(t, s) ==
    /\ task' = [task EXCEPT ![t] = s] /\ asked' = asked \ {t}
    /\ UNCHANGED <<main, result, how, stopped, blocked, badHost, clients>>

\* Mutant: no `finally: return`.
EndOf_Propagates(t) == "cancelled"

\* `finally: return` turns whatever ends a server into a plain return.
EndOf(t) == IF t \in Servers THEN "returned" ELSE "cancelled"

Bind(s) ==
    /\ task[s] = "binding" /\ s \notin asked \cup blocked \cup badHost
    /\ Goes(s, "up")

\* Mutant: a refused port is logged and the server is given up.
Refused_GivesUp(s) ==
    /\ task[s] = "binding" /\ s \in blocked \ (asked \cup badHost)
    /\ Goes(s, "closing")

\* Address in use, or any error that is not an OSError: wait and try again.
Refused(s) ==
    /\ task[s] = "binding" /\ s \in blocked \ (asked \cup badHost)
    /\ Goes(s, "waiting")

\* Any other OSError leaves the retry loop.
BindFails(s) ==
    /\ task[s] = "binding" /\ s \in badHost \ asked
    /\ Goes(s, "closing")

TryAgain(s) == task[s] = "waiting" /\ s \notin asked /\ Goes(s, "binding")

Raises(t) == t \in Core /\ task[t] = "up" /\ t \notin asked /\ Over(t, "raised")

\* Mutant: a server's retry loop catches CancelledError as well.
Cancelled_Retries(t) ==
    /\ t \in asked /\ task[t] \in {"binding", "up", "waiting"}
    /\ Goes(t, IF t \in Servers THEN "waiting" ELSE "closing")

\* CancelledError at an await: a server waits for its connections to close.
Cancelled(t) ==
    /\ t \in asked /\ task[t] \in {"binding", "up", "waiting"}
    /\ Goes(t, IF task[t] = "up" /\ t \in clients THEN "draining" ELSE "closing")

Drained(t) ==
    task[t] = "draining" /\ t \notin asked \cup clients /\ Goes(t, "closing")

\* A further cancellation cuts short the wait, or redis.close().
CancelledAgain(t) ==
    /\ t \in asked
    /\ \/ task[t] = "draining" /\ \E s \in {"draining", "closing"} : Goes(t, s)
       \/ task[t] = "closing" /\ Over(t, EndOf(t))

Closed(t) == task[t] = "closing" /\ t \notin asked /\ Over(t, EndOf(t))

-----------------------------------------------------------------------------
(* The surroundings *)

PortTaken(s) ==
    /\ task[s] # "up" /\ main = "gather" /\ blocked' = blocked \cup {s} /\ s \notin blocked
    /\ UNCHANGED <<main, result, task, how, asked, stopped, badHost, clients>>

PortFreed(s) ==
    /\ s \in blocked /\ main = "gather" /\ blocked' = blocked \ {s}
    /\ UNCHANGED <<main, result, task, how, asked, stopped, badHost, clients>>

ClientArrives(s) ==
    /\ task[s] = "up" /\ s \notin clients /\ clients' = clients \cup {s}
    /\ UNCHANGED <<main, result, task, how, asked, stopped, blocked, badHost>>

ClientLeaves(s) ==
    /\ s \in clients /\ clients' = clients \ {s}
    /\ UNCHANGED <<main, result, task, how, asked, stopped, blocked, badHost>>

\* asyncio.run cancels the handlers of the connections as well.
HandlerCancelled(s) == main = "closing" /\ ClientLeaves(s)

-----------------------------------------------------------------------------
PipelineStep == GatherEnds \/ AsyncioRunCancels \/ Exit
TaskStep(t) ==
    Cancelled(t) \/ CancelledAgain(t) \/ Drained(t) \/ Closed(t)
ServerStep(s) == Bind(s) \/ Refused(s) \/ BindFails(s) \/ TryAgain(s)
Surroundings(s) ==
    PortTaken(s) \/ PortFreed(s) \/ ClientArrives(s) \/ ClientLeaves(s)

Next ==
    \/ Bootstrap \/ BootstrapFails \/ NoSymbols \/ Launch \/ CtrlC \/ PipelineStep
    \/ \E t \in Tasks : TaskStep(t) \/ Raises(t)
    \/ \E s \in Servers : ServerStep(s) \/ Surroundings(s) \/ HandlerCancelled(s)

Spec == Init /\ [][Next]_vars

\* The event loop runs every task that can go on; what the surroundings do,
\* and whether anyone stops the program, is up to them.
FairSpec ==
    /\ Spec /\ WF_vars(PipelineStep)
    /\ \A t \in Tasks : WF_vars(TaskStep(t))
    /\ \A s \in Servers : WF_vars(ServerStep(s)) /\ WF_vars(HandlerCancelled(s))

-----------------------------------------------------------------------------
(* Ctrl-C ends the program, from whatever state and with whatever clients: *)
(* no task swallows its cancellation and goes on.                          *)
ShutdownEnds == stopped ~> main = "exited"

(* A producer or a requester that fails takes the program down, so that    *)
(* the service manager restarts it; it does not leave a pipeline that      *)
(* listens and serves but no longer computes.                              *)
CoreFailureStops == \A t \in Core : how[t] = "raised" ~> main = "exited"

(* Nothing that happens to a viewer server ends the pipeline: it leaves    *)
(* its gather only because of Ctrl-C or of a task of the core.             *)
ServersAreHarmless ==
    [][main = "gather" /\ main' # "gather" =>
           stopped \/ \E t \in Core : how[t] = "raised"]_vars

(* A server that was refused its port comes up once the port is free, for  *)
(* as long as the pipeline runs; only a wrong address is final.            *)
ServersRecover ==
    \A s \in Servers :
        <>[](main = "gather" /\ asked = {} /\ result = "none"
             /\ s \notin blocked \cup badHost) => <>[](task[s] = "up")
=============================================================================

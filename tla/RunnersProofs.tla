--------------------------- MODULE RunnersProofs ---------------------------
(* Theorems about Runners, for every set of tasks and servers, and every   *)
(* order of cancellations, failures, ports and connections.                *)
EXTENDS Runners, TLAPS

Typed == DOMAIN task = Tasks /\ DOMAIN how = Tasks

(* Before the gather nothing was stopped, nothing has ended, and only the  *)
(* maintenance loop may run.                                               *)
Starting ==
  main \in {"boot", "symbols"} =>
    /\ result = "none" /\ ~stopped
    /\ \A t \in Tasks : how[t] = "none"
    /\ \A t \in Gathered : task[t] = "none"
    /\ task[Maintenance] \in {"none", "up"}

(* Before Ctrl-C nothing is cancelled, and but for the servers a task of a *)
(* running pipeline is up or over.                                         *)
Quiet ==
  main \in {"boot", "symbols", "gather"} /\ ~stopped =>
    /\ asked = {}
    /\ \A t \in Tasks \ Servers : task[t] \in {"none", "up", "over"}

(* A task that has ended does not run again.                               *)
EndedIsOver == \A t \in Tasks : how[t] # "none" => task[t] = "over"

(* A gather that is completed was completed by Ctrl-C or by the core.      *)
Blamed ==
  main = "gather" /\ result # "none" => stopped \/ \E t \in Core : how[t] = "raised"

PipelineInv == Typed /\ Starting /\ Quiet /\ EndedIsOver /\ Blamed
-----------------------------------------------------------------------------
LEMMA RunnersInit == Init => PipelineInv
  BY DEF Init, PipelineInv, Typed, Starting, Quiet, EndedIsOver, Blamed, Tasks, Gathered

(* The steps of run_pipeline itself.                                       *)
LEMMA MainStep ==
  ASSUME PipelineInv,
         \/ Bootstrap \/ BootstrapFails \/ NoSymbols \/ Launch \/ CtrlC \/ PipelineStep
  PROVE  PipelineInv'
<1> USE DEF PipelineInv, Typed
<1>0. Maintenance \in Tasks /\ Maintenance \notin Gathered /\ Gathered \subseteq Tasks
      /\ Maintenance \notin Servers
  BY KindsAssumption DEF Tasks, Gathered
<1>1. CASE Bootstrap
  <2>1. /\ main = "boot" /\ main' = "symbols" /\ task' = [task EXCEPT ![Maintenance] = "up"]
        /\ UNCHANGED <<result, how, asked, stopped>>
    BY <1>1 DEF Bootstrap
  <2>2. /\ task'[Maintenance] = "up" /\ DOMAIN task' = Tasks
        /\ \A t \in Tasks : t # Maintenance => task'[t] = task[t]
    BY <1>0, <2>1
  <2>3. Starting'
    BY <1>0, <2>1, <2>2 DEF Starting
  <2>4. Quiet'
    BY <1>0, <2>1, <2>2 DEF Quiet
  <2>5. EndedIsOver' /\ Blamed'
    BY <2>1 DEF Starting, EndedIsOver, Blamed
  <2> QED
    BY <2>1, <2>2, <2>3, <2>4, <2>5
<1>2. CASE BootstrapFails \/ NoSymbols \/ GatherEnds \/ AsyncioRunCancels \/ Exit
  <2>1. main' \in {"unwound", "closing", "exited"} /\ UNCHANGED <<task, how, stopped>>
    BY <1>2 DEF BootstrapFails, NoSymbols, GatherEnds, AsyncioRunCancels, Exit, Unwind
  <2> QED
    BY <2>1 DEF Starting, Quiet, EndedIsOver, Blamed
<1>3. CASE Launch
  <2>1. /\ main = "symbols" /\ main' = "gather"
        /\ task' = [t \in Tasks |-> IF t \in Servers THEN "binding" ELSE "up"]
        /\ UNCHANGED <<result, how, asked, stopped>>
    BY <1>3 DEF Launch
  <2>2. Starting' /\ Blamed' /\ EndedIsOver'
    BY <2>1 DEF Starting, Blamed, EndedIsOver
  <2>3. Quiet'
    BY <2>1 DEF Quiet
  <2> QED
    BY <2>1, <2>2, <2>3
<1>4. CASE CtrlC
  <2>1. stopped' = TRUE /\ UNCHANGED <<task, how>>
    BY <1>4 DEF CtrlC
  <2>2. main' \notin {"boot", "symbols"}
    BY <1>4 DEF CtrlC, Unwind
  <2> QED
    BY <2>1, <2>2 DEF Starting, Quiet, EndedIsOver, Blamed
<1> QED
  BY <1>1, <1>2, <1>3, <1>4 DEF PipelineStep

(* A task that goes on to another state.  One that is not a server does so *)
(* only when it was asked to end.                                          *)
LEMMA GoesStep ==
  ASSUME PipelineInv, NEW t \in Tasks, NEW s, Goes(t, s),
         task[t] \notin {"none", "over"},
         t \in Servers \/ t \in asked \/ main \notin {"boot", "symbols", "gather"} \/ stopped
  PROVE  PipelineInv'
<1> USE DEF PipelineInv, Typed
<1>1. /\ task' = [task EXCEPT ![t] = s] /\ asked' = asked \ {t}
      /\ UNCHANGED <<main, result, how, stopped>>
  BY DEF Goes
<1>2. /\ DOMAIN task' = Tasks /\ task'[t] = s
      /\ \A u \in Tasks : u # t => task'[u] = task[u]
  BY <1>1
<1>3. main \notin {"boot", "symbols"}
  <2> SUFFICES ASSUME main \in {"boot", "symbols"} PROVE FALSE
    OBVIOUS
  <2>1. t \in Gathered \/ t = Maintenance
    BY DEF Tasks
  <2>2. (~stopped /\ task[t] = "none") \/ t = Maintenance
    BY <2>1 DEF Starting
  <2>3. asked = {} /\ ~stopped
    BY DEF Starting, Quiet
  <2>4. Maintenance \notin Servers
    BY KindsAssumption DEF Gathered
  <2> QED
    BY <2>2, <2>3, <2>4
<1>4. Starting'
  BY <1>1, <1>3 DEF Starting
<1>5. Quiet'
  BY <1>1, <1>2 DEF Quiet
<1>6. EndedIsOver'
  BY <1>1, <1>2 DEF EndedIsOver
<1>7. Blamed'
  BY <1>1 DEF Blamed
<1> QED
  BY <1>1, <1>2, <1>4, <1>5, <1>6, <1>7

(* A task that ends: only the core raises, and of the others only one that *)
(* was asked to end is cancelled, so the core or Ctrl-C is to blame.       *)
LEMMA OverStep ==
  ASSUME PipelineInv, NEW t \in Tasks, NEW h, Over(t, h),
         task[t] \notin {"none", "over"},
         main \notin {"boot", "symbols"},
         h \in Failure => \/ h = "raised" /\ t \in Core
                          \/ stopped \/ main # "gather"
  PROVE  PipelineInv'
<1> USE DEF PipelineInv, Typed
<1>1. /\ task' = [task EXCEPT ![t] = "over"] /\ how' = [how EXCEPT ![t] = h]
      /\ asked' = asked \ {t}
      /\ result' = IF main = "gather" /\ result = "none" /\ h \in Failure THEN h ELSE result
      /\ UNCHANGED <<main, stopped>>
  BY DEF Over
<1>2. /\ DOMAIN task' = Tasks /\ task'[t] = "over" /\ DOMAIN how' = Tasks /\ how'[t] = h
      /\ \A u \in Tasks : u # t => task'[u] = task[u] /\ how'[u] = how[u]
  BY <1>1
<1>3. Starting'
  BY <1>1 DEF Starting
<1>4. Quiet'
  BY <1>1, <1>2 DEF Quiet
<1>5. EndedIsOver'
  BY <1>2 DEF EndedIsOver
<1>6. Blamed'
  <2> SUFFICES ASSUME main = "gather", result' # "none", ~stopped
               PROVE  \E u \in Core : how'[u] = "raised"
    BY <1>1 DEF Blamed
  <2>1. CASE result # "none"
    <3>1. PICK u \in Core : how[u] = "raised"
      BY <2>1 DEF Blamed
    <3>2. u \in Tasks /\ task[u] = "over"
      BY <3>1 DEF EndedIsOver, Tasks, Gathered
    <3> QED
      BY <1>2, <3>1, <3>2
  <2>2. CASE result = "none"
    BY <1>1, <1>2, <2>2
  <2> QED
    BY <2>1, <2>2
<1> QED
  BY <1>2, <1>3, <1>4, <1>5, <1>6

(* Nothing runs but the maintenance loop before the gather.                *)
LEMMA RunningMeansLaunched ==
  ASSUME PipelineInv, NEW t \in Tasks, task[t] \in {"closing", "draining"}
  PROVE  /\ main \notin {"boot", "symbols"}
         /\ t \notin Servers /\ ~stopped => main # "gather"
<1>1. t \in Gathered \/ t = Maintenance
  BY DEF Tasks
<1> QED
  BY <1>1 DEF PipelineInv, Starting, Quiet

LEMMA TasksStep ==
  ASSUME PipelineInv, NEW t \in Tasks, TaskStep(t) \/ Raises(t)
  PROVE  PipelineInv'
<1>1. CASE Cancelled(t)
  <2>1. /\ t \in asked /\ task[t] \in {"binding", "up", "waiting"}
        /\ \E s : Goes(t, s)
    BY <1>1 DEF Cancelled
  <2> QED
    BY <2>1, GoesStep
<1>2. CASE CancelledAgain(t)
  <2>1. CASE task[t] = "draining" /\ \E s \in {"draining", "closing"} : Goes(t, s)
    BY <1>2, <2>1, GoesStep DEF CancelledAgain
  <2>2. CASE task[t] = "closing" /\ Over(t, EndOf(t))
    <3>1. main \notin {"boot", "symbols"} /\ (t \notin Servers /\ ~stopped => main # "gather")
      BY <2>2, RunningMeansLaunched
    <3>2. EndOf(t) \in Failure => t \notin Servers
      BY DEF EndOf, Failure
    <3> QED
      BY <2>2, <3>1, <3>2, OverStep
  <2> QED
    BY <1>2, <2>1, <2>2 DEF CancelledAgain
<1>3. CASE Drained(t)
  <2>1. task[t] = "draining" /\ Goes(t, "closing")
    BY <1>3 DEF Drained
  <2>2. t \notin Servers /\ ~stopped => main \notin {"boot", "symbols", "gather"}
    BY <2>1, RunningMeansLaunched
  <2> QED
    BY <2>1, <2>2, GoesStep
<1>4. CASE Closed(t)
  <2>1. task[t] = "closing" /\ Over(t, EndOf(t))
    BY <1>4 DEF Closed
  <2>2. main \notin {"boot", "symbols"} /\ (t \notin Servers /\ ~stopped => main # "gather")
    BY <2>1, RunningMeansLaunched
  <2>3. EndOf(t) \in Failure => t \notin Servers
    BY DEF EndOf, Failure
  <2> QED
    BY <2>1, <2>2, <2>3, OverStep
<1>5. CASE Raises(t)
  <2>1. t \in Core /\ task[t] = "up" /\ Over(t, "raised")
    BY <1>5 DEF Raises
  <2>2. main \notin {"boot", "symbols"}
    BY <2>1 DEF PipelineInv, Starting, Gathered
  <2> QED
    BY <2>1, <2>2, OverStep
<1> QED
  BY <1>1, <1>2, <1>3, <1>4, <1>5 DEF TaskStep

LEMMA ServersStep ==
  ASSUME PipelineInv, NEW s \in Servers,
         ServerStep(s) \/ Surroundings(s) \/ HandlerCancelled(s)
  PROVE  PipelineInv'
<1>1. s \in Tasks
  BY DEF Tasks, Gathered
<1>2. CASE ServerStep(s)
  <2>1. task[s] \in {"binding", "waiting"} /\ \E u : Goes(s, u)
    BY <1>2 DEF ServerStep, Bind, Refused, BindFails, TryAgain
  <2> QED
    BY <1>1, <2>1, GoesStep
<1>3. CASE Surroundings(s) \/ HandlerCancelled(s)
  <2>1. UNCHANGED <<main, result, task, how, asked, stopped>>
    BY <1>3 DEF Surroundings, HandlerCancelled, PortTaken, PortFreed, ClientArrives, ClientLeaves
  <2> QED
    BY <2>1 DEF PipelineInv, Typed, Starting, Quiet, EndedIsOver, Blamed
<1> QED
  BY <1>2, <1>3

LEMMA RunnersStep == ASSUME PipelineInv, [Next]_vars PROVE PipelineInv'
<1>1. CASE UNCHANGED vars
  BY <1>1 DEF vars, PipelineInv, Typed, Starting, Quiet, EndedIsOver, Blamed
<1> QED
  BY <1>1, MainStep, TasksStep, ServersStep DEF Next
-----------------------------------------------------------------------------
(* Whatever happens to the viewer's servers (ports taken, addresses that   *)
(* cannot be bound, connections that stay open, in any order), run_pipeline *)
(* leaves its gather only after Ctrl-C or a failure of the core (main.py,  *)
(* 221 and the finally clauses of 364-528).                                *)
THEOREM GatherIsTheCores == Spec => ServersAreHarmless
<1> DEFINE Harmless == main = "gather" /\ main' # "gather" =>
                         stopped \/ \E t \in Core : how[t] = "raised"
<1>1. ASSUME PipelineInv, Next PROVE Harmless
  <2> SUFFICES ASSUME main = "gather", main' # "gather"
               PROVE  stopped \/ \E t \in Core : how[t] = "raised"
    OBVIOUS
  <2>1. CASE GatherEnds
    BY <1>1, <2>1 DEF GatherEnds, PipelineInv, Blamed
  <2>2. CASE Bootstrap \/ BootstrapFails \/ NoSymbols \/ Launch \/ CtrlC
             \/ AsyncioRunCancels \/ Exit
    BY <2>2 DEF Bootstrap, BootstrapFails, NoSymbols, Launch, CtrlC, AsyncioRunCancels, Exit
  <2>3. ASSUME NEW t \in Tasks, TaskStep(t) \/ Raises(t) PROVE FALSE
    BY <2>3 DEF TaskStep, Raises, Cancelled, CancelledAgain, Drained, Closed, Goes, Over
  <2>4. ASSUME NEW s \in Servers, ServerStep(s) \/ Surroundings(s) \/ HandlerCancelled(s)
        PROVE  FALSE
    BY <2>4 DEF ServerStep, Bind, Refused, BindFails, TryAgain, Goes, Surroundings,
       HandlerCancelled, PortTaken, PortFreed, ClientArrives, ClientLeaves
  <2> QED
    BY <1>1, <2>1, <2>2, <2>3, <2>4 DEF Next, PipelineStep
<1>2. ASSUME PipelineInv, [Next]_vars PROVE [Harmless]_vars
  BY <1>1, <1>2
<1>3. PipelineInv /\ [Next]_vars => PipelineInv'
  BY RunnersStep
<1> QED
  BY <1>2, <1>3, RunnersInit, PTL DEF Spec, ServersAreHarmless
=============================================================================

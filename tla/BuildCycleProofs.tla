--------------------------- MODULE BuildCycleProofs ---------------------------
(***************************************************************************)
(* Theorems about BuildCycle: the composition runs each of its components  *)
(* as the component's own specification allows, so that what is proved of  *)
(* Requeue and of Builder holds of it; and what a build's controller notes *)
(* of the Job it waits for.                                                *)
(***************************************************************************)
EXTENDS BuildCycle, RequeueProofs, BuilderProofs

-----------------------------------------------------------------------------
(***************************************************************************)
(* The inductive invariant.                                                *)
(***************************************************************************)

(* A Pod runs for a build that exists, and before it runs nothing ends.    *)
PodInv ==
  /\ pod \in {"none", "running", "gone", "by hand"}
  /\ pod = "running" => Build \in exists
  /\ pod = "none" => exit = "none"

(* What is seen and noted is the one exit code the program has, or that it *)
(* was not found, and only of the operator's Pod, whose environment is     *)
(* complete.                                                               *)
NotedInv ==
  /\ {seen, noted} \subseteq {"none", "unknown", exit}
  /\ missed \in BOOLEAN
  /\ ByHand => seen = "none" /\ noted = "none"
  /\ ByHand \/ Complete

CycleInv ==
  /\ RequeueInv /\ TimersInv /\ BuilderInv
  /\ PodInv /\ NotedInv /\ ExitNoticed

-----------------------------------------------------------------------------
(***************************************************************************)
(* The components.                                                         *)
(***************************************************************************)

(* An exit of the Pod is an event on an object that exists, and every      *)
(* other step is one of one component, or of neither.                      *)
LEMMA ComponentSteps ==
  PodInv /\ [CycleNext]_cycleVars => [Next]_vars /\ [BuilderNext]_builderVars
<1> SUFFICES ASSUME PodInv, [CycleNext]_cycleVars
             PROVE  [Next]_vars /\ [BuilderNext]_builderVars
  OBVIOUS
<1>1. CASE PodStep
  <2>1. Build \in exists /\ Build \in Name
    BY <1>1, CycleAssumption DEF PodStep, PodInv
  <2>2. CASE exit' # "none"
    <3>1. ChangeObject(Build)
      BY <1>1, <2>1, <2>2 DEF PodStep, JobEvent, ChangeObject
    <3> QED
      BY <1>1, <2>1, <3>1 DEF PodStep, Next, Cluster
  <2>3. CASE exit' = "none"
    BY <1>1, <2>3 DEF PodStep, vars
  <2> QED
    BY <2>2, <2>3
<1>2. CASE ContainerStep
  BY <1>2 DEF ContainerStep
<1>3. CASE Look \/ Conclude \/ GiveUp
  BY <1>3 DEF Look, Conclude, GiveUp, Next, Worker, builderVars
<1>4. ASSUME NEW n \in Name, Elsewhere(n) \/ Delete(n)
      PROVE  [Next]_vars /\ [BuilderNext]_builderVars
  BY <1>4 DEF Elsewhere, Delete, Unobserved, Next, Cluster
<1>5. CASE Advance \/ OperatorExit
  BY <1>5 DEF Advance, OperatorExit, Unobserved, Next, Manager
<1>6. CASE UNCHANGED cycleVars
  BY <1>6 DEF cycleVars, vars, builderVars
<1> QED
  BY <1>1, <1>2, <1>3, <1>4, <1>5, <1>6 DEF CycleNext

(* A program that has ended takes no step, nor is its exit code undone.    *)
LEMMA EndIsEnd == BuilderNext => exit = "none"
BY DEF BuilderNext, Run, Begin, Clone, FindRoot, Download, Login, Bud, Push,
       End, Killed, Step

LEMMA PodStepInv == PodInv /\ [CycleNext]_cycleVars => PodInv'
<1> SUFFICES ASSUME PodInv, [CycleNext]_cycleVars PROVE PodInv'
  OBVIOUS
<1> USE DEF PodInv
<1>1. CASE PodStep
  BY <1>1 DEF PodStep
<1>2. CASE ContainerStep
  BY <1>2 DEF ContainerStep, ByHand, vars
<1>3. CASE Look \/ GiveUp
  BY <1>3 DEF Look, GiveUp, Take, ReturnError, builderVars
<1>4. CASE Conclude
  BY <1>4 DEF Conclude, Return, builderVars
<1>5. ASSUME NEW n \in Name, Elsewhere(n)
      PROVE  PodInv'
  BY <1>5 DEF Elsewhere, Unobserved, CreateObject, ChangeObject, Ready, builderVars
<1>6. ASSUME NEW n \in Name, Delete(n)
      PROVE  PodInv'
  BY <1>6 DEF Delete, DeleteObject, Unobserved, builderVars
<1>7. CASE Advance \/ OperatorExit
  BY <1>7 DEF Advance, OperatorExit, Unobserved, Setup, Lead, Tick, Exit, builderVars
<1>8. CASE UNCHANGED cycleVars
  BY <1>8 DEF cycleVars, vars, builderVars
<1> QED
  BY <1>1, <1>2, <1>3, <1>4, <1>5, <1>6, <1>7, <1>8 DEF CycleNext

LEMMA NotedStepInv ==
  PodInv /\ NotedInv /\ [CycleNext]_cycleVars => NotedInv'
<1> SUFFICES ASSUME PodInv, NotedInv, [CycleNext]_cycleVars PROVE NotedInv'
  OBVIOUS
<1> USE DEF NotedInv, ByHand, Complete
<1>1. lacks' = lacks
  <2>1. BuilderNext => lacks' = lacks
    BY DEF BuilderNext, Run, Begin, Clone, FindRoot, Download, Login, Bud,
           Push, End, Killed, Fail, Failed, Dispose, Ends, Unmoved
  <2> QED
    BY <2>1, ComponentSteps DEF builderVars
<1>2. CASE PodStep \/ ContainerStep
  <2>1. exit = "none" /\ UNCHANGED <<pod, seen, noted, missed>>
    BY <1>2, EndIsEnd DEF PodStep, ContainerStep
  <2> QED
    BY <1>1, <2>1
<1>3. CASE Look
  BY <1>1, <1>3 DEF Look, Known, builderVars
<1>4. CASE Conclude
  BY <1>1, <1>4 DEF Conclude, Noted, Known, builderVars
<1>5. CASE GiveUp \/ OperatorExit
  BY <1>1, <1>5 DEF GiveUp, OperatorExit, builderVars
<1>6. ASSUME NEW n \in Name, Elsewhere(n) \/ Delete(n)
      PROVE  NotedInv'
  BY <1>1, <1>6 DEF Elsewhere, Delete, Unobserved, builderVars
<1>7. CASE Advance
  BY <1>1, <1>7 DEF Advance, Unobserved, builderVars
<1>8. CASE UNCHANGED cycleVars
  BY <1>8 DEF cycleVars, builderVars
<1> QED
  BY <1>2, <1>3, <1>4, <1>5, <1>6, <1>7, <1>8 DEF CycleNext

LEMMA CycleInitInv == CycleInit => Init /\ BuilderInit /\ CycleInv
<1> SUFFICES ASSUME CycleInit PROVE Init /\ BuilderInit /\ CycleInv
  OBVIOUS
<1>1. Init /\ BuilderInit
  BY DEF CycleInit
<1>2. RequeueInv /\ TimersInv /\ BuilderInv
  BY <1>1, RequeueInitInv, TimersInitInv, BuilderInitInv
<1>3. PodInv /\ NotedInv /\ ExitNoticed
  BY <1>1 DEF CycleInit, Init, BuilderInit, PodInv, NotedInv, ExitNoticed, ByHand
<1> QED
  BY <1>1, <1>2, <1>3 DEF CycleInv

-----------------------------------------------------------------------------
(***************************************************************************)
(* An exit is noticed.                                                     *)
(***************************************************************************)

(* A reconcile of the build is on its way as soon as its object has an     *)
(* event, or a timer.                                                      *)
LEMMA NotifiedIsExpected ==
  ASSUME RequeueInv, process = "leading", Notify(Build),
         UNCHANGED <<processing, waiting>>
  PROVE  Expected'
<1>1. Contains(queue', Build) \/ (processing = Build /\ again')
  BY AddKeeps, CycleAssumption DEF Notify
<1> QED
  BY <1>1 DEF Expected

(* No event takes a request away.                                          *)
LEMMA StillExpected ==
  ASSUME RequeueInv, Expected, NEW n \in Name, Add(n) \/ UNCHANGED <<queue, again>>,
         UNCHANGED <<processing, seen, exit>>,
         waiting'[Build] # NotWaiting \/ waiting[Build] = NotWaiting
  PROVE  Expected'
<1>1. /\ Contains(queue, Build) => Contains(queue', Build)
      /\ again => again'
  BY AddKeeps
<1> QED
  BY <1>1 DEF Expected, Ended, NotWaiting

(* The end of a reconcile: what it has not seen is marked to be looked at  *)
(* again.                                                                  *)
LEMMA EndIsExpected ==
  ASSUME RequeueInv, processing # NoName, Done, Expected,
         waiting[Build] # NotWaiting => waiting'[Build] # NotWaiting
  PROVE  Expected' \/ (processing = Build /\ Ended(seen))
<1>1. /\ again => Contains(queue', processing)
      /\ \A m : Contains(queue, m) => Contains(queue', m)
  BY DoneKeeps
<1> QED
  BY <1>1 DEF Expected, Ended, NotWaiting

LEMMA NoticedStepInv ==
  CycleInv /\ [CycleNext]_cycleVars => ExitNoticed'
<1> SUFFICES ASSUME CycleInv, [CycleNext]_cycleVars,
                    process' = "leading", Build \in exists', Observed'
             PROVE  Ended(noted)' \/ Expected' \/ missed'
  BY DEF ExitNoticed
<1> USE CycleAssumption DEF Ended
<1>1. RequeueInv /\ TypeOK /\ PodInv /\ NotedInv /\ ExitNoticed
  BY DEF CycleInv, RequeueInv
<1>2. CASE PodStep
  <2>1. UNCHANGED <<process, processing, waiting>> /\ Notify(Build)
    BY <1>2 DEF PodStep, JobEvent, Observed
  <2> QED
    BY <1>1, <2>1, NotifiedIsExpected
<1>3. CASE ContainerStep
  BY <1>3 DEF ContainerStep, ByHand, Observed
<1>4. CASE Look
  <2>1. /\ UNCHANGED <<process, exists, waiting, pod, exit, noted>>
        /\ processing = NoName /\ queue # <<>> /\ Observed
        /\ processing' = Head(queue) /\ queue' = Tail(queue)
    BY <1>4 DEF Look, Take, Observed, builderVars
  <2>2. CASE processing' = Build
    <3>1. CASE Known(noted)
      BY <1>1, <2>1, <3>1 DEF Known, NotedInv
    <3>2. CASE ~Known(noted)
      <4>1. seen' \in {exit, "unknown", "none"} /\ missed' = ~Known(seen')
        BY <1>4, <2>1, <2>2, <3>2 DEF Look, Looks
      <4>2. Ended(seen)' \/ missed'
        BY <2>1, <4>1 DEF Known
      <4> QED
        BY <2>2, <4>2 DEF Expected
    <3> QED
      BY <3>1, <3>2
  <2>3. CASE processing' # Build
    <3>1. missed' = missed
      BY <1>4, <2>3 DEF Look
    <3>2. Ended(noted) \/ Expected \/ missed
      BY <1>1, <2>1 DEF ExitNoticed
    <3>3. Contains(queue, Build) => Contains(queue', Build)
      <4>1. Unrepeated(queue)
        BY <1>1 DEF TypeOK, Unrepeated
      <4> QED
        BY <2>1, <2>3, <4>1, TailKeeps
    <3>4. processing # Build
      BY <2>1, RequeueAssumption
    <3> QED
      BY <2>1, <3>1, <3>2, <3>3, <3>4 DEF Expected, NotWaiting
  <2> QED
    BY <2>2, <2>3
<1>5. CASE Conclude
  <2>1. /\ UNCHANGED <<process, exists, exit, missed>> /\ noted' = Noted(seen)
        /\ processing # NoName /\ Done
    BY <1>5 DEF Conclude, Return, builderVars
  <2>2. Observed
    BY <1>1, <1>5, <2>1 DEF Conclude, Observed, PodInv
  <2>3. Ended(noted) \/ Expected \/ missed
    BY <1>1, <2>1, <2>2 DEF ExitNoticed
  <2>4. waiting[Build] # NotWaiting => waiting'[Build] # NotWaiting
    <3>1. CASE Requeues(processing)
      <4>1. waiting' = Sooner(processing, Delay)
        BY <1>5, <3>1 DEF Conclude, Return, RequeueAfter
      <4> QED
        BY <1>1, <4>1, RequeueAssumption DEF Sooner, NotWaiting, TypeOK
    <3>2. CASE ~Requeues(processing)
      BY <1>5, <3>2 DEF Conclude, Return
    <3> QED
      BY <3>1, <3>2
  <2>5. Ended(noted) => Ended(noted)'
    BY <1>1, <2>1 DEF Noted, Known, NotedInv
  <2>6. Expected => Expected' \/ (processing = Build /\ Ended(seen))
    BY <1>1, <2>1, <2>4, EndIsExpected
  <2>7. Ended(seen) => Ended(noted)'
    BY <2>1, <2>2 DEF Noted, Known, Observed
  <2> QED
    BY <2>1, <2>3, <2>5, <2>6, <2>7
<1>6. CASE GiveUp
  <2>1. /\ UNCHANGED <<process, exists, exit, noted, pod, missed>>
        /\ processing # NoName /\ Done
    BY <1>6 DEF GiveUp, ReturnError, builderVars
  <2>2. Ended(noted) \/ Expected \/ missed
    BY <1>1, <2>1 DEF ExitNoticed, Observed
  <2>3. /\ waiting[Build] # NotWaiting => waiting'[Build] # NotWaiting
        /\ processing = Build => waiting'[Build] # NotWaiting
    BY <1>1, <1>6, RequeueAssumption
       DEF GiveUp, ReturnError, Retry, Sooner, NotWaiting, TypeOK
  <2>4. Expected => Expected' \/ processing = Build
    BY <1>1, <2>1, <2>3, EndIsExpected
  <2>5. processing = Build => Expected'
    BY <2>3 DEF Expected, NotWaiting
  <2> QED
    BY <2>1, <2>2, <2>4, <2>5
<1>7. ASSUME NEW n \in Name, Elsewhere(n) \/ Delete(n)
      PROVE  Ended(noted)' \/ Expected' \/ missed'
  <2>1. UNCHANGED <<process, processing, exit, noted, seen, missed>>
    BY <1>7 DEF Elsewhere, Delete, Unobserved, CreateObject, ChangeObject, Ready,
                DeleteObject, builderVars
  <2>2. pod' = pod /\ Observed
    BY <1>7, <2>1 DEF Elsewhere, Delete, Observed
  <2>3. Build \in exists
    BY <1>1, <2>2 DEF Observed, PodInv
  <2>4. Ended(noted) \/ Expected \/ missed
    BY <1>1, <2>1, <2>2, <2>3 DEF ExitNoticed
  <2>5. CASE Ready(n)
    <3>1. Add(n) /\ waiting' = [waiting EXCEPT ![n] = NotWaiting]
      BY <2>5 DEF Ready
    <3>2. CASE n = Build
      <4>1. Contains(queue', Build) \/ (processing = Build /\ again')
        BY <1>1, <3>1, <3>2, AddKeeps
      <4> QED
        BY <2>1, <4>1 DEF Expected
    <3>3. CASE n # Build
      <4>1. waiting'[Build] = waiting[Build]
        BY <1>1, <3>1, <3>3 DEF TypeOK
      <4> QED
        BY <1>1, <2>1, <2>4, <3>1, <4>1, StillExpected
    <3> QED
      BY <3>2, <3>3
  <2>6. CASE ~Ready(n)
    <3>1. waiting' = waiting /\ (Add(n) \/ UNCHANGED <<queue, again>>)
      BY <1>7, <2>6 DEF Elsewhere, Delete, CreateObject, ChangeObject,
                        DeleteObject, Notify
    <3> QED
      BY <1>1, <2>1, <2>4, <3>1, StillExpected
  <2> QED
    BY <2>5, <2>6
<1>8. CASE Advance
  <2>1. UNCHANGED <<exists, processing, exit, noted, seen, pod, missed>> /\ ~Setup
    BY <1>8 DEF Advance, Unobserved, Setup, Lead, Tick, memory, builderVars
  <2>2. CASE Lead
    <3>1. Contains(queue', Build)
      BY <1>1, <2>1, <2>2, ListKeeps DEF Lead, RequeueInv, TypeOK
    <3> QED
      BY <3>1 DEF Expected
  <2>3. CASE Tick
    <3>1. Ended(noted) \/ Expected \/ missed
      BY <1>1, <2>1, <2>3 DEF ExitNoticed, Observed, Tick
    <3>2. UNCHANGED <<queue, again>>
      BY <2>3 DEF Tick
    <3>3. waiting[Build] # NotWaiting => waiting'[Build] # NotWaiting
      BY <1>1, <2>3, RequeueAssumption DEF Tick, TypeOK, NotWaiting
    <3> QED
      BY <1>1, <2>1, <3>1, <3>2, <3>3, StillExpected
  <2> QED
    BY <1>8, <2>1, <2>2, <2>3 DEF Advance
<1>9. CASE OperatorExit
  BY <1>9 DEF OperatorExit, Exit
<1>10. CASE UNCHANGED cycleVars
  BY <1>1, <1>10 DEF cycleVars, vars, builderVars, ExitNoticed, Observed, Expected,
                     NotWaiting
<1> QED
  BY <1>2, <1>3, <1>4, <1>5, <1>6, <1>7, <1>8, <1>9, <1>10 DEF CycleNext

LEMMA CycleStepInv == CycleInv /\ [CycleNext]_cycleVars => CycleInv'
<1> SUFFICES ASSUME CycleInv, [CycleNext]_cycleVars PROVE CycleInv'
  OBVIOUS
<1>1. [Next]_vars /\ [BuilderNext]_builderVars
  BY ComponentSteps DEF CycleInv
<1>2. RequeueInv' /\ TimersInv' /\ BuilderInv'
  BY <1>1, RequeueStepInv, TimersStepInv, BuilderStepInv DEF CycleInv
<1>3. PodInv' /\ NotedInv' /\ ExitNoticed'
  BY PodStepInv, NotedStepInv, NoticedStepInv DEF CycleInv
<1> QED
  BY <1>2, <1>3 DEF CycleInv

-----------------------------------------------------------------------------
(***************************************************************************)
(* The theorems.                                                           *)
(***************************************************************************)

(* The controller and the container, together, keep the invariant.         *)
THEOREM CycleInvariant == CycleSpec => []CycleInv
<1> QED
  BY CycleInitInv, CycleStepInv, PTL DEF CycleSpec

(* The composition adds no behaviour to a component: with the other's      *)
(* variables hidden, it is one of Requeue's, and one of Builder's.         *)
THEOREM ComponentsImplemented == CycleSpec => Spec /\ BuilderSpec
<1>1. CycleInv => PodInv
  BY DEF CycleInv
<1> QED
  BY <1>1, CycleInvariant, CycleInitInv, ComponentSteps, PTL
     DEF CycleSpec, Spec, BuilderSpec

(* The types of the variables, the components' included.                   *)
THEOREM CycleTypeCorrect == CycleSpec => []CycleTypeOK
<1>1. CycleInv => CycleTypeOK
  BY DEF CycleInv, RequeueInv, BuilderInv, BuilderTypeOK, Code, PodInv, NotedInv,
         CycleTypeOK
<1> QED
  BY <1>1, CycleInvariant, PTL

(* No end of a Job is missed, whatever reconcile or restart it comes in    *)
(* the middle of, and however many other objects there are, but by a       *)
(* reconcile whose own look at the object or the Job fails.                *)
THEOREM ExitsAreNoticed == CycleSpec => []ExitNoticed
<1>1. CycleInv => ExitNoticed
  BY DEF CycleInv
<1> QED
  BY <1>1, CycleInvariant, PTL

(* What the controller takes for a success is one, although main returns   *)
(* 0 without a login: the operator's Jobs have one.                        *)
THEOREM SuccessesArePushed == CycleSpec => []SuccessIsPushed
<1>1. CycleInv => SuccessIsPushed
  BY DEF CycleInv, NotedInv, ByHand, Complete, BuilderInv, ZeroInv, SuccessIsPushed
<1> QED
  BY <1>1, CycleInvariant, PTL

(* What is proved of the components holds of the composition.              *)
THEOREM CycleTimers == CycleSpec => []TimersBounded
BY ComponentsImplemented, TimersAreBounded, PTL

THEOREM CycleImages == CycleSpec => []PushedIsWhole
BY ComponentsImplemented, ImagesAreWhole, PTL

THEOREM CycleStorage == CycleSpec => []StorageCleared
BY ComponentsImplemented, StorageIsCleared, PTL
=============================================================================

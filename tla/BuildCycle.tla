------------------------------ MODULE BuildCycle ------------------------------
(***************************************************************************)
(* A builder Job and the controller that waits for it: Builder, the        *)
(* program in the Job's Pod, composed with Requeue, the requests that make *)
(* the controller look at the Job.                                         *)
(*                                                                         *)
(* One build, Build, is followed through one Job; the controller's other   *)
(* objects take part with their requests only.  What the controller makes  *)
(* of a Job's end, and its deadlines, are in KoupletBuild: here it looks   *)
(* at the Job early in a reconcile, and has noted what it saw when the     *)
(* reconcile ends.  A look that fails is only logged: the reconcile ends   *)
(* like any other, and nothing is requeued for it.                         *)
(***************************************************************************)
EXTENDS Requeue, Builder

CONSTANT Build   \* the build that is followed

ASSUME CycleAssumption == Build \in Name

VARIABLES
  pod,    \* the Job's Pod: none, running, gone, or run by hand
  seen,   \* what the reconcile under way saw of the Job
  noted,  \* the exit code that the controller holds, "none" before
  missed  \* a look at the ended Job failed, and no other has followed

cycleVars == <<vars, builderVars, pod, seen, noted, missed>>
-----------------------------------------------------------------------------
(* A container run by hand, with any environment, has no operator.         *)
ByHand == pod = "by hand"

CycleInit ==
  /\ Init /\ BuilderInit
  /\ pod \in {"none", "by hand"}
  /\ ByHand \/ Complete
  /\ seen = "none" /\ noted = "none" /\ missed = FALSE

(* Mutant of JobEvent: the Jobs are not watched.                           *)
JobEvent_Unwatched == UNCHANGED <<queue, again>>

(* SetupWithManager: the controller Owns the Jobs.                         *)
JobEvent == Notify(Build)

(* The Pod's next step.  Its exit is an event on a Job the build owns.     *)
Observed == pod = "running" /\ exit # "none"
PodStep ==
  /\ pod = "running" /\ BuilderNext
  /\ IF exit' # "none" THEN JobEvent ELSE UNCHANGED <<queue, again>>
  /\ UNCHANGED <<exists, process, processing, waiting, window, errors, lag,
                 pod, seen, noted, missed>>

ContainerStep ==
  /\ ByHand /\ BuilderNext
  /\ UNCHANGED <<vars, pod, seen, noted, missed>>

(* A request is taken.  The Job of the attempt is read before anything     *)
(* else, so its Pod may well end while the reconcile goes on.  A Job that  *)
(* ended is looked at until its end is noted; "unknown" is the exit code   *)
(* that getContainerExitCode does not find.  A Get that fails, of the      *)
(* object by subProcess or of the Job, shows nothing.                      *)
Known(code) == code # "none"
Ended(code) == code \in {exit, "unknown"}
Looks == Build \in exists /\ Observed /\ ~Known(noted)
Look ==
  /\ ~ByHand
  /\ Take
  /\ IF processing' = Build /\ Looks
       THEN /\ seen' \in {exit, "unknown", "none"}
            /\ missed' = ~Known(seen')
       ELSE seen' = "none" /\ UNCHANGED missed
  /\ UNCHANGED <<builderVars, pod, noted>>

(* The end of a reconcile: the build has its Job, or what was seen of it   *)
(* is noted.                                                               *)
Noted(code) == IF Known(code) THEN code ELSE noted
Conclude ==
  /\ Return
  /\ pod' = IF processing = Build /\ Build \in exists /\ pod = "none"
              THEN "running" ELSE pod
  /\ noted' = Noted(seen)
  /\ seen' = "none"
  /\ UNCHANGED <<builderVars, missed>>

(* Reconcile cannot read the object, and so has not looked at the Job.     *)
GiveUp ==
  /\ ReturnError
  /\ seen' = "none"
  /\ UNCHANGED <<builderVars, pod, noted, missed>>

(* Steps that neither look at the Job nor end a reconcile.                 *)
Unobserved == UNCHANGED <<builderVars, seen, noted, missed>>
Elsewhere(n) ==
  /\ ~ByHand
  /\ CreateObject(n) \/ ChangeObject(n) \/ Ready(n)
  /\ Unobserved /\ UNCHANGED pod

(* The garbage collector removes a Job, and its Pod, with its owner.       *)
Delete(n) ==
  /\ ~ByHand
  /\ DeleteObject(n)
  /\ pod' = IF n = Build /\ pod = "running" THEN "gone" ELSE pod
  /\ Unobserved

Advance ==
  /\ ~ByHand
  /\ Setup \/ Lead \/ Tick
  /\ Unobserved /\ UNCHANGED pod

(* The operator's process ends; the Pod goes on.                           *)
OperatorExit ==
  /\ ~ByHand
  /\ Exit
  /\ seen' = "none" /\ missed' = FALSE
  /\ UNCHANGED <<builderVars, pod, noted>>

CycleNext ==
  \/ PodStep \/ ContainerStep
  \/ Look \/ Conclude \/ GiveUp
  \/ \E n \in Name : Elsewhere(n) \/ Delete(n)
  \/ Advance \/ OperatorExit

CycleSpec == CycleInit /\ [][CycleNext]_cycleVars
-----------------------------------------------------------------------------
(***************************************************************************)
(* Properties.                                                             *)
(***************************************************************************)

(* The types of the variables, those of the two components included.       *)
CycleTypeOK ==
  /\ TypeOK /\ BuilderTypeOK
  /\ pod \in {"none", "running", "gone", "by hand"}
  /\ {seen, noted} \subseteq {"none", "zero", "nonzero", "killed", "unknown"}
  /\ missed \in BOOLEAN

(* No end of a Job is missed but by a look that fails: as long as the      *)
(* object exists and an operator leads, the end is noted, or the reconcile *)
(* under way has seen it, or another is on its way, or the last one could  *)
(* not read the object or the Job - though the Job may end during a        *)
(* reconcile, during a restart, or before a reconcile that fails.          *)
Expected ==
  \/ Contains(queue, Build) \/ waiting[Build] # NotWaiting
  \/ processing = Build /\ (again \/ Ended(seen))
ExitNoticed ==
  process = "leading" /\ Build \in exists /\ Observed =>
    Ended(noted) \/ Expected \/ missed

(* What the controller takes for a success is one: the image was pushed.   *)
(* It has nothing but the exit code to go by, and main can return early.   *)
SuccessIsPushed == noted = "zero" => pushed
=============================================================================

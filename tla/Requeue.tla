-------------------------------- MODULE Requeue --------------------------------
(***************************************************************************)
(* When a controller of the operator reconciles what.  A request is the    *)
(* name of an object; requests come from watch events on the objects and   *)
(* on their Jobs, from errors, and from a timer that all objects of a      *)
(* controller share: a reconcile that finds nextReconcileTime in the past  *)
(* moves it Window ahead and has its own request come back after Delay.    *)
(*                                                                         *)
(* The two controllers differ in the numbers only: 45 and 90 seconds for   *)
(* KoupletBuild, 10 and 20 for KoupletTest.  What a reconcile does to      *)
(* builds and tests is in KoupletBuild and KoupletTest; here it ends, with *)
(* or without an error.  The queue is client-go's rate-limited delaying    *)
(* queue, with the one worker that controller-runtime starts by default.   *)
(*                                                                         *)
(* Time is counted in ticks, and what lies ahead is kept as the number of  *)
(* ticks until then, so nothing grows for ever.                            *)
(*                                                                         *)
(* Source: staging/controllers (the two controllers), staging/main.go.     *)
(***************************************************************************)
EXTENDS Integers, Sequences, SequencesExt

CONSTANTS
  Name,       \* the names of the controller's objects
  NoName,     \* no request
  Window,     \* ticks that nextReconcileTime is moved ahead
  Delay,      \* ticks of RequeueAfter
  MaxLag,     \* bound: ticks that may pass before the worker ends a reconcile
  MaxBackoff, \* bound: ticks before a request that failed is tried again
  MaxErrors   \* bound: reconciles of a process that return an error

ASSUME RequeueAssumption ==
  /\ NoName \notin Name
  /\ Window \in Nat /\ Delay \in Nat /\ Window < Delay
  /\ MaxLag \in Nat /\ MaxBackoff \in Nat \ {0} /\ MaxErrors \in Nat

VARIABLES
  exists,      \* the objects that exist, by name
  process,     \* the manager's process: down, candidate or leading
  queue,       \* the work queue
  processing,  \* the request the worker is at, or NoName
  again,       \* that request has been added once more
  waiting,     \* the delaying queue: ticks until a request is added
  window,      \* ticks until nextReconcileTime, which is past when negative
  errors,      \* reconciles of this process that returned an error
  lag          \* ticks that passed while the worker had something to do

memory == <<queue, processing, again, waiting, window, errors, lag>>
vars == <<exists, process, queue, processing, again, waiting, window, errors, lag>>
-----------------------------------------------------------------------------
(***************************************************************************)
(* The queue.                                                              *)
(***************************************************************************)

NotWaiting == Delay + MaxBackoff + 1
Busy == queue # <<>> \/ processing # NoName

(* Add: a request that is queued is not queued twice, and one that is      *)
(* being processed is queued when that is done.                            *)
Add(n) ==
  /\ queue' = IF processing = n \/ Contains(queue, n) THEN queue ELSE Append(queue, n)
  /\ again' = (again \/ processing = n)

(* AddAfter: a request that waits already keeps the earlier time.          *)
Sooner(n, ticks) == [waiting EXCEPT ![n] = IF ticks < @ THEN ticks ELSE @]

(* Done.                                                                   *)
Done ==
  /\ queue' = IF again THEN Append(queue, processing) ELSE queue
  /\ again' = FALSE /\ processing' = NoName

(* A request whose time has come leaves the delaying queue.                *)
Ready(n) ==
  /\ waiting[n] = 0
  /\ waiting' = [waiting EXCEPT ![n] = NotWaiting]
  /\ Add(n)
  /\ UNCHANGED <<exists, process, processing, window, errors, lag>>
-----------------------------------------------------------------------------
(***************************************************************************)
(* A reconcile.                                                            *)
(***************************************************************************)

Take ==
  /\ process = "leading" /\ processing = NoName /\ queue # <<>>
  /\ processing' = Head(queue) /\ queue' = Tail(queue)
  /\ UNCHANGED <<exists, process, again, waiting, window, errors, lag>>

(* Mutants: the deadline is not moved; the delay is counted from the new   *)
(* deadline.                                                               *)
NextWindow_Unmoved == -1
RequeueAfter_FromDeadline == Window + Delay

(* Whether the result asks for the request to be requeued: Before is       *)
(* strict, and it does not matter whether the object was found.            *)
Requeues(n) == window < 0
NextWindow == Window
RequeueAfter == Delay
FirstWindow == -1

(* Reconcile ends without an error: the object was found and processed, or *)
(* there is none.                                                          *)
Return ==
  LET n == processing
  IN  /\ n # NoName
      /\ IF Requeues(n)
           THEN /\ waiting' = Sooner(n, RequeueAfter)
                /\ window' = NextWindow
           ELSE UNCHANGED <<waiting, window>>
      /\ Done
      /\ lag' = 0
      /\ UNCHANGED <<exists, process, errors>>

(* The object cannot be read, or (tests) Process returns an error: the     *)
(* timer is left alone, and the request comes back after a backoff.        *)
Retry(n, backoff) == Sooner(n, backoff)
ReturnError ==
  /\ processing # NoName /\ errors < MaxErrors
  /\ \E backoff \in 1..MaxBackoff : waiting' = Retry(processing, backoff)
  /\ errors' = errors + 1
  /\ Done
  /\ lag' = 0
  /\ UNCHANGED <<exists, process, window>>
-----------------------------------------------------------------------------
(***************************************************************************)
(* The process.                                                            *)
(***************************************************************************)

NoMemory ==
  /\ queue' = <<>> /\ processing' = NoName /\ again' = FALSE
  /\ waiting' = [n \in Name |-> NotWaiting]
  /\ window' = FirstWindow
  /\ errors' = 0 /\ lag' = 0

(* main, up to the start of the manager, which waits for the lease.        *)
Setup ==
  /\ process = "down" /\ process' = "candidate"
  /\ UNCHANGED <<exists, memory>>

(* The lease is taken, the watches start, and every object is listed.      *)
Lead ==
  /\ process = "candidate" /\ process' = "leading"
  /\ queue' \in SetToSeqs(exists)
  /\ UNCHANGED <<exists, processing, again, waiting, window, errors, lag>>

(* A step of main fails, the lease is lost, or the process is killed.      *)
Exit ==
  /\ process # "down" /\ process' = "down"
  /\ NoMemory
  /\ UNCHANGED exists
-----------------------------------------------------------------------------
(***************************************************************************)
(* The cluster and the clock.                                              *)
(***************************************************************************)

(* The watches: For the objects, and Owns their Jobs.                      *)
Notify(n) ==
  IF process = "leading" THEN Add(n) ELSE UNCHANGED <<queue, again>>

CreateObject(n) ==
  /\ n \notin exists /\ exists' = exists \cup {n}
  /\ Notify(n)
  /\ UNCHANGED <<process, processing, waiting, window, errors, lag>>

DeleteObject(n) ==
  /\ n \in exists /\ exists' = exists \ {n}
  /\ Notify(n)
  /\ UNCHANGED <<process, processing, waiting, window, errors, lag>>

(* The object changes, or a Job it owns.                                   *)
ChangeObject(n) ==
  /\ n \in exists
  /\ Notify(n)
  /\ UNCHANGED <<exists, process, processing, waiting, window, errors, lag>>

(* A tick: nothing that is due waits longer, and the worker is not behind  *)
(* by more than MaxLag.                                                    *)
Tick ==
  /\ \A n \in Name : waiting[n] # 0
  /\ Busy => lag < MaxLag
  /\ lag' = IF Busy THEN lag + 1 ELSE 0
  /\ waiting' = [n \in Name |-> IF waiting[n] = NotWaiting THEN NotWaiting
                                ELSE waiting[n] - 1]
  /\ window' = IF window < 0 THEN window ELSE window - 1
  /\ UNCHANGED <<exists, process, queue, processing, again, errors>>
-----------------------------------------------------------------------------
Init ==
  /\ exists = {} /\ process = "down"
  /\ queue = <<>> /\ processing = NoName /\ again = FALSE
  /\ waiting = [n \in Name |-> NotWaiting]
  /\ window = FirstWindow
  /\ errors = 0 /\ lag = 0

Worker == Take \/ Return \/ ReturnError
Manager == Setup \/ Lead \/ Exit
Cluster == \E n \in Name : CreateObject(n) \/ DeleteObject(n) \/ ChangeObject(n)

Next == Worker \/ Manager \/ Cluster \/ Tick \/ \E n \in Name : Ready(n)

Spec == Init /\ [][Next]_vars
-----------------------------------------------------------------------------
(***************************************************************************)
(* Properties.                                                             *)
(***************************************************************************)

(* The types of the variables.                                             *)
TypeOK ==
  /\ exists \subseteq Name
  /\ process \in {"down", "candidate", "leading"}
  /\ queue \in Seq(Name) /\ IsInjective(queue)
  /\ processing \in Name \cup {NoName} /\ again \in BOOLEAN
  /\ waiting \in [Name -> 0..Delay \cup 0..MaxBackoff \cup {NotWaiting}]
  /\ window \in -1..Window
  /\ errors \in 0..MaxErrors /\ lag \in 0..MaxLag

(* The shared deadline does what it is for: however many objects there are *)
(* and however many events come, the timers on their way do not multiply:  *)
(* there are never more than fit into Delay, each Window after the other.  *)
(* (A reconcile that fails waits besides.)                                 *)
TimersBounded ==
  errors = 0 =>
    Cardinality({n \in Name : waiting[n] # NotWaiting}) <= Delay \div (Window + 1) + 1

(* "If we have not scheduled a reconcile in the last 5 seconds, then       *)
(* schedule one 10 seconds from now" (koupletbuild_controller.go:51):      *)
(* while the deadline that was set when one was scheduled lies ahead, a    *)
(* reconcile is on its way.                                                *)
Pending(n) == Contains(queue, n) \/ processing = n \/ waiting[n] # NotWaiting
ScheduledAhead == errors = 0 /\ window >= 0 => \E n \in Name : Pending(n)
=============================================================================

-------------------------- MODULE KoupletTestProofs --------------------------
(***************************************************************************)
(* Theorems about the Jobs of KoupletTest, about the order of its          *)
(* collections and about its retries, for every set of objects, every      *)
(* number of tests and every limit.  The bound on Jobs and the order of    *)
(* turns hold whatever fails, the first however often the operator         *)
(* restarts; each other theorem names the faults and restarts that it      *)
(* excludes.                                                               *)
(***************************************************************************)
EXTENDS KoupletTestListsProofs

-----------------------------------------------------------------------------
(***************************************************************************)
(* The number of Jobs.                                                     *)
(***************************************************************************)

(* The Jobs in the cluster are finitely many records.                      *)
JobsInv == IsFiniteSet(jobs) /\ \A j \in jobs : {"uid", "state"} \subseteq DOMAIN j

(* The places a turn still has left, with the Jobs there are, do not       *)
(* exceed MaxActive: they are counted once, when the Jobs are listed, and  *)
(* go on being enough while Jobs end, are deleted or are started.          *)
SlotsInv ==
  /\ DOMAIN worker = DOMAIN Idle /\ worker.slots \in Nat
  /\ worker.at \in Turn /\ worker.slots > 0
       => worker.slots + Cardinality(Unfinished(Current)) <= MaxActive

BoundInv == JobsInv /\ SlotsInv /\ ActiveBounded

(* An element more is at most one more.                                    *)
LEMMA OneMore ==
  ASSUME NEW S, NEW x, IsFiniteSet(S)
  PROVE  /\ IsFiniteSet(S \cup {x})
         /\ Cardinality(S \cup {x}) \in Nat
         /\ Cardinality(S \cup {x}) <= Cardinality(S) + 1
<1>1. Cardinality(S) \in Nat
  BY FS_CardinalityType
<1>2. /\ IsFiniteSet(S \cup {x})
      /\ Cardinality(S \cup {x}) =
           IF x \in S THEN Cardinality(S) ELSE Cardinality(S) + 1
  BY FS_AddElement
<1>3. CASE x \in S
  BY <1>1, <1>2, <1>3
<1>4. CASE x \notin S
  BY <1>1, <1>2, <1>4
<1> QED
  BY <1>3, <1>4

(* The Jobs that count are as many as a natural number says.               *)
LEMMA CountTyped ==
  ASSUME JobsInv, NEW u
  PROVE  IsFiniteSet(Unfinished(u)) /\ Cardinality(Unfinished(u)) \in Nat
<1>1. Unfinished(u) \subseteq jobs
  BY DEF Unfinished, JobsOf
<1> QED
  BY <1>1, FS_Subset, FS_CardinalityType DEF JobsInv

(* No collection has more Jobs that count than it had.                     *)
NoMore == \A u : Cardinality(Unfinished(u))' <= Cardinality(Unfinished(u))

(* Jobs that disappear leave no more.                                      *)
LEMMA FewerJobs ==
  ASSUME JobsInv, jobs' \subseteq jobs
  PROVE  JobsInv' /\ NoMore
<1>1. IsFiniteSet(jobs')
  BY FS_Subset DEF JobsInv
<1>2. ASSUME NEW u
      PROVE  Cardinality(Unfinished(u)') <= Cardinality(Unfinished(u))
  <2>1. Unfinished(u)' \subseteq Unfinished(u)
    BY DEF Unfinished, JobsOf
  <2> QED
    BY <2>1, CountTyped, FS_Subset
<1> QED
  BY <1>1, <1>2 DEF JobsInv, NoMore

(* Nor does a Job that is not done and changes its state.                  *)
LEMMA ChangedJob ==
  ASSUME JobsInv, NEW j \in jobs, j.state # "done", NEW state,
         jobs' = (jobs \ {j}) \cup {[j EXCEPT !.state = state]}
  PROVE  JobsInv' /\ NoMore
<1> DEFINE k == [j EXCEPT !.state = state]
<1>1. k.uid = j.uid /\ {"uid", "state"} \subseteq DOMAIN k
  BY DEF JobsInv
<1> HIDE DEF k
<1>2. IsFiniteSet(jobs')
  BY FS_RemoveElement, FS_AddElement DEF JobsInv, k
<1>3. ASSUME NEW u
      PROVE  Cardinality(Unfinished(u)') <= Cardinality(Unfinished(u))
  <2> DEFINE U == Unfinished(u)
  <2>0. IsFiniteSet(U) /\ Cardinality(U) \in Nat
    BY CountTyped
  <2>1. CASE j.uid = u
    <3>1. j \in U
      BY <2>1 DEF Unfinished, JobsOf
    <3>2. Unfinished(u)' \subseteq (U \ {j}) \cup {k}
      BY DEF Unfinished, JobsOf, k
    <3> HIDE DEF U
    <3>3. IsFiniteSet(U \ {j}) /\ Cardinality(U \ {j}) = Cardinality(U) - 1
      BY <2>0, <3>1, FS_RemoveElement
    <3>4. /\ IsFiniteSet((U \ {j}) \cup {k})
          /\ Cardinality((U \ {j}) \cup {k}) <= Cardinality(U)
      <4>1. /\ IsFiniteSet((U \ {j}) \cup {k})
            /\ Cardinality((U \ {j}) \cup {k}) \in Nat
            /\ Cardinality((U \ {j}) \cup {k}) <= Cardinality(U \ {j}) + 1
        BY <3>3, OneMore
      <4> QED
        BY <2>0, <3>3, <4>1
    <3>5. IsFiniteSet(Unfinished(u)')
          /\ Cardinality(Unfinished(u)') <= Cardinality((U \ {j}) \cup {k})
      BY <3>2, <3>4, FS_Subset
    <3>6. /\ Cardinality(Unfinished(u)') \in Nat
          /\ Cardinality((U \ {j}) \cup {k}) \in Nat
      BY <3>4, <3>5, FS_CardinalityType
    <3> QED
      BY <2>0, <3>4, <3>5, <3>6 DEF U
  <2>2. CASE j.uid # u
    <3>1. Unfinished(u)' \subseteq U
      BY <1>1, <2>2 DEF Unfinished, JobsOf, k
    <3> QED
      BY <2>0, <3>1, FS_Subset
  <2> QED
    BY <2>1, <2>2
<1> QED
  BY <1>1, <1>2, <1>3 DEF JobsInv, NoMore, k

(* A Job that is made adds one, to its own collection.                     *)
LEMMA OneMoreJob ==
  ASSUME JobsInv, NEW u, NEW id, jobs' = jobs \cup {NewJob(u, id)}
  PROVE  /\ JobsInv'
         /\ Cardinality(Unfinished(u))' <= Cardinality(Unfinished(u)) + 1
         /\ \A v : v # u => Cardinality(Unfinished(v))' <= Cardinality(Unfinished(v))
<1> DEFINE j == NewJob(u, id)
<1>1. j.uid = u /\ {"uid", "state"} \subseteq DOMAIN j
  BY DEF NewJob
<1> HIDE DEF j
<1>2. IsFiniteSet(jobs')
  BY FS_AddElement DEF JobsInv, j
<1>3. Cardinality(Unfinished(u)') <= Cardinality(Unfinished(u)) + 1
  <2>1. Unfinished(u)' \subseteq Unfinished(u) \cup {j}
    BY DEF Unfinished, JobsOf, j
  <2>2. IsFiniteSet(Unfinished(u)) /\ Cardinality(Unfinished(u)) \in Nat
    BY CountTyped
  <2>3. /\ IsFiniteSet(Unfinished(u) \cup {j})
        /\ Cardinality(Unfinished(u) \cup {j}) <= Cardinality(Unfinished(u)) + 1
        /\ Cardinality(Unfinished(u) \cup {j}) \in Nat
    BY <2>2, OneMore
  <2>4. /\ IsFiniteSet(Unfinished(u)')
        /\ Cardinality(Unfinished(u)') <= Cardinality(Unfinished(u) \cup {j})
    BY <2>1, <2>3, FS_Subset
  <2>5. Cardinality(Unfinished(u)') \in Nat
    BY <2>4, FS_CardinalityType
  <2> QED
    BY <2>2, <2>3, <2>4, <2>5
<1>4. ASSUME NEW v, v # u
      PROVE  Cardinality(Unfinished(v)') <= Cardinality(Unfinished(v))
  <2>1. Unfinished(v)' \subseteq Unfinished(v)
    BY <1>1, <1>4 DEF Unfinished, JobsOf, j
  <2> QED
    BY <2>1, CountTyped, FS_Subset
<1> QED
  BY <1>1, <1>2, <1>3, <1>4 DEF JobsInv, j

(* A step after which no collection has more Jobs, and which is not in a   *)
(* turn, or in the same turn with no more places left.                     *)
LEMMA QuietStep ==
  ASSUME BoundInv, JobsInv', NoMore,
         DOMAIN worker' = DOMAIN Idle, worker'.slots \in Nat,
         worker'.at \in Turn /\ worker'.slots > 0 =>
           /\ worker.at \in Turn /\ worker.slots > 0
           /\ worker'.slots <= worker.slots /\ Current' = Current
  PROVE  BoundInv'
<1>1. ASSUME NEW u
      PROVE  /\ Cardinality(Unfinished(u)) \in Nat /\ Cardinality(Unfinished(u)') \in Nat
             /\ Cardinality(Unfinished(u)') <= Cardinality(Unfinished(u))
  <2>1. Cardinality(Unfinished(u)) \in Nat
    BY CountTyped DEF BoundInv
  <2>2. Cardinality(Unfinished(u)') \in Nat
    <3>1. Unfinished(u)' \subseteq jobs'
      BY DEF Unfinished, JobsOf
    <3> QED
      BY <3>1, FS_Subset, FS_CardinalityType DEF JobsInv
  <2> QED
    BY <2>1, <2>2 DEF NoMore
<1>2. MaxActive \in Nat
  BY TestAssumption
<1>3. ActiveBounded'
  BY <1>1, <1>2 DEF BoundInv, ActiveBounded
<1>4. ASSUME worker'.at \in Turn, worker'.slots > 0
      PROVE  worker'.slots + Cardinality(Unfinished(Current)') <= MaxActive
  <2>1. /\ worker.slots + Cardinality(Unfinished(Current)) <= MaxActive
        /\ worker'.slots <= worker.slots /\ worker.slots \in Nat
    BY <1>4 DEF BoundInv, SlotsInv
  <2>2. PICK u : u = Current
    OBVIOUS
  <2>3. u = Current'
    BY <1>4, <2>2
  <2>4. Unfinished(Current)' = Unfinished(u)'
    BY <2>3 DEF Unfinished, JobsOf
  <2>5. worker'.slots + Cardinality(Unfinished(u)') <= MaxActive
    BY <1>1, <1>2, <2>1, <2>2
  <2> QED
    BY <2>4, <2>5
<1> QED
  BY <1>3, <1>4 DEF BoundInv, SlotsInv

(* The worker is at no turn, or at one with no place left.                 *)
NoTurn(w) ==
  /\ DOMAIN w = DOMAIN Idle /\ w.slots \in Nat
  /\ w.at \in Turn => w.slots = 0

(* So it is at the end of a turn, and before the next request.             *)
LEMMA TurnEnds ==
  /\ NoTurn(Idle) /\ NoTurn(Down) /\ NoTurn(Hung)
  /\ \A c, d, b : FinishTurn(c, d, b) => NoTurn(worker')
<1>1. \A i, q, h : /\ NoTurn([Idle EXCEPT !.at = "pass", !.changed = h])
                   /\ NoTurn([Idle EXCEPT !.at = "pass", !.changed = h,
                                          !.index = i, !.queue = q])
  BY DEF NoTurn, Idle, Turn
<1> QED
  BY <1>1 DEF NoTurn, Idle, Down, Hung, Turn, FinishTurn

(* A step that leaves it so, and makes no Job.                             *)
LEMMA NoTurnStep ==
  ASSUME BoundInv, jobs' \subseteq jobs, NoTurn(worker')
  PROVE  BoundInv'
BY FewerJobs, QuietStep DEF NoTurn, BoundInv

(* A step within a turn that makes no Job.                                 *)
LEMMA TurnStep ==
  ASSUME BoundInv, jobs' \subseteq jobs, UNCHANGED running, worker.at \in Turn,
         DOMAIN worker' = DOMAIN Idle,
         worker'.index = worker.index, worker'.slots = worker.slots
  PROVE  BoundInv'
<1>1. Current' = Current
  BY DEF Current
<1>2. worker.slots \in Nat
  BY DEF BoundInv, SlotsInv
<1> QED
  BY <1>1, <1>2, FewerJobs, QuietStep DEF BoundInv

(* A Job that is started within a turn takes one of the places left.       *)
LEMMA PlaceTaken ==
  ASSUME BoundInv, worker.at \in Turn, worker.slots > 0, NEW u, u = Current, NEW id,
         jobs' = jobs \cup {NewJob(u, id)}
  PROVE  /\ JobsInv' /\ ActiveBounded'
         /\ (worker.slots - 1) + Cardinality(Unfinished(u))' <= MaxActive
<1>1. JobsInv /\ JobsInv'
  BY OneMoreJob DEF BoundInv
<1>2. ASSUME NEW v
      PROVE  Cardinality(Unfinished(v)) \in Nat /\ Cardinality(Unfinished(v)') \in Nat
  <2>1. Unfinished(v)' \subseteq jobs'
    BY DEF Unfinished, JobsOf
  <2> QED
    BY <1>1, <2>1, CountTyped, FS_Subset, FS_CardinalityType DEF JobsInv
<1>3. /\ worker.slots \in Nat /\ MaxActive \in Nat
      /\ worker.slots + Cardinality(Unfinished(u)) <= MaxActive
  BY TestAssumption DEF BoundInv, SlotsInv
<1>4. Cardinality(Unfinished(u)') <= Cardinality(Unfinished(u)) + 1
  BY <1>1, OneMoreJob
<1>5. (worker.slots - 1) + Cardinality(Unfinished(u)') <= MaxActive
  BY <1>2, <1>3, <1>4
<1>6. ASSUME NEW v \in Uid PROVE Cardinality(Unfinished(v)') <= MaxActive
  <2>1. CASE v = u
    BY <1>2, <1>3, <1>5, <2>1
  <2>2. CASE v # u
    <3>1. Cardinality(Unfinished(v)') <= Cardinality(Unfinished(v))
      BY <1>1, <2>2, OneMoreJob
    <3>2. Cardinality(Unfinished(v)) <= MaxActive
      BY DEF BoundInv, ActiveBounded
    <3> QED
      BY <1>2, <1>3, <3>1, <3>2
  <2> QED
    BY <2>1, <2>2
<1> QED
  BY <1>1, <1>5, <1>6 DEF ActiveBounded

LEMMA BoundStep == BoundInv /\ [Next]_vars => BoundInv'
<1> SUFFICES ASSUME BoundInv, [Next]_vars PROVE BoundInv'
  OBVIOUS
<1>0. /\ DOMAIN worker = DOMAIN Idle /\ worker.slots \in Nat
      /\ DOMAIN Idle = {"at", "index", "queue", "touched", "todo", "slots",
                        "changed", "doomed"}
  BY DEF BoundInv, SlotsInv, Idle
<1>1. CASE ListJobs
  <2> DEFINE n == Cardinality(Unfinished(Current))
  <2>1. n \in Nat
    BY CountTyped DEF BoundInv
  <2>2. /\ worker'.slots = SlotsLeft(n) /\ DOMAIN worker' = DOMAIN Idle
        /\ UNCHANGED <<running, jobs>> /\ worker'.index = worker.index
    BY <1>0, <1>1 DEF ListJobs, Slots, clusterVars, memory
  <2>3. Current' = Current /\ n' = n
    BY <2>2 DEF Current, Unfinished, JobsOf
  <2> HIDE DEF n
  <2>4. worker'.slots \in Nat /\ (worker'.slots > 0 => worker'.slots + n <= MaxActive)
    BY <2>1, <2>2, TestAssumption DEF SlotsLeft
  <2>5. JobsInv' /\ ActiveBounded'
    BY <2>2 DEF BoundInv, JobsInv, ActiveBounded, Unfinished, JobsOf
  <2> QED
    BY <2>2, <2>3, <2>4, <2>5 DEF BoundInv, SlotsInv, n
<1>2. CASE ListFails \/ StartFails \/ StartNoMore
  <2>1. jobs' = jobs /\ \E c, d, b : FinishTurn(c, d, b)
    BY <1>2 DEF ListFails, StartFails, StartFailed, StartNoMore, clusterVars
  <2> QED
    BY <2>1, TurnEnds, NoTurnStep
<1>3. CASE \E j \in worker.todo : ExamineAgain(j) \/ ExamineJob(j)
  <2>1. /\ jobs' \subseteq jobs /\ UNCHANGED running /\ worker.at \in Turn
        /\ DOMAIN worker' = DOMAIN Idle
        /\ worker'.index = worker.index /\ worker'.slots = worker.slots
    BY <1>0, <1>3 DEF ExamineAgain, ExamineJob, KillIfOverdue, At, Turn, clusterVars, memory
  <2> QED
    BY <2>1, TurnStep
<1>4. CASE Examined
  <2>1. jobs' = jobs /\ UNCHANGED running /\ worker.at \in Turn
    BY <1>4 DEF Examined, At, Turn, clusterVars
  <2>2. CASE worker.touched
    BY <1>4, <2>1, <2>2, TurnEnds, NoTurnStep DEF Examined
  <2>3. CASE ~worker.touched
    <3>1. worker' = [worker EXCEPT !.at = "start"]
      BY <1>4, <2>3 DEF Examined, Goto
    <3> QED
      BY <1>0, <2>1, <3>1, TurnStep
  <2> QED
    BY <2>2, <2>3
<1>5. CASE StartTest
  <2> DEFINE id == coll[Current].entries[Head(Startable(coll[Current]))].id
  <2>1. /\ jobs' = jobs \cup {NewJob(Current, id)} /\ worker.slots > 0
        /\ UNCHANGED running /\ worker.at \in Turn
        /\ worker' = [worker EXCEPT !.slots = @ - 1, !.touched = TRUE]
    BY <1>5 DEF StartTest, MayStart, At, Turn
  <2> HIDE DEF id
  <2>2. /\ DOMAIN worker' = DOMAIN Idle /\ worker'.slots = worker.slots - 1
        /\ worker'.index = worker.index
    BY <1>0, <2>1
  <2>3. PICK u : u = Current
    OBVIOUS
  <2>4. Current' = u /\ Unfinished(Current)' = Unfinished(u)'
    BY <2>1, <2>2, <2>3 DEF Current, Unfinished, JobsOf
  <2>5. /\ JobsInv' /\ ActiveBounded'
        /\ (worker.slots - 1) + Cardinality(Unfinished(u))' <= MaxActive
    BY <2>1, <2>3, PlaceTaken
  <2>6. worker'.slots \in Nat
    BY <1>0, <2>1, <2>2
  <2> QED
    BY <2>2, <2>4, <2>5, <2>6 DEF BoundInv, SlotsInv
<1>6. CASE StartUnacknowledged
  <2> DEFINE id == coll[Current].entries[Head(Startable(coll[Current]))].id
  <2>1. /\ jobs' = jobs \cup {NewJob(Current, id)} /\ worker.slots > 0
        /\ worker.at \in Turn /\ \E c, d, b : FinishTurn(c, d, b)
    BY <1>6 DEF StartUnacknowledged, StartFailed, MayStart, At, Turn
  <2>2. NoTurn(worker')
    BY <2>1, TurnEnds
  <2>3. PICK u : u = Current
    OBVIOUS
  <2>4. JobsInv' /\ ActiveBounded'
    BY <2>1, <2>3, PlaceTaken
  <2> QED
    BY <2>2, <2>4 DEF BoundInv, SlotsInv, NoTurn
<1>7. CASE \/ \E j \in worker.todo : ExamineHangs(j) \/ ExaminePanics(j)
           \/ Promote \/ Settle \/ PublishFails \/ PublishNone \/ Load
           \/ \E u \in Uid : Reconcile(u) \/ PublishHangs(u)
           \/ Crash \/ CrashWriting
  <2>1. jobs' \subseteq jobs
    BY <1>7 DEF ExamineHangs, ExaminePanics, KillIfOverdue, Promote, Settle, PublishFails,
      PublishNone, Load, Reconcile, PublishHangs, Crash, CrashWriting, Die, clusterVars
  <2>2. \/ worker' \in {Idle, Down, Hung}
        \/ \E place \in {"register", "pass", "resolve"} : \E c, d :
             \/ worker' = [Idle EXCEPT !.at = place]
             \/ worker' = [Idle EXCEPT !.at = place, !.changed = c]
             \/ worker' = [Idle EXCEPT !.at = place, !.doomed = d, !.changed = c]
    BY <1>7 DEF ExamineHangs, ExaminePanics, Promote, Settle, PublishFails,
      PublishNone, Load, Reconcile, Register, PublishHangs, Crash, CrashWriting, Die
  <2>3. NoTurn(worker')
    BY <2>2, TurnEnds DEF NoTurn, Turn, Idle
  <2> QED
    BY <2>1, <2>3, NoTurnStep
<1>8. CASE \/ Resolve \/ CleanJobs \/ PruneFiles
           \/ \E u \in Uid : Publish(u) \/ PublishSkips(u)
  <2>1. jobs' \subseteq jobs
    BY <1>8 DEF Resolve, CleanJobs, PruneFiles, Publish, PublishSkips, clusterVars
  <2>2. \/ worker' = Idle
        \/ \E place \in {"pass", "tasks", "prune", "publish"} : \E c, d :
             \/ worker' = [worker EXCEPT !.at = place]
             \/ worker' = [worker EXCEPT !.at = place, !.changed = c]
             \/ worker' = [worker EXCEPT !.doomed = d, !.at = place]
    BY <1>8 DEF Resolve, CleanJobs, PruneFiles, Publish, PublishSkips, Published, Goto
  <2>3. worker'.at \notin Turn /\ DOMAIN worker' = DOMAIN Idle /\ worker'.slots \in Nat
    <3>1. CASE worker' = Idle
      BY <3>1 DEF Turn, Idle
    <3>2. CASE worker' # Idle
      BY <1>0, <2>2, <3>2 DEF Turn
    <3> QED
      BY <3>1, <3>2
  <2> QED
    BY <2>1, <2>3, FewerJobs, QuietStep DEF BoundInv
<1>9. CASE \E j \in jobs : JobStep(j) \/ RemoveJob(j)
  <2>1. UNCHANGED <<running, worker>>
    BY <1>9 DEF JobStep, StartJob, FinishJob, ExpireJob, Become, RemoveJob, operatorVars, memory
  <2>2. JobsInv' /\ NoMore
    <3>1. ASSUME NEW j \in jobs, RemoveJob(j) PROVE JobsInv' /\ NoMore
      BY <3>1, FewerJobs DEF RemoveJob, BoundInv
    <3>2. ASSUME NEW j \in jobs, JobStep(j) PROVE JobsInv' /\ NoMore
      <4>1. PICK state : Become(j, state) /\ j.state # "done"
        BY <3>2 DEF JobStep, StartJob, FinishJob, ExpireJob
      <4> QED
        BY <4>1, ChangedJob DEF Become, BoundInv
    <3> QED
      BY <1>9, <3>1, <3>2
  <2>3. Current' = Current
    BY <2>1 DEF Current
  <2> QED
    BY <1>0, <2>1, <2>2, <2>3, QuietStep
<1>10. CASE \/ \E u \in Uid : CreateObject(u) \/ DeleteObject(u)
            \/ WindowPasses \/ UNCHANGED vars
  <2>1. UNCHANGED <<jobs, running, worker>>
    BY <1>10 DEF CreateObject, DeleteObject, WindowPasses, operatorVars, memory, clusterVars, vars
  <2>2. Current' = Current
    BY <2>1 DEF Current
  <2> QED
    BY <1>0, <2>1, <2>2, FewerJobs, QuietStep DEF BoundInv
<1> QED
  BY <1>1, <1>2, <1>3, <1>4, <1>5, <1>6, <1>7, <1>8, <1>9, <1>10
  DEF Next, Operator, Process, Examine, Start, Tasks, Publication

LEMMA BoundInit == Init => BoundInv
<1> SUFFICES ASSUME Init PROVE BoundInv
  OBVIOUS
<1>1. jobs = {} /\ worker = Idle
  BY DEF Init
<1>2. \A u : Cardinality(Unfinished(u)) = 0
  BY <1>1, FS_EmptySet DEF Unfinished, JobsOf
<1> QED
  BY <1>1, <1>2, TestAssumption, FS_EmptySet
  DEF BoundInv, JobsInv, SlotsInv, ActiveBounded, Idle, Turn

(* However Jobs are started, even those whose start was not acknowledged,  *)
(* and however the operator is killed, a collection never has more Jobs    *)
(* that have not completed than MaxActiveTests * NumberOfNodes.            *)
THEOREM JobsBounded == Spec => []ActiveBounded
<1>1. BoundInv => ActiveBounded
  BY DEF BoundInv
<1> QED
  BY <1>1, BoundInit, BoundStep, PTL DEF Spec

-----------------------------------------------------------------------------
(***************************************************************************)
(* The order in which collections take their turns.                        *)
(***************************************************************************)

(* Submission is the order of the lines, those that run before those that  *)
(* wait.                                                                   *)
Ordered(list, key) ==
  \A i, k \in DOMAIN list : i < k => key[list[i]].date < key[list[k]].date
OrderInv ==
  /\ Ordered(running, coll) /\ Ordered(waiting, coll)
  /\ \A u, v \in Uid : coll[u].bucket = "Running" /\ coll[v].bucket = "Waiting"
                         => coll[u].date < coll[v].date

(* So it is on file, of the collections whose object exists.               *)
OnFile == {u \in alive : saved[u].entity # NoEntity}
FileOrderInv ==
  \A u, v \in OnFile :
    saved[u].entity.bucket = "Running" /\ saved[v].entity.bucket = "Waiting"
      => saved[u].entity.date < saved[v].entity.date

(* What is on file is in memory; it is the same, or is to be written.      *)
CurrentInv ==
  ~At("down") => \A u \in OnFile :
    /\ Present(u)
    /\ EntityOf(u) \in dirty \/ /\ saved[u].entity.bucket = coll[u].bucket
                                /\ saved[u].entity.date = coll[u].date

(* An object that was not created has no files, nor one that exists any    *)
(* that are to be removed.                                                 *)
BornInv ==
  /\ \A u \in Uid \ born : ~Present(u) /\ saved[u].entity = NoEntity
  /\ \A u \in Uid : saved[u].entity # NoEntity => saved[u].entity.bucket # "absent"
  /\ worker.doomed \subseteq born \ alive

SubmissionInv == OrderInv /\ FileOrderInv /\ CurrentInv /\ BornInv

(* The steps that leave the lines, the files and the objects alone.        *)
Frame ==
  /\ Stays /\ UNCHANGED <<saved, waiting, running, alive, born>>
  /\ dirty \subseteq dirty' /\ (At("down") => At("down")')
  /\ worker'.doomed \subseteq worker.doomed

LEMMA FinishTurnFrame ==
  ASSUME NEW c, NEW changed, FinishTurn(c, dirty, changed), worker.at # "down"
  PROVE  /\ dirty \subseteq dirty' /\ (At("down") => At("down")')
         /\ worker'.doomed \subseteq worker.doomed
<1>1. dirty \subseteq dirty' /\ ~At("down")
  BY DEF FinishTurn, At
<1>2. \A i, q, h : /\ [Idle EXCEPT !.at = "pass", !.changed = h].doomed = {}
                   /\ [Idle EXCEPT !.at = "pass", !.changed = h,
                                   !.index = i, !.queue = q].doomed = {}
  BY DEF Idle
<1>3. worker'.doomed = {}
  BY <1>2 DEF FinishTurn
<1> QED
  BY <1>1, <1>3

LEMMA TurnFrame ==
  ASSUME ListsInv,
         \/ ListJobs \/ ListFails \/ Examined \/ Start
         \/ \E j \in worker.todo : Examine(j)
  PROVE  Frame
<1>1. Stays
  BY ListOK, ExaminedOK, StartOK, ExamineOK
<1>2. UNCHANGED <<saved, waiting, running, alive, born>> /\ worker.at # "down"
  BY DEF ListJobs, ListFails, Examined, Start, StartTest, StartFails, StartUnacknowledged,
     StartNoMore, MayStart, HasTurn, Examine, ExamineAgain, ExamineJob, ExamineHangs,
     clusterVars, memory, At
<1>3. DOMAIN worker = DOMAIN Idle
  BY DEF ListsInv, WorkInv, WorkerOK
<1>4. CASE ListFails \/ StartFails \/ StartUnacknowledged \/ StartNoMore
  <2>1. \E c, changed : FinishTurn(c, dirty, changed)
    BY <1>4 DEF ListFails, StartFails, StartUnacknowledged, StartFailed, StartNoMore
  <2> QED
    BY <1>1, <1>2, <2>1, FinishTurnFrame DEF Frame
<1>5. CASE Examined
  <2>1. CASE worker.touched
    BY <1>1, <1>2, <1>5, <2>1, FinishTurnFrame DEF Examined, Frame
  <2>2. CASE ~worker.touched
    <3>1. dirty' = dirty /\ worker' = [worker EXCEPT !.at = "start"]
      BY <1>5, <2>2 DEF Examined, Goto
    <3> QED
      BY <1>1, <1>2, <1>3, <3>1 DEF Frame, At, Idle
  <2> QED
    BY <2>1, <2>2
<1>6. CASE ListJobs \/ StartTest \/ \E j \in worker.todo : Examine(j)
  <2>1. dirty \subseteq dirty'
    BY <1>6 DEF ListJobs, StartTest, Examine, ExamineAgain, ExamineJob, ExamineHangs,
       Note, memory
  <2>2. worker'.doomed \subseteq worker.doomed
    <3>1. CASE worker' = Hung
      BY <3>1 DEF Hung, Idle
    <3>2. CASE worker' # Hung
      BY <1>3, <1>6, <3>2 DEF ListJobs, StartTest, Examine, ExamineAgain, ExamineJob,
         ExamineHangs, Idle
    <3> QED
      BY <3>1, <3>2
  <2> QED
    BY <1>1, <1>2, <2>1, <2>2 DEF Frame, At
<1> QED
  BY <1>4, <1>5, <1>6 DEF Start

LEMMA OtherFrame ==
  ASSUME ListsInv,
         \/ \E u \in Uid : Reconcile(u) /\ ~(u \in alive /\ ~Present(u))
         \/ CleanJobs \/ Publication
         \/ \E j \in jobs : JobStep(j) \/ RemoveJob(j)
         \/ WindowPasses \/ UNCHANGED vars
  PROVE  Frame
<1>1. DOMAIN worker = DOMAIN Idle
  BY DEF ListsInv, WorkInv, WorkerOK
<1>2. CASE \E u \in Uid : Reconcile(u) /\ ~(u \in alive /\ ~Present(u))
  <2>1. /\ UNCHANGED <<coll, saved, waiting, running, alive, born, dirty>>
        /\ worker' = [Idle EXCEPT !.at = "pass"] /\ worker.at = "idle"
    BY <1>2 DEF Reconcile, clusterVars, At
  <2> QED
    BY <2>1 DEF Frame, Stays, Idle, At
<1>3. CASE CleanJobs \/ Publication
  <2>1. UNCHANGED <<coll, saved, waiting, running, alive, born>>
    BY <1>3 DEF CleanJobs, Publication, Publish, PublishSkips, PublishHangs, PublishFails,
       PublishNone, clusterVars, memory
  <2>2. dirty \subseteq dirty' /\ worker.at # "down"
    BY <1>3 DEF CleanJobs, Publication, Publish, PublishSkips, PublishHangs, PublishFails,
       PublishNone, Publishing, At, Note, memory
  <2>3. worker'.doomed \subseteq worker.doomed
    <3>1. \/ worker' \in {Idle, Hung}
          \/ worker' = [worker EXCEPT !.at = "prune"]
          \/ \E u \in Uid : worker' = [worker EXCEPT !.at = "publish", !.changed = @ \ {u}]
      BY <1>3 DEF CleanJobs, Publication, Publish, PublishSkips, PublishHangs,
         PublishFails, PublishNone, Published, Goto
    <3>2. CASE worker' \in {Idle, Hung}
      BY <3>2 DEF Idle, Hung
    <3>3. CASE worker' \notin {Idle, Hung}
      BY <1>1, <3>1, <3>3 DEF Idle
    <3> QED
      BY <3>2, <3>3
  <2> QED
    BY <2>1, <2>2, <2>3 DEF Frame, Stays, At
<1>4. CASE \/ \E j \in jobs : JobStep(j) \/ RemoveJob(j)
           \/ WindowPasses \/ UNCHANGED vars
  <2>1. UNCHANGED <<coll, saved, waiting, running, alive, born, dirty, worker>>
    BY <1>4 DEF JobStep, StartJob, FinishJob, ExpireJob, Become, RemoveJob, WindowPasses,
       operatorVars, memory, clusterVars, vars
  <2> QED
    BY <2>1 DEF Frame, Stays, At
<1> QED
  BY <1>2, <1>3, <1>4

(* A selection keeps the order.                                            *)
LEMMA OnlyOrdered ==
  ASSUME NEW S, NEW list \in Seq(S), NEW key, Ordered(list, key),
         NEW I \in SUBSET DOMAIN list
  PROVE  Ordered(Only(list, I), key)
<1> DEFINE t == Only(list, I)
<1>1. t \in Seq(S) /\ \E from : Selects(list, I, t, from)
  BY OnlySelects
<1> HIDE DEF t
<1>2. PICK from : Selects(list, I, t, from)
  BY <1>1
<1>3. DOMAIN t = 1..Len(t)
  BY <1>1
<1>4. ASSUME NEW i \in DOMAIN t, NEW k \in DOMAIN t, i < k
      PROVE  key[t[i]].date < key[t[k]].date
  <2>1. /\ from[i] \in DOMAIN list /\ from[k] \in DOMAIN list /\ from[i] < from[k]
        /\ t[i] = list[from[i]] /\ t[k] = list[from[k]]
    BY <1>2, <1>3, <1>4 DEF Selects
  <2> QED
    BY <2>1 DEF Ordered
<1> QED
  BY <1>4 DEF Ordered, t

(* So does a change that leaves the dates alone.                           *)
LEMMA SameDatesOrdered ==
  ASSUME NEW S, NEW list \in Seq(S), NEW key, NEW new, Ordered(list, key),
         \A u \in S : new[u].date = key[u].date
  PROVE  Ordered(list, new)
<1>1. \A i \in DOMAIN list : list[i] \in S
  OBVIOUS
<1> QED
  BY <1>1 DEF Ordered

(* The members of the lines.                                               *)
LEMMA LineTyped ==
  ASSUME ListsInv
  PROVE  /\ running \in Seq({u \in Uid : coll[u].bucket = "Running"})
         /\ waiting \in Seq({u \in Uid : coll[u].bucket = "Waiting"})
         /\ running \in Seq(Uid) /\ waiting \in Seq(Uid)
         /\ \A u \in Uid : coll[u].date \in Nat /\ submitted \in Nat
         /\ \A u \in Uid : Present(u) => coll[u].date <= submitted
<1>1. /\ running \in Seq({u \in Uid : coll[u].bucket = "Running"})
      /\ waiting \in Seq({u \in Uid : coll[u].bucket = "Waiting"})
  BY DEF ListsInv, LineInv, Enumerates
<1>2. running \in Seq(Uid) /\ waiting \in Seq(Uid)
  BY <1>1
<1>3. \A u \in Uid : coll[u].date \in Nat /\ submitted \in Nat
  BY DEF ListsInv, CollsInv, CollOK, Collection, DateInv
<1>4. \A u \in Uid : Present(u) => coll[u].date <= submitted
  BY DEF ListsInv, DateInv, Dates
<1> QED
  BY <1>1, <1>2, <1>3, <1>4

LEMMA FrameOrder ==
  ASSUME ListsInv, OrderInv, Stays, UNCHANGED <<running, waiting>>
  PROVE  OrderInv'
<1>1. Ordered(running, coll') /\ Ordered(waiting, coll')
  BY LineTyped, SameDatesOrdered DEF OrderInv, Stays
<1> QED
  BY <1>1 DEF OrderInv, Stays

LEMMA RegisterOrder ==
  ASSUME ListsInv, OrderInv, NEW u \in Uid, Reconcile(u), u \in alive, ~Present(u)
  PROVE  OrderInv'
<1> DEFINE c == NewCollection(NumTests[u], submitted + 1)
<1>1. /\ coll' = [coll EXCEPT ![u] = c] /\ waiting' = Append(waiting, u)
      /\ running' = running
  BY DEF Reconcile, Register
<1>2. c.bucket = "Waiting" /\ c.date = submitted + 1
  <2>1. NumTests[u] \in Nat \ {0} /\ submitted + 1 \in Nat
    BY LineTyped, TestAssumption
  <2> QED
    BY <2>1, NewCollectionOK
<1> HIDE DEF c
<1>3. /\ coll'[u] = c /\ \A v \in Uid : v # u => coll'[v] = coll[v]
      /\ coll[u].bucket = "absent"
  BY <1>1 DEF ListsInv, CollsInv, Present
<1> DEFINE R == {v \in Uid : coll[v].bucket = "Running"}
           W == {v \in Uid : coll[v].bucket = "Waiting"}
           n == Len(waiting)
<1>4. /\ running \in Seq(R) /\ waiting \in Seq(W) /\ u \notin R /\ u \notin W
      /\ \A v \in R \cup W : coll'[v].date = coll[v].date /\ coll[v].date <= submitted
      /\ \A v \in R \cup W : coll[v].date \in Nat
      /\ submitted \in Nat
  <2>1. running \in Seq(R) /\ waiting \in Seq(W)
    BY LineTyped
  <2>2. u \notin R /\ u \notin W /\ R \cup W \subseteq Uid
    BY <1>3
  <2>3. \A v \in R \cup W : Present(v)
    BY DEF Present
  <2> HIDE DEF R, W
  <2> QED
    BY <1>3, <2>1, <2>2, <2>3, LineTyped
<1>5. /\ \A v \in Uid : coll'[v].bucket = "Running" => v \in R
      /\ \A v \in Uid : coll'[v].bucket = "Waiting" => v \in W \cup {u}
  BY <1>2, <1>3
<1>6. \A v \in R, w \in W : coll[v].date < coll[w].date
  BY DEF OrderInv
<1> HIDE DEF R, W
<1>7. Ordered(running, coll') /\ Ordered(waiting, coll')
  BY <1>4, SameDatesOrdered DEF OrderInv
<1>8. Ordered(waiting', coll')
  <2>1. /\ n \in Nat /\ DOMAIN waiting = 1..n /\ DOMAIN waiting' = 1..n + 1
        /\ \A i \in 1..n : waiting'[i] = waiting[i] /\ waiting[i] \in W
        /\ waiting'[n + 1] = u
    BY <1>1, <1>4
  <2>2. ASSUME NEW i \in 1..n + 1, NEW k \in 1..n + 1, i < k
        PROVE  coll'[waiting'[i]].date < coll'[waiting'[k]].date
    <3>1. i \in 1..n
      BY <2>1, <2>2
    <3>2. CASE k \in 1..n
      BY <1>7, <2>1, <2>2, <3>1, <3>2 DEF Ordered
    <3>3. CASE k = n + 1
      <4>1. coll'[waiting[i]].date <= submitted /\ coll'[waiting[i]].date \in Nat
        BY <1>4, <2>1, <3>1
      <4>2. coll'[waiting'[k]].date = submitted + 1 /\ waiting'[i] = waiting[i]
        BY <1>2, <1>3, <2>1, <3>1, <3>3
      <4> QED
        BY <1>4, <4>1, <4>2
    <3> QED
      BY <2>1, <3>2, <3>3
  <2> QED
    BY <2>1, <2>2 DEF Ordered
<1>9. \A v, w \in Uid : coll'[v].bucket = "Running" /\ coll'[w].bucket = "Waiting"
                          => coll'[v].date < coll'[w].date
  <2> SUFFICES ASSUME NEW v \in R, NEW w \in W \cup {u}
               PROVE  coll'[v].date < coll'[w].date
    BY <1>5
  <2>1. CASE w \in W
    BY <1>4, <1>6, <2>1
  <2>2. CASE w = u
    <3>1. coll'[v].date <= submitted /\ coll'[v].date \in Nat
      BY <1>4
    <3> QED
      BY <1>2, <1>3, <1>4, <2>2, <3>1
  <2> QED
    BY <2>1, <2>2
<1> QED
  BY <1>1, <1>7, <1>8, <1>9 DEF OrderInv

LEMMA PromoteOrder ==
  ASSUME ListsInv, OrderInv, Promote
  PROVE  OrderInv'
<1>1. PICK u : u = Head(waiting)
  OBVIOUS
<1> DEFINE c == Promoted(coll[u])
           R == {v \in Uid : coll[v].bucket = "Running"}
           W == {v \in Uid : coll[v].bucket = "Waiting"}
           m == Len(running)
           n == Len(waiting)
<1>2. /\ coll' = [coll EXCEPT ![u] = c] /\ waiting' = Tail(waiting)
      /\ running' = Append(running, u) /\ waiting # <<>>
  BY <1>1 DEF Promote, MayPromote
<1>3. running \in Seq(R) /\ waiting \in Seq(W) /\ \A v \in R \cup W : v \in Uid
  BY LineTyped
<1>4. \A v \in Uid : v \in R <=> coll[v].bucket = "Running"
  OBVIOUS
<1>5. \A v \in Uid : v \in W <=> coll[v].bucket = "Waiting"
  OBVIOUS
<1> HIDE DEF R, W
<1>6. /\ n \in Nat \ {0} /\ m \in Nat /\ u = waiting[1] /\ u \in W /\ u \in Uid
      /\ DOMAIN waiting = 1..n /\ DOMAIN running = 1..m
      /\ DOMAIN waiting' = 1..n - 1 /\ DOMAIN running' = 1..m + 1
      /\ \A i \in 1..m : running'[i] = running[i] /\ running[i] \in R
      /\ running'[m + 1] = u
      /\ \A i \in 1..n - 1 : waiting'[i] = waiting[i + 1] /\ i + 1 \in 1..n
      /\ \A i \in 1..n : waiting[i] \in W
  BY <1>1, <1>2, <1>3
<1>7. c.bucket = "Running" /\ c.date = coll[u].date
  BY <1>6, FieldsOK DEF ListsInv, CollsInv
<1> HIDE DEF c
<1>8. /\ \A v \in Uid : coll'[v].date = coll[v].date
      /\ coll'[u].bucket = "Running" /\ \A v \in Uid : v # u => coll'[v] = coll[v]
  BY <1>2, <1>6, <1>7 DEF ListsInv, CollsInv
<1>9. \A v \in R, w \in W : coll[v].date < coll[w].date
  BY <1>3, <1>4, <1>5 DEF OrderInv
<1>10. \A w \in W : w # u => coll[u].date < coll[w].date
  <2> SUFFICES ASSUME NEW w \in W, w # u PROVE coll[u].date < coll[w].date
    OBVIOUS
  <2>1. w \in {v \in Uid : coll[v].bucket = "Waiting"}
    BY <1>3, <1>5
  <2>2. PICK k \in DOMAIN waiting : waiting[k] = w
    BY <2>1 DEF ListsInv, LineInv, Enumerates
  <2>3. 1 < k /\ 1 \in DOMAIN waiting
    BY <1>6, <2>2
  <2> QED
    BY <1>6, <2>2, <2>3 DEF OrderInv, Ordered
<1>11. Ordered(running', coll')
  <2>1. ASSUME NEW i \in 1..m + 1, NEW k \in 1..m + 1, i < k
        PROVE  coll[running'[i]].date < coll[running'[k]].date
    <3>1. i \in 1..m
      BY <1>6, <2>1
    <3>2. CASE k \in 1..m
      BY <1>6, <2>1, <3>1, <3>2 DEF OrderInv, Ordered
    <3>3. CASE k = m + 1
      BY <1>6, <1>9, <3>1, <3>3
    <3> QED
      BY <1>6, <3>2, <3>3
  <2>2. \A i \in 1..m + 1 : running'[i] \in Uid
    <3>1. \A i \in 1..m + 1 : i \in 1..m \/ i = m + 1
      BY <1>6
    <3> QED
      BY <1>3, <1>6, <3>1
  <2> QED
    BY <1>6, <1>8, <2>1, <2>2 DEF Ordered
<1>12. Ordered(waiting', coll')
  <2>1. ASSUME NEW i \in 1..n - 1, NEW k \in 1..n - 1, i < k
        PROVE  coll[waiting'[i]].date < coll[waiting'[k]].date
    <3>1. i + 1 \in 1..n /\ k + 1 \in 1..n /\ i + 1 < k + 1
      BY <1>6, <2>1
    <3>2. coll[waiting[i + 1]].date < coll[waiting[k + 1]].date
      BY <1>6, <3>1 DEF OrderInv, Ordered
    <3> QED
      BY <1>6, <3>2
  <2>2. \A i \in 1..n - 1 : waiting'[i] \in Uid
    BY <1>3, <1>6
  <2> QED
    BY <1>6, <1>8, <2>1, <2>2 DEF Ordered
<1>13. \A v, w \in Uid : coll'[v].bucket = "Running" /\ coll'[w].bucket = "Waiting"
                           => coll'[v].date < coll'[w].date
  <2> SUFFICES ASSUME NEW v \in Uid, NEW w \in Uid,
                      coll'[v].bucket = "Running", coll'[w].bucket = "Waiting"
               PROVE  coll[v].date < coll[w].date
    BY <1>8
  <2>1. w \in W /\ w # u
    BY <1>5, <1>8
  <2>2. CASE v = u
    BY <1>10, <2>1, <2>2
  <2>3. CASE v # u
    BY <1>4, <1>8, <1>9, <2>1, <2>3
  <2> QED
    BY <2>2, <2>3
<1> QED
  BY <1>11, <1>12, <1>13 DEF OrderInv

LEMMA SettleOrder ==
  ASSUME ListsInv, OrderInv, Settle
  PROVE  OrderInv'
<1>1. PICK gone \in SUBSET Gone :
        /\ coll' = [u \in Uid |-> IF u \in gone THEN NoCollection
                                  ELSE IF u \in Completing THEN Completed(coll[u])
                                  ELSE coll[u]]
        /\ waiting' = Dropped(waiting, gone)
        /\ running' = Dropped(running, gone \cup Completing)
  BY DEF Settle
<1>2. ASSUME NEW u \in Uid
      PROVE  /\ u \notin gone => coll'[u].date = coll[u].date
             /\ coll'[u].bucket \in {"Running", "Waiting"} =>
                  u \notin gone /\ coll'[u].bucket = coll[u].bucket
  <2>1. /\ Completed(coll[u]).bucket = "Completed"
        /\ Completed(coll[u]).date = coll[u].date
        /\ NoCollection.bucket = "absent"
    BY FieldsOK DEF ListsInv, CollsInv, NoCollection
  <2> QED
    BY <1>1, <2>1
<1>3. ASSUME NEW list \in Seq(Uid), Ordered(list, coll), NEW out, gone \subseteq out
      PROVE  Ordered(Dropped(list, out), coll')
  <2> DEFINE I == {i \in DOMAIN list : list[i] \notin out}
             t == Only(list, I)
  <2>1. Ordered(t, coll)
    BY <1>3, OnlyOrdered
  <2>2. t \in Seq(Uid \ gone)
    <3>1. t \in Seq(Uid) /\ \E from : Selects(list, I, t, from)
      BY OnlySelects
    <3>2. PICK from : Selects(list, I, t, from)
      BY <3>1
    <3> HIDE DEF t
    <3>3. \A n \in 1..Len(t) : t[n] = list[from[n]] /\ from[n] \in I
      BY <3>2 DEF Selects
    <3>4. \A n \in 1..Len(t) : t[n] \in Uid \ gone
      BY <1>3, <3>1, <3>3
    <3> QED
      BY <3>1, <3>4
  <2> HIDE DEF t
  <2>3. Ordered(t, coll')
    BY <1>2, <2>1, <2>2, SameDatesOrdered
  <2> QED
    BY <2>3 DEF Dropped, t
<1>4. Ordered(running', coll') /\ Ordered(waiting', coll')
  BY <1>1, <1>3, LineTyped DEF OrderInv
<1>5. \A v, w \in Uid : coll'[v].bucket = "Running" /\ coll'[w].bucket = "Waiting"
                          => coll'[v].date < coll'[w].date
  BY <1>2 DEF OrderInv
<1> QED
  BY <1>4, <1>5 DEF OrderInv

LEMMA DieOrder ==
  ASSUME NEW times, Die(times)
  PROVE  OrderInv'
<1>1. /\ coll' = [u \in Uid |-> NoCollection] /\ running' = <<>> /\ waiting' = <<>>
      /\ NoCollection.bucket = "absent"
  BY DEF Die, NoCollection
<1> QED
  BY <1>1 DEF OrderInv, Ordered

(* Whatever fails, only a restart can put collections out of line.         *)
LEMMA OrderStep ==
  ASSUME ListsInv, OrderInv, [Next]_vars, ~Load
  PROVE  OrderInv'
<1>1. CASE \/ ListJobs \/ ListFails \/ Examined \/ Start
           \/ \E j \in worker.todo : Examine(j)
  BY <1>1, TurnFrame, FrameOrder DEF Frame
<1>2. CASE \/ \E u \in Uid : Reconcile(u) /\ ~(u \in alive /\ ~Present(u))
           \/ CleanJobs \/ Publication
           \/ \E j \in jobs : JobStep(j) \/ RemoveJob(j)
           \/ WindowPasses \/ UNCHANGED vars
  BY <1>2, OtherFrame, FrameOrder DEF Frame
<1>3. CASE \E u \in Uid : Reconcile(u) /\ u \in alive /\ ~Present(u)
  BY <1>3, RegisterOrder
<1>4. CASE Promote \/ Settle
  BY <1>4, PromoteOrder, SettleOrder
<1>5. CASE Resolve \/ PruneFiles \/ \E u \in Uid : CreateObject(u) \/ DeleteObject(u)
  <2>1. UNCHANGED <<coll, running, waiting>>
    BY <1>5 DEF Resolve, PruneFiles, CreateObject, DeleteObject, operatorVars, memory
  <2> QED
    BY <2>1, FrameOrder DEF Stays
<1>6. CASE Crash \/ CrashWriting \/ \E j \in worker.todo : ExaminePanics(j)
  <2>1. \E times : Die(times)
    BY <1>6 DEF Crash, CrashWriting, ExaminePanics
  <2> QED
    BY <2>1, DieOrder
<1> QED
  BY <1>1, <1>2, <1>3, <1>4, <1>5, <1>6 DEF Next, Operator, Process, Tasks

(* Files are written of collections that are there.                        *)
LEMMA BornKept ==
  ASSUME ListsInv, BornInv, born \subseteq born',
         \A u \in Uid : Present(u)' => Present(u) \/ u \in born',
         \A u \in Uid : \/ saved'[u].entity \in {NoEntity, saved[u].entity}
                        \/ Present(u) /\ saved'[u].entity = Entity(coll[u]),
         worker'.doomed \subseteq born' \ alive'
  PROVE  BornInv'
<1>1. ASSUME NEW u \in Uid \ born'
      PROVE  ~Present(u)' /\ saved'[u].entity = NoEntity
  BY DEF BornInv
<1>2. ASSUME NEW u \in Uid, saved'[u].entity # NoEntity
      PROVE  saved'[u].entity.bucket # "absent"
  <2>1. CASE saved'[u].entity = saved[u].entity
    BY <1>2, <2>1 DEF BornInv
  <2>2. CASE Present(u) /\ saved'[u].entity = Entity(coll[u])
    <3>1. Entity(coll[u]).bucket = coll[u].bucket
      BY DEF Entity
    <3> QED
      BY <2>2, <3>1 DEF Present
  <2> QED
    BY <1>2, <2>1, <2>2
<1> QED
  BY <1>1, <1>2 DEF BornInv

LEMMA BornStep ==
  ASSUME ListsInv, BornInv, [Next]_vars
  PROVE  BornInv'
<1>0. alive \subseteq born /\ born \subseteq Uid /\ worker.doomed \subseteq born \ alive
  BY DEF ListsInv, ClusterInv, BornInv
<1>1. ASSUME Frame
      PROVE  BornInv'
  <2>1. \A u \in Uid : Present(u)' => Present(u)
    BY <1>1 DEF Frame, Stays, Present
  <2> QED
    BY <1>0, <1>1, <2>1, BornKept DEF Frame
<1>2. CASE \E u \in Uid : Reconcile(u) /\ u \in alive /\ ~Present(u)
  <2>1. PICK u \in Uid : Reconcile(u) /\ u \in alive /\ ~Present(u)
    BY <1>2
  <2>2. /\ coll' = [coll EXCEPT ![u] = NewCollection(NumTests[u], submitted + 1)]
        /\ UNCHANGED <<alive, born, saved>> /\ worker' = [Idle EXCEPT !.at = "register"]
    BY <2>1 DEF Reconcile, Register, clusterVars
  <2>3. \A v \in Uid : Present(v)' => Present(v) \/ v \in born'
    BY <1>0, <2>1, <2>2 DEF Present, ListsInv, CollsInv
  <2>4. worker'.doomed = {}
    BY <2>2 DEF Idle
  <2> QED
    BY <2>2, <2>3, <2>4, BornKept
<1>3. CASE Promote
  <2>1. \E v, b : /\ coll' = [coll EXCEPT ![v] = b] /\ v = Head(waiting)
                  /\ worker' = [Idle EXCEPT !.at = "pass", !.changed = worker.changed \cup {v}]
    BY <1>3 DEF Promote
  <2>2. UNCHANGED <<alive, born, saved>> /\ waiting # <<>>
    BY <1>3 DEF Promote, MayPromote, clusterVars
  <2>3. Present(Head(waiting)) /\ Head(waiting) \in Uid
    <3>1. waiting \in Seq({u \in Uid : coll[u].bucket = "Waiting"})
      BY LineTyped
    <3>2. Head(waiting) \in {u \in Uid : coll[u].bucket = "Waiting"}
      BY <2>2, <3>1
    <3> QED
      BY <3>2 DEF Present
  <2>4. \A u \in Uid : Present(u)' => Present(u)
    BY <2>1, <2>3 DEF Present, ListsInv, CollsInv
  <2>5. worker'.doomed = {}
    BY <2>1 DEF Idle
  <2> QED
    BY <2>2, <2>4, <2>5, BornKept
<1>4. CASE Settle
  <2>1. PICK gone \in SUBSET Gone :
          /\ coll' = [u \in Uid |-> IF u \in gone THEN NoCollection
                                    ELSE IF u \in Completing THEN Completed(coll[u])
                                    ELSE coll[u]]
          /\ worker' = [Idle EXCEPT !.at = "resolve", !.doomed = gone,
                                    !.changed = worker.changed \cup Completing]
    BY <1>4 DEF Settle
  <2>2. UNCHANGED <<alive, born, saved>>
    BY <1>4 DEF Settle, clusterVars
  <2>3. Completing \subseteq {u \in Uid : coll[u].bucket = "Running"}
    BY LineTyped DEF Completing
  <2>4. \A u \in Uid : Present(u)' => Present(u)
    <3>1. NoCollection.bucket = "absent"
      BY DEF NoCollection
    <3> QED
      BY <2>1, <2>3, <3>1 DEF Present
  <2>5. Gone \subseteq born \ alive
    <3>1. \A u \in Gone : u \in Uid /\ Present(u) /\ u \notin alive
      BY DEF Gone, Borne
    <3> QED
      BY <3>1 DEF BornInv
  <2>6. worker'.doomed \subseteq born' \ alive'
    <3>1. worker'.doomed = gone
      BY <2>1 DEF Idle
    <3> QED
      BY <2>2, <2>5, <3>1
  <2> QED
    BY <2>2, <2>4, <2>6, BornKept
<1>5. CASE Resolve
  <2>1. PICK some \in SUBSET ToWrite, kept \in SUBSET worker.doomed :
          \E torn \in SUBSET (ToWrite \ some) : FilesAfter(some, torn, kept)
    BY <1>5 DEF Resolve
  <2>2. \A u \in Uid : \/ saved'[u].entity \in {NoEntity, saved[u].entity}
                       \/ Present(u) /\ saved'[u].entity = Entity(coll[u])
    <3>1. PICK torn \in SUBSET (ToWrite \ some) : FilesAfter(some, torn, kept)
      BY <2>1
    <3>2. some \in SUBSET dirty /\ torn \in SUBSET dirty
      BY DEF ToWrite
    <3> QED
      BY <3>1, <3>2, WriteOK DEF ListsInv
  <2>3. /\ UNCHANGED <<coll, alive, born>>
        /\ worker' = [worker EXCEPT !.doomed = {},
                                    !.at = IF @ = "register" THEN "pass" ELSE "tasks"]
    BY <1>5 DEF Resolve, clusterVars
  <2>4. worker'.doomed = {}
    BY <2>3 DEF ListsInv, WorkInv, WorkerOK, Idle
  <2>5. \A u \in Uid : Present(u)' => Present(u)
    BY <2>3 DEF Present
  <2> QED
    BY <2>2, <2>3, <2>4, <2>5, BornKept
<1>6. CASE PruneFiles
  <2>1. /\ saved' = [u \in Uid |-> IF Present(u) THEN saved[u] ELSE NoFiles]
        /\ worker' = [worker EXCEPT !.at = "publish"]
        /\ UNCHANGED <<alive, born, coll>>
    BY <1>6 DEF PruneFiles, Goto, clusterVars, memory
  <2>2. worker'.doomed = worker.doomed
    BY <2>1 DEF ListsInv, WorkInv, WorkerOK, Idle
  <2>3. \A u \in Uid : saved'[u].entity \in {NoEntity, saved[u].entity}
    BY <2>1, NoFilesOK
  <2>4. \A u \in Uid : Present(u)' => Present(u)
    BY <2>1 DEF Present
  <2> QED
    BY <1>0, <2>1, <2>2, <2>3, <2>4, BornKept
<1>7. CASE Crash \/ CrashWriting \/ \E j \in worker.todo : ExaminePanics(j)
  <2>1. PICK times : Die(times)
    BY <1>7 DEF Crash, CrashWriting, ExaminePanics
  <2>2. /\ coll' = [u \in Uid |-> NoCollection] /\ worker' = Down
        /\ UNCHANGED <<alive, born>>
    BY <2>1 DEF Die, clusterVars
  <2>3. \A u \in Uid : \/ saved'[u].entity \in {NoEntity, saved[u].entity}
                       \/ Present(u) /\ saved'[u].entity = Entity(coll[u])
    <3>1. CASE CrashWriting
      <4>1. PICK some \in SUBSET ToWrite, kept \in SUBSET worker.doomed :
              \E torn \in SUBSET (ToWrite \ some) : FilesAfter(some, torn, kept)
        BY <3>1 DEF CrashWriting
      <4>2. PICK torn \in SUBSET (ToWrite \ some) : FilesAfter(some, torn, kept)
        BY <4>1
      <4>3. some \in SUBSET dirty /\ torn \in SUBSET dirty
        BY DEF ToWrite
      <4> QED
        BY <4>2, <4>3, WriteOK DEF ListsInv
    <3>2. CASE Crash \/ \E j \in worker.todo : ExaminePanics(j)
      <4>1. saved' = saved
        BY <3>2 DEF Crash, ExaminePanics
      <4> QED
        BY <4>1
    <3> QED
      BY <1>7, <3>1, <3>2
  <2>4. \A u \in Uid : ~Present(u)'
    <3>1. NoCollection.bucket = "absent"
      BY DEF NoCollection
    <3> QED
      BY <2>2, <3>1 DEF Present
  <2>5. worker'.doomed = {}
    BY <2>2 DEF Down, Idle
  <2> QED
    BY <2>2, <2>3, <2>4, <2>5, BornKept
<1>8. CASE Load
  <2>1. PICK found \in SUBSET Loadable :
          coll' = [u \in Uid |-> IF u \in found THEN Loaded(saved[u]) ELSE NoCollection]
    BY <1>8 DEF Load
  <2>2. worker' = Idle /\ UNCHANGED <<alive, born, saved>>
    BY <1>8 DEF Load, clusterVars
  <2>3. \A u \in Uid : Present(u)' => u \in born
    <3>1. NoCollection.bucket = "absent" /\ found \subseteq born
      BY <1>0 DEF NoCollection, Loadable
    <3> QED
      BY <2>1, <3>1 DEF Present
  <2>4. worker'.doomed = {}
    BY <2>2 DEF Idle
  <2> QED
    BY <2>2, <2>3, <2>4, BornKept
<1>9. CASE \E u \in Uid : CreateObject(u) \/ DeleteObject(u)
  <2>1. PICK u \in Uid : CreateObject(u) \/ DeleteObject(u)
    BY <1>9
  <2>2. /\ UNCHANGED <<coll, saved, worker>> /\ born \subseteq born'
        /\ alive' \subseteq alive \cup (born' \ born)
    BY <2>1 DEF CreateObject, DeleteObject, operatorVars, memory
  <2>3. \A v \in Uid : Present(v)' => Present(v)
    BY <2>2 DEF Present
  <2> QED
    BY <1>0, <2>2, <2>3, BornKept
<1> QED
  BY <1>1, <1>2, <1>3, <1>4, <1>5, <1>6, <1>7, <1>8, <1>9, TurnFrame, OtherFrame
  DEF Next, Operator, Process, Tasks

(* A restart puts them in the order they have on file, where every object  *)
(* can be read.                                                            *)
LEMMA LoadOrder ==
  ASSUME ListsInv, FileOrderInv, BornInv, Load, ~Fault("api")
  PROVE  OrderInv' /\ CurrentInv'
<1>1. FilesInv /\ DateInv /\ alive \subseteq Uid /\ IsFiniteSet(alive)
  BY FS_Subset DEF ListsInv, ClusterInv
<1>2. PICK found \in SUBSET Loadable :
        /\ found = Loadable
        /\ coll' = [u \in Uid |-> IF u \in found THEN Loaded(saved[u]) ELSE NoCollection]
        /\ waiting' = Listing(found, "Waiting")
        /\ running' = Listing(found, "Running")
  BY DEF Load
<1>3. found = OnFile /\ found \subseteq Uid /\ UNCHANGED <<saved, alive>>
  BY <1>1, <1>2 DEF Loadable, OnFile, Load, clusterVars
<1>4. ASSUME NEW u \in Uid
      PROVE  /\ u \in found => /\ coll'[u].bucket = saved[u].entity.bucket
                               /\ coll'[u].date = saved[u].entity.date
             /\ u \notin found => coll'[u].bucket = "absent"
  <2>1. NoCollection.bucket = "absent"
    BY DEF NoCollection
  <2>2. FileOK(saved[u])
    BY <1>1 DEF FilesInv
  <2> QED
    BY <1>2, <2>1, <2>2, LoadedOK
<1>5. ASSUME NEW bucket
      PROVE  Ordered(Listing(found, bucket), coll')
  <2> DEFINE S == InBucket(found, bucket)
             key == [u \in found |-> saved[u].entity.date]
             list == InOrder(S, key)
  <2>1. /\ IsFiniteSet(S) /\ \A x \in S : key[x] \in Int
        /\ \A x, y \in S : key[x] = key[y] => x = y
    BY <1>1, FoundDates
  <2>2. \A u \in S : u \in Uid /\ key[u] = coll'[u].date
    BY <1>3, <1>4 DEF InBucket
  <2>3. Listing(found, bucket) = list
    BY DEF Listing
  <2> HIDE DEF S, key
  <2>4. /\ list \in Seq(S)
        /\ \A i, k \in DOMAIN list : i < k => key[list[i]] < key[list[k]]
    BY <2>1, InOrderSorts
  <2> HIDE DEF list
  <2>5. \A i \in DOMAIN list : list[i] \in S
    BY <2>4
  <2> QED
    BY <2>2, <2>3, <2>4, <2>5 DEF Ordered
<1>6. \A u, v \in Uid : coll'[u].bucket = "Running" /\ coll'[v].bucket = "Waiting"
                          => coll'[u].date < coll'[v].date
  BY <1>3, <1>4 DEF FileOrderInv
<1>7. CurrentInv'
  <2>1. \A u \in found : saved[u].entity.bucket # "absent"
    BY <1>2, <1>3 DEF BornInv, Loadable
  <2>2. \A u \in OnFile' : u \in found /\ u \in Uid
    BY <1>3 DEF OnFile
  <2> QED
    BY <1>3, <1>4, <2>1, <2>2 DEF CurrentInv, Present
<1> QED
  BY <1>2, <1>5, <1>6, <1>7 DEF OrderInv

(* What a step leaves alone of the files and of the lines on them.         *)
LEMMA SameFiles ==
  ASSUME FileOrderInv, UNCHANGED saved, OnFile' \subseteq OnFile
  PROVE  FileOrderInv'
BY DEF FileOrderInv, OnFile

LEMMA FrameCurrent ==
  ASSUME ListsInv, FileOrderInv, CurrentInv, Frame
  PROVE  FileOrderInv' /\ CurrentInv'
<1>1. OnFile' = OnFile /\ OnFile \subseteq Uid /\ UNCHANGED saved
  BY DEF Frame, OnFile, ListsInv, ClusterInv
<1>2. \A u \in Uid : Present(u) => Present(u)'
  BY DEF Frame, Stays, Present
<1>3. CurrentInv'
  BY <1>1, <1>2 DEF CurrentInv, Frame, Stays, EntityOf
<1> QED
  BY <1>1, <1>3, SameFiles

LEMMA RegisterCurrent ==
  ASSUME ListsInv, FileOrderInv, CurrentInv,
         NEW u \in Uid, Reconcile(u), u \in alive, ~Present(u)
  PROVE  FileOrderInv' /\ CurrentInv'
<1>1. /\ coll' = [coll EXCEPT ![u] = NewCollection(NumTests[u], submitted + 1)]
      /\ UNCHANGED <<saved, alive>> /\ dirty \subseteq dirty'
  BY DEF Reconcile, Register, Note, clusterVars
<1>2. ~At("down")
  BY DEF Reconcile, At
<1>3. u \notin OnFile /\ OnFile' = OnFile /\ OnFile \subseteq Uid
  BY <1>1, <1>2 DEF CurrentInv, OnFile, ListsInv, ClusterInv
<1>4. \A v \in OnFile : coll'[v] = coll[v]
  BY <1>1, <1>3 DEF ListsInv, CollsInv
<1>5. CurrentInv'
  BY <1>1, <1>2, <1>3, <1>4 DEF CurrentInv, Present, EntityOf
<1> QED
  BY <1>1, <1>3, <1>5, SameFiles

LEMMA PromoteCurrent ==
  ASSUME ListsInv, FileOrderInv, CurrentInv, Promote
  PROVE  FileOrderInv' /\ CurrentInv'
<1>1. PICK u : u = Head(waiting)
  OBVIOUS
<1>2. /\ coll' = [coll EXCEPT ![u] = Promoted(coll[u])]
      /\ dirty' = dirty \cup {EntityOf(u)} /\ UNCHANGED <<saved, alive>> /\ ~At("down")
  BY <1>1 DEF Promote, Note, clusterVars, At
<1>3. OnFile' = OnFile /\ OnFile \subseteq Uid
  BY <1>2 DEF OnFile, ListsInv, ClusterInv
<1>4. \A v \in OnFile : v # u => coll'[v] = coll[v]
  BY <1>2, <1>3 DEF ListsInv, CollsInv
<1>5. u \in Uid => coll'[u].bucket = "Running"
  BY <1>2, FieldsOK DEF ListsInv, CollsInv
<1>6. ASSUME NEW v \in OnFile
      PROVE  /\ Present(v)'
             /\ EntityOf(v) \in dirty' \/ /\ saved[v].entity.bucket = coll'[v].bucket
                                          /\ saved[v].entity.date = coll'[v].date
  <2>1. CASE v = u
    BY <1>2, <1>3, <1>5, <2>1 DEF Present
  <2>2. CASE v # u
    BY <1>2, <1>4, <2>2 DEF CurrentInv, Present
  <2> QED
    BY <2>1, <2>2
<1>7. CurrentInv'
  BY <1>2, <1>3, <1>6 DEF CurrentInv, EntityOf
<1> QED
  BY <1>2, <1>3, <1>7, SameFiles

LEMMA SettleCurrent ==
  ASSUME ListsInv, FileOrderInv, CurrentInv, Settle
  PROVE  FileOrderInv' /\ CurrentInv'
<1>1. PICK gone \in SUBSET Gone :
        /\ coll' = [u \in Uid |-> IF u \in gone THEN NoCollection
                                  ELSE IF u \in Completing THEN Completed(coll[u])
                                  ELSE coll[u]]
        /\ dirty' = {d \in dirty : d.uid \notin gone}
                      \cup {EntityOf(u) : u \in Completing \ gone}
  BY DEF Settle
<1>2. UNCHANGED <<saved, alive>> /\ ~At("down")
  BY DEF Settle, clusterVars, At
<1>3. OnFile' = OnFile /\ OnFile \subseteq Uid /\ OnFile \subseteq alive
  BY <1>2 DEF OnFile, ListsInv, ClusterInv
<1>4. OnFile \cap gone = {}
  BY <1>3 DEF Gone, Borne
<1>5. ASSUME NEW v \in OnFile
      PROVE  /\ Present(v)'
             /\ EntityOf(v) \in dirty' \/ /\ saved[v].entity.bucket = coll'[v].bucket
                                          /\ saved[v].entity.date = coll'[v].date
  <2>1. CASE v \in Completing
    <3>1. coll'[v].bucket = "Completed" /\ EntityOf(v) \in dirty'
      BY <1>1, <1>3, <1>4, <2>1, FieldsOK DEF ListsInv, CollsInv
    <3> QED
      BY <3>1 DEF Present
  <2>2. CASE v \notin Completing
    <3>1. coll'[v] = coll[v]
      BY <1>1, <1>3, <1>4, <2>2
    <3>2. EntityOf(v) \in dirty => EntityOf(v) \in dirty'
      BY <1>1, <1>4 DEF EntityOf
    <3> QED
      BY <1>2, <3>1, <3>2 DEF CurrentInv, Present
  <2> QED
    BY <2>1, <2>2
<1>6. CurrentInv'
  BY <1>2, <1>3, <1>5 DEF CurrentInv, EntityOf
<1> QED
  BY <1>2, <1>3, <1>6, SameFiles

(* A bulk write that nothing stops leaves the files as the collections are.*)
LEMMA ResolveCurrent ==
  ASSUME ListsInv, OrderInv, CurrentInv, BornInv, Resolve, ~Fault("io")
  PROVE  FileOrderInv' /\ CurrentInv'
<1>1. /\ FilesAfter(ToWrite, {}, {}) /\ UNCHANGED <<coll, alive>> /\ ~At("down")
  BY DEF Resolve, clusterVars, At
<1>2. OnFile' \subseteq alive /\ OnFile' \subseteq Uid /\ alive \subseteq Uid
  BY <1>1 DEF OnFile, ListsInv, ClusterInv
<1>3. ASSUME NEW u \in OnFile'
      PROVE  /\ Present(u) /\ saved'[u].entity.bucket = coll[u].bucket
             /\ saved'[u].entity.date = coll[u].date
  <2>1. u \notin worker.doomed /\ u \in Uid /\ u \in alive
    BY <1>2 DEF BornInv
  <2>2. saved'[u].entity # NoEntity
    BY DEF OnFile
  <2>3. saved'[u].entity = Filed(u, ToWrite, {}).entity
    BY <1>1, <2>1 DEF FilesAfter
  <2>4. CASE EntityOf(u) \in dirty
    <3>1. saved'[u].entity = Entity(coll[u])
      BY <2>3, <2>4 DEF Filed, ToWrite, EntityOf
    <3>2. Present(u)
      <4>1. EntityOf(u).uid = u
        BY DEF EntityOf
      <4> QED
        BY <2>4, <4>1 DEF ListsInv, DirtyInv, NotedOK, Present
    <3> QED
      BY <3>1, <3>2 DEF Entity
  <2>5. CASE EntityOf(u) \notin dirty
    <3>1. saved'[u].entity = saved[u].entity
      BY <2>3, <2>5 DEF Filed, ToWrite
    <3>2. u \in OnFile
      BY <2>1, <2>2, <3>1 DEF OnFile
    <3> QED
      BY <1>1, <2>5, <3>1, <3>2 DEF CurrentInv
  <2> QED
    BY <2>4, <2>5
<1>4. FileOrderInv'
  <2>1. ASSUME NEW u \in OnFile', NEW v \in OnFile',
               saved'[u].entity.bucket = "Running", saved'[v].entity.bucket = "Waiting"
        PROVE  saved'[u].entity.date < saved'[v].entity.date
    BY <1>2, <1>3, <2>1 DEF OrderInv
  <2> QED
    BY <2>1 DEF FileOrderInv
<1>5. CurrentInv'
  BY <1>1, <1>3 DEF CurrentInv, Present
<1> QED
  BY <1>4, <1>5

(* The scheduled task removes only files of collections that are no more.  *)
LEMMA PruneCurrent ==
  ASSUME ListsInv, FileOrderInv, CurrentInv, PruneFiles
  PROVE  FileOrderInv' /\ CurrentInv'
<1>1. /\ saved' = [u \in Uid |-> IF Present(u) THEN saved[u] ELSE NoFiles]
      /\ UNCHANGED <<coll, alive, dirty>> /\ ~At("down")
  BY DEF PruneFiles, memory, clusterVars, At
<1>2. \A u \in OnFile' : u \in OnFile /\ u \in Uid /\ saved'[u] = saved[u]
  <2>1. alive \subseteq Uid
    BY DEF ListsInv, ClusterInv
  <2> QED
    BY <1>1, <2>1, NoFilesOK DEF OnFile
<1> QED
  BY <1>1, <1>2 DEF FileOrderInv, CurrentInv, Present, EntityOf

LEMMA DieCurrent ==
  ASSUME FileOrderInv, NEW times, Die(times), UNCHANGED saved
  PROVE  FileOrderInv' /\ CurrentInv'
<1>1. UNCHANGED alive /\ At("down")'
  BY DEF Die, Down, At, clusterVars
<1>2. OnFile' \subseteq OnFile
  BY <1>1 DEF OnFile
<1> QED
  BY <1>1, <1>2, SameFiles DEF CurrentInv

(* An object that is new has no files, whatever bore its name before.      *)
LEMMA ObjectCurrent ==
  ASSUME ListsInv, FileOrderInv, CurrentInv, BornInv,
         \E u \in Uid : CreateObject(u) \/ DeleteObject(u)
  PROVE  FileOrderInv' /\ CurrentInv'
<1>1. PICK u \in Uid : CreateObject(u) \/ DeleteObject(u)
  OBVIOUS
<1>2. UNCHANGED <<coll, saved, dirty, worker>>
  BY <1>1 DEF CreateObject, DeleteObject, operatorVars, memory
<1>3. OnFile' \subseteq OnFile
  <2>1. CASE CreateObject(u)
    <3>1. saved[u].entity = NoEntity /\ alive' = alive \cup {u}
      BY <2>1 DEF CreateObject, BornInv
    <3> QED
      BY <1>2, <3>1 DEF OnFile
  <2>2. CASE DeleteObject(u)
    BY <1>2, <2>2 DEF DeleteObject, OnFile
  <2> QED
    BY <1>1, <2>1, <2>2
<1>4. CurrentInv'
  BY <1>2, <1>3 DEF CurrentInv, At, Present, EntityOf
<1> QED
  BY <1>2, <1>3, <1>4, SameFiles

LEMMA CurrentStep ==
  ASSUME ListsInv, SubmissionInv, [Next]_vars,
         ~Fault("api"), ~Fault("io"), ~Fault("torn")
  PROVE  FileOrderInv' /\ CurrentInv'
<1>0. OrderInv /\ FileOrderInv /\ CurrentInv /\ BornInv
  BY DEF SubmissionInv
<1>1. CASE \/ ListJobs \/ ListFails \/ Examined \/ Start
           \/ \E j \in worker.todo : Examine(j)
  BY <1>0, <1>1, TurnFrame, FrameCurrent
<1>2. CASE \/ \E u \in Uid : Reconcile(u) /\ ~(u \in alive /\ ~Present(u))
           \/ CleanJobs \/ Publication
           \/ \E j \in jobs : JobStep(j) \/ RemoveJob(j)
           \/ WindowPasses \/ UNCHANGED vars
  BY <1>0, <1>2, OtherFrame, FrameCurrent
<1>3. CASE \E u \in Uid : Reconcile(u) /\ u \in alive /\ ~Present(u)
  BY <1>0, <1>3, RegisterCurrent
<1>4. CASE Promote \/ Settle
  BY <1>0, <1>4, PromoteCurrent, SettleCurrent
<1>5. CASE Resolve \/ PruneFiles
  BY <1>0, <1>5, ResolveCurrent, PruneCurrent
<1>6. CASE Crash \/ \E j \in worker.todo : ExaminePanics(j)
  <2>1. UNCHANGED saved /\ \E times : Die(times)
    BY <1>6 DEF Crash, ExaminePanics
  <2> QED
    BY <1>0, <2>1, DieCurrent
<1>7. CASE \E u \in Uid : CreateObject(u) \/ DeleteObject(u)
  BY <1>0, <1>7, ObjectCurrent
<1>8. CASE Load
  <2>1. CurrentInv'
    BY <1>0, <1>8, LoadOrder
  <2>2. UNCHANGED <<saved, alive>>
    BY <1>8 DEF Load, clusterVars
  <2>3. OnFile' \subseteq OnFile
    BY <2>2 DEF OnFile
  <2> QED
    BY <1>0, <2>1, <2>2, <2>3, SameFiles
<1>9. ~CrashWriting
  BY DEF CrashWriting
<1> QED
  BY <1>1, <1>2, <1>3, <1>4, <1>5, <1>6, <1>7, <1>8, <1>9
  DEF Next, Operator, Process, Tasks

LEMMA SubmissionStep ==
  ASSUME ~Fault("api"), ~Fault("io"), ~Fault("torn")
  PROVE  ListsInv /\ SubmissionInv /\ [Next]_vars => SubmissionInv'
<1> SUFFICES ASSUME ListsInv, SubmissionInv, [Next]_vars PROVE SubmissionInv'
  OBVIOUS
<1>1. OrderInv'
  BY OrderStep, LoadOrder DEF SubmissionInv
<1> QED
  BY <1>1, BornStep, CurrentStep DEF SubmissionInv

LEMMA SubmissionInit == Init => SubmissionInv
<1> SUFFICES ASSUME Init PROVE SubmissionInv
  OBVIOUS
<1>1. /\ alive = {} /\ born = {} /\ coll = [u \in Uid |-> NoCollection]
      /\ waiting = <<>> /\ running = <<>>
      /\ saved = [u \in Uid |-> NoFiles] /\ worker.doomed = {}
  BY DEF Init, Idle
<1>2. NoCollection.bucket = "absent" /\ NoFiles.entity = NoEntity
  BY NoFilesOK DEF NoCollection
<1>3. OrderInv
  BY <1>1, <1>2 DEF OrderInv, Ordered
<1>4. OnFile = {}
  BY <1>1 DEF OnFile
<1>5. BornInv
  BY <1>1, <1>2 DEF BornInv, Present
<1> QED
  BY <1>3, <1>4, <1>5 DEF SubmissionInv, FileOrderInv, CurrentInv

(* Each collection is in the list its bucket names.                        *)
LEMMA EachInPlace ==
  ASSUME ListsInv, NEW u \in Uid
  PROVE  /\ coll[u].bucket = "Running" <=> Places(running, u) # {}
         /\ coll[u].bucket = "Waiting" <=> Places(waiting, u) # {}
BY DEF ListsInv, LineInv, Enumerates, Places

(* The line is in order when each of its parts is.                         *)
LEMMA LineOrdered ==
  ASSUME ListsInv, OrderInv
  PROVE  Ordered(running \o waiting, coll)
<1> DEFINE R == {u \in Uid : coll[u].bucket = "Running"}
           W == {u \in Uid : coll[u].bucket = "Waiting"}
           m == Len(running)
           n == Len(waiting)
           line == running \o waiting
<1>1. running \in Seq(R) /\ waiting \in Seq(W)
  BY LineTyped
<1>2. \A u \in R, v \in W : coll[u].date < coll[v].date
  BY DEF OrderInv
<1> HIDE DEF R, W
<1>3. /\ m \in Nat /\ n \in Nat /\ DOMAIN running = 1..m /\ DOMAIN waiting = 1..n
      /\ DOMAIN line = 1..(m + n)
      /\ \A i \in 1..m : line[i] = running[i] /\ running[i] \in R
      /\ \A i \in 1..(m + n) : i > m => /\ line[i] = waiting[i - m]
                                        /\ i - m \in 1..n /\ waiting[i - m] \in W
  BY <1>1
<1> HIDE DEF line
<1>4. ASSUME NEW i \in 1..(m + n), NEW k \in 1..(m + n), i < k
      PROVE  coll[line[i]].date < coll[line[k]].date
  <2>1. CASE k <= m
    <3>1. i \in 1..m /\ k \in 1..m
      BY <1>3, <1>4, <2>1
    <3> QED
      BY <1>3, <1>4, <3>1 DEF OrderInv, Ordered
  <2>2. CASE i > m
    <3>1. i - m \in 1..n /\ k - m \in 1..n /\ i - m < k - m /\ k > m
      BY <1>3, <1>4, <2>2
    <3>2. coll[waiting[i - m]].date < coll[waiting[k - m]].date
      BY <1>3, <3>1 DEF OrderInv, Ordered
    <3> QED
      BY <1>3, <2>2, <3>1, <3>2
  <2>3. CASE i <= m /\ k > m
    <3>1. i \in 1..m
      BY <1>3, <2>3
    <3> QED
      BY <1>2, <1>3, <2>3, <3>1
  <2> QED
    BY <1>3, <2>1, <2>2, <2>3
<1> QED
  BY <1>3, <1>4 DEF Ordered, line

(* Whatever fails, collections pass nobody: only a restart can put them    *)
(* out of the order in which they were submitted.                          *)
THEOREM NobodyIsPassed == Spec => [][OrderInv /\ ~Load => OrderInv']_vars
<1>1. ListsInv /\ [Next]_vars => [OrderInv /\ ~Load => OrderInv']_vars
  BY OrderStep
<1> QED
  BY <1>1, ListsInvariant, PTL DEF Spec

(* Collections take their turns in the order in which they were submitted, *)
(* and keep it across any number of restarts, as long as their objects can *)
(* be read and their files be written: promotion (process) and load agree  *)
(* on what comes first.                                                    *)
THEOREM TurnsAreInOrder ==
  ASSUME ~Fault("api"), ~Fault("io"), ~Fault("torn")
  PROVE  Spec => []CollectionsInLine
<1>1. ListsInv /\ SubmissionInv => CollectionsInLine
  BY EachInPlace, LineOrdered DEF CollectionsInLine, SubmissionInv, Ordered
<1>2. Init => ListsInv /\ SubmissionInv
  BY ListsInit, SubmissionInit
<1>3. ListsInv /\ SubmissionInv /\ [Next]_vars => (ListsInv /\ SubmissionInv)'
  BY ListsStep, SubmissionStep
<1> QED
  BY <1>1, <1>2, <1>3, PTL DEF Spec

-----------------------------------------------------------------------------
(***************************************************************************)
(* The chain of retries a test entry belongs to.                           *)
(***************************************************************************)

(* Ids ascend, and a retry comes after the run it repeats.                 *)
Numbered(c) ==
  /\ \A i, k \in DOMAIN c.entries : i < k => c.entries[i].id < c.entries[k].id
  /\ \A k \in DOMAIN c.entries : c.entries[k].from # 0 =>
       \E i \in 1..k - 1 : c.entries[i].id = c.entries[k].from

(* Lineage is what its definition says.                                    *)
LEMMA LineageIs ==
  ASSUME NEW c, c.entries \in Seq(Entry), NEW k
  PROVE  /\ Lineage(c, k)[0] = {k}
         /\ \A d \in 1..Len(c.entries) :
              Lineage(c, k)[d] = Parents(c, Lineage(c, k)[d - 1])
<1> DEFINE N == Len(c.entries)
           Step(f, d) == IF d = 0 THEN {k} ELSE Parents(c, f[d - 1])
           Is(f, m) == f = [d \in 0..m |-> Step(f, d)]
<1>1. N \in Nat
  OBVIOUS
<1>2. \A m \in Nat : \E f : Is(f, m)
  <2> DEFINE B == {m \in Nat : ~\E f : Is(f, m)}
  <2>1. SUFFICES ASSUME B # {} PROVE FALSE
    OBVIOUS
  <2>2. PICK m \in B : \A j \in B : m <= j
    BY <2>1, Least
  <2>3. m # 0
    <3> DEFINE f == [d \in 0..0 |-> {k}]
    <3>1. Is(f, 0)
      OBVIOUS
    <3> QED
      BY <3>1
  <2>4. m \in Nat /\ m - 1 \in Nat /\ m - 1 \notin B
    <3>1. m \in Nat /\ m - 1 \in Nat /\ ~(m <= m - 1)
      BY <2>2, <2>3
    <3> QED
      BY <2>2, <3>1
  <2>5. PICK f : Is(f, m - 1)
    BY <2>4
  <2> DEFINE g == [d \in 0..m |-> IF d = m THEN Step(f, m) ELSE f[d]]
  <2>6. ASSUME NEW d \in 0..m
        PROVE  g[d] = Step(g, d)
    <3>1. CASE d = m
      BY <2>3, <2>4, <3>1
    <3>2. CASE d # m
      <4>1. d \in 0..m - 1 /\ g[d] = f[d]
        BY <2>4, <3>2
      <4>2. f[d] = Step(f, d)
        BY <2>5, <4>1
      <4>3. d # 0 => g[d - 1] = f[d - 1]
        BY <2>4, <4>1
      <4> QED
        BY <4>1, <4>2, <4>3
    <3> QED
      BY <3>1, <3>2
  <2>7. Is(g, m)
    BY <2>6
  <2> QED
    BY <2>4, <2>7
<1>3. Is(Lineage(c, k), N)
  <2>1. Is(CHOOSE f : Is(f, N), N)
    BY <1>1, <1>2
  <2>2. Lineage(c, k) = CHOOSE f : Is(f, N)
    BY DEF Lineage
  <2> QED
    BY <2>1, <2>2
<1> DEFINE f == Lineage(c, k)
<1> HIDE DEF f
<1>4. Is(f, N)
  BY <1>3 DEF f
<1>5. ASSUME NEW d \in 0..N
      PROVE  f[d] = Step(f, d)
  BY <1>4
<1>6. f[0] = {k} /\ \A d \in 1..N : f[d] = Parents(c, f[d - 1])
  BY <1>1, <1>5
<1> QED
  BY <1>6 DEF f

(* An id that is given once names its entry.                               *)
LEMMA UniqueId ==
  ASSUME NEW c, CollOK(c), Numbered(c), NEW k \in DOMAIN c.entries,
         NEW id, c.entries[k].id = id
  PROVE  Index(c, id) = {k} /\ HasEntry(c, id) /\ Latest(c, id) = k
<1>1. c.entries \in Seq(Entry)
  BY DEF CollOK, Collection
<1>2. ASSUME NEW i \in DOMAIN c.entries, c.entries[i].id = id
      PROVE  i = k
  <2>1. i \in Nat /\ k \in Nat /\ c.entries[i] \in Entry
    BY <1>1
  <2>2. id \in Nat /\ ~(id < id)
    BY <1>2, <2>1 DEF Entry
  <2>3. ~(i < k) /\ ~(k < i)
    BY <1>2, <2>2 DEF Numbered
  <2> QED
    BY <2>1, <2>3
<1>3. Index(c, id) = {k}
  BY <1>2 DEF Index
<1>4. HasEntry(c, id)
  BY <1>3 DEF HasEntry
<1>5. Latest(c, id) = k
  BY <1>3, <1>4, LatestIsThere DEF Index
<1> QED
  BY <1>3, <1>4, <1>5

(* The parent of a run comes before it; a first run has none.              *)
LEMMA ParentBefore ==
  ASSUME NEW c, CollOK(c), Numbered(c), NEW k \in DOMAIN c.entries,
         HasEntry(c, c.entries[k].from)
  PROVE  c.entries[k].from # 0 /\ Latest(c, c.entries[k].from) \in 1..k - 1
<1>1. c.entries \in Seq(Entry)
  BY DEF CollOK, Collection
<1>2. c.entries[k].from # 0
  BY DEF HasEntry, Index, CollOK
<1>3. PICK i \in 1..k - 1 : c.entries[i].id = c.entries[k].from
  BY <1>2 DEF Numbered
<1>4. i \in DOMAIN c.entries
  BY <1>1
<1> QED
  BY <1>2, <1>3, <1>4, UniqueId

LEMMA ParentsBefore ==
  ASSUME NEW c, CollOK(c), Numbered(c), NEW m \in 0..Len(c.entries), NEW ks \in SUBSET (1..m)
  PROVE  Parents(c, ks) \subseteq 1..m - 1
<1>1. c.entries \in Seq(Entry)
  BY DEF CollOK, Collection
<1>2. ASSUME NEW k \in ks, HasEntry(c, c.entries[k].from)
      PROVE  Latest(c, c.entries[k].from) \in 1..m - 1
  <2>0. k \in 1..m /\ m \in Nat /\ Len(c.entries) \in Nat /\ m <= Len(c.entries)
    BY <1>1
  <2>1. k \in DOMAIN c.entries /\ k <= m /\ k \in Nat
    BY <1>1, <2>0
  <2>2. Latest(c, c.entries[k].from) \in 1..k - 1
    BY <1>2, <2>1, ParentBefore
  <2> QED
    BY <2>1, <2>2
<1> QED
  BY <1>2 DEF Parents

LEMMA NoParents == ASSUME NEW c PROVE Parents(c, {}) = {}
BY DEF Parents

LEMMA OneParent ==
  ASSUME NEW c, CollOK(c), Numbered(c), NEW k \in DOMAIN c.entries
  PROVE  /\ c.entries[k].from = 0 => Parents(c, {k}) = {}
         /\ \A p \in DOMAIN c.entries :
              c.entries[p].id = c.entries[k].from => Parents(c, {k}) = {p}
<1>1. ASSUME c.entries[k].from = 0
      PROVE  Parents(c, {k}) = {}
  <2>1. ~HasEntry(c, c.entries[k].from)
    BY <1>1, ParentBefore
  <2> QED
    BY <2>1 DEF Parents
<1>2. ASSUME NEW p \in DOMAIN c.entries, c.entries[p].id = c.entries[k].from
      PROVE  Parents(c, {k}) = {p}
  <2>1. HasEntry(c, c.entries[k].from) /\ Latest(c, c.entries[k].from) = p
    BY <1>2, UniqueId
  <2> QED
    BY <2>1 DEF Parents
<1> QED
  BY <1>1, <1>2

(* Going back the chain ends, at the latest after as many steps as there   *)
(* are entries.                                                            *)
LEMMA LineageBefore ==
  ASSUME NEW c, CollOK(c), Numbered(c), NEW k \in DOMAIN c.entries
  PROVE  \A d \in 0..Len(c.entries) : Lineage(c, k)[d] \subseteq 1..k - d
<1> DEFINE N == Len(c.entries)
           f == Lineage(c, k)
           B == {d \in 0..N : ~(f[d] \subseteq 1..k - d)}
<1>1. c.entries \in Seq(Entry) /\ N \in Nat /\ k \in 1..N /\ DOMAIN c.entries = 1..N
  BY DEF CollOK, Collection
<1>2. f[0] = {k} /\ \A d \in 1..N : f[d] = Parents(c, f[d - 1])
  BY <1>1, LineageIs
<1> HIDE DEF f
<1>3. SUFFICES ASSUME B # {} PROVE FALSE
  BY DEF f
<1>4. PICK d \in B : \A j \in B : d <= j
  <2>1. B \in SUBSET Nat
    BY <1>1
  <2> QED
    BY <1>3, <2>1, Least
<1>5. d \in 0..N /\ d # 0
  BY <1>1, <1>2, <1>4
<1>6. d - 1 \in 0..N /\ d \in 1..N /\ ~(d <= d - 1)
  BY <1>1, <1>5
<1>7. f[d - 1] \subseteq 1..k - (d - 1)
  BY <1>4, <1>6
<1>8. CASE k - (d - 1) \in 0..N
  <2>1. Parents(c, f[d - 1]) \subseteq 1..(k - (d - 1)) - 1
    BY <1>7, <1>8, ParentsBefore
  <2>2. (k - (d - 1)) - 1 = k - d
    BY <1>1, <1>5
  <2> QED
    BY <1>2, <1>4, <1>6, <2>1, <2>2
<1>9. CASE k - (d - 1) \notin 0..N
  <2>1. 1..k - (d - 1) = {}
    BY <1>1, <1>5, <1>9
  <2>2. f[d] = {}
    BY <1>2, <1>6, <1>7, <2>1, NoParents
  <2> QED
    BY <1>4, <2>2
<1> QED
  BY <1>8, <1>9

(* The chain of a retry is that of the run it repeats, and one more.       *)
LEMMA LineageShift ==
  ASSUME NEW c, CollOK(c), Numbered(c), NEW k \in DOMAIN c.entries,
         NEW p \in DOMAIN c.entries, c.entries[p].id = c.entries[k].from
  PROVE  \A d \in 1..Len(c.entries) : Lineage(c, k)[d] = Lineage(c, p)[d - 1]
<1> DEFINE N == Len(c.entries)
           f == Lineage(c, k)
           g == Lineage(c, p)
           B == {d \in 1..N : f[d] # g[d - 1]}
<1>1. c.entries \in Seq(Entry) /\ N \in Nat
  BY DEF CollOK, Collection
<1>2. /\ f[0] = {k} /\ \A d \in 1..N : f[d] = Parents(c, f[d - 1])
      /\ g[0] = {p} /\ \A d \in 1..N : g[d] = Parents(c, g[d - 1])
  BY <1>1, LineageIs
<1> HIDE DEF f, g
<1>3. SUFFICES ASSUME B # {} PROVE FALSE
  BY DEF f, g
<1>4. PICK d \in B : \A j \in B : d <= j
  <2>1. B \in SUBSET Nat
    BY <1>1
  <2> QED
    BY <1>3, <2>1, Least
<1>5. CASE d = 1
  <2>1. 1 \in 1..N
    BY <1>4, <1>5
  <2>2. f[1] = Parents(c, {k})
    <3>1. f[1] = Parents(c, f[1 - 1]) /\ 1 - 1 = 0
      BY <1>2, <2>1
    <3> QED
      BY <1>2, <3>1
  <2>3. Parents(c, {k}) = {p}
    BY OneParent
  <2>4. g[0] = {p}
    BY <1>2
  <2>5. f[1] = {p}
    BY <2>2, <2>3
  <2>6. f[d] # g[d - 1]
    BY <1>4
  <2> QED
    BY <1>5, <2>4, <2>5, <2>6
<1>6. CASE d # 1
  <2>1. d \in 1..N /\ d - 1 \in 1..N /\ ~(d <= d - 1)
    BY <1>1, <1>4, <1>6
  <2>2. f[d - 1] = g[(d - 1) - 1]
    BY <1>4, <2>1
  <2>3. f[d] = Parents(c, f[d - 1]) /\ g[d - 1] = Parents(c, g[(d - 1) - 1])
    BY <1>2, <2>1
  <2> QED
    BY <1>4, <2>2, <2>3
<1> QED
  BY <1>5, <1>6

(* A chain is met entry by entry until it ends.                            *)
LEMMA ChainLength ==
  ASSUME NEW c, CollOK(c), Numbered(c), NEW k \in DOMAIN c.entries
  PROVE  /\ Retries(c, k) \in 0..Len(c.entries) - 1
         /\ \A d \in 0..Len(c.entries) : Lineage(c, k)[d] # {} <=> d <= Retries(c, k)
<1> DEFINE N == Len(c.entries)
           f == Lineage(c, k)
           B == {d \in 0..N : f[d] = {}}
<1>1. c.entries \in Seq(Entry) /\ N \in Nat /\ k \in 1..N
  BY DEF CollOK, Collection
<1>2. f[0] = {k} /\ \A d \in 1..N : f[d] = Parents(c, f[d - 1])
  BY <1>1, LineageIs
<1>3. f[N] = {}
  <2>1. N \in 0..N /\ 1..k - N = {}
    BY <1>1
  <2> QED
    BY <2>1, LineageBefore
<1> HIDE DEF f
<1>4. PICK e \in B : \A j \in B : e <= j
  <2>1. B \in SUBSET Nat /\ N \in B
    BY <1>1, <1>3
  <2> QED
    BY <2>1, Least
<1>5. e \in 1..N
  <2>1. e \in 0..N /\ f[e] = {} /\ f[0] # {}
    BY <1>2, <1>4
  <2> QED
    BY <1>1, <2>1
<1>6. \A d \in 0..N : d < e => f[d] # {}
  BY <1>1, <1>4
<1>7. \A d \in 0..N : d >= e => f[d] = {}
  <2> DEFINE C == {d \in 0..N : d >= e /\ f[d] # {}}
  <2>1. SUFFICES ASSUME C # {} PROVE FALSE
    OBVIOUS
  <2>2. PICK d \in C : \A j \in C : d <= j
    <3>1. C \in SUBSET Nat
      BY <1>1
    <3> QED
      BY <2>1, <3>1, Least
  <2>3. d # e /\ d \in 0..N /\ d >= e
    BY <1>4, <2>2
  <2>4. d \in 1..N /\ d - 1 \in 0..N /\ d - 1 >= e /\ ~(d <= d - 1)
    BY <1>1, <1>5, <2>3
  <2>5. f[d - 1] = {}
    BY <2>2, <2>4
  <2>6. f[d] = {}
    BY <1>2, <2>4, <2>5, NoParents
  <2> QED
    BY <2>2, <2>6
<1>8. {d \in 1..N : f[d] # {}} = 1..e - 1
  BY <1>1, <1>5, <1>6, <1>7
<1>9. Retries(c, k) = e - 1
  <2>1. Retries(c, k) = Cardinality({d \in 1..N : f[d] # {}})
    BY DEF Retries, f
  <2>2. Cardinality(1..e - 1) = e - 1
    BY <1>1, <1>5, FS_Interval
  <2> QED
    BY <1>8, <2>1, <2>2
<1>10. \A d \in 0..N : f[d] # {} <=> d <= e - 1
  BY <1>1, <1>5, <1>6, <1>7
<1> QED
  BY <1>1, <1>5, <1>9, <1>10 DEF f

(* So the loops over retryFromID end, and count what they should.          *)
LEMMA RetriesOf ==
  ASSUME NEW c, CollOK(c), Numbered(c), NEW k \in DOMAIN c.entries
  PROVE  /\ c.entries[k].from = 0 => Retries(c, k) = 0
         /\ \A p \in DOMAIN c.entries : c.entries[p].id = c.entries[k].from =>
              Retries(c, k) = Retries(c, p) + 1
<1> DEFINE N == Len(c.entries)
<1>1. c.entries \in Seq(Entry) /\ N \in Nat /\ k \in 1..N /\ DOMAIN c.entries = 1..N
  BY DEF CollOK, Collection
<1>2. ASSUME c.entries[k].from = 0
      PROVE  Retries(c, k) = 0
  <2>1. Lineage(c, k)[0] = {k} /\ Lineage(c, k)[1] = Parents(c, Lineage(c, k)[1 - 1])
    BY <1>1, LineageIs
  <2>2. Lineage(c, k)[1] = {}
    BY <1>2, <2>1, OneParent
  <2>3. 1 \in 0..N
    BY <1>1
  <2> QED
    BY <1>1, <2>2, <2>3, ChainLength
<1>3. ASSUME NEW p \in DOMAIN c.entries, c.entries[p].id = c.entries[k].from
      PROVE  Retries(c, k) = Retries(c, p) + 1
  <2> DEFINE m == Retries(c, p)
             n == Retries(c, k)
             f == Lineage(c, k)
             g == Lineage(c, p)
  <2>1. /\ m \in 0..N - 1 /\ \A d \in 0..N : g[d] # {} <=> d <= m
        /\ n \in 0..N - 1 /\ \A d \in 0..N : f[d] # {} <=> d <= n
    BY ChainLength
  <2>2. \A d \in 1..N : f[d] = g[d - 1]
    BY <1>3, LineageShift
  <2> HIDE DEF m, n, f, g
  <2>3. m + 1 \in 1..N /\ (m + 1) - 1 = m /\ m \in 0..N
    BY <1>1, <2>1
  <2>4. m + 1 <= n
    <3>1. f[m + 1] # {}
      BY <2>1, <2>2, <2>3
    <3> QED
      BY <2>1, <2>3, <3>1
  <2>5. n - 1 <= m
    <3>1. n \in 1..N /\ n - 1 \in 0..N
      BY <1>1, <2>1, <2>3, <2>4
    <3>2. f[n] # {}
      BY <2>1, <3>1
    <3>3. g[n - 1] # {}
      BY <2>2, <3>1, <3>2
    <3> QED
      BY <2>1, <3>1, <3>3
  <2>6. n = m + 1
    BY <1>1, <2>1, <2>4, <2>5
  <2> QED
    BY <2>6 DEF m, n
<1> QED
  BY <1>2, <1>3

LEMMA ChainsEnd ==
  ASSUME NEW c, CollOK(c), Numbered(c), NEW k \in DOMAIN c.entries
  PROVE  ~Endless(c, k) /\ ~Broken(c, k)
<1> DEFINE N == Len(c.entries)
<1>1. c.entries \in Seq(Entry) /\ N \in Nat /\ DOMAIN c.entries = 1..N /\ k \in 1..N
  BY DEF CollOK, Collection
<1>2. ~Endless(c, k)
  <2>1. Retries(c, k) \in 0..N - 1 /\ (Lineage(c, k)[N] # {} <=> N <= Retries(c, k))
    BY <1>1, ChainLength
  <2> QED
    BY <1>1, <2>1 DEF Endless
<1>3. ASSUME NEW d \in 0..N, NEW i \in Lineage(c, k)[d], c.entries[i].from # 0
      PROVE  HasEntry(c, c.entries[i].from)
  <2>1. i \in DOMAIN c.entries
    <3>1. i \in 1..k - d
      BY LineageBefore
    <3> QED
      BY <1>1, <3>1
  <2>2. PICK p \in 1..i - 1 : c.entries[p].id = c.entries[i].from
    BY <1>3, <2>1 DEF Numbered
  <2>3. p \in DOMAIN c.entries
    BY <1>1, <2>1
  <2> QED
    BY <2>2, <2>3, UniqueId
<1> QED
  BY <1>2, <1>3 DEF Broken

(* The number of retries of a run goes by the ids of those before it.      *)
LEMMA SameRetries ==
  ASSUME NEW c, CollOK(c), Numbered(c), NEW d, CollOK(d), Numbered(d),
         DOMAIN c.entries \subseteq DOMAIN d.entries,
         \A k \in DOMAIN c.entries : /\ d.entries[k].id = c.entries[k].id
                                     /\ d.entries[k].from = c.entries[k].from
  PROVE  \A k \in DOMAIN c.entries : Retries(d, k) = Retries(c, k)
<1> DEFINE B == {k \in DOMAIN c.entries : Retries(d, k) # Retries(c, k)}
<1>1. SUFFICES ASSUME B # {} PROVE FALSE
  OBVIOUS
<1>2. DOMAIN c.entries = 1..Len(c.entries) /\ Len(c.entries) \in Nat
  BY DEF CollOK, Collection
<1>3. PICK k \in B : \A j \in B : k <= j
  <2>1. B \in SUBSET Nat
    BY <1>2
  <2> QED
    BY <1>1, <2>1, Least
<1>4. k \in DOMAIN c.entries /\ k \in DOMAIN d.entries
  BY <1>3
<1>5. CASE c.entries[k].from = 0
  <2>1. Retries(c, k) = 0 /\ Retries(d, k) = 0
    BY <1>4, <1>5, RetriesOf
  <2> QED
    BY <1>3, <2>1
<1>6. CASE c.entries[k].from # 0
  <2>1. PICK p \in 1..k - 1 : c.entries[p].id = c.entries[k].from
    BY <1>4, <1>6 DEF Numbered
  <2>2. p \in DOMAIN c.entries /\ p \in DOMAIN d.entries /\ ~(k <= p)
    BY <1>2, <1>4, <2>1
  <2>3. Retries(d, p) = Retries(c, p)
    BY <1>3, <2>2
  <2>4. Retries(c, k) = Retries(c, p) + 1
    BY <1>4, <2>1, <2>2, RetriesOf
  <2>5. Retries(d, k) = Retries(d, p) + 1
    <3>1. d.entries[p].id = d.entries[k].from
      BY <1>4, <2>1, <2>2
    <3> QED
      BY <1>4, <2>2, <3>1, RetriesOf
  <2> QED
    BY <1>3, <2>3, <2>4, <2>5
<1> QED
  BY <1>5, <1>6

-----------------------------------------------------------------------------
(***************************************************************************)
(* Ids that are given once, and runs that are retried once.                *)
(***************************************************************************)

(* An id that is given is new; a test that is not to be retried has no     *)
(* retry; the status of an entry fits its bucket; a run is retried when it *)
(* has ended, once, and so often.                                          *)
EntryPlaced(e) ==
  /\ e.status = "Waiting" <=> e.bucket \in {"Queued", "Retry"}
  /\ e.status = "Running" <=> e.bucket = "Running"
  /\ FailureRetries = 0 => e.from = 0
NextFree(c) == FailureRetries # 0 => \A k \in DOMAIN c.entries : c.entries[k].id < c.next
RetriedOnce(c) ==
  \A k, i \in DOMAIN c.entries : c.entries[k].from # 0 =>
    /\ c.entries[k].from = c.entries[i].from => k = i
    /\ c.entries[i].id = c.entries[k].from => c.entries[i].bucket = "Completed"
Counted(c) ==
  /\ Numbered(c) /\ NextFree(c) /\ RetriedOnce(c)
  /\ \A k \in DOMAIN c.entries : EntryPlaced(c.entries[k])
  /\ \A k \in DOMAIN c.entries : Retries(c, k) <= FailureRetries

LEMMA SameNumbered ==
  ASSUME NEW c, CollOK(c), Numbered(c), NEW d, DOMAIN d.entries = DOMAIN c.entries,
         \A k \in DOMAIN c.entries :
           d.entries[k].id = c.entries[k].id /\ d.entries[k].from = c.entries[k].from
  PROVE  Numbered(d)
<1>1. DOMAIN c.entries = 1..Len(c.entries) /\ Len(c.entries) \in Nat
  BY DEF CollOK, Collection
<1>2. \A i, k \in DOMAIN d.entries : i < k => d.entries[i].id < d.entries[k].id
  BY DEF Numbered
<1>3. ASSUME NEW k \in DOMAIN d.entries, d.entries[k].from # 0
      PROVE  \E i \in 1..k - 1 : d.entries[i].id = d.entries[k].from
  <2>1. PICK i \in 1..k - 1 : c.entries[i].id = c.entries[k].from
    BY <1>3 DEF Numbered
  <2>2. i \in DOMAIN c.entries
    BY <1>1, <2>1
  <2> QED
    BY <2>1, <2>2
<1> QED
  BY <1>2, <1>3 DEF Numbered

(* A change to entries that leaves them their ids.                         *)
LEMMA StillCounted ==
  ASSUME NEW c, CollOK(c), Counted(c), NEW d, CollOK(d),
         DOMAIN d.entries = DOMAIN c.entries, d.next = c.next,
         \A k \in DOMAIN c.entries :
           /\ d.entries[k].id = c.entries[k].id /\ d.entries[k].from = c.entries[k].from
           /\ c.entries[k].bucket = "Completed" => d.entries[k].bucket = "Completed"
           /\ EntryPlaced(d.entries[k])
  PROVE  Counted(d)
<1>1. Numbered(d)
  BY SameNumbered DEF Counted
<1>2. NextFree(d)
  BY DEF Counted, NextFree
<1>3. RetriedOnce(d)
  BY DEF Counted, RetriedOnce
<1>4. ASSUME NEW k \in DOMAIN d.entries
      PROVE  Retries(d, k) <= FailureRetries
  <2>1. Retries(d, k) = Retries(c, k)
    BY <1>1, SameRetries DEF Counted
  <2> QED
    BY <2>1 DEF Counted
<1> QED
  BY <1>1, <1>2, <1>3, <1>4 DEF Counted

LEMMA SameCounted ==
  ASSUME NEW c, CollOK(c), Counted(c), NEW d, CollOK(d),
         d.entries = c.entries, d.next = c.next
  PROVE  Counted(d)
<1>1. \A k \in DOMAIN c.entries : EntryPlaced(d.entries[k])
  BY DEF Counted
<1> QED
  BY <1>1, StillCounted

(* A retry of a run that has just ended.                                   *)
LEMMA AgainCounted ==
  ASSUME NEW c, CollOK(c), Counted(c), NEW a \in DOMAIN c.entries,
         c.entries[a].bucket = "Completed", Retries(c, a) < FailureRetries,
         \A k \in DOMAIN c.entries : c.entries[k].from # c.entries[a].id
  PROVE  Counted(Again(c, c.entries[a].id))
<1> DEFINE id == c.entries[a].id
           d == Again(c, id)
           e == NewEntry(c.next, id)
           n == Len(c.entries)
<1>1. /\ c \in Collection /\ c.entries \in Seq(Entry) /\ c.next \in Nat /\ n \in Nat
      /\ DOMAIN c.entries = 1..n /\ id \in Nat \ {0}
      /\ \A k \in 1..n : c.entries[k] \in Entry
  <2>1. c \in Collection /\ c.entries \in Seq(Entry) /\ c.next \in Nat
    BY DEF CollOK, Collection
  <2>2. n \in Nat /\ DOMAIN c.entries = 1..n /\ \A k \in 1..n : c.entries[k] \in Entry
    BY <2>1
  <2>3. c.entries[a].id # 0 /\ c.entries[a] \in Entry
    BY <2>2 DEF CollOK
  <2>4. id \in Nat \ {0}
    BY <2>3 DEF Entry
  <2> QED
    BY <2>1, <2>2, <2>4
<1>2. e.id = c.next /\ e.from = id /\ e.bucket = "Retry" /\ e.status = "Waiting"
  BY <1>1 DEF NewEntry
<1>3. CollOK(d)
  BY <1>1, AgainOK
<1>4. d.entries = Append(c.entries, e) /\ d.next = c.next + 1
  BY <1>1 DEF Again, Collection
<1> HIDE DEF d, e
<1>5. /\ DOMAIN d.entries = 1..n + 1
      /\ \A k \in 1..n : d.entries[k] = c.entries[k]
      /\ d.entries[n + 1] = e
  BY <1>1, <1>4
<1>6. /\ Retries(c, a) \in Nat /\ FailureRetries \in Nat /\ FailureRetries # 0
  <2>1. Retries(c, a) \in 0..n - 1
    BY ChainLength DEF Counted
  <2> QED
    BY <1>1, <2>1, TestAssumption
<1>7. \A k \in 1..n : c.entries[k].id < c.next
  BY <1>1, <1>6 DEF Counted, NextFree
<1>8. \A k \in 1..n + 1 : k \in 1..n \/ k = n + 1
  BY <1>1
<1>9. Numbered(d)
  <2>1. ASSUME NEW i \in 1..n + 1, NEW k \in 1..n + 1, i < k
        PROVE  d.entries[i].id < d.entries[k].id
    <3>1. i \in 1..n
      BY <1>1, <2>1
    <3>2. CASE k \in 1..n
      BY <1>1, <1>5, <2>1, <3>1, <3>2 DEF Counted, Numbered
    <3>3. CASE k = n + 1
      BY <1>2, <1>5, <1>7, <3>1, <3>3
    <3> QED
      BY <1>8, <3>2, <3>3
  <2>2. ASSUME NEW k \in 1..n + 1, d.entries[k].from # 0
        PROVE  \E i \in 1..k - 1 : d.entries[i].id = d.entries[k].from
    <3>1. CASE k \in 1..n
      <4>1. PICK i \in 1..k - 1 : c.entries[i].id = c.entries[k].from
        BY <1>1, <1>5, <2>2, <3>1 DEF Counted, Numbered
      <4>2. i \in 1..n
        BY <1>1, <3>1, <4>1
      <4> QED
        BY <1>5, <3>1, <4>1, <4>2
    <3>2. CASE k = n + 1
      <4>1. a \in 1..k - 1 /\ a \in 1..n
        BY <1>1, <3>2
      <4> QED
        BY <1>2, <1>5, <3>2, <4>1
    <3> QED
      BY <1>8, <3>1, <3>2
  <2> QED
    BY <1>5, <2>1, <2>2 DEF Numbered
<1>10. NextFree(d)
  <2>1. ASSUME NEW k \in 1..n + 1
        PROVE  d.entries[k].id < c.next + 1
    <3>1. CASE k \in 1..n
      <4>1. c.entries[k].id \in Nat
        BY <1>1, <3>1 DEF Entry
      <4> QED
        BY <1>1, <1>5, <1>7, <3>1, <4>1
    <3>2. CASE k = n + 1
      BY <1>1, <1>2, <1>5, <3>2
    <3> QED
      BY <1>8, <3>1, <3>2
  <2> QED
    BY <1>4, <1>5, <2>1 DEF NextFree
<1>11. RetriedOnce(d)
  <2>1. ASSUME NEW k \in 1..n + 1, NEW i \in 1..n + 1, d.entries[k].from # 0
        PROVE  /\ d.entries[k].from = d.entries[i].from => k = i
               /\ d.entries[i].id = d.entries[k].from => d.entries[i].bucket = "Completed"
    <3>1. CASE k \in 1..n /\ i \in 1..n
      <4>1. /\ k \in DOMAIN c.entries /\ i \in DOMAIN c.entries
            /\ d.entries[k] = c.entries[k] /\ d.entries[i] = c.entries[i]
        BY <1>1, <1>5, <3>1
      <4>2. RetriedOnce(c) /\ c.entries[k].from # 0
        BY <2>1, <4>1 DEF Counted
      <4>3. /\ c.entries[k].from = c.entries[i].from => k = i
            /\ c.entries[i].id = c.entries[k].from => c.entries[i].bucket = "Completed"
        BY <4>1, <4>2 DEF RetriedOnce
      <4> QED
        BY <4>1, <4>3
    <3>2. CASE k \in 1..n /\ i = n + 1
      <4>1. PICK p \in 1..k - 1 : c.entries[p].id = c.entries[k].from
        BY <1>1, <1>5, <2>1, <3>2 DEF Counted, Numbered
      <4>2. p \in 1..n
        BY <1>1, <3>2, <4>1
      <4>3. c.entries[p].id < c.next /\ ~(c.next < c.next)
        BY <1>1, <1>7, <4>2
      <4>4. c.entries[p].id # c.next
        BY <4>3
      <4>5. d.entries[k].from = c.entries[k].from /\ d.entries[i] = e
        BY <1>5, <3>2
      <4>6. d.entries[i].id = c.next /\ d.entries[i].from = id
        BY <1>2, <4>5
      <4>7. c.entries[k].from # id
        BY <1>1, <3>2
      <4> QED
        BY <4>1, <4>4, <4>5, <4>6, <4>7
    <3>3. CASE k = n + 1 /\ i \in 1..n
      <4>1. d.entries[i].id = id => i = a
        <5>1. d.entries[i].id = c.entries[i].id
          BY <1>5, <3>3
        <5>2. c.entries[i].id = id => Latest(c, id) = i
          BY <1>1, <3>3, UniqueId DEF Counted
        <5>3. Latest(c, id) = a
          BY UniqueId DEF Counted
        <5> QED
          BY <5>1, <5>2, <5>3
      <4> QED
        BY <1>1, <1>2, <1>5, <3>3, <4>1
    <3>4. CASE k = n + 1 /\ i = n + 1
      BY <1>1, <1>2, <1>5, <1>7, <3>4
    <3> QED
      BY <1>8, <3>1, <3>2, <3>3, <3>4
  <2> QED
    BY <1>5, <2>1 DEF RetriedOnce
<1>12. \A k \in 1..n + 1 : EntryPlaced(d.entries[k])
  <2>1. EntryPlaced(e)
    BY <1>2, <1>6 DEF EntryPlaced
  <2> QED
    BY <1>1, <1>5, <1>8, <2>1 DEF Counted
<1>13. ASSUME NEW k \in 1..n + 1
       PROVE  Retries(d, k) <= FailureRetries
  <2>1. \A i \in 1..n : Retries(d, i) = Retries(c, i)
    <3>1. DOMAIN c.entries \subseteq DOMAIN d.entries
      BY <1>1, <1>5
    <3> QED
      BY <1>1, <1>3, <1>5, <1>9, <3>1, SameRetries DEF Counted
  <2>2. CASE k \in 1..n
    BY <1>1, <2>1, <2>2 DEF Counted
  <2>3. CASE k = n + 1
    <3>1. /\ a \in DOMAIN d.entries /\ k \in DOMAIN d.entries
          /\ d.entries[a].id = d.entries[k].from
      BY <1>1, <1>2, <1>5, <2>3
    <3>2. Retries(d, k) = Retries(d, a) + 1
      BY <1>3, <1>9, <3>1, RetriesOf
    <3> QED
      BY <1>1, <1>6, <2>1, <3>2
  <2> QED
    BY <1>8, <2>2, <2>3
<1> QED
  BY <1>5, <1>9, <1>10, <1>11, <1>12, <1>13 DEF Counted, d

(* The running entry of a Job's id is found among those that run.          *)
LEMMA OfRunning ==
  ASSUME NEW c, CollOK(c), Numbered(c), NEW j, HasEntry(c, j.id),
         c.entries[Latest(c, j.id)].bucket = "Running"
  PROVE  Of(c, j) # <<>> /\ Head(Of(c, j)) = Latest(c, j.id)
<1> DEFINE a == Latest(c, j.id)
           I == {i \in DOMAIN c.active : c.entries[c.active[i]].id = j.id}
           K == {c.active[i] : i \in I}
<1>1. a \in In(c, "Running") /\ c.entries[a].id = j.id
  BY LatestIsThere DEF In
<1>2. Enumerates(c.active, In(c, "Running"))
  BY DEF CollOK
<1>3. Enumerates(Of(c, j), K)
  <2>1. I \in SUBSET DOMAIN c.active
    OBVIOUS
  <2> QED
    BY <1>2, <2>1, OnlyEnumerates DEF Of
<1>4. a \in K
  BY <1>1, <1>2 DEF Enumerates
<1>5. ASSUME NEW k \in K
      PROVE  k = a
  <2>1. PICK i \in DOMAIN c.active : k = c.active[i] /\ c.entries[k].id = j.id
    BY <1>5
  <2>2. k \in DOMAIN c.entries
    BY <1>2, <2>1 DEF Enumerates, In
  <2> QED
    BY <2>1, <2>2, UniqueId
<1> HIDE DEF a, K
<1>6. Of(c, j) # <<>>
  BY <1>3, <1>4 DEF Enumerates
<1>7. Head(Of(c, j)) \in K
  BY <1>3, <1>6, TailEnumerates
<1> QED
  BY <1>5, <1>6, <1>7 DEF a

(* A Job that has ended marks its entry, and changes nothing else.         *)
LEMMA MarkedEntries ==
  ASSUME NEW c, CollOK(c), NEW j, HasEntry(c, j.id)
  PROVE  LET m == Marked(c, j)
             a == Latest(c, j.id)
         IN  /\ m.next = c.next /\ DOMAIN m.entries = DOMAIN c.entries
             /\ m.entries[a].status \in {"Complete", "Expired"}
             /\ \A k \in DOMAIN c.entries :
                  /\ m.entries[k].id = c.entries[k].id
                  /\ m.entries[k].from = c.entries[k].from
                  /\ m.entries[k].bucket = c.entries[k].bucket
                  /\ k # a => m.entries[k] = c.entries[k]
<1> DEFINE a == Latest(c, j.id)
           s == IF j.state = "done" THEN "Complete" ELSE "Expired"
           m == Marked(c, j)
<1>1. c \in Collection /\ c.entries \in Seq(Entry) /\ a \in DOMAIN c.entries
  BY LatestIsThere DEF CollOK, Collection
<1>2. c.entries[a] \in Entry /\ s \in {"Complete", "Expired"}
  BY <1>1
<1>3. m = [c EXCEPT !.entries[a].status = s]
  BY DEF Marked
<1> HIDE DEF a, s, m
<1>4. /\ m.next = c.next
      /\ m.entries = [c.entries EXCEPT ![a] = [c.entries[a] EXCEPT !.status = s]]
  BY <1>1, <1>3 DEF Collection
<1>5. DOMAIN m.entries = DOMAIN c.entries /\ m.entries[a].status = s
  BY <1>1, <1>2, <1>4 DEF Entry
<1>6. ASSUME NEW k \in DOMAIN c.entries
      PROVE  /\ m.entries[k].id = c.entries[k].id
             /\ m.entries[k].from = c.entries[k].from
             /\ m.entries[k].bucket = c.entries[k].bucket
             /\ k # a => m.entries[k] = c.entries[k]
  BY <1>1, <1>2, <1>4 DEF Entry
<1> QED
  BY <1>2, <1>4, <1>5, <1>6 DEF a, m

LEMMA FinishedEntries ==
  ASSUME NEW c, CollOK(c), NEW a \in DOMAIN c.entries, NEW result \in {"pass", "fail"}
  PROVE  LET f == Finished(c, a, result)
         IN  /\ f.next = c.next /\ DOMAIN f.entries = DOMAIN c.entries
             /\ f.entries[a].status = c.entries[a].status
             /\ f.entries[a].bucket = "Completed"
             /\ \A k \in DOMAIN c.entries :
                  /\ f.entries[k].id = c.entries[k].id
                  /\ f.entries[k].from = c.entries[k].from
                  /\ k # a => f.entries[k] = c.entries[k]
<1> DEFINE f == Finished(c, a, result)
           e == [c.entries[a] EXCEPT !.bucket = "Completed", !.result = result]
<1>1. c \in Collection /\ c.entries \in Seq(Entry) /\ c.entries[a] \in Entry
  BY DEF CollOK, Collection
<1>2. f.next = c.next /\ f.entries = [c.entries EXCEPT ![a] = e]
  BY <1>1 DEF Finished, Collection
<1>3. /\ e.id = c.entries[a].id /\ e.from = c.entries[a].from
      /\ e.status = c.entries[a].status /\ e.bucket = "Completed"
  BY <1>1 DEF Entry
<1> HIDE DEF e, f
<1> QED
  BY <1>2, <1>3 DEF f

(* The end of a run: its entry is found, the loops over its retries end,   *)
(* and it is retried at most so often, under an id that is new.            *)
LEMMA ExaminedCounted ==
  ASSUME NEW c, CollOK(c), Counted(c), NEW j, HasEntry(c, j.id), IsRunning(c, j)
  PROVE  LET m == Marked(c, j)
             a == Latest(c, j.id)
         IN  /\ CollOK(m) /\ Of(m, j) # <<>> /\ Head(Of(m, j)) = a
             /\ a \in In(m, "Running")
             /\ ~Endless(m, a) /\ ~Broken(m, a)
             /\ \A result \in {"pass", "fail"} : Counted(Ended(m, a, result))
<1> DEFINE m == Marked(c, j)
           a == Latest(c, j.id)
<1>1. a \in DOMAIN c.entries /\ c.entries[a].id = j.id /\ c.entries[a].bucket = "Running"
  <2>1. a \in DOMAIN c.entries /\ c.entries[a].id = j.id
    BY LatestIsThere
  <2> QED
    BY <2>1 DEF Counted, EntryPlaced, IsRunning
<1>2. CollOK(m)
  BY MarkedOK
<1>3. /\ m.next = c.next /\ DOMAIN m.entries = DOMAIN c.entries
      /\ m.entries[a].status \in {"Complete", "Expired"}
      /\ \A k \in DOMAIN c.entries :
           /\ m.entries[k].id = c.entries[k].id
           /\ m.entries[k].from = c.entries[k].from
           /\ m.entries[k].bucket = c.entries[k].bucket
           /\ k # a => m.entries[k] = c.entries[k]
  BY MarkedEntries
<1> HIDE DEF m, a
<1>4. Numbered(m)
  BY <1>3, SameNumbered DEF Counted
<1>5. HasEntry(m, j.id) /\ Latest(m, j.id) = a
  BY <1>1, <1>2, <1>3, <1>4, UniqueId
<1>6. Of(m, j) # <<>> /\ Head(Of(m, j)) = a /\ a \in In(m, "Running")
  BY <1>1, <1>2, <1>3, <1>4, <1>5, OfRunning DEF In
<1>7. ~Endless(m, a) /\ ~Broken(m, a)
  BY <1>1, <1>2, <1>3, <1>4, ChainsEnd
<1>8. ASSUME NEW result \in {"pass", "fail"}
      PROVE  Counted(Ended(m, a, result))
  <2> DEFINE f == Finished(m, a, result)
             id == m.entries[a].id
  <2>1. CollOK(f)
    BY <1>2, <1>6, FinishedOK
  <2>2. /\ f.next = c.next /\ DOMAIN f.entries = DOMAIN c.entries
        /\ f.entries[a].status \in {"Complete", "Expired"}
        /\ f.entries[a].bucket = "Completed"
        /\ \A k \in DOMAIN c.entries :
             /\ f.entries[k].id = c.entries[k].id
             /\ f.entries[k].from = c.entries[k].from
             /\ k # a => f.entries[k] = c.entries[k]
    <3>1. a \in DOMAIN m.entries
      BY <1>1, <1>3
    <3> QED
      BY <1>2, <1>3, <3>1, FinishedEntries
  <2>3. Ended(m, a, result) = IF result = "fail" /\ Retried(m, a) THEN Again(f, id) ELSE f
    <3>1. f.next = m.next /\ Len(f.entries) = Len(m.entries)
      <4>1. m \in Collection /\ m.entries \in Seq(Entry) /\ a \in DOMAIN m.entries
        BY <1>1, <1>2, <1>3 DEF CollOK, Collection
      <4> QED
        BY <4>1 DEF Finished, Collection
    <3> QED
      BY <3>1 DEF Ended, Again, Finished
  <2> HIDE DEF f
  <2>4. Counted(f)
    <3>1. ASSUME NEW k \in DOMAIN c.entries
          PROVE  /\ c.entries[k].bucket = "Completed" => f.entries[k].bucket = "Completed"
                 /\ EntryPlaced(f.entries[k])
      <4>1. EntryPlaced(c.entries[k])
        BY DEF Counted
      <4>2. CASE k = a
        BY <2>2, <4>1, <4>2 DEF EntryPlaced
      <4>3. CASE k # a
        BY <2>2, <4>1, <4>3
      <4> QED
        BY <4>2, <4>3
    <3> QED
      BY <2>1, <2>2, <3>1, StillCounted
  <2>5. ASSUME Retried(m, a)
        PROVE  Counted(Again(f, id))
    <3>1. id = f.entries[a].id /\ id = c.entries[a].id
      BY <1>1, <1>3, <2>2
    <3>2. Retries(f, a) < FailureRetries
      <4>1. Retries(m, a) = Retries(c, a)
        BY <1>1, <1>2, <1>3, <1>4, SameRetries DEF Counted
      <4>2. Retries(f, a) = Retries(c, a)
        BY <1>1, <2>1, <2>2, <2>4, SameRetries DEF Counted
      <4> QED
        BY <2>5, <4>1, <4>2 DEF Retried
    <3>3. ASSUME NEW k \in DOMAIN c.entries, c.entries[k].from = id
          PROVE  FALSE
      <4>1. id # 0
        BY <1>1, <3>1 DEF CollOK
      <4>2. RetriedOnce(c) /\ c.entries[a].id = c.entries[k].from
        BY <3>1, <3>3 DEF Counted
      <4>3. c.entries[a].bucket = "Completed"
        BY <1>1, <3>3, <4>1, <4>2 DEF RetriedOnce
      <4> QED
        BY <1>1, <4>3
    <3>4. \A k \in DOMAIN f.entries : f.entries[k].from # f.entries[a].id
      BY <2>2, <3>1, <3>3
    <3>5. a \in DOMAIN f.entries /\ f.entries[a].bucket = "Completed"
      BY <1>1, <2>2
    <3> QED
      BY <2>1, <2>4, <3>1, <3>2, <3>4, <3>5, AgainCounted
  <2> QED
    BY <2>3, <2>4, <2>5
<1> QED
  BY <1>2, <1>6, <1>7, <1>8 DEF m, a

LEMMA StartedCounted ==
  ASSUME NEW c, CollOK(c), Counted(c), NEW k \in In(c, "Queued") \cup In(c, "Retry")
  PROVE  Counted(Started(c, k))
<1> DEFINE d == Started(c, k)
           e == [c.entries[k] EXCEPT !.status = "Running", !.bucket = "Running"]
<1>1. /\ c \in Collection /\ c.entries \in Seq(Entry) /\ k \in DOMAIN c.entries
      /\ c.entries[k] \in Entry /\ c.entries[k].bucket # "Completed"
  BY DEF CollOK, Collection, In
<1>2. CollOK(d)
  BY StartedOK
<1>3. d.entries = [c.entries EXCEPT ![k] = e] /\ d.next = c.next
  BY <1>1 DEF Started, Taken, Collection
<1>4. /\ e.id = c.entries[k].id /\ e.from = c.entries[k].from
      /\ e.status = "Running" /\ e.bucket = "Running"
  BY <1>1 DEF Entry
<1> HIDE DEF d, e
<1>5. ASSUME NEW i \in DOMAIN c.entries
      PROVE  /\ d.entries[i].id = c.entries[i].id /\ d.entries[i].from = c.entries[i].from
             /\ c.entries[i].bucket = "Completed" => d.entries[i].bucket = "Completed"
             /\ EntryPlaced(d.entries[i])
  <2>1. EntryPlaced(c.entries[i]) /\ d.entries[i] = IF i = k THEN e ELSE c.entries[i]
    BY <1>1, <1>3 DEF Counted
  <2>2. CASE i = k
    BY <1>1, <1>4, <2>1, <2>2 DEF EntryPlaced
  <2>3. CASE i # k
    BY <2>1, <2>3
  <2> QED
    BY <2>2, <2>3
<1>6. DOMAIN d.entries = DOMAIN c.entries
  BY <1>1, <1>3
<1> QED
  BY <1>2, <1>3, <1>5, <1>6, StillCounted DEF d

LEMMA RequeuedCounted ==
  ASSUME NEW c, CollOK(c), Counted(c), NEW k \in In(c, "Queued") \cup In(c, "Retry")
  PROVE  Counted(Requeued(c, k))
<1>1. Requeued(c, k).entries = c.entries /\ Requeued(c, k).next = c.next
  BY DEF Requeued, Taken, CollOK, Collection
<1> QED
  BY <1>1, RequeuedOK, SameCounted

LEMMA FieldsCounted ==
  ASSUME NEW c, CollOK(c), Counted(c)
  PROVE  Counted(Primary(c)) /\ Counted(Promoted(c)) /\ Counted(Completed(c))
<1>1. \A d \in {Primary(c), Promoted(c), Completed(c)} :
        d.entries = c.entries /\ d.next = c.next
  BY DEF Primary, Promoted, Completed, CollOK, Collection
<1> QED
  BY <1>1, FieldsOK, SameCounted

(* Tests that have not been retried.                                       *)
LEMMA FirstRuns ==
  ASSUME NEW c, CollOK(c), \A k \in DOMAIN c.entries : c.entries[k].from = 0,
         \A i, k \in DOMAIN c.entries : i < k => c.entries[i].id < c.entries[k].id,
         NextFree(c), \A k \in DOMAIN c.entries : EntryPlaced(c.entries[k])
  PROVE  Counted(c)
<1>1. Numbered(c) /\ RetriedOnce(c)
  BY DEF Numbered, RetriedOnce
<1>2. \A k \in DOMAIN c.entries : Retries(c, k) <= FailureRetries
  BY <1>1, RetriesOf, TestAssumption
<1> QED
  BY <1>1, <1>2 DEF Counted

LEMMA NewCounted ==
  ASSUME NEW n \in Nat \ {0}, NEW date \in Nat
  PROVE  Counted(NewCollection(n, date)) /\ Counted(NoCollection)
<1> DEFINE c == NewCollection(n, date)
<1>1. /\ c.next = n + 1 /\ c.entries = [i \in 1..n |-> NewEntry(i, 0)]
      /\ NoCollection.entries = <<>>
  BY DEF NewCollection, Fresh, NoCollection
<1>2. CollOK(c) /\ CollOK(NoCollection)
  BY NewCollectionOK, NothingOK
<1> HIDE DEF c
<1>3. /\ DOMAIN c.entries = 1..n
      /\ \A k \in 1..n : /\ c.entries[k].id = k /\ c.entries[k].from = 0
                         /\ c.entries[k].status = "Waiting"
                         /\ c.entries[k].bucket = "Queued"
  BY <1>1 DEF NewEntry
<1>4. NextFree(c) /\ \A k \in DOMAIN c.entries : EntryPlaced(c.entries[k])
  BY <1>1, <1>3 DEF NextFree, EntryPlaced
<1>5. Counted(c)
  <2>1. \A i, k \in DOMAIN c.entries : i < k => c.entries[i].id < c.entries[k].id
    BY <1>3
  <2> QED
    BY <1>2, <1>3, <1>4, <2>1, FirstRuns
<1>6. Counted(NoCollection)
  <2>1. DOMAIN NoCollection.entries = {}
    BY <1>1
  <2>2. NextFree(NoCollection)
    BY <2>1 DEF NextFree
  <2> QED
    BY <1>2, <2>1, <2>2, FirstRuns
<1> QED
  BY <1>5, <1>6 DEF c

-----------------------------------------------------------------------------
(***************************************************************************)
(* The files say of an entry what the memory said.                         *)
(***************************************************************************)

FilePlaced(f) == \A e \in f.shallow : EntryPlaced(e)

LEMMA FiledPlaced ==
  ASSUME CollsInv, DirtyInv, NEW u \in Uid, Counted(coll[u]), FilePlaced(saved[u]),
         NEW some \in SUBSET dirty, NEW torn
  PROVE  FilePlaced(Filed(u, some, torn))
<1> DEFINE c == coll[u]
           ids == {d.id : d \in {e \in some : e.uid = u /\ e.kind = "shallow"}}
           now == {c.entries[Latest(c, id)] : id \in ids}
<1>1. CollOK(c) /\ c.entries \in Seq(Entry)
  BY DEF CollsInv, CollOK, Collection
<1>2. ASSUME NEW e \in now
      PROVE  EntryPlaced(Shallow(e))
  <2>1. PICK d \in some : d.uid = u /\ d.kind = "shallow" /\ e = c.entries[Latest(c, d.id)]
    BY <1>2
  <2>2. HasEntry(c, d.id)
    BY <2>1 DEF DirtyInv, NotedOK
  <2>3. e \in Entry /\ EntryPlaced(e)
    BY <1>1, <2>1, <2>2, LatestIsThere DEF Counted
  <2>4. /\ Shallow(e).status = e.status /\ Shallow(e).bucket = e.bucket
        /\ Shallow(e).from = e.from
    BY <2>3 DEF Shallow, Entry
  <2> QED
    BY <2>3, <2>4 DEF EntryPlaced
<1>3. ASSUME NEW e \in Filed(u, some, torn).shallow
      PROVE  e \in saved[u].shallow \/ \E g \in now : e = Shallow(g)
  BY DEF Filed
<1> QED
  BY <1>2, <1>3 DEF FilePlaced

(* Without retries, what is loaded is as it was.                           *)
LEMMA LoadedCounted ==
  ASSUME NEW f, FileOK(f), FilePlaced(f), FailureRetries = 0
  PROVE  Counted(Loaded(f))
<1> DEFINE S == f.shallow
           key == [e \in S |-> e.id]
           list == InOrder(S, key)
           Result(id) == {r \in f.result : r[1] = id}
           result(id) == IF Result(id) = {} THEN "none"
                         ELSE (CHOOSE r \in Result(id) : TRUE)[2]
           c == Loaded(f)
<1>1. CollOK(c) /\ c.entries = Entries(f)
  BY LoadedOK DEF Loaded, Collected
<1>2. /\ S \in SUBSET Entry /\ IsFiniteSet(S)
      /\ \A e \in S : e.id \in Nat /\ key[e] = e.id
      /\ \A e, g \in S : e.id = g.id => e = g
  BY DEF FileOK, Entry
<1>3. /\ \A e \in S : key[e] \in Int
      /\ \A e, g \in S : key[e] = key[g] => e = g
  BY <1>2
<1>4. Entries(f) = [k \in DOMAIN list |->
                      [list[k] EXCEPT !.result = result(list[k].id)]]
  BY DEF Entries
<1>5. FilePlaced(f) <=> \A e \in S : EntryPlaced(e)
  BY DEF FilePlaced
<1> HIDE DEF S, key, result
<1>6. /\ list \in Seq(S)
      /\ \A i, k \in DOMAIN list : i < k => key[list[i]] < key[list[k]]
  BY <1>2, <1>3, InOrderSorts
<1> HIDE DEF list, c
<1>7. ASSUME NEW k \in DOMAIN list
      PROVE  /\ list[k] \in S
             /\ c.entries[k].id = list[k].id /\ c.entries[k].from = 0
             /\ EntryPlaced(c.entries[k])
  <2>1. list[k] \in S
    BY <1>6
  <2>2. list[k] \in Entry /\ EntryPlaced(list[k])
    BY <1>2, <1>5, <2>1
  <2>3. c.entries[k] = [list[k] EXCEPT !.result = result(list[k].id)]
    BY <1>1, <1>4
  <2>4. /\ c.entries[k].id = list[k].id /\ c.entries[k].from = list[k].from
        /\ c.entries[k].status = list[k].status /\ c.entries[k].bucket = list[k].bucket
    BY <2>2, <2>3 DEF Entry
  <2> QED
    BY <2>1, <2>2, <2>4 DEF EntryPlaced
<1>8. DOMAIN c.entries = DOMAIN list
  BY <1>1, <1>4
<1>9. \A i, k \in DOMAIN c.entries : i < k => c.entries[i].id < c.entries[k].id
  BY <1>2, <1>6, <1>7, <1>8
<1>10. NextFree(c)
  BY DEF NextFree
<1> QED
  BY <1>1, <1>7, <1>8, <1>9, <1>10, FirstRuns DEF c

-----------------------------------------------------------------------------
(***************************************************************************)
(* Ids are given once while the operator is not killed, and when tests are *)
(* not retried.  (A restart takes back the number of the next id, which is *)
(* not written with the entry that has it: see the run test_ids.)          *)
(***************************************************************************)
Once == MaxRestarts = 0 \/ FailureRetries = 0

(* The worker never hangs, and counts what there is to count.              *)
IdsInv ==
  /\ \A u \in Uid : Counted(coll[u]) /\ FilePlaced(saved[u])
  /\ restarts \in 0..MaxRestarts
  /\ MaxRestarts = 0 => ~At("down")
  /\ ~At("hung")

(* A step that changes one collection, and no file.                        *)
LEMMA OneCounted ==
  ASSUME ListsInv, IdsInv, NEW u, NEW d, Counted(d), coll' = [coll EXCEPT ![u] = d],
         UNCHANGED <<saved, restarts>>, worker'.at \notin {"down", "hung"}
  PROVE  IdsInv'
<1>1. \A v \in Uid : Counted(coll'[v])
  BY DEF IdsInv, ListsInv, CollsInv
<1> QED
  BY <1>1 DEF IdsInv, At

LEMMA NoneCounted ==
  ASSUME IdsInv, UNCHANGED <<coll, saved, restarts>>, worker'.at \notin {"down", "hung"}
  PROVE  IdsInv'
BY DEF IdsInv, At

LEMMA FinishTurnCounted ==
  ASSUME ListsInv, IdsInv, NEW c, CollOK(c), Counted(c), NEW noted, NEW changed,
         FinishTurn(c, noted, changed), UNCHANGED <<saved, restarts>>
  PROVE  IdsInv'
<1> DEFINE d == IF worker.index = 1 /\ ~c.started THEN Primary(c) ELSE c
<1>1. coll' = [coll EXCEPT ![Current] = d]
  BY DEF FinishTurn
<1>2. Counted(d)
  BY FieldsCounted
<1>3. worker'.at = "pass"
  BY DEF FinishTurn, Idle
<1> HIDE DEF d
<1> QED
  BY <1>1, <1>2, <1>3, OneCounted

LEMMA CurrentCounted ==
  ASSUME ListsInv, IdsInv, HasTurn \/ worker.at \in Turn
  PROVE  /\ worker.index \in DOMAIN running /\ Current \in Uid
         /\ CollOK(coll[Current]) /\ Counted(coll[Current])
<1>1. DataInv /\ WorkInv
  BY DEF ListsInv, DataInv
<1>2. worker.index \in DOMAIN running
  <2>1. CASE HasTurn
    <3>1. worker.index \in Nat /\ worker.index # 0 /\ worker.index <= Len(running)
      BY <1>1, <2>1 DEF WorkInv, WorkerOK, HasTurn
    <3>2. running \in Seq({u \in Uid : coll[u].bucket = "Running"})
      BY <1>1 DEF DataInv, LineInv, Enumerates
    <3> QED
      BY <3>1, <3>2
  <2>2. CASE worker.at \in Turn
    BY <1>1, <2>2 DEF WorkInv
  <2> QED
    BY <2>1, <2>2
<1> QED
  BY <1>1, <1>2, CurrentRuns DEF IdsInv

(* What is found of a Job to be examined.                                  *)
LEMMA ExaminedRun ==
  ASSUME ListsInv, IdsInv, At("examine"), NEW j \in worker.todo,
         IsRunning(coll[Current], j)
  PROVE  LET m == Marked(coll[Current], j)
         IN  /\ CollOK(m) /\ Of(m, j) # <<>> /\ Head(Of(m, j)) \in In(m, "Running")
             /\ Head(Of(m, j)) = Latest(coll[Current], j.id)
             /\ ~Endless(m, Head(Of(m, j))) /\ ~Broken(m, Head(Of(m, j)))
             /\ \A result \in {"pass", "fail"} :
                  Counted(Ended(m, Head(Of(m, j)), result))
<1>1. CollOK(coll[Current]) /\ Counted(coll[Current]) /\ HasEntry(coll[Current], j.id)
  BY CurrentCounted DEF At, Turn, ListsInv, WorkInv
<1> QED
  BY <1>1, ExaminedCounted

LEMMA ExamineCounted ==
  ASSUME ListsInv, IdsInv, NEW j \in worker.todo, Examine(j)
  PROVE  IdsInv'
<1> DEFINE m == Marked(coll[Current], j)
           a == Head(Of(m, j))
<1>1. At("examine") /\ DOMAIN worker = DOMAIN Idle
  BY DEF Examine, ExamineAgain, ExamineJob, ExamineHangs, ListsInv, WorkInv, WorkerOK
<1>2. CASE ExamineAgain(j)
  <2>1. worker'.at = "examine"
    BY <1>1, <1>2 DEF ExamineAgain, At, Idle
  <2> QED
    BY <1>2, <2>1, NoneCounted DEF ExamineAgain, memory
<1>3. CASE ExamineHangs(j)
  BY <1>1, <1>3, ExaminedRun DEF ExamineHangs
<1>4. CASE ExamineJob(j)
  <2>1. /\ Of(m, j) # <<>>
        /\ \A result \in {"pass", "fail"} : Counted(Ended(m, a, result))
    BY <1>1, <1>4, ExaminedRun DEF ExamineJob
  <2>2. PICK result \in Outcomes(j) :
          coll' = [coll EXCEPT ![Current] = IF Of(m, j) # <<>> THEN Ended(m, a, result) ELSE m]
    BY <1>4 DEF ExamineJob
  <2>3. result \in {"pass", "fail"}
    BY DEF Outcomes, Verdict
  <2>4. worker'.at = "examine" /\ UNCHANGED <<saved, restarts>>
    BY <1>1, <1>4 DEF ExamineJob, At, Idle
  <2> HIDE DEF m, a
  <2> QED
    BY <2>1, <2>2, <2>3, <2>4, OneCounted
<1> QED
  BY <1>2, <1>3, <1>4 DEF Examine

LEMMA TurnCounted ==
  ASSUME ListsInv, IdsInv, ListJobs \/ ListFails \/ Examined
  PROVE  IdsInv'
<1>1. CollOK(coll[Current]) /\ Counted(coll[Current]) /\ DOMAIN worker = DOMAIN Idle
  BY CurrentCounted DEF ListJobs, ListFails, Examined, At, Turn, ListsInv, WorkInv, WorkerOK
<1>2. CASE ListJobs
  <2>1. worker'.at \in {"start", "examine"}
    BY <1>1, <1>2 DEF ListJobs, Idle
  <2> QED
    BY <1>2, <2>1, NoneCounted DEF ListJobs, memory
<1>3. CASE ListFails
  BY <1>1, <1>3, FinishTurnCounted DEF ListFails
<1>4. CASE Examined
  <2>1. CASE worker.touched
    BY <1>1, <1>4, <2>1, FinishTurnCounted DEF Examined
  <2>2. CASE ~worker.touched
    <3>1. worker'.at = "start" /\ UNCHANGED <<coll, saved, restarts>>
      BY <1>1, <1>4, <2>2 DEF Examined, Goto, Idle
    <3> QED
      BY <3>1, NoneCounted
  <2> QED
    BY <2>1, <2>2
<1> QED
  BY <1>2, <1>3, <1>4

LEMMA StartCounted ==
  ASSUME ListsInv, IdsInv, Start
  PROVE  IdsInv'
<1> DEFINE c == coll[Current]
           k == Head(Startable(c))
<1>1. worker.at = "start" /\ DOMAIN worker = DOMAIN Idle
  BY DEF Start, StartTest, StartFails, StartUnacknowledged, StartNoMore, MayStart, At,
     ListsInv, WorkInv, WorkerOK
<1>2. CollOK(c) /\ Counted(c)
  BY <1>1, CurrentCounted DEF Turn
<1>3. MayStart => k \in In(c, "Queued") \cup In(c, "Retry")
  BY <1>2, StartableIn DEF MayStart
<1>4. CASE StartTest
  <2>1. /\ MayStart /\ coll' = [coll EXCEPT ![Current] = Started(c, k)]
        /\ worker' = [worker EXCEPT !.slots = @ - 1, !.touched = TRUE]
        /\ UNCHANGED <<saved, restarts>>
    BY <1>4 DEF StartTest, Started
  <2>2. Counted(Started(c, k)) /\ worker'.at = "start"
    BY <1>1, <1>2, <1>3, <2>1, StartedCounted DEF Idle
  <2> HIDE DEF c, k
  <2> QED
    BY <2>1, <2>2, OneCounted
<1>5. CASE StartFails \/ StartUnacknowledged
  <2>1. MayStart /\ FinishTurn(Requeued(c, k), dirty, TRUE) /\ UNCHANGED <<saved, restarts>>
    BY <1>5 DEF StartFails, StartUnacknowledged, StartFailed
  <2>2. CollOK(Requeued(c, k)) /\ Counted(Requeued(c, k))
    BY <1>2, <1>3, <2>1, RequeuedOK, RequeuedCounted
  <2> QED
    BY <2>1, <2>2, FinishTurnCounted
<1>6. CASE StartNoMore
  BY <1>2, <1>6, FinishTurnCounted DEF StartNoMore
<1> QED
  BY <1>4, <1>5, <1>6 DEF Start

LEMMA SettledCounted ==
  ASSUME ListsInv, IdsInv,
         Promote \/ Settle \/ Publication \/ (\E u \in Uid : Reconcile(u))
  PROVE  IdsInv'
<1>1. \A u \in Uid : CollOK(coll[u]) /\ Counted(coll[u])
  BY DEF ListsInv, CollsInv, IdsInv
<1>2. DOMAIN worker = DOMAIN Idle /\ submitted \in Nat /\ worker.changed \subseteq Uid
  BY DEF ListsInv, WorkInv, WorkerOK, DateInv
<1>3. CASE Promote
  <2>1. /\ coll' = [coll EXCEPT ![Head(waiting)] = Promoted(coll[Head(waiting)])]
        /\ UNCHANGED <<saved, restarts>> /\ worker'.at = "pass"
    BY <1>3 DEF Promote, Idle
  <2>2. Head(waiting) \in Uid
    <3>1. /\ Enumerates(waiting, {u \in Uid : coll[u].bucket = "Waiting"})
          /\ waiting # <<>>
      BY <1>3 DEF Promote, MayPromote, ListsInv, LineInv
    <3>2. Head(waiting) \in {u \in Uid : coll[u].bucket = "Waiting"}
      BY <3>1, TailEnumerates
    <3> QED
      BY <3>2
  <2>3. Counted(Promoted(coll[Head(waiting)]))
    BY <1>1, <2>2, FieldsCounted
  <2> QED
    BY <2>1, <2>3, OneCounted
<1>4. CASE Settle
  <2>1. PICK gone \in SUBSET Gone :
          coll' = [u \in Uid |-> IF u \in gone THEN NoCollection
                                 ELSE IF u \in Completing THEN Completed(coll[u])
                                 ELSE coll[u]]
    BY <1>4 DEF Settle
  <2>2. worker'.at = "resolve" /\ UNCHANGED <<saved, restarts>>
    BY <1>4 DEF Settle, Idle
  <2>3. ASSUME NEW u \in Uid
        PROVE  Counted(coll'[u])
    <3>1. Counted(coll[u]) /\ Counted(Completed(coll[u])) /\ Counted(NoCollection)
      BY <1>1, FieldsCounted, NewCounted
    <3> QED
      BY <2>1, <3>1
  <2> QED
    BY <2>2, <2>3 DEF IdsInv, At
<1>5. CASE Publication
  <2>1. ASSUME NEW u \in Uid
        PROVE  ~Endlessly(coll[u])
    <3>1. ASSUME NEW i \in DOMAIN coll[u].entries
          PROVE  ~Endless(coll[u], Latest(coll[u], coll[u].entries[i].id))
      <4>1. CollOK(coll[u]) /\ Numbered(coll[u])
        BY <1>1 DEF Counted
      <4>2. Latest(coll[u], coll[u].entries[i].id) = i
        BY <4>1, UniqueId
      <4> QED
        BY <4>1, <4>2, ChainsEnd
    <3> QED
      BY <3>1 DEF Endlessly
  <2>2. \A u \in Uid : ~PublishHangs(u)
    BY <1>2, <2>1 DEF PublishHangs
  <2>3. worker'.at \in {"idle", "publish"} /\ UNCHANGED <<coll, saved, restarts>>
    <3>1. CASE \E u \in Uid : Publish(u) \/ PublishSkips(u)
      <4>1. PICK u \in Uid : Published(u) /\ UNCHANGED <<memory, saved, restarts>>
        BY <3>1 DEF Publish, PublishSkips
      <4> QED
        BY <1>2, <4>1 DEF Published, memory, Idle
    <3>2. CASE PublishFails \/ PublishNone
      BY <3>2 DEF PublishFails, PublishNone, memory, Idle
    <3> QED
      BY <1>5, <2>2, <3>1, <3>2 DEF Publication
  <2> QED
    BY <2>3, NoneCounted
<1>6. CASE \E u \in Uid : Reconcile(u)
  <2>1. PICK u \in Uid : Reconcile(u)
    BY <1>6
  <2>2. CASE Register(u)
    <3>1. /\ coll' = [coll EXCEPT ![u] = NewCollection(NumTests[u], submitted + 1)]
          /\ UNCHANGED <<saved, restarts>> /\ worker'.at = "register"
      BY <2>1, <2>2 DEF Register, Reconcile, Idle
    <3>2. NumTests[u] \in Nat \ {0} /\ submitted + 1 \in Nat
      BY <1>2, TestAssumption
    <3>3. Counted(NewCollection(NumTests[u], submitted + 1))
      BY <3>2, NewCounted
    <3> QED
      BY <3>1, <3>3, OneCounted
  <2>3. CASE worker' = [Idle EXCEPT !.at = "pass"] /\ UNCHANGED coll
    <3>1. worker'.at = "pass" /\ UNCHANGED <<saved, restarts>>
      BY <2>1, <2>3 DEF Reconcile, Idle
    <3> QED
      BY <2>3, <3>1, NoneCounted
  <2> QED
    BY <2>1, <2>2, <2>3 DEF Reconcile
<1> QED
  BY <1>3, <1>4, <1>5, <1>6

LEMMA WriteCounted ==
  ASSUME ListsInv, IdsInv, Resolve \/ Tasks
  PROVE  IdsInv'
<1>1. DOMAIN worker = DOMAIN Idle
  BY DEF ListsInv, WorkInv, WorkerOK
<1>2. FilePlaced(NoFiles)
  BY DEF NoFiles, FilePlaced
<1>3. CASE Resolve
  <2>1. PICK some \in SUBSET ToWrite, kept \in SUBSET worker.doomed :
          \E torn \in SUBSET (ToWrite \ some) : FilesAfter(some, torn, kept)
    BY <1>3 DEF Resolve
  <2>2. ASSUME NEW u \in Uid
        PROVE  FilePlaced(saved'[u])
    <3>1. PICK torn \in SUBSET (ToWrite \ some) : FilesAfter(some, torn, kept)
      BY <2>1
    <3>2. some \in SUBSET dirty
      BY DEF ToWrite
    <3>3. FilePlaced(Filed(u, some, torn))
      BY <3>2, FiledPlaced DEF ListsInv, IdsInv
    <3> QED
      BY <1>2, <3>1, <3>3 DEF FilesAfter
  <2>3. worker'.at \in {"pass", "tasks"} /\ UNCHANGED <<coll, restarts>>
    BY <1>1, <1>3 DEF Resolve, Idle
  <2> QED
    BY <2>2, <2>3 DEF IdsInv, At
<1>4. CASE CleanJobs
  <2>1. worker'.at = "prune" /\ UNCHANGED <<coll, saved, restarts>>
    BY <1>1, <1>4 DEF CleanJobs, Goto, Idle
  <2> QED
    BY <2>1, NoneCounted
<1>5. CASE PruneFiles
  <2>1. worker'.at = "publish" /\ UNCHANGED <<coll, restarts>>
    BY <1>1, <1>5 DEF PruneFiles, Goto, Idle, memory
  <2>2. saved' = [u \in Uid |-> IF Present(u) THEN saved[u] ELSE NoFiles]
    BY <1>5 DEF PruneFiles
  <2>3. ASSUME NEW u \in Uid
        PROVE  FilePlaced(saved'[u])
    BY <1>2, <2>2 DEF IdsInv
  <2> QED
    BY <2>1, <2>3 DEF IdsInv, At
<1> QED
  BY <1>3, <1>4, <1>5 DEF Tasks

(* The nil pointer is followed only where an entry is missing.             *)
LEMMA NoPanic ==
  ASSUME ListsInv, IdsInv, NEW j \in worker.todo
  PROVE  ~ExaminePanics(j)
BY ExaminedRun DEF ExaminePanics

LEMMA CrashCounted ==
  ASSUME ListsInv, IdsInv, Once, Crash \/ CrashWriting \/ Load
  PROVE  IdsInv'
<1>1. FilePlaced(NoFiles) /\ Counted(NoCollection)
  BY NewCounted DEF NoFiles, FilePlaced
<1>2. CASE Crash \/ CrashWriting
  <2>1. /\ restarts < MaxRestarts /\ restarts' = restarts + 1
        /\ coll' = [u \in Uid |-> NoCollection] /\ worker' = Down
    BY <1>2 DEF Crash, CrashWriting, Killed, Die
  <2>2. MaxRestarts # 0 /\ restarts' \in 0..MaxRestarts
    <3>1. restarts \in 0..MaxRestarts /\ MaxRestarts \in Nat
      BY TestAssumption DEF IdsInv
    <3> QED
      BY <2>1, <3>1
  <2>3. ASSUME NEW u \in Uid
        PROVE  FilePlaced(saved'[u])
    <3>1. CASE Crash
      BY <3>1 DEF Crash, IdsInv
    <3>2. CASE CrashWriting
      <4>1. PICK some \in SUBSET ToWrite, kept \in SUBSET worker.doomed :
              \E torn \in SUBSET (ToWrite \ some) : FilesAfter(some, torn, kept)
        BY <3>2 DEF CrashWriting
      <4>2. PICK torn \in SUBSET (ToWrite \ some) : FilesAfter(some, torn, kept)
        BY <4>1
      <4>3. some \in SUBSET dirty
        BY DEF ToWrite
      <4>4. FilePlaced(Filed(u, some, torn))
        BY <4>3, FiledPlaced DEF ListsInv, IdsInv
      <4> QED
        BY <1>1, <4>2, <4>4 DEF FilesAfter
    <3> QED
      BY <1>2, <3>1, <3>2
  <2>4. worker'.at = "down"
    BY <2>1 DEF Down, Idle
  <2> QED
    BY <1>1, <2>1, <2>2, <2>3, <2>4 DEF IdsInv, At
<1>3. CASE Load
  <2>1. FailureRetries = 0
    BY <1>3 DEF Once, IdsInv, Load
  <2>2. PICK found \in SUBSET Loadable :
          coll' = [u \in Uid |-> IF u \in found THEN Loaded(saved[u]) ELSE NoCollection]
    BY <1>3 DEF Load
  <2>3. worker'.at = "idle" /\ UNCHANGED <<saved, restarts>>
    BY <1>3 DEF Load, Idle
  <2>4. ASSUME NEW u \in Uid
        PROVE  Counted(coll'[u])
    <3>1. Counted(Loaded(saved[u]))
      BY <2>1, LoadedCounted DEF ListsInv, FilesInv, IdsInv
    <3> QED
      BY <1>1, <2>2, <3>1
  <2> QED
    BY <2>3, <2>4 DEF IdsInv, At
<1> QED
  BY <1>2, <1>3

LEMMA IdsStep == ASSUME Once PROVE ListsInv /\ IdsInv /\ [Next]_vars => IdsInv'
<1> SUFFICES ASSUME ListsInv, IdsInv, [Next]_vars PROVE IdsInv'
  OBVIOUS
<1>1. CASE Process
  BY <1>1, TurnCounted, ExamineCounted, StartCounted, SettledCounted, WriteCounted
     DEF Process
<1>2. CASE Load \/ Crash \/ CrashWriting
  BY <1>2, CrashCounted
<1>3. CASE Tasks \/ \E u \in Uid : Reconcile(u)
  BY <1>3, WriteCounted, SettledCounted
<1>4. CASE \E j \in worker.todo : ExaminePanics(j)
  BY <1>4, NoPanic
<1>5. CASE \/ \E u \in Uid : CreateObject(u) \/ DeleteObject(u)
           \/ \E j \in jobs : JobStep(j) \/ RemoveJob(j)
           \/ WindowPasses \/ UNCHANGED vars
  <2>1. UNCHANGED <<coll, saved, restarts, worker>>
    BY <1>5 DEF CreateObject, DeleteObject, JobStep, StartJob, FinishJob, ExpireJob, Become,
       RemoveJob, WindowPasses, operatorVars, memory, vars
  <2> QED
    BY <2>1 DEF IdsInv, At
<1> QED
  BY <1>1, <1>2, <1>3, <1>4, <1>5 DEF Next, Operator

LEMMA IdsInit == Init => IdsInv
<1> SUFFICES ASSUME Init PROVE IdsInv
  OBVIOUS
<1>1. FilePlaced(NoFiles) /\ Counted(NoCollection)
  BY NewCounted DEF NoFiles, FilePlaced
<1>2. worker.at = "idle" /\ restarts = 0 /\ MaxRestarts \in Nat
  BY TestAssumption DEF Init, Idle
<1> QED
  BY <1>1, <1>2 DEF Init, IdsInv, At


LEMMA IdsInvariant == ASSUME Once PROVE Spec => []IdsInv
<1>1. Init => ListsInv /\ IdsInv
  BY ListsInit, IdsInit
<1>2. ListsInv /\ IdsInv /\ [Next]_vars => (ListsInv /\ IdsInv)'
  BY ListsStep, IdsStep
<1> QED
  BY <1>1, <1>2, PTL DEF Spec

(* No test runs more than FailureRetries times after its first run, and no *)
(* run is retried twice: however the Jobs end, and whatever cannot be read *)
(* or written, even if two Jobs of a test end, or a Job whose creation was *)
(* not acknowledged.                                                       *)
THEOREM RetriesAreBounded == ASSUME Once PROVE Spec => []RetriesBounded
<1>1. IdsInv => RetriesBounded
  BY DEF IdsInv, Counted, RetriedOnce, RetriesBounded
<1> QED
  BY <1>1, IdsInvariant, PTL

(* The loops over retryFromID end (kouplettest_models.go:1373): the worker *)
(* never hangs in them, when a test has ended or results are published.    *)
THEOREM RetriesAreFoundOut == ASSUME Once PROVE Spec => []RetriesAreCounted
<1>1. IdsInv => RetriesAreCounted
  BY DEF IdsInv, RetriesAreCounted
<1> QED
  BY <1>1, IdsInvariant, PTL

(* Nor do they meet an entry that is not there, and follow a nil pointer.  *)
THEOREM NothingPanics ==
  ASSUME Once PROVE Spec => [][~\E j \in worker.todo : ExaminePanics(j)]_vars
<1>1. ListsInv /\ IdsInv /\ [Next]_vars => [~\E j \in worker.todo : ExaminePanics(j)]_vars
  BY NoPanic
<1> QED
  BY <1>1, ListsInvariant, IdsInvariant, PTL DEF Spec

-----------------------------------------------------------------------------
(***************************************************************************)
(* The Jobs and the entries they belong to, while the operator is not      *)
(* killed and no call to the API server fails.                             *)
(***************************************************************************)
Quiet == MaxRestarts = 0 /\ ~Fault("api")

StatusOf(c, id) == c.entries[Latest(c, id)].status

(* A Job of an existing object is the only one of its test, which has been *)
(* started, and runs while the Job does.                                   *)
JobInv ==
  \A j \in jobs :
    /\ j.uid \in born
    /\ j.uid \in alive =>
         /\ Present(j.uid) /\ HasEntry(coll[j.uid], j.id)
         /\ StatusOf(coll[j.uid], j.id) # "Waiting"
         /\ j.state # "done" => StatusOf(coll[j.uid], j.id) = "Running"
         /\ \A i \in jobs : i.uid = j.uid /\ i.id = j.id => i = j

(* What was listed is still true: a Job that was done is, and one that was *)
(* not has not been replaced by another.                                   *)
TodoInv ==
  At("examine") => \A j \in worker.todo :
    /\ j.uid = Current /\ j.state \in {"done", "overdue"}
    /\ \A i \in jobs : i.uid \in alive /\ i.uid = j.uid /\ i.id = j.id =>
         i.copy = j.copy /\ (j.state = "done" => i.state = "done")

StrayInv == JobInv /\ TodoInv

(* What becomes of a collection whose entries go on as they were.          *)
Later(c, d) ==
  c.bucket # "absent" =>
    /\ d.bucket # "absent"
    /\ \A id : HasEntry(c, id) => HasEntry(d, id) /\ StatusOf(d, id) = StatusOf(c, id)

LEMMA LaterEntries ==
  ASSUME NEW c, NEW d, d.entries = c.entries, c.bucket # "absent" => d.bucket # "absent"
  PROVE  Later(c, d)
<1>1. \A id : Index(d, id) = Index(c, id)
  BY DEF Index
<1>2. \A id : (HasEntry(d, id) <=> HasEntry(c, id)) /\ Latest(d, id) = Latest(c, id)
  BY <1>1 DEF HasEntry, Latest
<1> QED
  BY <1>2 DEF Later, StatusOf

(* Entries that are added, and one of them that changes.                   *)
LEMMA LaterMore ==
  ASSUME NEW c, CollOK(c), NEW d, CollOK(d), Numbered(d),
         DOMAIN c.entries \subseteq DOMAIN d.entries, NEW a,
         \A k \in DOMAIN c.entries :
           /\ d.entries[k].id = c.entries[k].id
           /\ k # a => d.entries[k].status = c.entries[k].status
  PROVE  \A id : HasEntry(c, id) =>
           /\ HasEntry(d, id) /\ Latest(d, id) = Latest(c, id)
           /\ Latest(c, id) # a => StatusOf(d, id) = StatusOf(c, id)
<1> SUFFICES ASSUME NEW id, HasEntry(c, id)
             PROVE  /\ HasEntry(d, id) /\ Latest(d, id) = Latest(c, id)
                    /\ Latest(c, id) # a => StatusOf(d, id) = StatusOf(c, id)
  OBVIOUS
<1>1. PICK k \in DOMAIN c.entries : k = Latest(c, id) /\ c.entries[k].id = id
  BY LatestIsThere
<1>2. k \in DOMAIN d.entries /\ d.entries[k].id = id
  BY <1>1
<1>3. HasEntry(d, id) /\ Latest(d, id) = k
  BY <1>2, UniqueId
<1> QED
  BY <1>1, <1>3 DEF StatusOf

(* Jobs that stay, or go, while entries go on as they were, but for those  *)
(* that end.                                                               *)
LEMMA JobsLater ==
  ASSUME JobInv, jobs' \subseteq jobs, alive' \subseteq alive, born' = born,
         \A j \in jobs' : j.uid \in alive =>
           /\ Present(j.uid)' /\ HasEntry(coll'[j.uid], j.id)
           /\ \/ StatusOf(coll'[j.uid], j.id) = StatusOf(coll[j.uid], j.id)
              \/ j.state = "done" /\ StatusOf(coll'[j.uid], j.id) # "Waiting"
  PROVE  JobInv'
BY DEF JobInv

LEMMA CollsLater ==
  ASSUME JobInv, jobs' \subseteq jobs, alive' \subseteq alive, born' = born,
         \A u \in alive : Later(coll[u], coll'[u])
  PROVE  JobInv'
<1>1. ASSUME NEW j \in jobs', j.uid \in alive
      PROVE  /\ Present(j.uid)' /\ HasEntry(coll'[j.uid], j.id)
             /\ StatusOf(coll'[j.uid], j.id) = StatusOf(coll[j.uid], j.id)
  BY <1>1 DEF JobInv, Later, Present
<1> QED
  BY <1>1, JobsLater

LEMMA NoTodo == ASSUME worker'.at # "examine" PROVE TodoInv'
BY DEF TodoInv, At

LEMMA FinishTurnLater ==
  ASSUME ListsInv, JobInv, NEW c, c.entries = coll[Current].entries,
         c.bucket = coll[Current].bucket, CollOK(c), NEW noted, NEW changed,
         FinishTurn(c, noted, changed), UNCHANGED <<alive, born, jobs>>
  PROVE  StrayInv'
<1> DEFINE d == IF worker.index = 1 /\ ~c.started THEN Primary(c) ELSE c
<1>1. coll' = [coll EXCEPT ![Current] = d]
  BY DEF FinishTurn
<1>2. d.entries = c.entries /\ d.bucket = c.bucket
  BY DEF Primary, CollOK, Collection
<1>3. worker'.at = "pass"
  BY DEF FinishTurn, Idle
<1> HIDE DEF d
<1>4. ASSUME NEW u \in alive
      PROVE  Later(coll[u], coll'[u])
  <2>1. u \in Uid /\ DOMAIN coll = Uid
    BY DEF ListsInv, ClusterInv, CollsInv
  <2>2. coll'[u].entries = coll[u].entries /\ coll'[u].bucket = coll[u].bucket
    BY <1>1, <1>2, <2>1
  <2> QED
    BY <2>2, LaterEntries
<1>5. JobInv'
  BY <1>4, CollsLater
<1> QED
  BY <1>3, <1>5, NoTodo DEF StrayInv

(* The entries of a run that has ended, and of its retry.                  *)
LEMMA EndedEntries ==
  ASSUME NEW c, CollOK(c), NEW a \in DOMAIN c.entries, NEW result \in {"pass", "fail"}
  PROVE  LET d == Ended(c, a, result)
         IN  /\ DOMAIN c.entries \subseteq DOMAIN d.entries
             /\ \A k \in DOMAIN c.entries :
                  /\ d.entries[k].id = c.entries[k].id
                  /\ d.entries[k].status = c.entries[k].status
<1> DEFINE f == Finished(c, a, result)
           id == c.entries[a].id
           e == NewEntry(f.next, id)
<1>1. c \in Collection /\ c.entries \in Seq(Entry)
  BY DEF CollOK, Collection
<1>2. Ended(c, a, result) = IF result = "fail" /\ Retried(c, a) THEN Again(f, id) ELSE f
  <2>1. f.next = c.next /\ Len(f.entries) = Len(c.entries)
    BY <1>1 DEF Finished, Collection
  <2> QED
    BY <2>1 DEF Ended, Again, Finished
<1>3. /\ DOMAIN f.entries = DOMAIN c.entries
      /\ \A k \in DOMAIN c.entries :
           /\ f.entries[k].id = c.entries[k].id
           /\ f.entries[k].status = c.entries[k].status
  <2>1. \A k \in DOMAIN c.entries : k # a => f.entries[k] = c.entries[k]
    BY FinishedEntries
  <2>2. f.entries[a].id = c.entries[a].id /\ f.entries[a].status = c.entries[a].status
    BY FinishedEntries
  <2>3. DOMAIN f.entries = DOMAIN c.entries
    BY FinishedEntries
  <2> QED
    BY <2>1, <2>2, <2>3
<1>4. Again(f, id).entries = Append(f.entries, e) /\ Len(f.entries) \in Nat
      /\ DOMAIN f.entries = 1..Len(f.entries)
  <2>1. f.entries = [c.entries EXCEPT ![a] = [c.entries[a] EXCEPT !.bucket = "Completed",
                                                                  !.result = result]]
    BY <1>1 DEF Finished, Collection
  <2>2. Again(f, id).entries = Append(f.entries, e)
    BY <1>1 DEF Again, Finished, Collection
  <2> QED
    BY <1>1, <2>1, <2>2
<1> HIDE DEF f, e
<1>5. /\ DOMAIN f.entries \subseteq DOMAIN Again(f, id).entries
      /\ \A k \in DOMAIN f.entries : Again(f, id).entries[k] = f.entries[k]
  BY <1>4
<1> QED
  BY <1>2, <1>3, <1>5

(* An examined Job: its entry ends, and it is deleted if it is not done.   *)
LEMMA ExamineStray ==
  ASSUME ListsInv, IdsInv, StrayInv, Quiet, NEW j \in worker.todo, Examine(j)
  PROVE  StrayInv'
<1>0. PICK u, c, a : u = Current /\ c = coll[u] /\ a = Latest(c, j.id)
  OBVIOUS
<1> DEFINE m == Marked(c, j)
<1>1. At("examine") /\ DOMAIN worker = DOMAIN Idle
  BY DEF Examine, ExamineAgain, ExamineJob, ExamineHangs, ListsInv, WorkInv, WorkerOK
<1>2. /\ u \in Uid /\ CollOK(c) /\ Counted(c) /\ HasEntry(c, j.id) /\ DOMAIN coll = Uid
  BY <1>0, <1>1, CurrentCounted DEF At, Turn, ListsInv, WorkInv, CollsInv
<1>3. CASE ExamineAgain(j)
  <2>1. /\ UNCHANGED <<alive, born, jobs, coll, running>>
        /\ worker'.index = worker.index /\ worker'.todo \subseteq worker.todo
    BY <1>1, <1>3 DEF ExamineAgain, clusterVars, memory, Idle
  <2>2. JobInv'
    BY <2>1 DEF StrayInv, JobInv, Present
  <2>3. TodoInv'
    BY <1>1, <2>1 DEF StrayInv, TodoInv, Current
  <2> QED
    BY <2>2, <2>3 DEF StrayInv
<1>4. CASE ExamineHangs(j)
  BY <1>1, <1>4, ExaminedRun DEF ExamineHangs
<1>5. CASE ExamineJob(j)
  <2>1. /\ CollOK(m) /\ Of(m, j) # <<>> /\ Head(Of(m, j)) = a
        /\ a \in In(m, "Running")
        /\ \A result \in {"pass", "fail"} : Counted(Ended(m, a, result))
    <3>1. IsRunning(c, j)
      BY <1>0, <1>5 DEF ExamineJob
    <3> QED
      BY <1>0, <1>2, <3>1, ExaminedCounted
  <2>2. PICK result \in Outcomes(j) : coll' = [coll EXCEPT ![u] = Ended(m, a, result)]
    BY <1>0, <1>5, <2>1 DEF ExamineJob
  <2> DEFINE d == Ended(m, a, result)
  <2>3. result \in {"pass", "fail"}
    BY DEF Outcomes, Verdict
  <2>4. CollOK(d) /\ Numbered(d) /\ d.bucket = c.bucket
    <3>1. CollOK(d) /\ Keeps(m, d)
      BY <2>1, <2>3, EndedOK
    <3>2. Keeps(c, m)
      BY <1>2, MarkedOK
    <3> QED
      BY <2>1, <2>3, <3>1, <3>2 DEF Counted, Keeps
  <2>5. /\ DOMAIN c.entries \subseteq DOMAIN d.entries
        /\ \A k \in DOMAIN c.entries :
             /\ d.entries[k].id = c.entries[k].id
             /\ k # a => d.entries[k].status = c.entries[k].status
        /\ a \in DOMAIN c.entries
        /\ d.entries[a].status \in {"Complete", "Expired"}
    <3>1. /\ DOMAIN m.entries = DOMAIN c.entries
          /\ m.entries[a].status \in {"Complete", "Expired"}
          /\ \A k \in DOMAIN c.entries :
               /\ m.entries[k].id = c.entries[k].id
               /\ k # a => m.entries[k] = c.entries[k]
      BY <1>0, <1>2, MarkedEntries
    <3>2. a \in DOMAIN c.entries
      BY <1>0, <1>2, LatestIsThere
    <3>3. /\ DOMAIN m.entries \subseteq DOMAIN d.entries
          /\ \A k \in DOMAIN m.entries :
               /\ d.entries[k].id = m.entries[k].id
               /\ d.entries[k].status = m.entries[k].status
      BY <2>1, <2>3, <3>1, <3>2, EndedEntries
    <3> HIDE DEF m, d
    <3> QED
      BY <3>1, <3>2, <3>3
  <2> HIDE DEF d, m
  <2>6. \A id : HasEntry(c, id) =>
          /\ HasEntry(d, id) /\ Latest(d, id) = Latest(c, id)
          /\ Latest(c, id) # a => StatusOf(d, id) = StatusOf(c, id)
    <3>1. CollOK(c) /\ CollOK(d) /\ Numbered(d)
      BY <1>2, <2>4
    <3>2. /\ DOMAIN c.entries \subseteq DOMAIN d.entries
          /\ \A k \in DOMAIN c.entries :
               /\ d.entries[k].id = c.entries[k].id
               /\ k # a => d.entries[k].status = c.entries[k].status
      BY <2>5
    <3> QED
      BY <3>1, <3>2, LaterMore
  <2>7. jobs' \subseteq jobs /\ UNCHANGED <<alive, born, running>>
    BY <1>5, KilledJobs DEF ExamineJob
  <2>8. ASSUME NEW i \in jobs', i.uid = u, i.id = j.id, u \in alive
        PROVE  i.state = "done"
    <3>1. /\ j.uid = u /\ j.state \in {"done", "overdue"}
          /\ i.copy = j.copy /\ (j.state = "done" => i.state = "done")
      BY <1>0, <1>1, <2>7, <2>8 DEF StrayInv, TodoInv
    <3>2. j.state # "overdue"
      BY <1>5, <2>8, <3>1 DEF ExamineJob, KillIfOverdue, Quiet
    <3> QED
      BY <3>1, <3>2
  <2>9. ASSUME NEW i \in jobs', i.uid \in alive
        PROVE  /\ Present(i.uid)' /\ HasEntry(coll'[i.uid], i.id)
               /\ \/ StatusOf(coll'[i.uid], i.id) = StatusOf(coll[i.uid], i.id)
                  \/ i.state = "done" /\ StatusOf(coll'[i.uid], i.id) # "Waiting"
    <3>1. i \in jobs /\ i.uid \in Uid /\ Present(i.uid) /\ HasEntry(coll[i.uid], i.id)
      BY <2>7, <2>9 DEF StrayInv, JobInv, ListsInv, ClusterInv
    <3>2. CASE i.uid # u
      BY <1>0, <1>2, <2>2, <3>1, <3>2 DEF Present
    <3>3. CASE i.uid = u
      <4>1. coll'[u] = d /\ Present(u)'
        BY <1>0, <1>2, <2>2, <2>4, <3>1, <3>3 DEF Present, d
      <4>2. CASE i.id = j.id
        <5>1. StatusOf(d, i.id) # "Waiting"
          BY <1>0, <2>5, <2>6, <3>1, <3>3, <4>2 DEF StatusOf
        <5> QED
          BY <1>0, <2>6, <2>8, <2>9, <3>1, <3>3, <4>1, <4>2, <5>1
      <4>3. CASE i.id # j.id
        <5>1. Latest(c, i.id) # a
          BY <1>0, <1>2, <3>1, <3>3, <4>3, LatestIsThere
        <5> QED
          BY <1>0, <2>6, <3>1, <3>3, <4>1, <5>1
      <4> QED
        BY <4>2, <4>3
    <3> QED
      BY <3>2, <3>3
  <2>10. JobInv'
    BY <2>7, <2>9, JobsLater DEF StrayInv
  <2>11. TodoInv'
    <3>1. worker'.index = worker.index /\ worker'.todo \subseteq worker.todo
      BY <1>1, <1>5 DEF ExamineJob, Idle
    <3> QED
      BY <1>1, <2>7, <3>1 DEF StrayInv, TodoInv, Current
  <2> QED
    BY <2>10, <2>11 DEF StrayInv
<1> QED
  BY <1>3, <1>4, <1>5 DEF Examine

(* A test is started whose last Job, if there was one, is no more that of  *)
(* an entry that waits.                                                    *)
LEMMA StartStray ==
  ASSUME ListsInv, IdsInv, StrayInv, Quiet, Start
  PROVE  StrayInv'
<1>0. PICK u, c, k, id : /\ u = Current /\ c = coll[u] /\ k = Head(Startable(c))
                         /\ id = c.entries[k].id
  OBVIOUS
<1>1. worker.at = "start" /\ DOMAIN worker = DOMAIN Idle
  BY DEF Start, StartTest, StartFails, StartUnacknowledged, StartNoMore, MayStart, At,
     ListsInv, WorkInv, WorkerOK
<1>2. /\ u \in Uid /\ CollOK(c) /\ Counted(c) /\ DOMAIN coll = Uid
      /\ c.bucket = "Running"
  <2>1. worker.index \in DOMAIN running /\ CollOK(c) /\ Counted(c) /\ u \in Uid
    BY <1>0, <1>1, CurrentCounted DEF Turn
  <2>2. DataInv /\ DOMAIN coll = Uid
    BY DEF ListsInv, DataInv, CollsInv
  <2> QED
    BY <1>0, <2>1, <2>2, CurrentRuns
<1>3. MayStart => /\ k \in In(c, "Queued") \cup In(c, "Retry") /\ k \in DOMAIN c.entries
                  /\ c.entries[k].status = "Waiting"
  <2>1. MayStart => k \in In(c, "Queued") \cup In(c, "Retry")
    BY <1>0, <1>2, StartableIn DEF MayStart
  <2> QED
    BY <1>2, <2>1 DEF In, Counted, EntryPlaced
<1>4. CASE StartTest
  <2> DEFINE d == Started(c, k)
             new == NewJob(u, id)
  <2>1. /\ MayStart /\ u \in alive /\ coll' = [coll EXCEPT ![u] = d]
        /\ jobs' = jobs \cup {new}
        /\ worker' = [worker EXCEPT !.slots = @ - 1, !.touched = TRUE]
        /\ UNCHANGED <<alive, born>>
    BY <1>0, <1>4 DEF StartTest, Started
  <2>2. new.uid = u /\ new.id = id /\ new.state = "pending"
    BY DEF NewJob
  <2>3. CollOK(d) /\ Numbered(d) /\ d.bucket = "Running"
    <3>1. CollOK(d) /\ Keeps(c, d) /\ Counted(d)
      BY <1>2, <1>3, <2>1, StartedOK, StartedCounted
    <3> QED
      BY <1>2, <3>1 DEF Keeps, Counted
  <2>4. /\ DOMAIN d.entries = DOMAIN c.entries
        /\ d.entries[k].status = "Running"
        /\ \A i \in DOMAIN c.entries :
             /\ d.entries[i].id = c.entries[i].id
             /\ i # k => d.entries[i].status = c.entries[i].status
    <3> DEFINE e == [c.entries[k] EXCEPT !.status = "Running", !.bucket = "Running"]
    <3>1. c.entries \in Seq(Entry) /\ k \in DOMAIN c.entries /\ c.entries[k] \in Entry
      BY <1>2, <1>3, <2>1 DEF CollOK, Collection
    <3>2. d.entries = [c.entries EXCEPT ![k] = e]
      BY <1>2, <3>1 DEF Started, Taken, CollOK, Collection
    <3>3. e.id = c.entries[k].id /\ e.status = "Running"
      BY <3>1 DEF Entry
    <3> HIDE DEF e, d
    <3> QED
      BY <3>1, <3>2, <3>3
  <2> HIDE DEF d, new
  <2>5. \A i : HasEntry(c, i) =>
          /\ HasEntry(d, i) /\ Latest(d, i) = Latest(c, i)
          /\ Latest(c, i) # k => StatusOf(d, i) = StatusOf(c, i)
    <3>1. CollOK(c) /\ CollOK(d) /\ Numbered(d)
      BY <1>2, <2>3
    <3>2. /\ DOMAIN c.entries \subseteq DOMAIN d.entries
          /\ \A i \in DOMAIN c.entries :
               /\ d.entries[i].id = c.entries[i].id
               /\ i # k => d.entries[i].status = c.entries[i].status
      BY <2>4
    <3> QED
      BY <3>1, <3>2, LaterMore, SMTT(30)
  <2>6. HasEntry(c, id) /\ Latest(c, id) = k
    BY <1>0, <1>2, <1>3, <2>1, UniqueId DEF Counted
  <2>7. ASSUME NEW i \in jobs, i.uid = u
        PROVE  i.id # id
    <3>1. i.uid \in alive => StatusOf(coll[u], i.id) # "Waiting"
      BY <2>7 DEF StrayInv, JobInv
    <3> QED
      BY <1>0, <1>3, <2>1, <2>6, <2>7, <3>1 DEF StatusOf
  <2>8. ASSUME NEW i \in jobs', i.uid \in alive
        PROVE  /\ Present(i.uid)' /\ HasEntry(coll'[i.uid], i.id)
               /\ StatusOf(coll'[i.uid], i.id) # "Waiting"
               /\ i.state # "done" => StatusOf(coll'[i.uid], i.id) = "Running"
    <3>1. coll'[u] = d /\ Present(u)'
      BY <1>2, <2>1, <2>3 DEF Present
    <3>2. CASE i = new
      BY <2>2, <2>4, <2>5, <2>6, <3>1, <3>2 DEF StatusOf
    <3>3. CASE i \in jobs
      <4>1. /\ i.uid \in Uid /\ Present(i.uid) /\ HasEntry(coll[i.uid], i.id)
            /\ StatusOf(coll[i.uid], i.id) # "Waiting"
            /\ i.state # "done" => StatusOf(coll[i.uid], i.id) = "Running"
        BY <2>8, <3>3 DEF StrayInv, JobInv, ListsInv, ClusterInv
      <4>2. CASE i.uid # u
        BY <1>2, <2>1, <4>1, <4>2 DEF Present
      <4>3. CASE i.uid = u
        <5>1. Latest(c, i.id) # k
          BY <1>0, <1>2, <2>7, <3>3, <4>1, <4>3, LatestIsThere
        <5>2. StatusOf(d, i.id) = StatusOf(c, i.id) /\ HasEntry(d, i.id)
          BY <1>0, <2>5, <4>1, <4>3, <5>1
        <5> QED
          BY <1>0, <3>1, <4>1, <4>3, <5>2
      <4> QED
        BY <4>2, <4>3
    <3> QED
      BY <2>1, <3>2, <3>3
  <2>9. ASSUME NEW i \in jobs'
        PROVE  i.uid \in born
    BY <2>1, <2>2, <2>9 DEF StrayInv, JobInv, ListsInv, ClusterInv
  <2>10. ASSUME NEW i \in jobs', NEW j \in jobs', i.uid \in alive, i.uid = j.uid, i.id = j.id
         PROVE  i = j
    <3>1. CASE i \in jobs /\ j \in jobs
      BY <2>10, <3>1 DEF StrayInv, JobInv
    <3>2. CASE i = new \/ j = new
      BY <2>1, <2>2, <2>7, <2>10, <3>2
    <3> QED
      BY <2>1, <3>1, <3>2
  <2>11. JobInv'
    BY <2>1, <2>8, <2>9, <2>10 DEF JobInv
  <2>12. worker'.at = "start"
    BY <1>1, <2>1 DEF Idle
  <2> QED
    BY <2>11, <2>12, NoTodo DEF StrayInv
<1>5. CASE StartFails
  <2>1. /\ MayStart /\ FinishTurn(Requeued(c, k), dirty, TRUE)
        /\ UNCHANGED <<alive, born, jobs>>
    BY <1>0, <1>5 DEF StartFails, StartFailed, clusterVars
  <2>2. CollOK(Requeued(c, k))
    BY <1>2, <1>3, <2>1, RequeuedOK
  <2>3. Requeued(c, k).entries = c.entries /\ Requeued(c, k).bucket = c.bucket
    BY <1>2 DEF Requeued, Taken, CollOK, Collection
  <2> QED
    BY <1>0, <2>1, <2>2, <2>3, FinishTurnLater DEF StrayInv
<1>6. CASE StartUnacknowledged
  BY <1>6 DEF StartUnacknowledged, Quiet
<1>7. CASE StartNoMore
  <2>1. FinishTurn(c, dirty, worker.touched) /\ UNCHANGED <<alive, born, jobs>>
    BY <1>0, <1>7 DEF StartNoMore, clusterVars
  <2> QED
    BY <1>0, <1>2, <2>1, FinishTurnLater DEF StrayInv
<1> QED
  BY <1>4, <1>5, <1>6, <1>7 DEF Start

LEMMA TurnStray ==
  ASSUME ListsInv, IdsInv, StrayInv, Quiet, ListJobs \/ ListFails \/ Examined
  PROVE  StrayInv'
<1>1. CollOK(coll[Current]) /\ DOMAIN worker = DOMAIN Idle
  BY CurrentCounted DEF ListJobs, ListFails, Examined, At, Turn, ListsInv, WorkInv, WorkerOK
<1>2. CASE ListJobs
  <2>1. /\ UNCHANGED <<alive, born, jobs, coll, running>>
        /\ worker' = [worker EXCEPT
                        !.at = IF Listed(Current) = {} THEN "start" ELSE "examine",
                        !.todo = Listed(Current), !.slots = Slots(Current)]
    BY <1>2 DEF ListJobs, clusterVars, memory
  <2>2. worker'.index = worker.index /\ worker'.todo = Listed(Current)
    BY <1>1, <2>1 DEF Idle
  <2>3. JobInv'
    BY <2>1 DEF StrayInv, JobInv, Present
  <2>4. ASSUME NEW j \in Listed(Current)
        PROVE  /\ j.uid = Current /\ j.state \in {"done", "overdue"}
               /\ \A i \in jobs : i.uid \in alive /\ i.uid = j.uid /\ i.id = j.id => i = j
    BY DEF Listed, JobsOf, StrayInv, JobInv
  <2>5. Current' = Current
    BY <2>1, <2>2 DEF Current
  <2>6. TodoInv'
    BY <2>1, <2>2, <2>4, <2>5 DEF TodoInv
  <2> QED
    BY <2>3, <2>6 DEF StrayInv
<1>3. CASE ListFails
  BY <1>3 DEF ListFails, Quiet
<1>4. CASE Examined
  <2>1. CASE worker.touched
    <3>1. /\ FinishTurn(coll[Current], dirty, TRUE) /\ UNCHANGED <<alive, born, jobs>>
      BY <1>4, <2>1 DEF Examined, clusterVars
    <3> QED
      BY <1>1, <3>1, FinishTurnLater DEF StrayInv
  <2>2. CASE ~worker.touched
    <3>1. worker'.at = "start" /\ UNCHANGED <<alive, born, jobs, coll>>
      BY <1>1, <1>4, <2>2 DEF Examined, Goto, Idle, clusterVars
    <3>2. JobInv'
      BY <3>1 DEF StrayInv, JobInv, Present
    <3> QED
      BY <3>1, <3>2, NoTodo DEF StrayInv
  <2> QED
    BY <2>1, <2>2
<1> QED
  BY <1>2, <1>3, <1>4

(* A collection that is created has no Job yet; one that is dropped has no *)
(* object any more.                                                        *)
LEMMA SettledStray ==
  ASSUME ListsInv, StrayInv,
         \/ Promote \/ Settle \/ Resolve \/ Publication \/ Tasks
         \/ \E u \in Uid : Reconcile(u)
  PROVE  StrayInv'
<1>1. /\ DOMAIN worker = DOMAIN Idle /\ alive \subseteq Uid /\ DOMAIN coll = Uid
      /\ \A u \in Uid : CollOK(coll[u])
  BY DEF ListsInv, WorkInv, WorkerOK, ClusterInv, CollsInv
<1>2. \A u \in Uid : Later(coll[u], coll[u])
  BY LaterEntries
<1>3. CASE Promote
  <2>1. /\ coll' = [coll EXCEPT ![Head(waiting)] = Promoted(coll[Head(waiting)])]
        /\ UNCHANGED <<alive, born, jobs>> /\ worker'.at = "pass"
    BY <1>3 DEF Promote, clusterVars, Idle
  <2>2. ASSUME NEW u \in alive
        PROVE  Later(coll[u], coll'[u])
    <3>1. CollOK(coll[u]) /\ u \in Uid
      BY <1>1
    <3>2. Promoted(coll[u]).entries = coll[u].entries /\ Promoted(coll[u]).bucket = "Running"
      BY <3>1 DEF Promoted, CollOK, Collection
    <3>3. coll'[u] \in {coll[u], Promoted(coll[u])}
      BY <1>1, <2>1
    <3> QED
      BY <3>2, <3>3, LaterEntries
  <2>3. JobInv'
    BY <2>1, <2>2, CollsLater DEF StrayInv
  <2> QED
    BY <2>1, <2>3, NoTodo DEF StrayInv
<1>4. CASE Settle
  <2>1. PICK gone \in SUBSET Gone :
          coll' = [u \in Uid |-> IF u \in gone THEN NoCollection
                                 ELSE IF u \in Completing THEN Completed(coll[u])
                                 ELSE coll[u]]
    BY <1>4 DEF Settle
  <2>2. UNCHANGED <<alive, born, jobs>> /\ worker'.at = "resolve"
    BY <1>4 DEF Settle, clusterVars, Idle
  <2>3. ASSUME NEW u \in alive
        PROVE  Later(coll[u], coll'[u])
    <3>1. CollOK(coll[u]) /\ u \in Uid /\ u \notin gone
      BY <1>1 DEF Gone, Borne
    <3>2. Completed(coll[u]).entries = coll[u].entries /\ Completed(coll[u]).bucket = "Completed"
      BY <3>1 DEF Completed, CollOK, Collection
    <3>3. coll'[u] \in {coll[u], Completed(coll[u])}
      BY <2>1, <3>1
    <3> QED
      BY <3>2, <3>3, LaterEntries
  <2>4. JobInv'
    BY <2>2, <2>3, CollsLater DEF StrayInv
  <2> QED
    BY <2>2, <2>4, NoTodo DEF StrayInv
<1>5. CASE Resolve \/ Publication \/ Tasks
  <2>1. UNCHANGED <<alive, born, coll>> /\ jobs' \subseteq jobs
    <3>1. CASE Resolve \/ Tasks
      BY <3>1 DEF Resolve, Tasks, CleanJobs, PruneFiles, clusterVars, memory
    <3>2. CASE Publication
      BY <3>2 DEF Publication, Publish, PublishSkips, PublishHangs, PublishFails, PublishNone,
         clusterVars, memory
    <3> QED
      BY <1>5, <3>1, <3>2
  <2>2. worker'.at # "examine"
    <3>1. CASE Resolve \/ Tasks
      BY <1>1, <3>1 DEF Resolve, Tasks, CleanJobs, PruneFiles, Goto, Idle, At
    <3>2. CASE Publication
      <4>1. CASE \E u \in Uid : Publish(u) \/ PublishSkips(u)
        <5>1. PICK u \in Uid : Published(u)
          BY <4>1 DEF Publish, PublishSkips
        <5> QED
          BY <1>1, <5>1 DEF Published, Idle
      <4>2. CASE PublishFails \/ PublishNone \/ \E u \in Uid : PublishHangs(u)
        BY <4>2 DEF PublishFails, PublishNone, PublishHangs, Hung, Idle
      <4> QED
        BY <3>2, <4>1, <4>2 DEF Publication
    <3> QED
      BY <1>5, <3>1, <3>2
  <2>3. JobInv'
    BY <1>1, <1>2, <2>1, CollsLater DEF StrayInv
  <2> QED
    BY <2>2, <2>3, NoTodo DEF StrayInv
<1>6. CASE \E u \in Uid : Reconcile(u)
  <2>1. PICK u \in Uid : Reconcile(u)
    BY <1>6
  <2>2. UNCHANGED <<alive, born, jobs>>
    BY <2>1 DEF Reconcile, clusterVars
  <2>3. /\ \A v \in Uid : v # u \/ Present(v) => coll'[v] = coll[v]
        /\ worker'.at # "examine"
    <3>1. CASE Register(u) /\ ~Present(u)
      BY <1>1, <3>1 DEF Register, Idle
    <3>2. CASE worker' = [Idle EXCEPT !.at = "pass"] /\ UNCHANGED coll
      BY <3>2 DEF Idle
    <3> QED
      BY <2>1, <3>1, <3>2 DEF Reconcile
  <2>4. ASSUME NEW v \in alive
        PROVE  Later(coll[v], coll'[v])
    BY <1>1, <1>2, <2>3 DEF Later, Present
  <2>5. JobInv'
    BY <2>2, <2>4, CollsLater DEF StrayInv
  <2> QED
    BY <2>3, <2>5, NoTodo DEF StrayInv
<1> QED
  BY <1>3, <1>4, <1>5, <1>6

LEMMA ClusterStray ==
  ASSUME ListsInv, StrayInv,
         \/ \E u \in Uid : CreateObject(u) \/ DeleteObject(u)
         \/ \E j \in jobs : JobStep(j) \/ RemoveJob(j)
         \/ WindowPasses \/ UNCHANGED vars
  PROVE  StrayInv'
<1>1. UNCHANGED <<coll, running, worker>>
  BY DEF CreateObject, DeleteObject, JobStep, StartJob, FinishJob, ExpireJob, Become,
     RemoveJob, WindowPasses, operatorVars, memory, vars
<1>2. Current' = Current /\ (At("examine")' <=> At("examine"))
  BY <1>1 DEF Current, At
<1>3. CASE \E u \in Uid : CreateObject(u)
  <2>1. PICK u \in Uid : /\ u \notin born /\ alive' = alive \cup {u}
                         /\ born' = born \cup {u} /\ jobs' = jobs
    BY <1>3 DEF CreateObject
  <2>2. \A j \in jobs : j.uid \in born /\ (j.uid \in alive' <=> j.uid \in alive)
    BY <2>1 DEF StrayInv, JobInv
  <2>3. JobInv'
    BY <1>1, <2>1, <2>2 DEF StrayInv, JobInv, Present
  <2>4. TodoInv'
    BY <1>1, <1>2, <2>1, <2>2 DEF StrayInv, TodoInv
  <2> QED
    BY <2>3, <2>4 DEF StrayInv
<1>4. CASE \/ \E u \in Uid : DeleteObject(u)
           \/ \E j \in jobs : RemoveJob(j)
           \/ WindowPasses \/ UNCHANGED vars
  <2>1. alive' \subseteq alive /\ born' = born /\ jobs' \subseteq jobs
    BY <1>4 DEF DeleteObject, RemoveJob, WindowPasses, clusterVars, vars
  <2>2. JobInv'
    BY <1>1, <2>1 DEF StrayInv, JobInv, Present
  <2>3. TodoInv'
    BY <1>1, <1>2, <2>1 DEF StrayInv, TodoInv
  <2> QED
    BY <2>2, <2>3 DEF StrayInv
<1>5. CASE \E j \in jobs : JobStep(j)
  <2>1. PICK j \in jobs, state \in JobState : /\ j.state # "done" /\ Become(j, state)
    BY <1>5 DEF JobStep, StartJob, FinishJob, ExpireJob, JobState
  <2> DEFINE k == [j EXCEPT !.state = state]
  <2>2. jobs' = (jobs \ {j}) \cup {k} /\ UNCHANGED <<alive, born>>
    BY <2>1 DEF Become
  <2>3. k.uid = j.uid /\ k.id = j.id /\ k.copy = j.copy
    BY DEF ListsInv, ClusterInv, Job
  <2> HIDE DEF k
  <2>4. JobInv'
    <3>1. ASSUME NEW i \in jobs'
          PROVE  \E o \in jobs : /\ o.uid = i.uid /\ o.id = i.id
                                 /\ i.state # "done" => o.state # "done"
                                 /\ i = IF o = j THEN k ELSE o
      <4>1. CASE i = k
        BY <2>1, <2>3, <4>1
      <4>2. CASE i \in jobs \ {j}
        BY <4>2
      <4> QED
        BY <2>2, <4>1, <4>2
    <3>2. ASSUME NEW i \in jobs'
          PROVE  /\ i.uid \in born
                 /\ i.uid \in alive =>
                      /\ Present(i.uid) /\ HasEntry(coll[i.uid], i.id)
                      /\ StatusOf(coll[i.uid], i.id) # "Waiting"
                      /\ i.state # "done" => StatusOf(coll[i.uid], i.id) = "Running"
      BY <3>1 DEF StrayInv, JobInv
    <3>3. ASSUME NEW i \in jobs', NEW h \in jobs', i.uid \in alive, h.uid = i.uid, h.id = i.id
          PROVE  h = i
      <4>1. PICK o \in jobs : o.uid = i.uid /\ o.id = i.id /\ i = IF o = j THEN k ELSE o
        BY <3>1
      <4>2. PICK p \in jobs : p.uid = h.uid /\ p.id = h.id /\ h = IF p = j THEN k ELSE p
        BY <3>1
      <4>3. p = o
        BY <3>3, <4>1, <4>2 DEF StrayInv, JobInv
      <4> QED
        BY <4>1, <4>2, <4>3
    <3> QED
      BY <1>1, <2>2, <3>2, <3>3 DEF JobInv, Present
  <2>5. TodoInv'
    <3>1. ASSUME NEW i \in jobs'
          PROVE  \E o \in jobs : /\ o.uid = i.uid /\ o.id = i.id /\ o.copy = i.copy
                                 /\ o.state = "done" => i.state = "done"
      <4>1. CASE i = k
        BY <2>1, <2>3, <4>1
      <4>2. CASE i \in jobs
        BY <4>2
      <4> QED
        BY <2>2, <4>1, <4>2
    <3> QED
      BY <1>1, <1>2, <2>2, <3>1 DEF StrayInv, TodoInv
  <2> QED
    BY <2>4, <2>5 DEF StrayInv
<1> QED
  BY <1>3, <1>4, <1>5

LEMMA StrayStep ==
  ASSUME Quiet PROVE ListsInv /\ IdsInv /\ StrayInv /\ [Next]_vars => StrayInv'
<1> SUFFICES ASSUME ListsInv, IdsInv, StrayInv, [Next]_vars PROVE StrayInv'
  OBVIOUS
<1>1. CASE Process
  BY <1>1, TurnStray, ExamineStray, StartStray, SettledStray DEF Process
<1>2. CASE Tasks \/ \E u \in Uid : Reconcile(u)
  BY <1>2, SettledStray
<1>3. ~Load /\ ~Crash /\ ~CrashWriting
  <2>1. ~Load
    BY DEF Load, IdsInv, Quiet
  <2>2. ~Killed
    BY DEF Killed, IdsInv, Quiet
  <2> QED
    BY <2>1, <2>2 DEF Crash, CrashWriting
<1>4. CASE \E j \in worker.todo : ExaminePanics(j)
  BY <1>4, NoPanic
<1>5. CASE \/ \E u \in Uid : CreateObject(u) \/ DeleteObject(u)
           \/ \E j \in jobs : JobStep(j) \/ RemoveJob(j)
           \/ WindowPasses \/ UNCHANGED vars
  BY <1>5, ClusterStray
<1> QED
  BY <1>1, <1>2, <1>3, <1>4, <1>5 DEF Next, Operator

LEMMA StrayInit == Init => StrayInv
BY DEF Init, StrayInv, JobInv, TodoInv, At, Idle

(* While the operator is not killed and no call to the API server fails,   *)
(* every Job of an existing object that has not ended is the only one of a *)
(* test that is running: whatever expires, is deleted or ends while it is  *)
(* examined, none goes on that nobody waits for.                           *)
THEOREM NoJobIsStray == ASSUME Quiet PROVE Spec => []NoStrayJob
<1>1. Once
  BY DEF Quiet, Once
<1>2. Init => StrayInv
  BY StrayInit
<1>3. ListsInv /\ IdsInv /\ StrayInv /\ [Next]_vars => StrayInv'
  BY StrayStep
<1>4. Spec => []ListsInv /\ []IdsInv
  BY <1>1, ListsInvariant, IdsInvariant
<1>5. StrayInv => NoStrayJob
  BY DEF StrayInv, JobInv, NoStrayJob, StatusOf
<1> QED
  BY <1>2, <1>3, <1>4, <1>5, PTL DEF Spec
=============================================================================

--------------------- MODULE KoupletBuildDurableProofs ---------------------
(***************************************************************************)
(* Theorems about what KoupletBuild keeps in memory, on disk and in the    *)
(* cluster, and that it implements BuildPromise, for every set of objects, *)
(* every maximal number of attempts and of restarts. Sound holds whatever  *)
(* fails; the others whatever fails but for what each excludes by a        *)
(* hypothesis: reads of objects and Jobs that fail, the fault "api";       *)
(* KoupletBuilds in other namespaces, "elsewhere"; files that cannot be    *)
(* written, "io" and "short"; a kill between the truncation of a file and  *)
(* its write, "torn".                                                      *)
(***************************************************************************)
EXTENDS KoupletBuildProofs

-----------------------------------------------------------------------------
(***************************************************************************)
(* The invariants.                                                         *)
(***************************************************************************)

Absent == NoBuild("absent")
Working == worker.at \notin {"idle", "down"}

(* The successResult of a build agrees with its state, no active attempt   *)
(* has succeeded, and a record that stands for nothing holds nothing.      *)
Agrees(b) ==
  /\ b.active.result # "yes"
  /\ b.state = "Completed" => HasSuccess(b)
  /\ b.state = "Completed" <=> b.success = "yes"
  /\ b.state = "Expired" <=> b.success = "no"
  /\ ~Known(b) => b = NoBuild(b.state)

(* Only objects that were created have a build; a file holds no kubeObj; a *)
(* Job that succeeded has pushed.                                          *)
SoundBuilds ==
  \A u \in Uid : /\ Agrees(db[u]) /\ Agrees(disk[u]) /\ disk[u].kubeUid = NoUid
                 /\ u \notin born => db[u] = Absent /\ disk[u] = Absent
SoundJobs ==
  \A n \in 1..MaxAttempts :
    jobs[n].state \in {"succeeded", "podless"} => jobs[n].uid \in pushed
SoundInv == kube \in born \cup {NoUid} /\ SoundBuilds /\ SoundJobs

(* The file of a build, d, is an earlier state of what the map holds, b:   *)
(* its attempts are the first ones, its active attempt is still the active *)
(* one or was completed, and a verdict on file is the verdict.             *)
Behind(d, b) ==
  /\ d.created = b.created
  /\ Len(d.completed) <= Len(b.completed)
  /\ \A i \in 1..Len(d.completed) : d.completed[i] = b.completed[i]
  /\ d.active # NoAttempt =>
       \/ b.active.n = d.active.n /\ b.active.job = d.active.job
       \/ Len(d.completed) < Len(b.completed)
  /\ d.state \in Terminal => d = Saved(b)

(* No build is attached to an object of another namespace.                 *)
HomeInv == worker.inst # Stranger /\ \A u \in Uid : ~Astray(db[u])

(* A file is behind the map.  The build of an object that exists is in the *)
(* map if it is on file, and an object that replaced the one the worker is *)
(* at work on has no build yet.                                            *)
HistoryInv ==
  /\ \A u \in Uid :
       /\ db[u].state # "nil"
       /\ Known(disk[u]) /\ Known(db[u]) => Behind(disk[u], db[u])
       /\ Known(disk[u]) /\ ~Known(db[u]) /\ ~At("down") => kube # u
  /\ Working /\ kube \notin {NoUid, worker.uid} =>
       db[kube] = Absent /\ disk[kube] = Absent

(* The Job that has the name of a build's active attempt is its own.       *)
Match(b, cluster) ==
  b.active # NoAttempt =>
    cluster[b.active.n].state = "none" \/ cluster[b.active.n].uid = b.active.job

(* The Job of a successful attempt has pushed.                             *)
Earned(b, images) ==
  \A i \in DOMAIN b.completed :
    b.completed[i].result = "yes" => b.completed[i].job \in images

EarnedInv ==
  /\ \A u \in Uid : /\ Earned(db[u], pushed) /\ Earned(disk[u], pushed)
                    /\ kube = u => Match(db[u], jobs) /\ Match(disk[u], jobs)
  /\ Working => Match(db[worker.uid], jobs)

(* While a build is being saved, its object shows it; and nothing is saved *)
(* over a verdict.                                                         *)
PublishedInv ==
  /\ worker.at \in {"persist", "write"} /\ kube = worker.uid =>
       kstatus = Public(db[worker.uid])
  /\ SavedIsPublished
  /\ worker.at \in {"publish", "persist", "write"} \/ (Working /\ worker.dirty) =>
       disk[worker.uid].state \notin Terminal
-----------------------------------------------------------------------------
(***************************************************************************)
(* What a pass of subProcess and the creation of a Job do to a build.      *)
(***************************************************************************)

(* The build before a pass is b, the build after it d: it has the same     *)
(* attempts, or its active one was completed, with success only if its Job *)
(* was found to have succeeded.                                            *)
Finishes(b, d) ==
  /\ b.active # NoAttempt /\ d.active = NoAttempt
  /\ \E a \in Attempt :
       /\ d.completed = Append(b.completed, a)
       /\ a.n = b.active.n /\ a.job = b.active.job
       /\ a.result = "yes" => jobs[b.active.n].state = "succeeded"
Passed(b, d) ==
  /\ d \in BuildStatus /\ Agrees(d)
  /\ d.created = b.created /\ d.kubeUid = b.kubeUid
  /\ d.state \in {"Running"} \cup Terminal
  /\ \/ /\ d.completed = b.completed
        /\ d.active.n = b.active.n /\ d.active.job = b.active.job
        /\ d.active = NoAttempt <=> b.active = NoAttempt
     \/ Finishes(b, d)

(* The scan leaves the attempts as Passed says, and the successResult as   *)
(* it was unless an attempt has succeeded.                                 *)
LEMMA ScanAttempts ==
  ASSUME NEW b \in BuildStatus, Ordered(b), Undecided(b), Agrees(b),
         NEW s \in Seen(b.active)
  PROVE  LET c == Scanned(b, s)
         IN  /\ c.kubeUid = b.kubeUid
             /\ c.active.result # "yes"
             /\ c.success = "unset" \/ (c.success = "yes" /\ HasSuccess(c))
             /\ \/ /\ c.completed = b.completed
                   /\ c.active.n = b.active.n /\ c.active.job = b.active.job
                   /\ c.active = NoAttempt <=> b.active = NoAttempt
                \/ Finishes(b, c)
             /\ c.active = b.active /\ b.state = "Running" => c = b
<1> DEFINE c == Scanned(b, s)
           a == Examined(b.active, s)
<1> USE DEF BuildStatus
<1>1. b.success = "unset" /\ b.active.result # "yes"
  BY DEF Agrees, Undecided, Terminal
<1>2. /\ a \in Attempt /\ a.n = b.active.n /\ a.job = b.active.job
      /\ NoAttempt.n = 0 /\ NoAttempt.result = "unset"
  BY DEF Examined, Attempt, NoAttempt
<1>3. CASE b.active = NoAttempt
  <2>1. c = [b EXCEPT !.state = "Running"]
    BY <1>3 DEF Scanned
  <2> QED
    BY <1>1, <1>3, <2>1
<1>4. CASE b.active # NoAttempt /\ ~Removed(b.active, s)
  <2>1. c = [b EXCEPT !.state = "Running", !.active = a]
    BY <1>4 DEF Scanned
  <2>2. a.result # "yes"
    BY <1>1, <1>4 DEF Examined, Removed, Attempt
  <2>3. b.active.n # 0
    BY <1>4, AttemptsTyped DEF Ordered
  <2> HIDE DEF a
  <2>4. /\ c.active = a /\ c.completed = b.completed /\ c.kubeUid = b.kubeUid
        /\ c.success = "unset"
        /\ c.active = b.active /\ b.state = "Running" => c = b
    BY <1>1, <2>1
  <2> HIDE DEF c
  <2>5. c.active # NoAttempt
    BY <1>2, <2>3, <2>4
  <2> QED
    BY <1>2, <1>4, <2>2, <2>4, <2>5 DEF c
<1>5. CASE b.active # NoAttempt /\ Removed(b.active, s)
  <2>1. c = [b EXCEPT !.state = "Running", !.active = NoAttempt,
                      !.completed = Append(@, a),
                      !.success = IF a.result = "yes" THEN "yes" ELSE @]
    BY <1>5 DEF Scanned
  <2>2. a.result = "yes" => jobs[b.active.n].state = "succeeded"
    <3>1. ASSUME a.result = "yes" PROVE s = "succeeded"
      BY <1>1, <3>1 DEF Examined, ExitCodeZero, Attempt
    <3> QED
      BY <1>5, <3>1 DEF Seen
  <2> HIDE DEF a
  <2>3. /\ c.completed = Append(b.completed, a) /\ c.active = NoAttempt
        /\ c.kubeUid = b.kubeUid
        /\ c.success = IF a.result = "yes" THEN "yes" ELSE "unset"
    BY <1>1, <2>1
  <2>4. a.result = "yes" => HasSuccess(c)
    <3>1. /\ Len(b.completed) + 1 \in DOMAIN c.completed
          /\ c.completed[Len(b.completed) + 1] = a
      BY <1>2, <2>3
    <3> QED
      BY <3>1 DEF HasSuccess
  <2>5. Finishes(b, c)
    BY <1>2, <1>5, <2>2, <2>3 DEF Finishes
  <2> HIDE DEF c
  <2> QED
    BY <1>2, <1>5, <2>3, <2>4, <2>5 DEF c
<1> QED
  BY <1>3, <1>4, <1>5

(* The decisions make the successResult agree with the state, and change   *)
(* nothing of a build that stays Running.                                  *)
LEMMA DecideAgrees ==
  ASSUME NEW b \in BuildStatus, b.state = "Running",
         b.success = "unset" \/ (b.success = "yes" /\ HasSuccess(b))
  PROVE  LET d == Decide(b)
         IN  /\ d.kubeUid = b.kubeUid
             /\ d.state = "Completed" => HasSuccess(d)
             /\ d.state = "Completed" <=> d.success = "yes"
             /\ d.state = "Expired" <=> d.success = "no"
             /\ d.state = "Running" => d = b
<1> USE DEF BuildStatus
<1> DEFINE d == Decide(b)
<1>1. CASE OutOfAttempts(b) \/ OutOfTime(b)
  <2>1. d = [b EXCEPT !.state = "Expired", !.success = "no"]
    BY <1>1 DEF Decide, Expire, Complete
  <2> QED
    BY <2>1
<1>2. CASE ~(OutOfAttempts(b) \/ OutOfTime(b)) /\ HasSuccess(b)
  <2>1. d = [b EXCEPT !.state = "Completed", !.success = "yes"]
    BY <1>2 DEF Decide, Expire, Complete
  <2>2. HasSuccess(d)
    BY <1>2, <2>1 DEF HasSuccess
  <2> QED
    BY <2>1, <2>2
<1>3. CASE ~(OutOfAttempts(b) \/ OutOfTime(b)) /\ ~HasSuccess(b)
  <2>1. d = b
    BY <1>3 DEF Decide, Expire, Complete
  <2> QED
    BY <1>3, <2>1
<1> QED
  BY <1>1, <1>2, <1>3

(* A pass of subProcess over an undecided build.                           *)
LEMMA PassEffect ==
  ASSUME NEW b \in BuildStatus, Ordered(b), Undecided(b), Agrees(b),
         NEW s \in Seen(b.active)
  PROVE  LET c == Scanned(b, s)
             d == Decide(c)
         IN  /\ Passed(b, d)
             /\ c.active = d.active
             /\ d.active = b.active /\ d.state = "Running" /\ b.state = "Running" => d = b
<1> DEFINE c == Scanned(b, s)
           d == Decide(c)
<1>1. c \in BuildStatus /\ c.state = "Running" /\ c.created = b.created
  BY ScanTyped
<1>2. /\ c.kubeUid = b.kubeUid
      /\ c.active.result # "yes"
      /\ c.success = "unset" \/ (c.success = "yes" /\ HasSuccess(c))
      /\ \/ /\ c.completed = b.completed
            /\ c.active.n = b.active.n /\ c.active.job = b.active.job
            /\ c.active = NoAttempt <=> b.active = NoAttempt
         \/ Finishes(b, c)
      /\ c.active = b.active /\ b.state = "Running" => c = b
  BY ScanAttempts
<1> HIDE DEF c
<1>3. /\ d \in BuildStatus
      /\ d.active = c.active /\ d.completed = c.completed /\ d.created = c.created
      /\ d.state \in {"Running"} \cup Terminal
  BY <1>1, DecideTyped
<1>4. /\ d.kubeUid = c.kubeUid
      /\ d.state = "Completed" => HasSuccess(d)
      /\ d.state = "Completed" <=> d.success = "yes"
      /\ d.state = "Expired" <=> d.success = "no"
      /\ d.state = "Running" => d = c
  BY <1>1, <1>2, DecideAgrees
<1> HIDE DEF d
<1>5. Agrees(d)
  BY <1>2, <1>3, <1>4 DEF Agrees, Known, BuildState
<1>6. Finishes(b, c) => Finishes(b, d)
  BY <1>3 DEF Finishes
<1> QED
  BY <1>1, <1>2, <1>3, <1>4, <1>5, <1>6 DEF Passed, c, d
-----------------------------------------------------------------------------
(***************************************************************************)
(* What the steps do, said once for the inductions below.                  *)
(***************************************************************************)

(* The end of a pass goes back to rest if nothing changed, to another pass *)
(* if this one changed something, and on to publishing otherwise.          *)
LEMMA EndPassEffect ==
  ASSUME TypeOK, NEW changed \in BOOLEAN, EndPass(changed)
  PROVE  \/ ~changed /\ ~worker.dirty /\ worker'.at = "idle"
         \/ /\ changed /\ worker'.at = "pass"
            /\ worker'.uid = worker.uid /\ worker'.dirty
         \/ /\ ~changed /\ worker.dirty /\ worker'.at = "publish"
            /\ worker'.uid = worker.uid /\ worker'.dirty
BY DEF EndPass, TypeOK, Idle

(* The worker examines its build.                                          *)
Examines(b, d) ==
  /\ At("pass") /\ Instance(b) # NoUid /\ Undecided(b) /\ Passed(b, d)
  /\ db' = [db EXCEPT ![worker.uid] = d]
  /\ UNCHANGED <<clusterVars, disk, restarts>>
  /\ LET changed == d.active # b.active \/ d.state # "Running"
     IN  \/ EndPass(changed)
         \/ /\ worker'.at = "create" /\ worker'.uid = worker.uid
            /\ worker'.dirty = worker.dirty /\ worker'.changed = changed
  /\ d.active = b.active /\ d.state = "Running" /\ b.state = "Running" => d = b

LEMMA ScanEffect ==
  ASSUME IInv, SoundInv, PassScan
  PROVE  worker.uid \in Uid /\ \E d : Examines(db[worker.uid], d)
<1> DEFINE u == worker.uid
           b == db[u]
<1>0. TypeOK /\ WorkerInv /\ AllGood
  BY DEF IInv
<1>1. /\ worker.at = "pass" /\ Instance(b) # NoUid /\ Undecided(b)
      /\ UNCHANGED <<clusterVars, disk, restarts>>
  BY DEF PassScan, At
<1>2. u \in Uid /\ b \in BuildStatus /\ Ordered(b) /\ Agrees(b)
  BY <1>0, <1>1 DEF WorkerInv, TypeOK, AllGood, Good, SoundInv, SoundBuilds
<1>3. PICK s \in Seen(b.active) :
        LET c == Scanned(b, s)
            d == Decide(c)
            changed == c.active # b.active \/ d.state # "Running"
        IN  /\ db' = [db EXCEPT ![u] = d]
            /\ IF d.state = "Running" /\ d.active = NoAttempt
                 THEN worker' = [worker EXCEPT !.at = "create",
                                   !.inst = Instance(b), !.changed = changed]
                 ELSE EndPass(changed)
  BY DEF PassScan
<1> DEFINE c == Scanned(b, s)
           d == Decide(c)
           changed == d.active # b.active \/ d.state # "Running"
<1>4. /\ Passed(b, d) /\ c.active = d.active
      /\ d.active = b.active /\ d.state = "Running" /\ b.state = "Running" => d = b
  BY <1>1, <1>2, PassEffect
<1>5. /\ db' = [db EXCEPT ![u] = d]
      /\ \/ EndPass(changed)
         \/ worker' = [worker EXCEPT !.at = "create", !.inst = Instance(b),
                                     !.changed = changed]
  BY <1>3, <1>4
<1> HIDE DEF c, d
<1>6. \/ EndPass(changed)
      \/ /\ worker'.at = "create" /\ worker'.uid = worker.uid
         /\ worker'.dirty = worker.dirty /\ worker'.changed = changed
  BY <1>0, <1>5 DEF TypeOK
<1>7. Examines(b, d)
  BY <1>1, <1>4, <1>5, <1>6 DEF Examines, At
<1> QED
  BY <1>2, <1>7

(* The worker creates a Job, and gives its build the attempt.              *)
Creates(b, c) ==
  /\ At("create") /\ EndPass(TRUE)
  /\ b.state = "Running" /\ b.active = NoAttempt
  /\ IF worker.inst = Stranger THEN jobs' = jobs
     ELSE /\ jobs[NextAttempt(b)].state = "none"
          /\ jobs' = [jobs EXCEPT ![NextAttempt(b)] = NewJob(stamp + 1)]
  /\ c \in BuildStatus
  /\ c.state = b.state /\ c.created = b.created /\ c.kubeUid = b.kubeUid
  /\ c.success = b.success /\ c.completed = b.completed
  /\ c.active.n = NextAttempt(b) /\ c.active.job = stamp + 1
  /\ c.active.result = "unset" /\ c.active # NoAttempt
  /\ db' = [db EXCEPT ![worker.uid] = c]
  /\ UNCHANGED <<kube, born, kstatus, pushed, disk>>

LEMMA CreateEffect ==
  ASSUME IInv, CreateJob
  PROVE  worker.uid \in Uid /\ \E c : Creates(db[worker.uid], c)
<1> DEFINE u == worker.uid
           b == db[u]
           n == NextAttempt(b)
           c == [b EXCEPT !.active = [NoAttempt EXCEPT !.n = n, !.job = stamp + 1]]
<1>0. TypeOK /\ WorkerInv /\ AllGood
  BY DEF IInv
<1>1. /\ worker.at = "create" /\ EndPass(TRUE)
      /\ IF worker.inst = Stranger THEN jobs' = jobs
         ELSE jobs[n].state = "none" /\ jobs' = [jobs EXCEPT ![n] = NewJob(stamp + 1)]
      /\ db' = [db EXCEPT ![u].active = [NoAttempt EXCEPT !.n = n, !.job = stamp + 1]]
      /\ UNCHANGED <<kube, born, kstatus, pushed, disk>>
  BY DEF CreateJob, At
<1>2. /\ u \in Uid /\ b \in BuildStatus /\ Good(b, stamp) /\ b.state = "Running"
      /\ b.active = NoAttempt /\ ~HasSuccess(b) /\ Len(b.completed) < MaxAttempts
      /\ stamp \in Nat
  BY <1>0, <1>1 DEF WorkerInv, TypeOK, AllGood
<1>3. c \in BuildStatus /\ c.state = b.state
  BY <1>2, GoodCreate
<1>4. db' = [db EXCEPT ![u] = c]
  BY <1>0, <1>1, <1>2 DEF TypeOK
<1>5. /\ c.created = b.created /\ c.kubeUid = b.kubeUid
      /\ c.success = b.success /\ c.completed = b.completed
      /\ c.active.n = n /\ c.active.job = stamp + 1 /\ c.active.result = "unset"
  BY <1>2 DEF BuildStatus, NoAttempt
<1>6. c.active # NoAttempt
  <2>1. n # 0
    BY <1>2, AttemptsTyped DEF NextAttempt
  <2> HIDE DEF n, b
  <2> QED
    BY <1>5, <2>1 DEF NoAttempt
<1> HIDE DEF c
<1>7. Creates(b, c)
  BY <1>1, <1>2, <1>3, <1>4, <1>5, <1>6 DEF Creates, At
<1> QED
  BY <1>2, <1>7
-----------------------------------------------------------------------------
(***************************************************************************)
(* SoundInv is inductive, whatever fails.                                  *)
(***************************************************************************)

(* Nothing is sound, and so is a new build.                                *)
LEMMA NothingAgrees ==
  /\ \A s \in {"absent", "nil", "torn"} :
       /\ Agrees(NoBuild(s)) /\ NoBuild(s).kubeUid = NoUid
       /\ ~Known(NoBuild(s)) /\ NoBuild(s).state = s
       /\ NoBuild(s).active = NoAttempt /\ NoBuild(s).completed = <<>>
  /\ \A u \in Uid, now \in Nat : Agrees(NewBuildStatus(u, now))
<1>1. ASSUME NEW s \in {"absent", "nil", "torn"}
      PROVE  /\ Agrees(NoBuild(s)) /\ NoBuild(s).kubeUid = NoUid
             /\ ~Known(NoBuild(s)) /\ NoBuild(s).state = s
             /\ NoBuild(s).active = NoAttempt /\ NoBuild(s).completed = <<>>
  <2>1. NoAttempt.result = "unset"
    BY DEF NoAttempt
  <2>2. /\ NoBuild(s).state = s /\ NoBuild(s).success = "unset"
        /\ NoBuild(s).active = NoAttempt /\ NoBuild(s).kubeUid = NoUid
        /\ NoBuild(s).completed = <<>>
    BY DEF NoBuild
  <2> QED
    BY <2>1, <2>2 DEF Agrees, Known, BuildState, Terminal
<1>2. ASSUME NEW u \in Uid, NEW now \in Nat
      PROVE  Agrees(NewBuildStatus(u, now))
  <2>1. NewBuildStatus(u, now).success = "unset"
    BY DEF NewBuildStatus, NoBuild
  <2> QED
    BY <2>1, NewBuildTyped DEF Agrees, Known, BuildState, NoAttempt
<1> QED
  BY <1>1, <1>2

(* A build that differs from a sound one in its object alone is sound.     *)
LEMMA AgreesSame ==
  ASSUME NEW b \in BuildStatus, Agrees(b), Known(b),
         NEW c \in BuildStatus, c.state = b.state, c.success = b.success,
         c.completed = b.completed, c.active.result # "yes"
  PROVE  Agrees(c) /\ Known(c)
BY DEF Agrees, HasSuccess, Known

LEMMA SoundInit == Init => SoundInv
BY NothingAgrees, NothingTyped DEF Init, SoundInv, SoundBuilds, SoundJobs, Absent, NoJob

(* The Jobs that have succeeded have pushed.                               *)
LEMMA PushedStep ==
  ASSUME TypeOK, SoundInv, [Next]_vars
  PROVE  pushed \subseteq pushed' /\ SoundJobs'
<1>1. CASE UNCHANGED <<jobs, pushed>>
  BY <1>1 DEF SoundInv, SoundJobs
<1>2. CASE CreateJob \/ CreateUnacknowledged
  <2>1. /\ pushed' = pushed
        /\ jobs' = jobs \/ \E n : jobs' = [jobs EXCEPT ![n] = NewJob(stamp + 1)]
    BY <1>2 DEF CreateJob, CreateUnacknowledged
  <2>2. NewJob(stamp + 1).state = "pending"
    BY DEF NewJob, NoJob
  <2> QED
    BY <2>1, <2>2 DEF SoundInv, SoundJobs, TypeOK
<1>3. ASSUME NEW m \in 1..MaxAttempts, JobStep(m)
      PROVE  pushed \subseteq pushed' /\ SoundJobs'
  <2>1. jobs[m] \in Job
    BY DEF TypeOK
  <2>2. PICK s \in {"none", "running", "overrun", "succeeded", "podless", "failed"} :
          /\ SetJob(m, s)
          /\ s = "succeeded" => pushed' = pushed \cup {jobs[m].uid}
          /\ s = "podless" => jobs[m].state = "succeeded" /\ pushed' = pushed
          /\ pushed \subseteq pushed'
    BY <1>3 DEF JobStep, StartJob, SucceedJob, FailJob, OverrunJob, RemoveJob, RemovePod
  <2>3. CASE s = "none"
    BY <2>2, <2>3 DEF SetJob, SoundInv, SoundJobs, TypeOK, NoJob
  <2>4. CASE s # "none"
    <3>1. jobs' = [jobs EXCEPT ![m] = [jobs[m] EXCEPT !.state = s]]
      BY <2>2, <2>4 DEF SetJob
    <3>2. /\ [jobs[m] EXCEPT !.state = s].state = s
          /\ [jobs[m] EXCEPT !.state = s].uid = jobs[m].uid
      BY <2>1 DEF Job
    <3> QED
      BY <2>2, <3>1, <3>2 DEF SoundInv, SoundJobs, TypeOK
  <2> QED
    BY <2>3, <2>4
<1>4. ASSUME NEW m \in 1..MaxAttempts, StrangerCreates(m)
      PROVE  pushed \subseteq pushed' /\ SoundJobs'
  BY <1>4 DEF StrangerCreates, SoundInv, SoundJobs, TypeOK, NoJob
<1> QED
  BY <1>1, <1>2, <1>3, <1>4
  DEF Next, vars, clusterVars, Operator, Subprocess, Create, Save, Reconcile, PassNoInstance,
      PassDecided, PassScan, CreateRefused, Publish, OpenFile, WriteFile, Cleanup, Crash,
      CleanupPanic, Die, Load, CreateObject, DeleteObject, DeadlinePasses, StrangerPublishes

LEMMA SoundStep == IInv /\ SoundInv /\ [Next]_vars => SoundInv'
<1> SUFFICES ASSUME IInv, SoundInv, [Next]_vars PROVE SoundInv'
  OBVIOUS
<1>0. /\ TypeOK /\ WorkerInv /\ AllGood /\ SoundBuilds /\ kube \in born \cup {NoUid}
      /\ Agrees(Absent) /\ Absent.kubeUid = NoUid
  BY NothingAgrees DEF IInv, SoundInv, Absent
<1>1. SoundJobs'
  BY <1>0, PushedStep
<1>2. kube' \in born' \cup {NoUid} /\ born \subseteq born'
  BY <1>0
  DEF Next, vars, clusterVars, Operator, Subprocess, Create, Save, Reconcile, PassNoInstance,
      PassDecided, PassScan, CreateJob, CreateRefused, CreateUnacknowledged, Publish, OpenFile,
      WriteFile, Cleanup, Crash, CleanupPanic, Die, Load, CreateObject, DeleteObject,
      DeadlinePasses, JobStep, StartJob, SucceedJob, FailJob, OverrunJob, RemoveJob,
      RemovePod, SetJob, StrangerPublishes, StrangerCreates
<1>3. ASSUME \A u \in Uid : /\ db'[u] \in {db[u], Absent}
                            /\ disk'[u] \in {disk[u], Absent}
      PROVE  SoundInv'
  BY <1>0, <1>1, <1>2, <1>3 DEF SoundInv, SoundBuilds
<1>4. ASSUME UNCHANGED <<db, disk>> PROVE SoundInv'
  BY <1>3, <1>4
<1>5. ASSUME NEW u \in Uid, Agrees(db'[u]), u \in born, disk' = disk,
             \A v \in Uid \ {u} : db'[v] = db[v]
      PROVE  SoundInv'
  BY <1>0, <1>1, <1>2, <1>5 DEF SoundInv, SoundBuilds
<1>6. ASSUME NEW u \in Uid, Agrees(disk'[u]), disk'[u].kubeUid = NoUid, u \in born, db' = db,
             \A v \in Uid \ {u} : disk'[v] = disk[v]
      PROVE  SoundInv'
  BY <1>0, <1>1, <1>2, <1>6 DEF SoundInv, SoundBuilds
<1>7. Working => worker.uid \in Uid /\ Known(db[worker.uid]) /\ worker.uid \in born
  BY <1>0, NothingAgrees DEF WorkerInv, Working, SoundBuilds, Absent
<1>a. ASSUME NEW u \in Uid, Reconcile(u) PROVE SoundInv'
  <2>1. u \in born /\ disk' = disk
    BY <1>0, <1>a, BuildAssumption DEF Reconcile
  <2>2. CASE db' = db
    BY <1>4, <2>1, <2>2
  <2>3. CASE db' = [db EXCEPT ![u] = NewBuildStatus(u, stamp + 1)]
    <3>1. stamp + 1 \in Nat
      BY <1>0, AllLater
    <3>2. Agrees(NewBuildStatus(u, stamp + 1))
      BY <3>1, NothingAgrees
    <3> QED
      BY <1>0, <1>5, <2>1, <2>3, <3>2 DEF TypeOK
  <2> QED
    BY <1>a, <2>2, <2>3 DEF Reconcile
<1>b. CASE PassScan
  <2>1. PICK d : Examines(db[worker.uid], d)
    BY <1>b, ScanEffect
  <2>2. /\ db' = [db EXCEPT ![worker.uid] = d] /\ disk' = disk /\ Agrees(d)
        /\ worker.at = "pass"
    BY <2>1 DEF Examines, Passed, At
  <2> QED
    BY <1>0, <1>5, <1>7, <2>2 DEF Working, TypeOK
<1>c. CASE CreateJob
  <2>1. PICK c : Creates(db[worker.uid], c)
    BY <1>c, CreateEffect
  <2>2. worker.at = "create" /\ worker.uid \in born /\ worker.uid \in Uid
    BY <1>7, <2>1 DEF Creates, At, Working
  <2>3. Agrees(db[worker.uid]) /\ Known(db[worker.uid]) /\ db[worker.uid] \in BuildStatus
    BY <1>0, <1>7, <2>2 DEF Working, SoundBuilds, TypeOK
  <2>4. /\ db' = [db EXCEPT ![worker.uid] = c] /\ disk' = disk
        /\ c \in BuildStatus /\ c.state = db[worker.uid].state
        /\ c.success = db[worker.uid].success /\ c.completed = db[worker.uid].completed
        /\ c.active.result # "yes"
    BY <2>1 DEF Creates
  <2>5. Agrees(c)
    BY <2>3, <2>4, AgreesSame
  <2> QED
    BY <1>0, <1>5, <2>2, <2>4, <2>5 DEF TypeOK
<1>d. CASE OpenFile
  <2>1. CASE disk' = disk /\ db' = db
    BY <1>4, <2>1
  <2>2. CASE disk' = [disk EXCEPT ![worker.uid] = NoBuild("torn")] /\ db' = db
    BY <1>0, <1>6, <1>7, <1>d, <2>2, NothingAgrees DEF OpenFile, At, Working, TypeOK
  <2> QED
    BY <1>d, <2>1, <2>2 DEF OpenFile
<1>e. CASE WriteFile
  <2> DEFINE b == Saved(db[worker.uid])
  <2>1. /\ worker.at = "write" /\ db' = db
        /\ disk' = [disk EXCEPT ![worker.uid] = b] \/ disk' = disk
    BY <1>e DEF WriteFile, At
  <2>2. /\ worker.uid \in Uid /\ worker.uid \in born /\ db[worker.uid] \in BuildStatus
        /\ Agrees(db[worker.uid]) /\ Known(db[worker.uid])
    BY <1>0, <1>7, <2>1 DEF Working, SoundBuilds, TypeOK
  <2>3. /\ b \in BuildStatus /\ b.state = db[worker.uid].state /\ b.kubeUid = NoUid
        /\ b.success = db[worker.uid].success /\ b.completed = db[worker.uid].completed
        /\ b.active = db[worker.uid].active
    BY <2>2 DEF Saved, BuildStatus
  <2> HIDE DEF b
  <2>4. Agrees(b)
    BY <2>2, <2>3, AgreesSame DEF Agrees
  <2>5. CASE disk' = disk
    BY <1>4, <2>1, <2>5
  <2>6. CASE disk' = [disk EXCEPT ![worker.uid] = b]
    BY <1>0, <1>6, <2>1, <2>2, <2>3, <2>4, <2>6 DEF TypeOK
  <2> QED
    BY <2>1, <2>5, <2>6
<1>f. CASE Cleanup \/ Crash \/ CleanupPanic
  BY <1>3, <1>f DEF Cleanup, Crash, CleanupPanic, Die, Absent
<1>g. CASE Load
  <2>1. PICK bearer \in Bearers : \A u \in Uid :
          disk'[u] \in {disk[u], Absent} /\ db'[u] \in Loaded(u, bearer)
    BY <1>g DEF Load, Absent
  <2>2. ASSUME NEW u \in Uid
        PROVE  Agrees(db'[u]) /\ (u \notin born => db'[u] = Absent)
    <3>1. /\ Agrees(disk[u]) /\ disk[u] \in BuildStatus
          /\ bearer \in Uid \cup {NoUid, Stranger}
          /\ u \notin born => ~Known(disk[u])
      BY <1>0, NothingAgrees DEF SoundBuilds, TypeOK, Absent, Bearers
    <3>2. \/ db'[u] = Absent
          \/ Known(disk[u]) /\ db'[u] = NoBuild("nil")
          \/ Known(disk[u]) /\ db'[u] = [disk[u] EXCEPT !.kubeUid = bearer]
      BY <2>1 DEF Loaded, Read, Absent
    <3>3. Agrees([disk[u] EXCEPT !.kubeUid = bearer]) \/ ~Known(disk[u])
      <4> DEFINE c == [disk[u] EXCEPT !.kubeUid = bearer]
      <4>1. /\ c \in BuildStatus /\ c.state = disk[u].state /\ c.success = disk[u].success
            /\ c.completed = disk[u].completed /\ c.active = disk[u].active
        BY <3>1 DEF BuildStatus
      <4> HIDE DEF c
      <4>2. CASE Known(disk[u])
        BY <3>1, <4>1, <4>2, AgreesSame DEF Agrees, c
      <4> QED
        BY <4>2
    <3> QED
      BY <3>1, <3>2, <3>3, NothingAgrees DEF Absent
  <2> QED
    BY <1>0, <1>1, <1>2, <2>1, <2>2 DEF SoundInv, SoundBuilds
<1>h. CASE \/ PassNoInstance \/ PassDecided \/ CreateRefused \/ CreateUnacknowledged \/ Publish
           \/ DeleteObject \/ (\E u \in Uid : CreateObject(u))
           \/ (\E t \in HeldTimes : DeadlinePasses(t))
           \/ (\E n \in 1..MaxAttempts : JobStep(n) \/ StrangerCreates(n))
           \/ StrangerPublishes \/ UNCHANGED vars
  <2>1. UNCHANGED <<db, disk>>
    BY <1>h DEF PassNoInstance, PassDecided, CreateRefused, CreateUnacknowledged, Publish,
      DeleteObject, CreateObject, DeadlinePasses, JobStep, StartJob, SucceedJob, FailJob,
      OverrunJob, RemoveJob, RemovePod, SetJob, StrangerPublishes, StrangerCreates, vars
  <2> QED
    BY <1>4, <2>1
<1> QED
  BY <1>a, <1>b, <1>c, <1>d, <1>e, <1>f, <1>g, <1>h
  DEF Next, Operator, Subprocess, Create, Save
-----------------------------------------------------------------------------
(***************************************************************************)
(* HomeInv is inductive, if no KoupletBuild is in another namespace: then  *)
(* load finds each object where it is, and nothing is another's.           *)
(***************************************************************************)

LEMMA NoStrangers ==
  ASSUME ~Fault("elsewhere")
  PROVE  /\ Bearers = {kube}
         /\ ~StrangerPublishes /\ \A n : ~StrangerCreates(n)
BY DEF Bearers, StrangerPublishes, StrangerCreates, Intruded

LEMMA HomeInit == Init => HomeInv
BY BuildAssumption DEF Init, HomeInv, Astray, Idle, NoBuild

LEMMA HomeStep ==
  ASSUME ~Fault("elsewhere"), IInv, SoundInv, HomeInv, [Next]_vars
  PROVE  HomeInv'
<1>0. /\ TypeOK /\ WorkerInv /\ Stranger \notin Uid \cup {NoUid}
      /\ Absent.kubeUid = NoUid /\ Idle.inst = NoUid /\ Down.inst = NoUid
  BY BuildAssumption, NothingAgrees DEF IInv, Absent, Idle, Down
<1>1. ASSUME EndPass(TRUE) \/ EndPass(FALSE) \/ EndPass(worker.changed)
      PROVE  worker'.inst # Stranger
  BY <1>0, <1>1 DEF EndPass, HomeInv, TypeOK
<1>a. ASSUME NEW u \in Uid, Reconcile(u) PROVE HomeInv'
  <2>1. worker'.inst = NoUid
    BY <1>0, <1>a DEF Reconcile, Idle
  <2>2. CASE db' = db
    BY <1>0, <2>1, <2>2 DEF HomeInv
  <2>3. CASE db' = [db EXCEPT ![u] = NewBuildStatus(u, stamp + 1)]
    <3>1. NewBuildStatus(u, stamp + 1).kubeUid = u
      BY DEF NewBuildStatus, NoBuild
    <3> QED
      BY <1>0, <2>1, <2>3, <3>1 DEF HomeInv, Astray, TypeOK
  <2> QED
    BY <1>a, <2>2, <2>3 DEF Reconcile
<1>b. CASE PassScan
  <2>1. PICK d : Examines(db[worker.uid], d)
    BY <1>b, ScanEffect
  <2>2. /\ worker.uid \in Uid /\ db' = [db EXCEPT ![worker.uid] = d]
        /\ d.kubeUid = db[worker.uid].kubeUid
    BY <1>b, <2>1, ScanEffect DEF Examines, Passed
  <2>3. Instance(db[worker.uid]) # Stranger
    BY <1>0, <2>2 DEF HomeInv, Instance, Astray, TypeOK
  <2>4. \/ EndPass(TRUE) \/ EndPass(FALSE)
        \/ \E ch : worker' = [worker EXCEPT !.at = "create",
                              !.inst = Instance(db[worker.uid]), !.changed = ch]
    BY <1>b DEF PassScan
  <2>5. worker'.inst # Stranger
    BY <1>0, <1>1, <2>3, <2>4 DEF TypeOK
  <2> QED
    BY <1>0, <2>2, <2>5 DEF HomeInv, Astray, TypeOK
<1>c. CASE CreateJob
  <2>1. PICK c : Creates(db[worker.uid], c)
    BY <1>c, CreateEffect
  <2>2. /\ worker.uid \in Uid /\ db' = [db EXCEPT ![worker.uid] = c]
        /\ c.kubeUid = db[worker.uid].kubeUid /\ EndPass(TRUE)
    BY <1>c, <2>1, CreateEffect DEF Creates
  <2> QED
    BY <1>0, <1>1, <2>2 DEF HomeInv, Astray, TypeOK
<1>d. CASE PassNoInstance \/ PassDecided \/ CreateRefused \/ CreateUnacknowledged
  BY <1>1, <1>d DEF HomeInv, Astray, PassNoInstance, PassDecided, CreateRefused, CreateUnacknowledged
<1>e. CASE Save
  <2>1. db' = db /\ worker'.inst \in {worker.inst, NoUid}
    BY <1>0, <1>e DEF Save, Publish, OpenFile, WriteFile, Goto, TypeOK
  <2> QED
    BY <1>0, <2>1 DEF HomeInv, Astray
<1>f. CASE Cleanup \/ Crash \/ CleanupPanic
  <2>1. /\ worker' = worker \/ worker' = Down
        /\ \A u \in Uid : db'[u] = db[u] \/ db'[u] = Absent
    BY <1>f DEF Cleanup, Crash, CleanupPanic, Die, Absent
  <2> QED
    BY <1>0, <2>1 DEF HomeInv, Astray
<1>g. CASE Load
  <2>1. worker' = Idle /\ \A u \in Uid : db'[u] \in Loaded(u, kube)
    BY <1>g, NoStrangers DEF Load
  <2>2. ASSUME NEW u \in Uid PROVE db'[u].kubeUid # Stranger
    <3>1. disk[u] \in BuildStatus /\ kube \in Uid \cup {NoUid}
      BY <1>0 DEF TypeOK
    <3>2. \/ db'[u] = Absent \/ db'[u] = NoBuild("nil")
          \/ db'[u] = [disk[u] EXCEPT !.kubeUid = kube]
      BY <2>1 DEF Loaded, Read, Absent
    <3>3. [disk[u] EXCEPT !.kubeUid = kube].kubeUid = kube
      BY <3>1 DEF BuildStatus
    <3> QED
      BY <1>0, <3>1, <3>2, <3>3, NothingAgrees
  <2> QED
    BY <1>0, <2>1, <2>2 DEF HomeInv, Astray
<1>h. CASE \/ DeleteObject \/ (\E u \in Uid : CreateObject(u))
           \/ (\E t \in HeldTimes : DeadlinePasses(t))
           \/ (\E n \in 1..MaxAttempts : JobStep(n)) \/ UNCHANGED vars
  <2>1. UNCHANGED <<db, worker>>
    BY <1>h DEF DeleteObject, CreateObject, DeadlinePasses, JobStep, StartJob, SucceedJob,
      FailJob, OverrunJob, RemoveJob, RemovePod, SetJob, vars
  <2> QED
    BY <2>1 DEF HomeInv, Astray
<1> QED
  BY <1>a, <1>b, <1>c, <1>d, <1>e, <1>f, <1>g, <1>h, NoStrangers
  DEF Next, Operator, Subprocess, Create
-----------------------------------------------------------------------------
(***************************************************************************)
(* HistoryInv is inductive, if moreover objects and Jobs can be read.      *)
(***************************************************************************)

(* A file stays behind a build through a pass, and through a new attempt;  *)
(* what is written is not ahead, nor is what is loaded.                    *)
LEMMA BehindPass ==
  ASSUME NEW d \in BuildStatus, NEW b \in BuildStatus, NEW e,
         Behind(d, b), Undecided(b), Passed(b, e)
  PROVE  Behind(d, e)
<1>1. /\ Len(d.completed) \in Nat /\ Len(b.completed) \in Nat
      /\ b.completed \in Seq(Attempt)
  BY AttemptsTyped DEF BuildStatus
<1>2. d.state \notin Terminal
  BY DEF Behind, Undecided, Saved, BuildStatus
<1>3. CASE Finishes(b, e)
  <2>1. PICK a \in Attempt : e.completed = Append(b.completed, a)
    BY <1>3 DEF Finishes
  <2>2. /\ Len(e.completed) = Len(b.completed) + 1
        /\ \A i \in 1..Len(b.completed) : e.completed[i] = b.completed[i]
    BY <1>1, <2>1
  <2>3. e.created = b.created
    BY DEF Passed
  <2> QED
    BY <1>1, <1>2, <2>2, <2>3 DEF Behind
<1>4. CASE ~Finishes(b, e)
  BY <1>1, <1>2, <1>4 DEF Behind, Passed
<1> QED
  BY <1>3, <1>4

LEMMA BehindCreate ==
  ASSUME NEW d \in BuildStatus, Ordered(d), NEW b \in BuildStatus, NEW e,
         Behind(d, b), Undecided(b), b.active = NoAttempt,
         e.created = b.created, e.completed = b.completed
  PROVE  Behind(d, e) /\ (d.active # NoAttempt => d.active.n < NextAttempt(b))
<1>1. /\ Len(d.completed) \in Nat /\ Len(b.completed) \in Nat
      /\ d.active # NoAttempt => d.active.n = Len(d.completed) + 1
  BY AttemptsTyped DEF Ordered
<1>2. d.state \notin Terminal
  BY DEF Behind, Undecided, Saved, BuildStatus
<1>3. d.active # NoAttempt => d.active.n # b.active.n
  BY <1>1 DEF NoAttempt
<1>4. d.active # NoAttempt => Len(d.completed) < Len(b.completed)
  BY <1>3 DEF Behind
<1> QED
  BY <1>1, <1>2, <1>4 DEF Behind, NextAttempt

LEMMA BehindSame ==
  /\ \A b \in BuildStatus : Behind(Saved(b), b)
  /\ \A d \in BuildStatus : \A u :
       d.kubeUid = NoUid => Behind(d, [d EXCEPT !.kubeUid = u])
<1>1. ASSUME NEW b \in BuildStatus PROVE Behind(Saved(b), b)
  BY AttemptsTyped DEF Behind, Saved, BuildStatus
<1>2. ASSUME NEW d \in BuildStatus, NEW u, d.kubeUid = NoUid
      PROVE  Behind(d, [d EXCEPT !.kubeUid = u])
  <2> DEFINE b == [d EXCEPT !.kubeUid = u]
  <2>1. /\ b.created = d.created /\ b.active = d.active /\ b.completed = d.completed
        /\ Saved(b) = d
    BY <1>2 DEF Saved, BuildStatus
  <2> HIDE DEF b
  <2> QED
    BY <2>1, AttemptsTyped DEF Behind, b
<1> QED
  BY <1>1, <1>2

LEMMA HistoryInit == Init => HistoryInv
BY NothingAgrees DEF Init, HistoryInv, Working, Idle

LEMMA HistoryStep ==
  ASSUME ~Fault("elsewhere"), ~Fault("api"),
         IInv, SoundInv, HomeInv, HistoryInv, [Next]_vars
  PROVE  HistoryInv'
<1>0. /\ TypeOK /\ WorkerInv /\ AllGood /\ SoundBuilds /\ kube \in born \cup {NoUid}
      /\ ~Known(Absent) /\ Absent.state # "nil"
  BY NothingAgrees DEF IInv, SoundInv, Absent
<1>1. Working => worker.uid \in Uid /\ Known(db[worker.uid])
  BY <1>0 DEF WorkerInv, Working
<1>2. ASSUME Working, kube' = kube, Known(db'[worker.uid]), db'[worker.uid].state # "nil",
             Known(disk'[worker.uid]) => Behind(disk'[worker.uid], db'[worker.uid]),
             \A v \in Uid \ {worker.uid} : db'[v] = db[v] /\ disk'[v] = disk[v],
             worker'.at = "idle" \/ worker'.uid = worker.uid
      PROVE  HistoryInv'
  <2>1. ~At("down")
    BY <1>2 DEF Working, At
  <2>2. Working' => worker'.uid = worker.uid
    BY <1>2 DEF Working
  <2>3. kube \in Uid \cup {NoUid}
    BY <1>0 DEF TypeOK
  <2> QED
    BY <1>1, <1>2, <2>1, <2>2, <2>3 DEF HistoryInv
<1>3. ASSUME NEW changed \in BOOLEAN, EndPass(changed)
      PROVE  worker'.at = "idle" \/ worker'.uid = worker.uid
  BY <1>0, <1>3, EndPassEffect
<1>a. ASSUME NEW u \in Uid, Reconcile(u) PROVE HistoryInv'
  <2>1. /\ worker.at = "idle" /\ kube = u /\ kube' = kube /\ disk' = disk
        /\ worker'.at = "pass" /\ worker'.uid = u
    BY <1>0, <1>a DEF Reconcile, At, Idle
  <2>2. CASE Known(db[u])
    BY <1>a, <2>1, <2>2 DEF Reconcile, HistoryInv, At, Working
  <2>3. CASE ~Known(db[u])
    <3>1. db' = [db EXCEPT ![u] = NewBuildStatus(u, stamp + 1)] /\ stamp + 1 \in Nat
      BY <1>0, <1>a, <2>3, AllLater DEF Reconcile
    <3>2. NewBuildStatus(u, stamp + 1).state = "Waiting"
      BY <3>1, NewBuildTyped
    <3>3. ~Known(disk[u])
      BY <2>1, <2>3 DEF HistoryInv, At
    <3> QED
      BY <1>0, <2>1, <3>1, <3>2, <3>3 DEF HistoryInv, At, Working, TypeOK
  <2> QED
    BY <2>2, <2>3
<1>b. CASE PassScan
  <2>1. PICK d : Examines(db[worker.uid], d)
    BY <1>b, ScanEffect
  <2>2. /\ Working /\ kube' = kube /\ disk' = disk /\ Undecided(db[worker.uid])
        /\ db' = [db EXCEPT ![worker.uid] = d] /\ Passed(db[worker.uid], d)
        /\ worker'.at = "idle" \/ worker'.uid = worker.uid
    BY <1>3, <2>1 DEF Examines, At, Working, clusterVars
  <2>3. d.state \in BuildState \ {"nil"}
    BY <2>2 DEF Passed, BuildState, Terminal
  <2>4. Known(disk[worker.uid]) => Behind(disk[worker.uid], d)
    BY <1>0, <1>1, <2>2, BehindPass DEF HistoryInv, TypeOK
  <2> QED
    BY <1>0, <1>1, <1>2, <2>2, <2>3, <2>4 DEF TypeOK, Known
<1>c. CASE CreateJob
  <2>1. PICK c : Creates(db[worker.uid], c)
    BY <1>c, CreateEffect
  <2>2. /\ Working /\ kube' = kube /\ disk' = disk /\ Undecided(db[worker.uid])
        /\ db' = [db EXCEPT ![worker.uid] = c]
        /\ worker'.at = "idle" \/ worker'.uid = worker.uid
        /\ db[worker.uid].active = NoAttempt /\ c.state = "Running"
        /\ c.created = db[worker.uid].created /\ c.completed = db[worker.uid].completed
    BY <1>3, <2>1 DEF Creates, At, Working, Undecided, Terminal
  <2>3. Ordered(disk[worker.uid])
    BY <1>0, <1>1, <2>2 DEF AllGood, Good
  <2>4. Known(disk[worker.uid]) => Behind(disk[worker.uid], c)
    BY <1>0, <1>1, <2>2, <2>3, BehindCreate DEF HistoryInv, TypeOK
  <2> QED
    BY <1>0, <1>1, <1>2, <2>2, <2>4 DEF TypeOK, Known, BuildState
<1>d. CASE PassNoInstance \/ PassDecided \/ CreateRefused \/ Publish
  <2>1. /\ Working /\ kube' = kube /\ disk' = disk /\ db' = db
        /\ worker'.at = "idle" \/ worker'.uid = worker.uid
    BY <1>0, <1>3, <1>d
    DEF PassNoInstance, PassDecided, CreateRefused, Publish, Goto, At, Working, TypeOK,
        clusterVars
  <2> QED
    BY <1>1, <1>2, <2>1 DEF HistoryInv
<1>e. CASE CreateUnacknowledged
  BY <1>e DEF CreateUnacknowledged
<1>f. CASE OpenFile
  <2>1. /\ Working /\ kube' = kube /\ db' = db
        /\ disk' = disk \/ disk' = [disk EXCEPT ![worker.uid] = NoBuild("torn")]
        /\ worker'.at = "idle" \/ worker'.uid = worker.uid
    <3>1. worker' = Idle \/ worker' = [worker EXCEPT !.at = "write"]
      BY <1>f DEF OpenFile, Goto
    <3>2. worker'.at = "idle" \/ worker'.uid = worker.uid
      <4>1. Idle.at = "idle" /\ [worker EXCEPT !.at = "write"].uid = worker.uid
        BY <1>0 DEF Idle, TypeOK
      <4> QED
        BY <3>1, <4>1
    <3> QED
      BY <1>f, <3>2 DEF OpenFile, At, Working, clusterVars
  <2> QED
    BY <1>0, <1>1, <1>2, <2>1, NothingAgrees DEF HistoryInv, TypeOK
<1>g. CASE WriteFile
  <2>1. /\ Working /\ kube' = kube /\ db' = db /\ worker'.at = "idle"
        /\ disk' = disk \/ disk' = [disk EXCEPT ![worker.uid] = Saved(db[worker.uid])]
    BY <1>g DEF WriteFile, At, Working, Idle, clusterVars
  <2>2. Behind(Saved(db[worker.uid]), db[worker.uid])
    BY <1>0, <1>1, <2>1, BehindSame DEF TypeOK
  <2> QED
    BY <1>0, <1>1, <1>2, <2>1, <2>2 DEF HistoryInv, TypeOK
<1>h. CASE Cleanup
  <2>1. /\ worker.at = "idle" /\ UNCHANGED <<kube, worker>>
        /\ \A u \in Uid : \/ db'[u] = db[u] /\ disk'[u] = disk[u]
                          \/ db'[u] = Absent /\ disk'[u] = Absent
    BY <1>h DEF Cleanup, At, Absent, clusterVars
  <2> QED
    BY <1>0, <2>1 DEF HistoryInv, At, Working
<1>i. CASE Crash \/ CleanupPanic
  <2>1. /\ worker'.at = "down" /\ disk' = disk
        /\ \A u \in Uid : db'[u] = Absent
    BY <1>i DEF Crash, CleanupPanic, Die, Down, Idle, Absent
  <2> QED
    BY <1>0, <2>1 DEF HistoryInv, At, Working
<1>j. CASE Load
  <2>1. /\ worker'.at = "idle" /\ kube' = kube
        /\ \A u \in Uid : disk'[u] \in {disk[u], Absent} /\ db'[u] \in Loaded(u, kube)
    BY <1>j, NoStrangers DEF Load, Absent, Idle, clusterVars
  <2>2. ASSUME NEW u \in Uid
        PROVE  /\ db'[u].state # "nil"
               /\ Known(disk[u]) /\ Known(db'[u]) => Behind(disk[u], db'[u])
               /\ Known(disk[u]) /\ ~Known(db'[u]) => kube # u
    <3>1. /\ disk[u] \in BuildStatus /\ disk[u].kubeUid = NoUid
      BY <1>0 DEF SoundBuilds, TypeOK
    <3>2. \/ db'[u] = Absent /\ (Known(disk[u]) => kube = NoUid)
          \/ Known(disk[u]) /\ db'[u] = [disk[u] EXCEPT !.kubeUid = kube]
      BY <2>1 DEF Loaded, Read, Absent
    <3>3. CASE db'[u] = Absent /\ (Known(disk[u]) => kube = NoUid)
      BY <1>0, <3>3, BuildAssumption
    <3>4. CASE Known(disk[u]) /\ db'[u] = [disk[u] EXCEPT !.kubeUid = kube]
      <4>1. db'[u].state = disk[u].state /\ disk[u].state # "nil"
        BY <3>1, <3>4 DEF BuildStatus, Known, BuildState, Terminal
      <4> QED
        BY <3>1, <3>4, <4>1, BehindSame DEF Known
    <3> QED
      BY <3>2, <3>3, <3>4
  <2> QED
    BY <1>0, <2>1, <2>2 DEF HistoryInv, Working
<1>k. ASSUME NEW u \in Uid, CreateObject(u) PROVE HistoryInv'
  <2>1. db[u] = Absent /\ disk[u] = Absent
    BY <1>0, <1>k DEF CreateObject, SoundBuilds
  <2> QED
    BY <1>0, <1>k, <2>1 DEF CreateObject, HistoryInv, At, Working
<1>l. CASE DeleteObject
  BY <1>l, BuildAssumption DEF DeleteObject, HistoryInv, At, Working
<1>m. CASE \/ (\E t \in HeldTimes : DeadlinePasses(t))
           \/ (\E n \in 1..MaxAttempts : JobStep(n)) \/ UNCHANGED vars
  <2>1. UNCHANGED <<db, disk, kube, worker>>
    BY <1>m DEF DeadlinePasses, JobStep, StartJob, SucceedJob, FailJob,
      OverrunJob, RemoveJob, RemovePod, SetJob, vars
  <2> QED
    BY <2>1 DEF HistoryInv, At, Working
<1> QED
  BY <1>a, <1>b, <1>c, <1>d, <1>e, <1>f, <1>g, <1>h, <1>i, <1>j, <1>k, <1>l, <1>m,
     NoStrangers
  DEF Next, Operator, Subprocess, Create, Save
-----------------------------------------------------------------------------
(***************************************************************************)
(* EarnedInv is inductive, on the same conditions.                         *)
(***************************************************************************)

(* No name of a Job is taken by another.                                   *)
JobsKept ==
  \A n \in 1..MaxAttempts :
    \/ jobs'[n].state = "none"
    \/ jobs'[n].uid = jobs[n].uid /\ jobs[n].state # "none"

(* The number of an active attempt is that of a Job.                       *)
LEMMA ActiveNumbered ==
  ASSUME NEW b \in BuildStatus, Ordered(b), b.active # NoAttempt
  PROVE  b.active.n \in 1..MaxAttempts
<1>1. b.active.n \in 0..MaxAttempts /\ b.active.n # 0
  BY AttemptsTyped DEF Ordered
<1> QED
  BY <1>1, BuildAssumption

LEMMA MatchKept ==
  ASSUME NEW b \in BuildStatus, Ordered(b), Match(b, jobs), JobsKept
  PROVE  Match(b, jobs')
BY ActiveNumbered DEF Match, JobsKept

(* Nothing has no attempt, nor has a new build.                            *)
LEMMA NothingEarned ==
  ASSUME NEW b, b.active = NoAttempt, b.completed = <<>>, NEW images, NEW cluster
  PROVE  Earned(b, images) /\ Match(b, cluster)
BY DEF Earned, Match

LEMMA EarnedInit == Init => EarnedInv
BY NothingAgrees, NothingEarned DEF Init, EarnedInv, Working, Idle

(* A pass leaves an earned build, if the Job it looked at was the build's. *)
LEMMA EarnedPass ==
  ASSUME SoundJobs, NEW b \in BuildStatus, Ordered(b), NEW d, Passed(b, d),
         Earned(b, pushed), Match(b, jobs)
  PROVE  Earned(d, pushed) /\ Match(d, jobs)
<1>1. b.completed \in Seq(Attempt)
  BY DEF BuildStatus
<1>2. CASE Finishes(b, d)
  <2>1. PICK a \in Attempt :
          /\ d.completed = Append(b.completed, a)
          /\ a.n = b.active.n /\ a.job = b.active.job
          /\ a.result = "yes" => jobs[b.active.n].state = "succeeded"
    BY <1>2 DEF Finishes
  <2>2. b.active # NoAttempt /\ d.active = NoAttempt /\ b.active.n \in 1..MaxAttempts
    BY <1>2, ActiveNumbered DEF Finishes
  <2>3. a.result = "yes" => a.job \in pushed
    BY <2>1, <2>2 DEF SoundJobs, Match
  <2>4. /\ DOMAIN d.completed = 1..(Len(b.completed) + 1)
        /\ Len(b.completed) \in Nat /\ DOMAIN b.completed = 1..Len(b.completed)
        /\ \A i \in 1..Len(b.completed) : d.completed[i] = b.completed[i]
        /\ d.completed[Len(b.completed) + 1] = a
    BY <1>1, <2>1
  <2>5. Earned(d, pushed)
    BY <2>3, <2>4 DEF Earned
  <2> QED
    BY <2>2, <2>5 DEF Match
<1>3. CASE ~Finishes(b, d)
  BY <1>3 DEF Passed, Earned, Match
<1> QED
  BY <1>2, <1>3

LEMMA EarnedStep ==
  ASSUME ~Fault("elsewhere"), ~Fault("api"),
         IInv, SoundInv, HomeInv, HistoryInv, EarnedInv, [Next]_vars
  PROVE  EarnedInv'
<1>0. /\ TypeOK /\ WorkerInv /\ AllGood /\ SoundBuilds /\ SoundJobs
      /\ kube \in born \cup {NoUid}
  BY DEF IInv, SoundInv
<1>1. Working => worker.uid \in Uid /\ Known(db[worker.uid])
  BY <1>0 DEF WorkerInv, Working
<1>2. pushed \subseteq pushed'
  BY <1>0, PushedStep
<1>3. \A u \in Uid : /\ Earned(db[u], pushed') /\ Earned(disk[u], pushed')
                     /\ db[u] \in BuildStatus /\ disk[u] \in BuildStatus
                     /\ Ordered(db[u]) /\ Ordered(disk[u])
  BY <1>0, <1>2 DEF EarnedInv, Earned, AllGood, Good, TypeOK
<1>4. ASSUME jobs' = jobs PROVE JobsKept
  BY <1>4 DEF JobsKept
<1>5. ASSUME JobsKept, kube' \in {kube, NoUid},
             \A u \in Uid : /\ db'[u] \in {db[u], Absent}
                            /\ disk'[u] \in {disk[u], Absent, NoBuild("torn")},
             Working' => /\ Working /\ worker'.uid = worker.uid
                         /\ db'[worker.uid] = db[worker.uid]
      PROVE  EarnedInv'
  <2>1. ASSUME NEW u \in Uid, kube = u
        PROVE  Match(db[u], jobs') /\ Match(disk[u], jobs')
    BY <1>3, <1>5, <2>1, MatchKept DEF EarnedInv
  <2>2. Working => Match(db[worker.uid], jobs')
    BY <1>1, <1>3, <1>5, MatchKept DEF EarnedInv
  <2>3. \A b \in {Absent, NoBuild("torn")} : Earned(b, pushed') /\ Match(b, jobs')
    BY NothingAgrees, NothingEarned DEF Absent
  <2> QED
    BY <1>3, <1>5, <2>1, <2>2, <2>3, BuildAssumption DEF EarnedInv
<1>6. ASSUME NEW changed \in BOOLEAN, EndPass(changed), Working
      PROVE  Working' => worker'.uid = worker.uid
  BY <1>0, <1>6, EndPassEffect DEF Working
<1>a. ASSUME NEW u \in Uid, Reconcile(u) PROVE EarnedInv'
  <2>1. /\ kube = u /\ kube' = kube /\ disk' = disk /\ jobs' = jobs
        /\ pushed' = pushed /\ worker'.uid = u
    BY <1>0, <1>a DEF Reconcile, At, Idle
  <2>2. CASE Known(db[u])
    BY <1>a, <2>1, <2>2 DEF Reconcile, EarnedInv
  <2>3. CASE ~Known(db[u])
    <3> DEFINE b == NewBuildStatus(u, stamp + 1)
    <3>1. db' = [db EXCEPT ![u] = b] /\ stamp + 1 \in Nat
      BY <1>0, <1>a, <2>3, AllLater DEF Reconcile
    <3>2. b.active = NoAttempt /\ b.completed = <<>>
      BY <3>1, NewBuildTyped
    <3> HIDE DEF b
    <3>3. Earned(b, pushed) /\ Match(b, jobs)
      BY <3>2, NothingEarned
    <3> QED
      BY <1>0, <2>1, <3>1, <3>3 DEF EarnedInv, TypeOK
  <2> QED
    BY <2>2, <2>3
<1>b. CASE PassScan
  <2>1. PICK d : Examines(db[worker.uid], d)
    BY <1>b, ScanEffect
  <2>2. /\ Working /\ kube' = kube /\ disk' = disk /\ jobs' = jobs /\ pushed' = pushed
        /\ db' = [db EXCEPT ![worker.uid] = d] /\ Passed(db[worker.uid], d)
        /\ Working' => worker'.uid = worker.uid
    BY <1>6, <2>1 DEF Examines, At, Working, clusterVars
  <2>3. Earned(d, pushed) /\ Match(d, jobs)
    BY <1>0, <1>1, <1>3, <2>2, EarnedPass DEF EarnedInv
  <2> QED
    BY <1>0, <1>1, <2>2, <2>3 DEF EarnedInv, TypeOK
<1>c. CASE CreateJob
  <2> DEFINE w == worker.uid
             n == NextAttempt(db[w])
  <2>1. PICK c : Creates(db[w], c)
    BY <1>c, CreateEffect
  <2>2. /\ Working /\ kube' = kube /\ disk' = disk /\ pushed' = pushed
        /\ jobs' = [jobs EXCEPT ![n] = NewJob(stamp + 1)]
        /\ db' = [db EXCEPT ![w] = c] /\ Undecided(db[w])
        /\ db[w].active = NoAttempt /\ c.created = db[w].created
        /\ c.completed = db[w].completed /\ c.active.n = n /\ c.active.job = stamp + 1
        /\ c \in BuildStatus
        /\ Working' => worker'.uid = w
    BY <1>6, <2>1 DEF Creates, HomeInv, At, Working, Undecided, Terminal
  <2>3. w \in Uid /\ Known(db[w]) /\ worker.at = "create" /\ n \in 1..MaxAttempts
    <3>1. w \in Uid /\ Known(db[w]) /\ worker.at = "create" /\ Len(db[w].completed) < MaxAttempts
      BY <1>0, <1>1, <2>1, <2>2 DEF WorkerInv, Creates, At
    <3> QED
      BY <1>3, <3>1, AttemptsTyped, BuildAssumption DEF NextAttempt
  <2>4. NewJob(stamp + 1).uid = stamp + 1
    BY DEF NewJob, NoJob
  <2>5. jobs'[n].uid = stamp + 1 /\ \A m \in 1..MaxAttempts \ {n} : jobs'[m] = jobs[m]
    BY <1>0, <2>2, <2>3, <2>4 DEF TypeOK
  <2>6. Earned(c, pushed) /\ Match(c, jobs')
    BY <1>3, <2>2, <2>3, <2>5 DEF Earned, Match
  <2>7. ASSUME kube = w PROVE Match(disk[w], jobs')
    <3>1. CASE ~Known(disk[w])
      <4>1. disk[w].active = NoAttempt
        <5>1. PICK s : disk[w] = NoBuild(s)
          BY <1>0, <2>3, <3>1 DEF SoundBuilds, Agrees
        <5> QED
          BY <5>1 DEF NoBuild
      <4> QED
        BY <4>1 DEF Match
    <3>2. CASE Known(disk[w])
      <4>1. disk[w].active # NoAttempt => disk[w].active.n < n
        BY <1>3, <2>2, <2>3, <3>2, BehindCreate DEF HistoryInv
      <4>2. disk[w].active # NoAttempt => disk[w].active.n \in 1..MaxAttempts \ {n}
        BY <1>3, <2>3, <4>1, ActiveNumbered
      <4>3. Match(disk[w], jobs)
        BY <2>3, <2>7 DEF EarnedInv
      <4> QED
        BY <2>5, <4>2, <4>3 DEF Match
    <3> QED
      BY <3>1, <3>2
  <2>8. ASSUME NEW u \in Uid, kube = u, u # w
        PROVE  Match(db[u], jobs') /\ Match(disk[u], jobs')
    <3>1. db[u] = Absent /\ disk[u] = Absent
      BY <2>2, <2>8, BuildAssumption DEF HistoryInv
    <3> QED
      BY <3>1, NothingAgrees, NothingEarned DEF Absent
  <2> HIDE DEF w, n
  <2>9. db'[w] = c /\ \A u \in Uid \ {w} : db'[u] = db[u]
    BY <1>0, <2>2, <2>3 DEF TypeOK
  <2> QED
    BY <1>3, <2>2, <2>3, <2>6, <2>7, <2>8, <2>9 DEF EarnedInv
<1>d. CASE PassNoInstance \/ PassDecided \/ CreateRefused \/ Publish
  <2>1. /\ Working /\ UNCHANGED <<kube, db, disk, jobs>>
        /\ Working' => worker'.uid = worker.uid
    BY <1>0, <1>6, <1>d
    DEF PassNoInstance, PassDecided, CreateRefused, Publish, Goto, At, Working, TypeOK,
        clusterVars
  <2> QED
    BY <1>4, <1>5, <2>1
<1>e. CASE CreateUnacknowledged
  BY <1>e DEF CreateUnacknowledged
<1>f. CASE OpenFile
  <2>1. /\ Working /\ UNCHANGED <<kube, db, jobs>>
        /\ disk' = disk \/ disk' = [disk EXCEPT ![worker.uid] = NoBuild("torn")]
        /\ worker' = Idle \/ worker' = [worker EXCEPT !.at = "write"]
    BY <1>f DEF OpenFile, Goto, At, Working, clusterVars
  <2>2. Idle.at = "idle" /\ [worker EXCEPT !.at = "write"].uid = worker.uid
    BY <1>0 DEF Idle, TypeOK
  <2>3. Working' => worker'.uid = worker.uid
    BY <2>1, <2>2 DEF Working
  <2>4. \A u \in Uid : disk'[u] \in {disk[u], NoBuild("torn")}
    BY <1>0, <2>1 DEF TypeOK
  <2> QED
    BY <1>4, <1>5, <2>1, <2>3, <2>4
<1>g. CASE WriteFile
  <2> DEFINE w == worker.uid
  <2>1. /\ Working /\ UNCHANGED <<kube, db, jobs, pushed>> /\ ~Working'
        /\ disk' = disk \/ disk' = [disk EXCEPT ![w] = Saved(db[w])]
    BY <1>g DEF WriteFile, At, Working, Idle, clusterVars
  <2>2. /\ w \in Uid /\ Saved(db[w]).active = db[w].active
        /\ Saved(db[w]).completed = db[w].completed
    BY <1>1, <1>3, <2>1 DEF Saved, BuildStatus
  <2>3. Earned(Saved(db[w]), pushed) /\ Match(Saved(db[w]), jobs)
    BY <2>1, <2>2 DEF EarnedInv, Earned, Match
  <2>4. disk'[w] \in {disk[w], Saved(db[w])} /\ \A u \in Uid \ {w} : disk'[u] = disk[u]
    BY <1>0, <2>1, <2>2 DEF TypeOK
  <2> HIDE DEF w
  <2> QED
    BY <2>1, <2>3, <2>4 DEF EarnedInv
<1>h. CASE Cleanup \/ Crash \/ CleanupPanic
  <2>1. /\ UNCHANGED <<kube, jobs>> /\ ~Working'
        /\ \A u \in Uid : /\ db'[u] \in {db[u], Absent}
                          /\ disk'[u] \in {disk[u], Absent}
    BY <1>h DEF Cleanup, Crash, CleanupPanic, Die, Absent, Down, Idle, At, Working, clusterVars
  <2> QED
    BY <1>4, <1>5, <2>1
<1>i. CASE Load
  <2>1. /\ UNCHANGED <<kube, jobs, pushed>> /\ ~Working'
        /\ \A u \in Uid : disk'[u] \in {disk[u], Absent} /\ db'[u] \in Loaded(u, kube)
    BY <1>i, NoStrangers DEF Load, Absent, Idle, Working, clusterVars
  <2>2. Earned(Absent, pushed) /\ Match(Absent, jobs)
    BY NothingAgrees, NothingEarned DEF Absent
  <2>3. ASSUME NEW u \in Uid
        PROVE  Earned(db'[u], pushed) /\ (kube = u => Match(db'[u], jobs))
    <3>1. \/ db'[u] = Absent
          \/ db'[u].active = disk[u].active /\ db'[u].completed = disk[u].completed
      BY <1>3, <2>1 DEF Loaded, Read, Absent, BuildStatus
    <3> QED
      BY <2>2, <3>1 DEF EarnedInv, Earned, Match
  <2> QED
    BY <2>1, <2>2, <2>3 DEF EarnedInv
<1>j. ASSUME NEW u \in Uid, CreateObject(u) PROVE EarnedInv'
  <2>1. db[u] = Absent /\ disk[u] = Absent
    BY <1>0, <1>j DEF CreateObject, SoundBuilds
  <2>2. Match(Absent, jobs)
    BY NothingAgrees, NothingEarned DEF Absent
  <2> QED
    BY <1>j, <2>1, <2>2 DEF CreateObject, EarnedInv, Working
<1>k. CASE DeleteObject \/ (\E t \in HeldTimes : DeadlinePasses(t)) \/ UNCHANGED vars
  <2>1. UNCHANGED <<db, disk, jobs, worker>> /\ kube' \in {kube, NoUid}
    BY <1>k DEF DeleteObject, DeadlinePasses, vars
  <2> QED
    BY <1>4, <1>5, <2>1 DEF Working
<1>l. ASSUME NEW m \in 1..MaxAttempts, JobStep(m) PROVE EarnedInv'
  <2>1. PICK s \in {"none", "running", "overrun", "succeeded", "podless", "failed"} :
          SetJob(m, s)
    BY <1>l DEF JobStep, StartJob, SucceedJob, FailJob, OverrunJob, RemoveJob, RemovePod
  <2>2. jobs[m].state # "none" /\ jobs[m] \in Job
    BY <1>0, <1>l
    DEF JobStep, StartJob, SucceedJob, FailJob, OverrunJob, RemoveJob, RemovePod, Started, TypeOK
  <2>3. jobs'[m].state = "none" \/ jobs'[m].uid = jobs[m].uid
    <3>1. [jobs[m] EXCEPT !.state = s].uid = jobs[m].uid /\ NoJob.state = "none"
      BY <2>2 DEF Job, NoJob
    <3>2. jobs'[m] = NoJob \/ jobs'[m] = [jobs[m] EXCEPT !.state = s]
      BY <1>0, <2>1 DEF SetJob, TypeOK
    <3> QED
      BY <3>1, <3>2
  <2>4. ASSUME NEW n \in 1..MaxAttempts, n # m PROVE jobs'[n] = jobs[n]
    BY <1>0, <2>1, <2>4 DEF SetJob, TypeOK
  <2>5. JobsKept
    BY <2>2, <2>3, <2>4 DEF JobsKept
  <2>6. UNCHANGED <<kube, db, disk, worker>>
    BY <2>1 DEF SetJob
  <2> QED
    BY <1>5, <2>5, <2>6 DEF Working
<1> QED
  BY <1>a, <1>b, <1>c, <1>d, <1>e, <1>f, <1>g, <1>h, <1>i, <1>j, <1>k, <1>l,
     NoStrangers
  DEF Next, Operator, Subprocess, Create, Save
-----------------------------------------------------------------------------
(***************************************************************************)
(* PublishedInv is inductive, on the same conditions.                      *)
(***************************************************************************)

Unpublished == worker.at \in {"publish", "persist", "write"} \/ (Working /\ worker.dirty)

(* A build that is not decided has no verdict on file.                     *)
LEMMA UndecidedOnFile ==
  ASSUME IInv, HistoryInv, Working, Undecided(db[worker.uid])
  PROVE  disk[worker.uid].state \notin Terminal
<1>1. /\ worker.uid \in Uid /\ Known(db[worker.uid])
      /\ db[worker.uid] \in BuildStatus /\ disk[worker.uid] \in BuildStatus
  BY DEF IInv, WorkerInv, TypeOK, Working
<1>2. Known(disk[worker.uid]) => Behind(disk[worker.uid], db[worker.uid])
  BY <1>1 DEF HistoryInv
<1> QED
  BY <1>1, <1>2 DEF Behind, Undecided, Saved, BuildStatus, Known, BuildState

LEMMA PublishedInit == Init => PublishedInv
<1>1. "absent" \notin Terminal
  BY DEF Terminal
<1> QED
  BY <1>1, NothingAgrees DEF Init, PublishedInv, SavedIsPublished, Working, Idle

LEMMA PublishedStep ==
  ASSUME ~Fault("elsewhere"), ~Fault("api"),
         IInv, SoundInv, HomeInv, HistoryInv, PublishedInv, [Next]_vars
  PROVE  PublishedInv'
<1>0. TypeOK /\ WorkerInv /\ SoundBuilds /\ kube \in born \cup {NoUid}
  BY DEF IInv, SoundInv
<1>1. Working => worker.uid \in Uid /\ Known(db[worker.uid]) /\ worker.uid \in born
  BY <1>0, NothingAgrees DEF WorkerInv, Working, SoundBuilds, Absent
<1>2. \A b \in {Absent, NoBuild("torn")} : b.state \notin Terminal
  BY NothingAgrees DEF Absent, Terminal
<1>3. ASSUME UNCHANGED <<kube, kstatus>>,
             \A u \in Uid : disk'[u] \in {disk[u], Absent, NoBuild("torn")},
             worker'.at \in {"persist", "write"} =>
               /\ worker.at \in {"persist", "write"}
               /\ worker'.uid = worker.uid /\ db' = db,
             Unpublished' => disk'[worker'.uid].state \notin Terminal
      PROVE  PublishedInv'
  <2>1. SavedIsPublished'
    BY <1>2, <1>3 DEF PublishedInv, SavedIsPublished
  <2> QED
    BY <1>3, <2>1 DEF PublishedInv, Unpublished
<1>4. ASSUME ~Working', UNCHANGED <<kube, kstatus>>,
             \A u \in Uid : disk'[u] \in {disk[u], Absent, NoBuild("torn")}
      PROVE  PublishedInv'
  BY <1>3, <1>4 DEF Unpublished, Working
<1>5. ASSUME NEW changed \in BOOLEAN, EndPass(changed), UNCHANGED <<kube, kstatus, disk>>,
             changed \/ Unpublished => disk[worker.uid].state \notin Terminal, Working
      PROVE  PublishedInv'
  <2>1. /\ worker'.at \in {"idle", "pass", "publish"}
        /\ worker'.at # "idle" => /\ changed \/ Unpublished
                                  /\ worker'.uid = worker.uid
    BY <1>0, <1>5, EndPassEffect DEF Unpublished
  <2> QED
    BY <1>3, <1>5, <2>1 DEF Unpublished, Working
<1>a. ASSUME NEW u \in Uid, Reconcile(u) PROVE PublishedInv'
  <2>1. /\ kube = u /\ worker.at = "idle" /\ UNCHANGED <<kube, kstatus, disk>>
        /\ worker'.at = "pass" /\ worker'.uid = u /\ worker'.dirty = ~Known(db[u])
    BY <1>0, <1>a DEF Reconcile, At, Idle
  <2>2. ~Known(db[u]) => disk[u].state \notin Terminal
    BY <2>1 DEF HistoryInv, At, Known, BuildState
  <2> QED
    BY <1>3, <2>1, <2>2 DEF Unpublished
<1>b. CASE PassScan
  <2>1. PICK d : Examines(db[worker.uid], d)
    BY <1>b, ScanEffect
  <2> DEFINE changed == d.active # db[worker.uid].active \/ d.state # "Running"
  <2>2. /\ Working /\ UNCHANGED <<kube, kstatus, disk>> /\ Undecided(db[worker.uid])
        /\ changed \in BOOLEAN
        /\ EndPass(changed) \/ (worker'.at = "create" /\ worker'.uid = worker.uid)
    BY <2>1 DEF Examines, At, Working, clusterVars
  <2>3. disk[worker.uid].state \notin Terminal
    BY <2>2, UndecidedOnFile
  <2> HIDE DEF changed
  <2>4. CASE EndPass(changed)
    BY <1>5, <2>2, <2>3, <2>4
  <2>5. CASE worker'.at = "create" /\ worker'.uid = worker.uid
    BY <1>3, <2>2, <2>3, <2>5
  <2> QED
    BY <2>2, <2>4, <2>5
<1>c. CASE CreateJob
  <2>1. PICK c : Creates(db[worker.uid], c)
    BY <1>c, CreateEffect
  <2>2. /\ Working /\ UNCHANGED <<kube, kstatus, disk>> /\ Undecided(db[worker.uid])
        /\ EndPass(TRUE)
    BY <2>1 DEF Creates, At, Working, Undecided, Terminal
  <2> QED
    BY <1>5, <2>2, UndecidedOnFile
<1>d. CASE CreateRefused
  <2>1. /\ Working /\ UNCHANGED <<kube, kstatus, disk>> /\ EndPass(worker.changed)
        /\ worker.changed \in BOOLEAN /\ db[worker.uid].state = "Running"
    BY <1>0, <1>d DEF CreateRefused, At, Working, WorkerInv, TypeOK, clusterVars
  <2>2. Undecided(db[worker.uid])
    BY <2>1 DEF Undecided, Terminal
  <2> QED
    BY <1>5, <2>1, <2>2, UndecidedOnFile
<1>e. CASE PassNoInstance \/ PassDecided
  <2>1. /\ Working /\ UNCHANGED <<kube, kstatus, disk>> /\ EndPass(FALSE)
    BY <1>e DEF PassNoInstance, PassDecided, At, Working, clusterVars
  <2> QED
    BY <1>5, <2>1 DEF PublishedInv, Unpublished
<1>f. CASE Publish
  <2> DEFINE w == worker.uid
  <2>1. /\ worker.at = "publish" /\ UNCHANGED <<kube, db, disk>>
        /\ worker' = [worker EXCEPT !.at = "persist"]
        /\ kube # NoUid /\ ~Astray(db[w]) => kstatus' = Public(db[w])
    BY <1>f DEF Publish, Goto, At
  <2>2. w \in Uid /\ ~Astray(db[w]) /\ disk[w].state \notin Terminal
    BY <1>1, <2>1 DEF PublishedInv, HomeInv, Working
  <2>3. worker'.at = "persist" /\ worker'.uid = w
    BY <1>0, <2>1 DEF TypeOK
  <2>4. ASSUME NEW u \in Uid, disk[u].state \in Terminal, kube = u PROVE FALSE
    <3>1. u # w
      BY <2>2, <2>4
    <3>2. disk[u] = Absent
      BY <2>1, <2>4, <3>1, BuildAssumption DEF HistoryInv, Working
    <3> QED
      BY <1>2, <2>4, <3>2
  <2>5. SavedIsPublished'
    BY <2>1, <2>2, <2>4 DEF SavedIsPublished
  <2> HIDE DEF w
  <2> QED
    BY <2>1, <2>2, <2>3, <2>5, BuildAssumption DEF PublishedInv
<1>g. CASE OpenFile
  <2>1. /\ worker.at = "persist" /\ UNCHANGED <<kube, kstatus, db>>
        /\ \/ worker' = Idle /\ disk' = disk
           \/ /\ worker' = [worker EXCEPT !.at = "write"]
              /\ disk' = [disk EXCEPT ![worker.uid] = NoBuild("torn")]
    BY <1>g DEF OpenFile, Goto, At, clusterVars
  <2>2. CASE worker' = Idle /\ disk' = disk
    BY <1>4, <2>1, <2>2 DEF Idle, Working
  <2>3. CASE /\ worker' = [worker EXCEPT !.at = "write"]
             /\ disk' = [disk EXCEPT ![worker.uid] = NoBuild("torn")]
    <3>1. worker.uid \in Uid /\ worker'.at = "write" /\ worker'.uid = worker.uid
      BY <1>0, <1>1, <2>1, <2>3 DEF TypeOK, Working
    <3>2. /\ disk'[worker.uid] = NoBuild("torn")
          /\ \A u \in Uid : disk'[u] \in {disk[u], NoBuild("torn")}
      BY <1>0, <2>3, <3>1 DEF TypeOK
    <3> QED
      BY <1>2, <1>3, <2>1, <3>1, <3>2
  <2> QED
    BY <2>1, <2>2, <2>3
<1>h. CASE WriteFile
  <2> DEFINE w == worker.uid
  <2>1. /\ worker.at = "write" /\ UNCHANGED <<kube, kstatus>> /\ worker'.at = "idle"
        /\ disk' = disk \/ disk' = [disk EXCEPT ![w] = Saved(db[w])]
    BY <1>h DEF WriteFile, At, Idle, clusterVars
  <2>2. w \in Uid /\ db[w] \in BuildStatus
    BY <1>0, <1>1, <2>1 DEF Working, TypeOK
  <2>3. Public(Saved(db[w])) = Public(db[w])
    BY <2>2 DEF Public, Shown, Saved, BuildStatus
  <2>4. kube = w => kstatus = Public(db[w])
    BY <2>1 DEF PublishedInv
  <2>5. disk'[w] \in {disk[w], Saved(db[w])} /\ \A u \in Uid \ {w} : disk'[u] = disk[u]
    BY <1>0, <2>1, <2>2 DEF TypeOK
  <2> HIDE DEF w
  <2>6. SavedIsPublished'
    BY <2>1, <2>3, <2>4, <2>5 DEF PublishedInv, SavedIsPublished
  <2> QED
    BY <2>1, <2>6 DEF PublishedInv, Working
<1>i. CASE Cleanup \/ Crash \/ CleanupPanic \/ Load
  <2>1. /\ ~Working' /\ UNCHANGED <<kube, kstatus>>
        /\ \A u \in Uid : disk'[u] \in {disk[u], Absent}
    BY <1>i
    DEF Cleanup, Crash, CleanupPanic, Die, Load, Absent, Down, Idle, At, Working, clusterVars
  <2> QED
    BY <1>4, <2>1
<1>j. ASSUME NEW u \in Uid, CreateObject(u) PROVE PublishedInv'
  <2>1. disk[u].state \notin Terminal /\ UNCHANGED <<db, disk, worker>> /\ kube' = u
    BY <1>0, <1>2, <1>j DEF CreateObject, SoundBuilds
  <2>2. Working => u # worker.uid
    BY <1>1, <1>j DEF CreateObject
  <2> QED
    BY <2>1, <2>2 DEF PublishedInv, SavedIsPublished, Working
<1>k. CASE DeleteObject
  <2>1. UNCHANGED <<db, disk, worker>> /\ kube' = NoUid
    BY <1>k DEF DeleteObject
  <2>2. SavedIsPublished'
    BY <2>1, BuildAssumption DEF SavedIsPublished
  <2> QED
    BY <1>1, <2>1, <2>2, BuildAssumption DEF PublishedInv, Working
<1>l. CASE CreateUnacknowledged
  BY <1>l DEF CreateUnacknowledged
<1>m. CASE \/ (\E t \in HeldTimes : DeadlinePasses(t))
           \/ (\E n \in 1..MaxAttempts : JobStep(n)) \/ UNCHANGED vars
  <2>1. UNCHANGED <<db, disk, kube, kstatus, worker>>
    BY <1>m DEF DeadlinePasses, JobStep, StartJob, SucceedJob, FailJob,
      OverrunJob, RemoveJob, RemovePod, SetJob, vars
  <2> QED
    BY <2>1 DEF PublishedInv, SavedIsPublished, Working
<1> QED
  BY <1>a, <1>b, <1>c, <1>d, <1>e, <1>f, <1>g, <1>h, <1>i, <1>j, <1>k, <1>l, <1>m,
     NoStrangers
  DEF Next, Operator, Subprocess, Create, Save
-----------------------------------------------------------------------------
(***************************************************************************)
(* The theorems.                                                           *)
(***************************************************************************)

(* The map and the files are sound whatever fails: a build is Completed    *)
(* only with a successful attempt, and its successResult says the same.    *)
THEOREM Sound == Spec => []SoundInv
BY InitInvariant, StepInvariant, SoundInit, SoundStep, PTL DEF Spec

DurableInv == IInv /\ SoundInv /\ HomeInv /\ HistoryInv /\ EarnedInv /\ PublishedInv

(* The invariant that the others follow from.                              *)
THEOREM DurableInvariant ==
  ASSUME ~Fault("elsewhere"), ~Fault("api")
  PROVE  Spec => []DurableInv
<1>1. Init => DurableInv
  BY InitInvariant, SoundInit, HomeInit, HistoryInit, EarnedInit, PublishedInit
  DEF DurableInv
<1>2. DurableInv /\ [Next]_vars => DurableInv'
  BY StepInvariant, SoundStep, HomeStep, HistoryStep, EarnedStep, PublishedStep
  DEF DurableInv
<1> QED
  BY <1>1, <1>2, PTL DEF Spec

(* A build is Completed only if a Job it created itself pushed an image,   *)
(* although Jobs are looked up by names that are used again, and its       *)
(* successResult says what its state says. (With "elsewhere" a build of    *)
(* another namespace may take the name of its Job.)                        *)
THEOREM VerdictsAreEarned ==
  ASSUME ~Fault("elsewhere"), ~Fault("api")
  PROVE  Spec => []VerdictEarned
<1>1. DurableInv => VerdictEarned
  BY DEF DurableInv, SoundInv, SoundBuilds, Agrees, HasSuccess, EarnedInv, Earned,
         VerdictEarned
<1> QED
  BY <1>1, DurableInvariant, PTL

(* A file is never ahead of memory, nor of another history, even if files  *)
(* fail to be opened, written or removed.                                  *)
THEOREM FilesAreBehind ==
  ASSUME ~Fault("elsewhere"), ~Fault("api")
  PROVE  Spec => []SavedPrefix
<1>1. DurableInv => SavedPrefix
  <2> SUFFICES ASSUME DurableInv, NEW u \in Uid, Known(db[u]), Known(disk[u])
               PROVE  /\ disk[u].created = db[u].created
                      /\ Len(disk[u].completed) <= Len(db[u].completed)
                      /\ \A i \in DOMAIN disk[u].completed :
                           disk[u].completed[i] = db[u].completed[i]
    BY DEF SavedPrefix
  <2>1. Behind(disk[u], db[u]) /\ disk[u] \in BuildStatus
    BY DEF DurableInv, HistoryInv, IInv, TypeOK
  <2> QED
    BY <2>1, AttemptsTyped DEF Behind
<1> QED
  BY <1>1, DurableInvariant, PTL

(* Where all KoupletBuilds are in one namespace, a verdict on file is one  *)
(* that the object shows, so a restart leaves no stale status behind.      *)
THEOREM VerdictsArePublished ==
  ASSUME ~Fault("elsewhere"), ~Fault("api")
  PROVE  Spec => []SavedIsPublished
<1>1. DurableInv => SavedIsPublished
  BY DEF DurableInv, PublishedInv
<1> QED
  BY <1>1, DurableInvariant, PTL

(* What one step may do to a verdict on file.                              *)
KeepsFiles ==
  \A u \in Uid : disk[u].state \in Terminal => disk'[u] \in {disk[u], NoBuild("absent")}

LEMMA StepKeepsFiles == DurableInv /\ [Next]_vars => KeepsFiles
<1> SUFFICES ASSUME DurableInv, [Next]_vars, NEW u \in Uid, disk[u].state \in Terminal
             PROVE  disk'[u] \in {disk[u], NoBuild("absent")}
  BY DEF KeepsFiles
<1>0. TypeOK /\ PublishedInv
  BY DEF DurableInv, IInv
<1>1. CASE OpenFile \/ WriteFile
  <2>1. /\ worker.at \in {"persist", "write"}
        /\ disk' = disk \/ \E b : disk' = [disk EXCEPT ![worker.uid] = b]
    BY <1>1 DEF OpenFile, WriteFile, At
  <2>2. u # worker.uid
    BY <1>0, <2>1 DEF PublishedInv
  <2> QED
    BY <1>0, <2>1, <2>2 DEF TypeOK
<1>2. CASE Cleanup \/ Load
  BY <1>2 DEF Cleanup, Load
<1>3. CASE disk' = disk
  BY <1>3
<1> QED
  BY <1>1, <1>2, <1>3
  DEF Next, vars, clusterVars, Operator, Subprocess, Create, Save, Reconcile, PassNoInstance,
      PassDecided, PassScan, CreateJob, CreateRefused, CreateUnacknowledged, Publish, Crash,
      CleanupPanic, Die, CreateObject, DeleteObject, DeadlinePasses, JobStep, StartJob,
      SucceedJob, FailJob, OverrunJob, RemoveJob, RemovePod, SetJob, StrangerPublishes,
      StrangerCreates

(* A verdict on file is never written again, only removed, although a      *)
(* build whose file could not be written begins anew.                      *)
THEOREM VerdictsAreDurable ==
  ASSUME ~Fault("elsewhere"), ~Fault("api")
  PROVE  Spec => DurableVerdict
<1>1. DurableInv /\ [Next]_vars => [KeepsFiles]_vars
  BY StepKeepsFiles
<1>2. Spec => [][KeepsFiles]_vars
  BY <1>1, DurableInvariant, PTL DEF Spec
<1> QED
  BY <1>2 DEF KeepsFiles, DurableVerdict
-----------------------------------------------------------------------------
(***************************************************************************)
(* Everything known is on file between two requests, if objects and Jobs   *)
(* can be read and files be opened, written and removed; whether there are *)
(* KoupletBuilds in other namespaces does not matter.                      *)
(***************************************************************************)

(* A pass has changed nothing so far.                                      *)
Unchanged ==
  /\ worker.at \in {"pass", "create"} /\ ~worker.dirty
  /\ worker.at = "create" => ~worker.changed

(* What is not being worked on is saved, and what is being worked on as    *)
(* long as nothing changed. Only in its first pass may the build of an     *)
(* existing object be Waiting, the state whose end alone is no change, and *)
(* then it is not attached to another object.                              *)
SavedInv ==
  /\ \A u \in Uid : Known(db[u]) /\ ~(Working /\ worker.uid = u) => disk[u] = Saved(db[u])
  /\ Unchanged => /\ disk[worker.uid] = Saved(db[worker.uid])
                  /\ db[worker.uid].state # "Waiting"
  /\ \A u \in Uid :
       /\ db[u].state = "Waiting" /\ ~(At("pass") /\ worker.uid = u) => kube # u
       /\ disk[u].state = "Waiting" => kube # u
       /\ db[u].state = "Waiting" /\ Astray(db[u]) => kube # u

LEMMA SavedInit == Init => SavedInv
BY NothingAgrees DEF Init, SavedInv, Unchanged, Working, Idle

LEMMA SavedStep ==
  ASSUME ~Fault("api"), ~Fault("io"), ~Fault("short"),
         IInv, SoundInv, SavedInv, [Next]_vars
  PROVE  SavedInv'
<1>0. /\ TypeOK /\ WorkerInv /\ SoundBuilds
      /\ ~Known(Absent) /\ Absent.state = "absent"
      /\ NoBuild("torn").state = "torn"
  BY NothingAgrees DEF IInv, SoundInv, Absent
<1>1. Working => worker.uid \in Uid /\ Known(db[worker.uid])
  BY <1>0 DEF WorkerInv, Working
<1>2. ASSUME Working, UNCHANGED <<kube, disk>>,
             \A v \in Uid \ {worker.uid} : db'[v] = db[v],
             db'[worker.uid].state = "Waiting" => kube # worker.uid,
             \/ worker'.at = "idle" /\ disk[worker.uid] = Saved(db'[worker.uid])
             \/ /\ worker'.at \in {"pass", "create", "publish", "persist"}
                /\ worker'.uid = worker.uid
                /\ Unchanged' => /\ disk[worker.uid] = Saved(db'[worker.uid])
                                 /\ db'[worker.uid].state # "Waiting"
      PROVE  SavedInv'
  BY <1>1, <1>2 DEF SavedInv, Unchanged, Working, At
<1>3. ASSUME NEW changed \in BOOLEAN, EndPass(changed), Working, UNCHANGED <<kube, disk>>,
             \A v \in Uid \ {worker.uid} : db'[v] = db[v],
             db'[worker.uid].state = "Waiting" => kube # worker.uid,
             ~changed /\ ~worker.dirty => disk[worker.uid] = Saved(db'[worker.uid])
      PROVE  SavedInv'
  BY <1>0, <1>2, <1>3, EndPassEffect DEF Unchanged
<1>a. ASSUME NEW u \in Uid, Reconcile(u) PROVE SavedInv'
  <2>1. /\ kube = u /\ worker.at = "idle" /\ UNCHANGED <<kube, disk>>
        /\ worker'.at = "pass" /\ worker'.uid = u /\ worker'.dirty = ~Known(db[u])
    BY <1>0, <1>a DEF Reconcile, At, Idle
  <2>2. CASE Known(db[u])
    BY <1>a, <2>1, <2>2 DEF Reconcile, SavedInv, Unchanged, Working, At
  <2>3. CASE ~Known(db[u])
    <3>1. \A v \in Uid \ {u} : db'[v] = db[v]
      BY <1>0, <1>a, <2>3 DEF Reconcile, TypeOK
    <3>2. db'[u].kubeUid = u
      <4>1. NewBuildStatus(u, stamp + 1).kubeUid = u
        BY DEF NewBuildStatus, NoBuild
      <4> QED
        BY <1>0, <1>a, <2>3, <4>1 DEF Reconcile, TypeOK
    <3> QED
      BY <2>1, <2>3, <3>1, <3>2, BuildAssumption
      DEF SavedInv, Unchanged, Working, At, Astray
  <2> QED
    BY <2>2, <2>3
<1>b. CASE PassScan
  <2> DEFINE w == worker.uid
             b == db[w]
  <2>1. PICK d : Examines(b, d)
    BY <1>b, ScanEffect
  <2> DEFINE changed == d.active # b.active \/ d.state # "Running"
  <2>2. /\ Working /\ worker.at = "pass" /\ UNCHANGED <<kube, disk>> /\ Undecided(b)
        /\ db' = [db EXCEPT ![w] = d]
        /\ d.state \in {"Running"} \cup Terminal
        /\ changed \in BOOLEAN
        /\ \/ EndPass(changed)
           \/ /\ worker'.at = "create" /\ worker'.uid = worker.uid
              /\ worker'.dirty = worker.dirty /\ worker'.changed = changed
        /\ ~changed /\ b.state = "Running" => d = b
    BY <2>1 DEF Examines, Passed, At, Working, clusterVars
  <2>3. /\ db'[w] = d /\ \A v \in Uid \ {w} : db'[v] = db[v]
        /\ w \in Uid /\ Known(b) /\ d.state # "Waiting"
    BY <1>0, <1>1, <2>2 DEF TypeOK, Terminal
  <2>4. ~changed /\ ~worker.dirty => disk[w] = Saved(d)
    <3>1. ~worker.dirty => disk[w] = Saved(b) /\ b.state # "Waiting"
      BY <2>2 DEF SavedInv, Unchanged
    <3>2. b.state # "Waiting" => b.state = "Running"
      BY <2>2, <2>3 DEF Known, Undecided, BuildState
    <3> QED
      BY <2>2, <3>1, <3>2
  <2> HIDE DEF changed, w, b
  <2>5. CASE EndPass(changed)
    BY <1>3, <2>2, <2>3, <2>4, <2>5 DEF w
  <2>6. CASE /\ worker'.at = "create" /\ worker'.uid = worker.uid
             /\ worker'.dirty = worker.dirty /\ worker'.changed = changed
    BY <1>2, <2>2, <2>3, <2>4, <2>6 DEF w, Unchanged
  <2> QED
    BY <2>2, <2>5, <2>6
<1>c. CASE CreateJob
  <2>1. PICK c : Creates(db[worker.uid], c)
    BY <1>c, CreateEffect
  <2>2. /\ Working /\ UNCHANGED <<kube, disk>> /\ EndPass(TRUE)
        /\ db' = [db EXCEPT ![worker.uid] = c] /\ c.state = "Running"
    BY <2>1 DEF Creates, At, Working
  <2> QED
    BY <1>0, <1>1, <1>3, <2>2 DEF TypeOK
<1>d. CASE CreateRefused
  <2>1. /\ Working /\ UNCHANGED <<kube, disk, db>> /\ EndPass(worker.changed)
        /\ worker.changed \in BOOLEAN /\ db[worker.uid].state = "Running"
        /\ worker.at = "create"
    BY <1>0, <1>d DEF CreateRefused, At, Working, WorkerInv, TypeOK, clusterVars
  <2>2. ~worker.changed /\ ~worker.dirty => disk[worker.uid] = Saved(db[worker.uid])
    BY <2>1 DEF SavedInv, Unchanged
  <2> QED
    BY <1>3, <2>1, <2>2
<1>e. CASE PassNoInstance \/ PassDecided
  <2>1. /\ Working /\ UNCHANGED <<kube, disk, db>> /\ EndPass(FALSE)
        /\ worker.at = "pass"
        /\ kube = NoUid \/ Astray(db[worker.uid]) \/ db[worker.uid].state # "Waiting"
    BY <1>e
    DEF PassNoInstance, PassDecided, At, Working, Undecided, Terminal, clusterVars
  <2>2. ~worker.dirty => disk[worker.uid] = Saved(db[worker.uid])
    BY <2>1 DEF SavedInv, Unchanged
  <2>3. db[worker.uid].state = "Waiting" => kube # worker.uid
    BY <1>1, <2>1, BuildAssumption DEF SavedInv
  <2> QED
    BY <1>1, <1>3, <2>1, <2>2, <2>3
<1>f. CASE Publish
  <2>1. /\ Working /\ worker.at = "publish" /\ UNCHANGED <<kube, db, disk>>
        /\ worker' = [worker EXCEPT !.at = "persist"]
    BY <1>f DEF Publish, Goto, At, Working
  <2>2. worker'.at = "persist" /\ worker'.uid = worker.uid
    BY <1>0, <2>1 DEF TypeOK
  <2>3. db[worker.uid].state = "Waiting" => kube # worker.uid
    BY <1>1, <2>1 DEF SavedInv, At
  <2> QED
    BY <1>2, <2>1, <2>2, <2>3 DEF Unchanged
<1>g. CASE OpenFile
  <2>1. /\ Working /\ worker.at = "persist" /\ UNCHANGED <<kube, db>>
        /\ worker' = [worker EXCEPT !.at = "write"]
        /\ disk' = [disk EXCEPT ![worker.uid] = NoBuild("torn")]
    BY <1>g DEF OpenFile, Goto, At, Working, clusterVars
  <2>2. worker'.at = "write" /\ worker'.uid = worker.uid
    BY <1>0, <2>1 DEF TypeOK
  <2>3. /\ disk'[worker.uid].state = "torn"
        /\ \A v \in Uid \ {worker.uid} : disk'[v] = disk[v]
    BY <1>0, <1>1, <2>1 DEF TypeOK
  <2> QED
    BY <2>1, <2>2, <2>3 DEF SavedInv, Unchanged, Working, At
<1>h. CASE WriteFile
  <2> DEFINE w == worker.uid
  <2>1. /\ Working /\ worker.at = "write" /\ UNCHANGED <<kube, db>> /\ worker'.at = "idle"
        /\ disk' = [disk EXCEPT ![w] = Saved(db[w])]
    BY <1>h DEF WriteFile, At, Idle, Working, clusterVars
  <2>2. /\ disk'[w] = Saved(db[w]) /\ \A v \in Uid \ {w} : disk'[v] = disk[v]
        /\ Saved(db[w]).state = db[w].state
    <3>1. w \in Uid /\ db[w] \in BuildStatus /\ disk \in [Uid -> BuildStatus]
      BY <1>0, <1>1, <2>1 DEF TypeOK
    <3>2. Saved(db[w]).state = db[w].state
      BY <3>1 DEF Saved, BuildStatus
    <3> QED
      BY <2>1, <3>1, <3>2
  <2> HIDE DEF w
  <2>3. \A v \in Uid : Known(db[v]) => disk'[v] = Saved(db[v])
    BY <2>2 DEF SavedInv, w
  <2>4. \A v \in Uid : db[v].state = "Waiting" => kube # v
    BY <2>1 DEF SavedInv, At
  <2> QED
    BY <2>1, <2>2, <2>3, <2>4 DEF SavedInv, Unchanged, Working, At
<1>i. CASE Cleanup
  <2>1. /\ worker.at = "idle" /\ UNCHANGED <<kube, worker>>
        /\ \A u \in Uid : \/ db'[u] = db[u] /\ disk'[u] = disk[u]
                          \/ db'[u] = Absent /\ disk'[u] = Absent
    BY <1>i DEF Cleanup, At, Absent, clusterVars
  <2> QED
    BY <1>0, <2>1 DEF SavedInv, Unchanged, Working, At
<1>j. CASE Crash \/ CleanupPanic
  <2>1. /\ worker'.at = "down" /\ UNCHANGED <<kube, disk>>
        /\ \A u \in Uid : db'[u] = Absent
    BY <1>j DEF Crash, CleanupPanic, Die, Down, Idle, Absent, clusterVars
  <2> QED
    BY <1>0, <2>1 DEF SavedInv, Unchanged
<1>k. CASE Load
  <2>1. /\ worker'.at = "idle" /\ kube' = kube
        /\ \E bearer : \A u \in Uid :
             /\ db'[u] \in Loaded(u, bearer)
             /\ disk'[u] \in {disk[u], Absent}
             /\ db'[u].state # "absent" => disk'[u] = disk[u]
    BY <1>k DEF Load, Absent, Idle, clusterVars
  <2>2. ASSUME NEW u \in Uid, db'[u].state # "absent"
        PROVE  Saved(db'[u]) = disk[u] /\ db'[u].state = disk[u].state
    <3>1. disk[u] \in BuildStatus /\ disk[u].kubeUid = NoUid
      BY <1>0 DEF SoundBuilds, TypeOK
    <3>2. \E bearer : db'[u] = [disk[u] EXCEPT !.kubeUid = bearer]
      BY <1>0, <2>1, <2>2 DEF Loaded, Read, Absent
    <3> QED
      BY <3>1, <3>2 DEF Saved, BuildStatus
  <2>3. \A u \in Uid : Known(db'[u]) \/ db'[u].state = "Waiting" => db'[u].state # "absent"
    BY DEF Known, BuildState, Terminal
  <2> QED
    BY <1>0, <2>1, <2>2, <2>3 DEF SavedInv, Unchanged
<1>l. ASSUME NEW u \in Uid, CreateObject(u) PROVE SavedInv'
  <2>1. db[u] = Absent /\ disk[u] = Absent /\ UNCHANGED <<db, disk, worker>> /\ kube' = u
    BY <1>0, <1>l DEF CreateObject, SoundBuilds
  <2> QED
    BY <1>0, <2>1 DEF SavedInv, Unchanged, Working, At
<1>m. CASE DeleteObject
  <2>1. UNCHANGED <<db, disk, worker>> /\ kube' = NoUid
    BY <1>m DEF DeleteObject
  <2> QED
    BY <2>1, BuildAssumption DEF SavedInv, Unchanged, Working, At
<1>n. CASE CreateUnacknowledged
  BY <1>n DEF CreateUnacknowledged
<1>o. CASE \/ (\E t \in HeldTimes : DeadlinePasses(t))
           \/ (\E n \in 1..MaxAttempts : JobStep(n) \/ StrangerCreates(n))
           \/ StrangerPublishes \/ UNCHANGED vars
  <2>1. UNCHANGED <<db, disk, kube, worker>>
    BY <1>o DEF DeadlinePasses, JobStep, StartJob, SucceedJob, FailJob,
      OverrunJob, RemoveJob, RemovePod, SetJob, StrangerPublishes, StrangerCreates, vars
  <2> QED
    BY <2>1 DEF SavedInv, Unchanged, Working, At
<1> QED
  BY <1>a, <1>b, <1>c, <1>d, <1>e, <1>f, <1>g, <1>h, <1>i, <1>j, <1>k, <1>l, <1>m, <1>n, <1>o
  DEF Next, Operator, Subprocess, Create, Save

(* Between two requests everything the worker knows is on file.            *)
THEOREM EverythingSaved ==
  ASSUME ~Fault("api"), ~Fault("io"), ~Fault("short")
  PROVE  Spec => []IdleSaved
<1>1. SavedInv => IdleSaved
  BY DEF SavedInv, IdleSaved, Working, At
<1>2. Spec => []SavedInv
  BY InitInvariant, StepInvariant, SoundInit, SoundStep, SavedInit, SavedStep, PTL DEF Spec
<1> QED
  BY <1>1, <1>2, PTL

-----------------------------------------------------------------------------
(***************************************************************************)
(* KoupletBuild implements BuildPromise, where all KoupletBuilds are in    *)
(* one namespace, and whatever fails but for the reads of objects and      *)
(* Jobs, and the write of a file once it is open.                          *)
(***************************************************************************)

(* A file is half written while the worker is writing it, and only then;   *)
(* the build of an object that exists belongs to that object, so that      *)
(* cleanup does not take it for obsolete.                                  *)
Writing == At("write") => disk[worker.uid].state = "torn"

LEMMA WritingStep ==
  ASSUME TypeOK, WorkerInv, Writing, [Next]_vars
  PROVE  Writing'
<1>0. ASSUME \/ worker' = Idle \/ worker' = Down
             \/ worker' = [worker EXCEPT !.at = "persist"]
             \/ \E i, c : worker' = [worker EXCEPT !.at = "create", !.inst = i, !.changed = c]
             \/ \E u, d : worker' = [Idle EXCEPT !.at = "pass", !.uid = u, !.dirty = d]
      PROVE  worker'.at # "write"
  <2>1. Idle.at = "idle" /\ Down.at = "down"
    BY DEF Idle, Down
  <2>2. ASSUME NEW i, NEW c,
               worker' = [worker EXCEPT !.at = "create", !.inst = i, !.changed = c]
        PROVE  worker'.at = "create"
    BY <2>2 DEF TypeOK
  <2>3. ASSUME NEW u, NEW d, worker' = [Idle EXCEPT !.at = "pass", !.uid = u, !.dirty = d]
        PROVE  worker'.at = "pass"
    BY <2>3 DEF Idle
  <2>4. [worker EXCEPT !.at = "persist"].at = "persist"
    BY DEF TypeOK
  <2>5. CASE \E i, c : worker' = [worker EXCEPT !.at = "create", !.inst = i, !.changed = c]
    BY <2>2, <2>5
  <2>6. CASE \E u, d : worker' = [Idle EXCEPT !.at = "pass", !.uid = u, !.dirty = d]
    BY <2>3, <2>6
  <2>7. CASE worker' = Idle \/ worker' = Down \/ worker' = [worker EXCEPT !.at = "persist"]
    BY <2>1, <2>4, <2>7
  <2> QED
    BY <1>0, <2>5, <2>6, <2>7
<1>1. ASSUME NEW changed \in BOOLEAN, EndPass(changed) PROVE worker'.at # "write"
  BY <1>1, EndPassEffect
<1>2. CASE OpenFile
  <2>1. /\ worker.at = "persist"
        /\ \/ worker' = Idle
           \/ /\ worker' = [worker EXCEPT !.at = "write"]
              /\ disk' = [disk EXCEPT ![worker.uid] = NoBuild("torn")]
    BY <1>2 DEF OpenFile, Goto, At
  <2>2. worker.uid \in Uid /\ NoBuild("torn").state = "torn"
    BY <2>1, NothingAgrees DEF WorkerInv
  <2>3. CASE worker' = Idle
    BY <1>0, <2>3 DEF Writing, At
  <2>4. CASE /\ worker' = [worker EXCEPT !.at = "write"]
             /\ disk' = [disk EXCEPT ![worker.uid] = NoBuild("torn")]
    <3>1. worker'.uid = worker.uid
      BY <2>4 DEF TypeOK
    <3>2. disk'[worker.uid].state = "torn"
      BY <2>2, <2>4 DEF TypeOK
    <3> QED
      BY <3>1, <3>2 DEF Writing
  <2> QED
    BY <2>1, <2>3, <2>4
<1>3. CASE PassScan
  <2>1. \/ EndPass(TRUE) \/ EndPass(FALSE)
        \/ \E i, c : worker' = [worker EXCEPT !.at = "create", !.inst = i, !.changed = c]
    BY <1>3 DEF PassScan
  <2> QED
    BY <1>0, <1>1, <2>1 DEF Writing, At
<1>4. CASE PassNoInstance \/ PassDecided \/ Create
  BY <1>1, <1>4
  DEF PassNoInstance, PassDecided, Create, CreateJob, CreateRefused, CreateUnacknowledged,
      Writing, At, TypeOK
<1>5. CASE Publish \/ WriteFile
  BY <1>0, <1>5 DEF Publish, WriteFile, Goto, Writing, At
<1>6. CASE Load \/ Crash \/ CleanupPanic \/ \E u \in Uid : Reconcile(u)
  <2>1. \/ worker' = Idle \/ worker' = Down
        \/ \E u, d : worker' = [Idle EXCEPT !.at = "pass", !.uid = u, !.dirty = d]
    BY <1>6 DEF Load, Crash, CleanupPanic, Die, Reconcile
  <2>2. worker'.at # "write"
    BY <1>0, <2>1
  <2> QED
    BY <2>2 DEF Writing, At
<1>7. CASE Cleanup
  BY <1>7 DEF Cleanup, Writing, At
<1>8. CASE UNCHANGED <<disk, worker>>
  BY <1>8 DEF Writing, At
<1> QED
  BY <1>2, <1>3, <1>4, <1>5, <1>6, <1>7, <1>8
  DEF Next, vars, Operator, Subprocess, Save, DeleteObject, CreateObject, DeadlinePasses,
      JobStep, StartJob, SucceedJob, FailJob, OverrunJob, RemoveJob, RemovePod, SetJob,
      StrangerPublishes, StrangerCreates

PromiseInv ==
  \A u \in Uid : /\ disk[u].state = "torn" => At("write") /\ worker.uid = u
                 /\ kube = u /\ Known(db[u]) => db[u].kubeUid = u

LEMMA PromiseInit == Init => Writing /\ PromiseInv
BY NothingAgrees DEF Init, Writing, PromiseInv, At, Idle

LEMMA PromiseStep ==
  ASSUME ~Fault("elsewhere"), ~Fault("api"), ~Fault("torn"), ~Fault("short"),
         DurableInv, PromiseInv, [Next]_vars
  PROVE  PromiseInv'
<1>0. /\ TypeOK /\ WorkerInv /\ AllGood /\ SoundBuilds /\ IInv /\ SoundInv
      /\ ~Known(Absent) /\ Absent.state = "absent" /\ kube \in born \cup {NoUid}
  BY NothingAgrees DEF DurableInv, IInv, SoundInv, Absent
<1>1. Working => worker.uid \in Uid /\ Known(db[worker.uid])
  BY <1>0 DEF WorkerInv, Working
<1>2. ASSUME kube' \in {kube, NoUid}, ~At("write"),
             \A u \in Uid : /\ disk'[u] \in {disk[u], Absent}
                            /\ Known(db'[u]) => /\ Known(db[u])
                                                /\ db'[u].kubeUid = db[u].kubeUid
      PROVE  PromiseInv'
  <2>1. \A u \in Uid : disk'[u].state # "torn"
    BY <1>0, <1>2 DEF PromiseInv
  <2>2. ASSUME NEW u \in Uid, kube' = u, Known(db'[u]) PROVE db'[u].kubeUid = u
    BY <1>2, <2>2, BuildAssumption DEF PromiseInv
  <2> QED
    BY <2>1, <2>2 DEF PromiseInv
<1>3. ASSUME UNCHANGED <<db, disk, worker>>, kube' \in {kube, NoUid}
      PROVE  PromiseInv'
  BY <1>3, BuildAssumption DEF PromiseInv, At
<1>a. ASSUME NEW u \in Uid, Reconcile(u) PROVE PromiseInv'
  <2>1. /\ kube' = kube /\ disk' = disk /\ ~At("write") /\ stamp + 1 \in Nat
    BY <1>0, <1>a, AllLater DEF Reconcile, At
  <2>2. CASE db' = db
    BY <1>2, <2>1, <2>2
  <2>3. CASE db' = [db EXCEPT ![u] = NewBuildStatus(u, stamp + 1)]
    <3>1. NewBuildStatus(u, stamp + 1).kubeUid = u
      BY DEF NewBuildStatus, NoBuild
    <3> QED
      BY <1>0, <2>1, <2>3, <3>1 DEF PromiseInv, TypeOK
  <2> QED
    BY <1>a, <2>2, <2>3 DEF Reconcile
<1>b. CASE PassScan
  <2>1. PICK d : Examines(db[worker.uid], d)
    BY <1>0, <1>b, ScanEffect
  <2>2. /\ Working /\ ~At("write") /\ kube' = kube /\ disk' = disk
        /\ db' = [db EXCEPT ![worker.uid] = d]
        /\ d.kubeUid = db[worker.uid].kubeUid
    BY <2>1 DEF Examines, Passed, At, Working, clusterVars
  <2> QED
    BY <1>0, <1>1, <1>2, <2>2 DEF TypeOK
<1>c. CASE CreateJob
  <2>1. PICK c : Creates(db[worker.uid], c)
    BY <1>0, <1>c, CreateEffect
  <2>2. /\ Working /\ ~At("write") /\ kube' = kube /\ disk' = disk
        /\ db' = [db EXCEPT ![worker.uid] = c]
        /\ c.kubeUid = db[worker.uid].kubeUid
    BY <2>1 DEF Creates, At, Working
  <2> QED
    BY <1>0, <1>1, <1>2, <2>2 DEF TypeOK
<1>d. CASE PassNoInstance \/ PassDecided \/ CreateRefused \/ Publish
  BY <1>2, <1>d
  DEF PassNoInstance, PassDecided, CreateRefused, Publish, At, clusterVars
<1>e. CASE OpenFile
  <2>1. /\ worker.at = "persist" /\ UNCHANGED <<kube, db>>
        /\ \/ disk' = disk
           \/ /\ disk' = [disk EXCEPT ![worker.uid] = NoBuild("torn")]
              /\ worker' = [worker EXCEPT !.at = "write"]
    BY <1>e DEF OpenFile, Goto, At, clusterVars
  <2>2. CASE disk' = disk
    BY <1>2, <2>1, <2>2 DEF At
  <2>3. CASE /\ disk' = [disk EXCEPT ![worker.uid] = NoBuild("torn")]
             /\ worker' = [worker EXCEPT !.at = "write"]
    <3>1. /\ worker'.at = "write" /\ worker'.uid = worker.uid
          /\ \A u \in Uid \ {worker.uid} : disk'[u] = disk[u]
      BY <1>0, <2>3 DEF TypeOK
    <3> QED
      BY <2>1, <3>1 DEF PromiseInv, At
  <2> QED
    BY <2>1, <2>2, <2>3
<1>f. CASE WriteFile
  <2>1. /\ Working /\ UNCHANGED <<kube, db>>
        /\ disk' = [disk EXCEPT ![worker.uid] = Saved(db[worker.uid])]
    BY <1>f DEF WriteFile, At, Working, clusterVars
  <2>2. Saved(db[worker.uid]).state # "torn"
    <3>1. db[worker.uid] \in BuildStatus /\ db[worker.uid].state # "torn"
      BY <1>0, <1>1, <2>1 DEF TypeOK
    <3> QED
      BY <3>1 DEF Saved, BuildStatus
  <2>3. ASSUME NEW u \in Uid PROVE disk'[u].state # "torn"
    <3>1. CASE u = worker.uid
      BY <1>0, <2>1, <2>2, <3>1 DEF TypeOK
    <3>2. CASE u # worker.uid
      BY <1>0, <2>1, <3>2 DEF PromiseInv, TypeOK
    <3> QED
      BY <3>1, <3>2
  <2> QED
    BY <2>1, <2>3 DEF PromiseInv
<1>g. CASE Cleanup \/ Crash \/ CleanupPanic
  <2>1. /\ kube' = kube /\ ~At("write")
        /\ \A u \in Uid : db'[u] \in {db[u], Absent} /\ disk'[u] \in {disk[u], Absent}
    BY <1>g DEF Cleanup, Crash, CleanupPanic, Die, Absent, At, clusterVars
  <2> QED
    BY <1>0, <1>2, <2>1
<1>h. CASE Load
  <2>1. /\ kube' = kube /\ ~At("write")
        /\ \A u \in Uid : disk'[u] \in {disk[u], Absent} /\ db'[u] \in Loaded(u, kube)
    BY <1>h, NoStrangers DEF Load, Absent, At, clusterVars
  <2>2. ASSUME NEW u \in Uid, Known(db'[u]) PROVE db'[u].kubeUid = kube
    <3>1. db'[u] = [disk[u] EXCEPT !.kubeUid = kube] /\ disk[u] \in BuildStatus
      BY <1>0, <2>1, <2>2 DEF Loaded, Read, Absent, TypeOK
    <3> QED
      BY <3>1 DEF BuildStatus
  <2> QED
    BY <1>0, <2>1, <2>2 DEF PromiseInv
<1>i. ASSUME NEW u \in Uid, CreateObject(u) PROVE PromiseInv'
  <2>1. db[u] = Absent /\ UNCHANGED <<db, disk, worker>> /\ kube' = u
    BY <1>0, <1>i DEF CreateObject, SoundBuilds
  <2> QED
    BY <1>0, <2>1 DEF PromiseInv, At
<1>j. CASE CreateUnacknowledged
  BY <1>j DEF CreateUnacknowledged
<1>k. CASE \/ DeleteObject \/ (\E t \in HeldTimes : DeadlinePasses(t))
           \/ (\E n \in 1..MaxAttempts : JobStep(n)) \/ UNCHANGED vars
  <2>1. UNCHANGED <<db, disk, worker>> /\ kube' \in {kube, NoUid}
    BY <1>k DEF DeleteObject, DeadlinePasses, JobStep, StartJob, SucceedJob, FailJob,
      OverrunJob, RemoveJob, RemovePod, SetJob, vars
  <2> QED
    BY <1>3, <2>1
<1> QED
  BY <1>a, <1>b, <1>c, <1>d, <1>e, <1>f, <1>g, <1>h, <1>i, <1>j, <1>k, NoStrangers
  DEF Next, Operator, Subprocess, Create, Save
-----------------------------------------------------------------------------
(***************************************************************************)
(* Every step is one of the promise, or changes nothing of the record.     *)
(***************************************************************************)

(* The entry of the ledger for a build.                                    *)
EntryOf(b) ==
  [verdict |-> IF b.state = "absent" THEN "unknown"
               ELSE IF b.state \in Terminal THEN b.state ELSE "open",
   tried |-> Len(b.completed)]

LEMMA LedgerEntries == Ledger = [u \in Uid |-> EntryOf(OnRecord(u))]
BY DEF Ledger, EntryOf

(* The entry of nothing is Unknown; that of a build is an entry, and does  *)
(* not depend on the object.                                               *)
LEMMA Entries ==
  /\ EntryOf(Absent) = Promise!Unknown
  /\ \A b \in BuildStatus : EntryOf(Saved(b)) = EntryOf(b)
  /\ \A b \in BuildStatus : Known(b) /\ Ordered(b) /\ Agrees(b) =>
       /\ EntryOf(b) \in Promise!Entry /\ EntryOf(b).verdict # "unknown"
       /\ EntryOf(b).verdict = "Completed" => EntryOf(b).tried > 0
       /\ EntryOf(b).tried = Len(b.completed)
<1>1. EntryOf(Absent) = Promise!Unknown
  <2>1. Len(<<>>) = 0
    OBVIOUS
  <2> QED
    BY <2>1, NothingAgrees DEF EntryOf, Absent, Promise!Unknown
<1>2. ASSUME NEW b \in BuildStatus PROVE EntryOf(Saved(b)) = EntryOf(b)
  <2>1. Saved(b).state = b.state /\ Saved(b).completed = b.completed
    BY DEF Saved, BuildStatus
  <2> QED
    BY <2>1 DEF EntryOf
<1>3. ASSUME NEW b \in BuildStatus, Known(b), Ordered(b), Agrees(b)
      PROVE  /\ EntryOf(b) \in Promise!Entry /\ EntryOf(b).verdict # "unknown"
             /\ EntryOf(b).verdict = "Completed" => EntryOf(b).tried > 0
             /\ EntryOf(b).tried = Len(b.completed)
  <2>1. Len(b.completed) \in 0..MaxAttempts
    BY <1>3, AttemptsTyped, BuildAssumption DEF Ordered
  <2>2. b.state = "Completed" => Len(b.completed) > 0
    BY <1>3, AttemptsTyped DEF Agrees, HasSuccess
  <2>3. b.state \in {"Waiting", "Running", "Completed", "Expired"}
    BY <1>3 DEF Known, BuildState, Terminal
  <2> QED
    BY <2>1, <2>2, <2>3 DEF EntryOf, Terminal, Promise!Entry, Promise!Verdict
<1> QED
  BY <1>1, <1>2, <1>3

(* The step that opens the file of a build for writing records the build.  *)
LEMMA OpenRecords ==
  ASSUME DurableInv, PromiseInv, OpenFile
  PROVE  UNCHANGED <<kube, Ledger>> \/ Promise!Next
<1> DEFINE w == worker.uid
           e == EntryOf(db[w])
<1>1. /\ TypeOK /\ w \in Uid /\ Known(db[w]) /\ worker.at = "persist"
      /\ db[w] \in BuildStatus /\ Ordered(db[w]) /\ Agrees(db[w])
      /\ disk[w] \in BuildStatus /\ Agrees(disk[w]) /\ disk[w].state \notin Terminal
  BY DEF DurableInv, IInv, TypeOK, WorkerInv, AllGood, Good, SoundInv, SoundBuilds,
         PublishedInv, OpenFile, At
<1>2. UNCHANGED <<kube, db>>
  BY DEF OpenFile, clusterVars
<1>3. CASE disk' = disk
  BY <1>2, <1>3 DEF Ledger, OnRecord
<1>4. CASE disk' = [disk EXCEPT ![w] = NoBuild("torn")]
  <2>1. disk'[w].state = "torn" /\ \A u \in Uid \ {w} : disk'[u] = disk[u]
    BY <1>1, <1>4, NothingAgrees DEF TypeOK
  <2>2. OnRecord(w) = disk[w]
    BY <1>1 DEF OnRecord, PromiseInv, At
  <2>3. Ledger[w] = EntryOf(disk[w])
    BY <1>1, <2>2, LedgerEntries
  <2> HIDE DEF w
  <2>4. Ledger' = [Ledger EXCEPT ![w] = e]
    <3>1. Ledger' = [u \in Uid |-> EntryOf(IF disk'[u].state = "torn" THEN db[u] ELSE disk'[u])]
      BY <1>2 DEF Ledger, EntryOf, OnRecord
    <3>2. Ledger = [u \in Uid |-> EntryOf(IF disk[u].state = "torn" THEN db[u] ELSE disk[u])]
      BY DEF Ledger, EntryOf, OnRecord
    <3> HIDE DEF e
    <3>3. \A u \in Uid : Ledger'[u] = IF u = w THEN e ELSE Ledger[u]
      BY <2>1, <3>1, <3>2 DEF e
    <3> QED
      BY <3>1, <3>2, <3>3
  <2>5. Ledger[w].tried \in Nat /\ e.tried >= Ledger[w].tried
    <3>1. EntryOf(disk[w]).tried = Len(disk[w].completed) /\ e.tried = Len(db[w].completed)
      BY DEF EntryOf
    <3>2. Len(disk[w].completed) <= Len(db[w].completed)
      <4>1. CASE Known(disk[w])
        BY <1>1, <4>1 DEF DurableInv, HistoryInv, Behind
      <4>2. CASE ~Known(disk[w])
        <5>1. PICK s : disk[w] = NoBuild(s)
          BY <1>1, <4>2 DEF Agrees
        <5>2. Len(disk[w].completed) = 0
          BY <5>1 DEF NoBuild
        <5> QED
          BY <1>1, <5>2, AttemptsTyped
      <4> QED
        BY <4>1, <4>2
    <3> QED
      BY <1>1, <2>3, <3>1, <3>2, AttemptsTyped
  <2>6. Ledger[w].verdict \notin Promise!Verdict
    <3>1. Ledger[w].verdict \in {"unknown", "open"}
      BY <1>1, <2>3 DEF EntryOf
    <3> QED
      BY <3>1 DEF Promise!Verdict
  <2>7. /\ e \in Promise!Entry /\ e.verdict # "unknown"
        /\ e.verdict = "Completed" => e.tried > 0
    BY <1>1, Entries
  <2> HIDE DEF e
  <2>8. Promise!Record(w, e)
    BY <1>2, <2>4, <2>5, <2>6, <2>7 DEF Promise!Record
  <2> QED
    BY <1>1, <2>7, <2>8 DEF Promise!Next
<1> QED
  BY <1>3, <1>4 DEF OpenFile

(* A step that leaves the builds on record, or forgets some of objects     *)
(* that do not exist.                                                      *)
LEMMA SameRecords ==
  ASSUME \A u \in Uid : EntryOf(OnRecord(u))' = EntryOf(OnRecord(u))
  PROVE  Ledger' = Ledger
<1>1. Ledger' = [u \in Uid |-> EntryOf(OnRecord(u))']
  BY DEF Ledger, EntryOf
<1> QED
  BY <1>1, LedgerEntries

LEMMA ForgetsSome ==
  ASSUME NEW gone \in SUBSET Uid, kube \notin gone, kube' = kube,
         \A u \in Uid : EntryOf(OnRecord(u))' =
                          IF u \in gone THEN EntryOf(Absent) ELSE EntryOf(OnRecord(u))
  PROVE  Promise!Next
<1>1. Ledger' = [u \in Uid |-> EntryOf(OnRecord(u))']
  BY DEF Ledger, EntryOf
<1>2. Ledger' = [u \in Uid |-> IF u \in gone THEN Promise!Unknown ELSE Ledger[u]]
  BY <1>1, LedgerEntries, Entries
<1>3. Promise!Forget(gone)
  BY <1>2 DEF Promise!Forget
<1> QED
  BY <1>3 DEF Promise!Next

LEMMA StepPromises ==
  ASSUME ~Fault("elsewhere"), ~Fault("api"), ~Fault("torn"), ~Fault("short"),
         DurableInv, PromiseInv, Writing, [Next]_vars
  PROVE  UNCHANGED <<kube, Ledger>> \/ Promise!Next
<1>0. TypeOK /\ SoundBuilds /\ WorkerInv
  BY DEF DurableInv, IInv, SoundInv
<1>1. ASSUME UNCHANGED <<kube, disk>>, ~At("write")
      PROVE  UNCHANGED <<kube, Ledger>>
  <2>1. \A u \in Uid : disk[u].state # "torn"
    BY <1>1 DEF PromiseInv
  <2>2. \A u \in Uid : OnRecord(u) = disk[u] /\ OnRecord(u)' = disk[u]
    BY <1>1, <2>1 DEF OnRecord
  <2>3. \A u \in Uid : EntryOf(OnRecord(u))' = EntryOf(OnRecord(u))
    BY <2>2 DEF EntryOf
  <2> QED
    BY <1>1, <2>3, SameRecords
<1>2. ASSUME UNCHANGED <<db, disk>>, kube' \in Uid \cup {NoUid}
      PROVE  UNCHANGED <<kube, Ledger>> \/ Promise!Next
  <2>1. Ledger' = Ledger
    BY <1>2 DEF Ledger, OnRecord
  <2>2. Promise!Change
    BY <1>2, <2>1 DEF Promise!Change
  <2> QED
    BY <2>2 DEF Promise!Next
<1>a. ASSUME \/ \E u \in Uid : Reconcile(u)
             \/ Subprocess \/ Create \/ Publish \/ Crash \/ CleanupPanic
      PROVE  UNCHANGED <<kube, Ledger>>
  BY <1>1, <1>a
  DEF Reconcile, Subprocess, PassNoInstance, PassDecided, PassScan, Create, CreateJob,
      CreateRefused, CreateUnacknowledged, Publish, Crash, CleanupPanic, Die, At, clusterVars
<1>b. ASSUME WriteFile PROVE UNCHANGED <<kube, Ledger>>
  <2>0. PICK w \in Uid : w = worker.uid
    BY <1>0, <1>b DEF WriteFile, At, WorkerInv
  <2>1. /\ UNCHANGED <<kube, db>> /\ disk' = [disk EXCEPT ![w] = Saved(db[w])]
    BY <1>b, <2>0 DEF WriteFile, clusterVars
  <2>2. EntryOf(Saved(db[w])) = EntryOf(db[w]) /\ Saved(db[w]).state # "torn"
    <3>1. db[w] \in BuildStatus /\ db[w].state # "torn"
      BY <1>0, <2>1 DEF TypeOK
    <3> QED
      BY <3>1, Entries DEF Saved, BuildStatus
  <2>3. OnRecord(w) = db[w] /\ disk'[w] = Saved(db[w])
    BY <1>0, <1>b, <2>0, <2>1 DEF OnRecord, WriteFile, Writing, TypeOK
  <2>4. \A u \in Uid \ {w} : disk'[u] = disk[u]
    BY <1>0, <2>1 DEF TypeOK
  <2>5. OnRecord(w)' = Saved(db[w])
    BY <2>2, <2>3 DEF OnRecord
  <2>6. \A u \in Uid \ {w} : OnRecord(u)' = OnRecord(u)
    BY <2>1, <2>4 DEF OnRecord
  <2>7. \A u \in Uid : EntryOf(OnRecord(u))' = EntryOf(OnRecord(u))
    BY <2>2, <2>3, <2>5, <2>6 DEF EntryOf
  <2> QED
    BY <2>1, <2>7, SameRecords
<1>c. ASSUME Cleanup PROVE Promise!Next
  <2>0. PICK lost \in SUBSET Astrays : \E gone \in SUBSET Removable(lost) :
          /\ disk' = [u \in Uid |-> IF u \in gone THEN NoBuild("absent") ELSE disk[u]]
          /\ db' = [u \in Uid |-> IF u \in gone THEN NoBuild("absent") ELSE db[u]]
    BY <1>c DEF Cleanup
  <2>1. PICK gone \in SUBSET Removable(lost) :
          /\ disk' = [u \in Uid |-> IF u \in gone THEN NoBuild("absent") ELSE disk[u]]
          /\ db' = [u \in Uid |-> IF u \in gone THEN NoBuild("absent") ELSE db[u]]
    BY <2>0
  <2>2. kube' = kube
    BY <1>c DEF Cleanup, clusterVars
  <2>3. gone \in SUBSET Uid /\ kube \notin gone
    BY BuildAssumption DEF Removable, Obsolete, Astrays, DurableInv, HomeInv, PromiseInv
  <2>4. \A u \in Uid : OnRecord(u)' = IF u \in gone THEN Absent ELSE OnRecord(u)
    BY <2>1, NothingAgrees DEF OnRecord, Absent
  <2>5. \A u \in Uid : EntryOf(OnRecord(u))' =
                         IF u \in gone THEN EntryOf(Absent) ELSE EntryOf(OnRecord(u))
    BY <2>4 DEF EntryOf
  <2> QED
    BY <2>2, <2>3, <2>5, ForgetsSome
<1>d. ASSUME Load PROVE UNCHANGED <<kube, Ledger>> \/ Promise!Next
  <2>1. PICK kept \in SUBSET Uid :
          disk' = [u \in Uid |->
            IF Known(disk[u]) /\ db'[u].state = "absent" /\ u \notin kept
              THEN NoBuild("absent") ELSE disk[u]]
    BY <1>d DEF Load
  <2>2. kube' = kube /\ ~At("write") /\ \A u \in Uid : db'[u] \in Loaded(u, kube)
    BY <1>d, NoStrangers DEF Load, At, clusterVars
  <2>3. \A u \in Uid : disk[u].state # "torn" /\ disk'[u].state # "torn"
    BY <2>1, <2>2, NothingAgrees DEF PromiseInv
  <2>4. \A u \in Uid : OnRecord(u) = disk[u] /\ OnRecord(u)' = disk'[u]
    BY <2>3 DEF OnRecord
  <2>5. CASE kube = NoUid
    <3> DEFINE gone == {u \in Uid : disk'[u] # disk[u]}
    <3>1. \A u \in Uid : disk'[u] = IF u \in gone THEN Absent ELSE disk[u]
      BY <2>1 DEF Absent
    <3>2. gone \in SUBSET Uid /\ kube \notin gone
      BY <2>5, BuildAssumption
    <3>3. PICK lost : lost = gone
      OBVIOUS
    <3> HIDE DEF gone
    <3>4. \A u \in Uid : EntryOf(OnRecord(u))' =
                           IF u \in lost THEN EntryOf(Absent) ELSE EntryOf(OnRecord(u))
      BY <2>4, <3>1, <3>3 DEF EntryOf
    <3> QED
      BY <2>2, <3>2, <3>3, <3>4, ForgetsSome
  <2>6. CASE kube # NoUid
    <3>1. \A u \in Uid : Known(disk[u]) => db'[u].state # "absent"
      <4> SUFFICES ASSUME NEW u \in Uid, Known(disk[u]) PROVE db'[u].state # "absent"
        OBVIOUS
      <4>1. db'[u] = [disk[u] EXCEPT !.kubeUid = kube]
        BY <2>2, <2>6 DEF Loaded, Read
      <4>2. disk[u].state # "absent" /\ disk[u] \in BuildStatus
        BY <1>0, NothingTyped DEF Known, BuildState, Terminal, TypeOK
      <4> QED
        BY <4>1, <4>2 DEF BuildStatus
    <3>2. disk' = disk
      BY <1>0, <2>1, <3>1 DEF TypeOK
    <3> QED
      BY <1>1, <2>2, <3>2
  <2> QED
    BY <2>5, <2>6
<1>e. CASE \/ DeleteObject \/ (\E u \in Uid : CreateObject(u))
           \/ (\E t \in HeldTimes : DeadlinePasses(t))
           \/ (\E n \in 1..MaxAttempts : JobStep(n)) \/ UNCHANGED vars
  <2>1. UNCHANGED <<db, disk>> /\ kube' \in Uid \cup {NoUid}
    BY <1>0, <1>e DEF DeleteObject, CreateObject, DeadlinePasses, JobStep, StartJob,
      SucceedJob, FailJob, OverrunJob, RemoveJob, RemovePod, SetJob, vars, TypeOK
  <2> QED
    BY <1>2, <2>1
<1> QED
  BY <1>a, <1>b, <1>c, <1>d, <1>e, OpenRecords, NoStrangers DEF Next, Operator, Save
-----------------------------------------------------------------------------
(***************************************************************************)
(* The theorem.                                                            *)
(***************************************************************************)

LEMMA InitPromises == Init => Promise!Init
<1> SUFFICES ASSUME Init PROVE Promise!Init
  OBVIOUS
<1>1. \A u \in Uid : OnRecord(u) = Absent
  BY NothingAgrees DEF Init, OnRecord, Absent
<1>2. Ledger = [u \in Uid |-> Promise!Unknown]
  BY <1>1, LedgerEntries, Entries
<1> QED
  BY <1>2 DEF Init, Promise!Init

(* Where all KoupletBuilds are in one namespace, restarts, new objects     *)
(* under an old name and scheduled cleanups neither change a recorded      *)
(* verdict, nor lower the number of attempts, nor forget an object that    *)
(* exists. (From one restart on, load forgets or misattributes the builds  *)
(* of the namespaces that its first request is not of.)                    *)
THEOREM PromiseIsKept ==
  ASSUME ~Fault("elsewhere"), ~Fault("api"), ~Fault("torn"), ~Fault("short")
  PROVE  Spec => KeepsPromise
<1>1. Init => Writing /\ PromiseInv /\ Promise!Init
  BY PromiseInit, InitPromises
<1>2. DurableInv /\ Writing /\ PromiseInv /\ [Next]_vars => (Writing /\ PromiseInv)'
  BY WritingStep, PromiseStep DEF DurableInv, IInv
<1>3. DurableInv /\ Writing /\ PromiseInv /\ [Next]_vars => [Promise!Next]_<<kube, Ledger>>
  BY StepPromises
<1> QED
  BY <1>1, <1>2, <1>3, DurableInvariant, PTL DEF Spec, KeepsPromise, Promise!Spec
=============================================================================

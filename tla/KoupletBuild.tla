---------------------------- MODULE KoupletBuild ----------------------------
(***************************************************************************)
(* The controller of the KoupletBuild resource: one worker goroutine that  *)
(* reconciles a KoupletBuild by running builder Jobs until one succeeds or *)
(* the build expires, keeps what it knows of every build in memory, and    *)
(* saves it to one file per build.                                         *)
(*                                                                         *)
(* The worker is modelled at the grain of its calls to the API server and  *)
(* to the file system: between two of them the cluster may change, and the *)
(* operator may be killed.  One name in one namespace is modelled: Uid is  *)
(* the set of KoupletBuild objects that may bear it, one after the other.  *)
(* A Job's name is then determined by its attempt number.  Builds of other *)
(* names share nothing with these but the worker.  Those of the same name  *)
(* in other namespaces do, since a new process looks for the objects of    *)
(* all saved builds in the namespace of its first request: see "elsewhere" *)
(* below.                                                                  *)
(*                                                                         *)
(* Source: staging/controllers/koupletbuild (the migrated copy of the code *)
(* in kouplet/pkg/controller/koupletbuild, with the same control flow).    *)
(***************************************************************************)
EXTENDS Naturals, Sequences

CONSTANTS
  Uid,          \* the KoupletBuild objects created under the name
  NoUid,        \* no object exists under the name
  Stranger,     \* an object of the same name in another namespace
  MaxAttempts,  \* MaxNumberofBuildAttempts of the spec (5 when it is absent)
  MaxRestarts,  \* bound: how often the operator may be killed
  Faults        \* what may go wrong besides failing Jobs

(* api    : a call to the API server may return an error                   *)
(* io     : a file may fail to open, or to be removed                      *)
(* short  : WriteString may fail, and leave the file cut off               *)
(* torn   : the operator may be killed between os.Create and WriteString   *)
(* delete : the KoupletBuild object may be deleted                         *)
(* jobloss: a Job may be deleted by somebody else                          *)
(* podloss: the Pod of a finished Job may be                               *)
(* slow   : deadlines may pass                                             *)
(* elsewhere: there are KoupletBuilds in other namespaces                  *)
FaultKind == {"api", "io", "short", "torn", "delete", "jobloss", "podloss",
              "slow", "elsewhere"}

ASSUME BuildAssumption ==
  /\ NoUid \notin Uid /\ Stranger \notin Uid \cup {NoUid}
  /\ MaxAttempts \in Nat
  /\ MaxRestarts \in Nat
  /\ Faults \subseteq FaultKind

VARIABLES
  kube,      \* the object that exists under the name, or NoUid
  born,      \* the objects created so far
  kstatus,   \* the status subresource of that object
  jobs,      \* the Jobs in the cluster, by attempt number
  stamp,     \* number of times read by the operator so far: time, and Job UIDs
  overdue,   \* the times whose deadline has passed
  pushed,    \* the Jobs that have pushed an image
  db,        \* KoupletBuildDB.builds
  disk,      \* the files under /kouplet-persistence/build
  worker,    \* what the reconciling goroutine is doing
  restarts   \* how often the operator was killed

clusterVars == <<kube, born, kstatus, jobs, stamp, overdue, pushed>>
vars == <<kube, born, kstatus, jobs, stamp, overdue, pushed,
          db, disk, worker, restarts>>
-----------------------------------------------------------------------------
(***************************************************************************)
(* Data.                                                                   *)
(***************************************************************************)

Terminal == {"Completed", "Expired"}
BuildState == {"Waiting", "Running"} \cup Terminal

(* A buildAttempt.  job stands for jobUID and for jobQueueTime, which are  *)
(* set together; result for jobSucceeded (nil, true, false).  Attempt      *)
(* number 0 is no attempt.                                                 *)
Attempt == [n : 0..MaxAttempts, job : Nat, started : BOOLEAN,
            result : {"unset", "yes", "no"}]
NoAttempt == [n |-> 0, job |-> 0, started |-> FALSE, result |-> "unset"]

(* A buildStatus, the value of db.builds[uid]; "absent" when the map has   *)
(* no such key, "nil" when it maps the key to nil.  activeAttempts never   *)
(* holds more than one attempt, as the only append is guarded by           *)
(* len(activeAttempts) == 0, so it is one attempt or NoAttempt.  A file    *)
(* holds the same record, is "absent", or is "torn": created and empty.    *)
BuildStatus == [state : BuildState \cup {"absent", "nil", "torn"},
                kubeUid : Uid \cup {NoUid, Stranger}, created : Nat,
                success : {"unset", "yes", "no"},
                active : Attempt, completed : Seq(Attempt)]
NoBuild(state) ==
  [state |-> state, kubeUid |-> NoUid, created |-> 0, success |-> "unset",
   active |-> NoAttempt, completed |-> <<>>]

(* A Job as the job controller maintains it: pending until its startTime   *)
(* is set, running, then succeeded or failed; "none" when it is not there. *)
(* "overrun" is running with MaxJobBuildTime passed since its start, and   *)
(* "podless" is succeeded with its Pod gone.                               *)
Job == [state : {"none", "pending", "running", "overrun", "succeeded",
                 "podless", "failed"},
        uid : Nat, owner : Uid \cup {NoUid}]
NoJob == [state |-> "none", uid |-> 0, owner |-> NoUid]

(* What updateKubeStatus writes: the state, how many attempts completed,   *)
(* and the active one, which is shown by the name of its Job.              *)
NoStatus == [state |-> "", tried |-> 0, running |-> 0]
Shown(a) == a.n
Public(b) ==
  [state |-> b.state, tried |-> Len(b.completed), running |-> Shown(b.active)]

(* convertBuildStatusToJSON: a file does not hold the kubeObj.             *)
Saved(b) == [b EXCEPT !.kubeUid = NoUid]

NewBuildStatus(u, now) ==
  [NoBuild("Waiting") EXCEPT !.kubeUid = u, !.created = now]

Known(b) == b.state \in BuildState
Fault(kind) == kind \in Faults

(* The worker between two reconciles.                                      *)
Idle == [at |-> "idle", uid |-> NoUid, inst |-> NoUid,
         changed |-> FALSE, dirty |-> FALSE]
Down == [Idle EXCEPT !.at = "down"]
-----------------------------------------------------------------------------
(***************************************************************************)
(* The steps of the worker.                                                *)
(***************************************************************************)

At(place) == worker.at = place
Goto(place) == worker' = [worker EXCEPT !.at = place]

(* Mutants of EndPass: only the last pass counts as a change; the status   *)
(* is saved and not published.                                             *)
EndPass_LastPassOnly(changed) ==
  worker' = IF changed THEN [worker EXCEPT !.at = "pass", !.inst = NoUid,
                                          !.changed = FALSE, !.dirty = FALSE]
            ELSE IF worker.dirty THEN [worker EXCEPT !.at = "publish"] ELSE Idle
EndPass_Unpublished(changed) ==
  worker' = IF changed \/ worker.dirty
              THEN [worker EXCEPT !.at = IF changed THEN "pass" ELSE "persist",
                      !.inst = NoUid, !.changed = FALSE, !.dirty = TRUE]
              ELSE Idle

(* The loop of process(): another pass while a pass changed something,     *)
(* then updateKubeStatus and updateBuildStatus if any pass did.            *)
EndPass(changed) ==
  worker' = IF changed \/ worker.dirty
              THEN [worker EXCEPT !.at = IF changed THEN "pass" ELSE "publish",
                      !.inst = NoUid, !.changed = FALSE, !.dirty = TRUE]
              ELSE Idle

(* Reconcile fetched object u; Process looks its build up and creates it   *)
(* when the map has none, or maps it to nil.                               *)
Reconcile(u) ==
  /\ At("idle") /\ kube = u
  /\ IF Known(db[u])
       THEN UNCHANGED <<db, stamp>>
       ELSE /\ stamp' = stamp + 1
            /\ db' = [db EXCEPT ![u] = NewBuildStatus(u, stamp')]
  /\ worker' = [Idle EXCEPT !.at = "pass", !.uid = u, !.dirty = ~Known(db[u])]
  /\ UNCHANGED <<kube, born, kstatus, jobs, overdue, pushed, disk, restarts>>

(* A build whose kubeObj is in another namespace.  Its object there may be *)
(* deleted, and created anew, at any time.                                 *)
Astray(b) == b.kubeUid = Stranger

(* subProcess, when getInstance(name) fails.                               *)
PassNoInstance ==
  /\ At("pass")
  /\ kube = NoUid \/ Astray(db[worker.uid]) \/ Fault("api")
  /\ EndPass(FALSE)
  /\ UNCHANGED <<clusterVars, db, disk, restarts>>

(* Mutant of Undecided: an expired build is looked at again.               *)
Undecided_ExpiredToo(b) == b.state # "Completed"

(* subProcess, when the build is already complete or expired.              *)
Undecided(b) == b.state \notin Terminal
Instance(b) == IF Astray(b) THEN Stranger ELSE kube
PassDecided ==
  /\ At("pass") /\ Instance(db[worker.uid]) # NoUid
  /\ ~Undecided(db[worker.uid])
  /\ EndPass(FALSE)
  /\ UNCHANGED <<clusterVars, db, disk, restarts>>

(* What the scan may see of an attempt's Job: its state, or "unread" when  *)
(* Get fails otherwise than by NotFound (the code then goes on with an     *)
(* empty status).  getContainerExitCode may fail to find the exit code of  *)
(* a Job that succeeded, as it does when its Pod is gone.                  *)
Seen(a) ==
  IF a = NoAttempt THEN {"none"}
  ELSE LET s == jobs[a.n].state
       IN  {s} \cup (IF ~Fault("api") THEN {}
                     ELSE {"unread"} \cup {"podless" : x \in {s} \cap {"succeeded"}})

(* Mutant of Examined: a finished Job has succeeded, whatever its exit     *)
(* code.  Mutant of Removed: no deadline is checked.                       *)
Examined_NoExitCode(a, s) ==
  [a EXCEPT !.result = IF s \in {"succeeded", "podless", "failed"} THEN "yes" ELSE @]
Removed_NoDeadline(a, s) == s \in {"succeeded", "podless", "failed", "none"}

(* An active attempt whose Job was seen as s: what the scan records of it, *)
(* and whether it moves it to completedAttempts.  Success is an exit code  *)
(* of 0, as getContainerExitCode finds it on the Job's Pod.                *)
Finished == {"succeeded", "podless", "failed"}
Started == {"running", "overrun"}
ExitCodeZero(s) == s = "succeeded"
Examined(a, s) ==
  [a EXCEPT !.started = @ \/ s \in Started,
            !.result = IF s \notin Finished THEN @
                       ELSE IF ExitCodeZero(s) THEN "yes" ELSE "no"]
Removed(a, s) == s \in Finished \cup {"none", "overrun"} \/ a.job \in overdue

(* Mutant of Scanned: the active attempts are not replaced by those left.  *)
Scanned_KeepsActive(b, s) ==
  LET a == Examined(b.active, s)
      r == [b EXCEPT !.state = "Running"]
  IN  IF b.active # NoAttempt /\ Removed(b.active, s)
        THEN [r EXCEPT !.completed = Append(@, a)] ELSE r

(* The build after the scan.                                               *)
Scanned(b, s) ==
  LET a == Examined(b.active, s)
      r == [b EXCEPT !.state = "Running"]
  IN  CASE b.active = NoAttempt -> r
        [] b.active # NoAttempt /\ Removed(b.active, s) ->
             [r EXCEPT !.active = NoAttempt, !.completed = Append(@, a),
                       !.success = IF a.result = "yes" THEN "yes" ELSE @]
        [] OTHER -> [r EXCEPT !.active = a]

(* expireBuildIfExceedsMaxNumberOfBuildAttempts and ...MaxOverallBuildTime *)
OutOfTime_Never(b) == FALSE   \* mutant of OutOfTime
OutOfAttempts(b) == Len(b.completed) >= MaxAttempts
OutOfTime(b) == b.created \in overdue
Expire(b) ==
  IF OutOfAttempts(b) \/ OutOfTime(b)
    THEN [b EXCEPT !.state = "Expired", !.success = "no"] ELSE b

(* The search for a successful attempt.                                    *)
HasSuccess(b) == \E i \in DOMAIN b.completed : b.completed[i].result = "yes"
Complete(b) ==
  IF b.state = "Running" /\ HasSuccess(b)
    THEN [b EXCEPT !.state = "Completed", !.success = "yes"] ELSE b

Decide_NoSuccess(b) == Expire(b)   \* mutant of Decide
Decide(b) == Complete(Expire(b))

(* subProcess from its scan to the point where it may create a Job.  The   *)
(* step from Waiting to Running alone does not count as a change.          *)
PassScan ==
  LET u == worker.uid
      b == db[u]
  IN  /\ At("pass") /\ Instance(b) # NoUid
      /\ Undecided(b)
      /\ \E s \in Seen(b.active) :
           LET scanned == Scanned(b, s)
               decided == Decide(scanned)
               changed == \/ scanned.active # b.active
                          \/ decided.state # "Running"
           IN  /\ db' = [db EXCEPT ![u] = decided]
               /\ IF decided.state = "Running" /\ decided.active = NoAttempt
                    THEN worker' = [worker EXCEPT !.at = "create",
                                      !.inst = Instance(b), !.changed = changed]
                    ELSE EndPass(changed)
      /\ UNCHANGED <<clusterVars, disk, restarts>>

(* newBuildAttempt: the Job is built from the build's own kubeObj, in its  *)
(* namespace, and owned by the object that getInstance found under the     *)
(* name.                                                                   *)
NextAttempt(b) == Len(b.completed) + 1
NewJob(now) == [NoJob EXCEPT !.state = "pending", !.uid = now,
                             !.owner = worker.inst]

CreateJob ==
  LET u == worker.uid
      n == NextAttempt(db[u])
  IN  /\ At("create")
      /\ stamp' = stamp + 1
      /\ IF worker.inst = Stranger
           THEN UNCHANGED jobs
           ELSE /\ jobs[n].state = "none"
                /\ jobs' = [jobs EXCEPT ![n] = NewJob(stamp')]
      /\ db' = [db EXCEPT ![u].active =
                  [NoAttempt EXCEPT !.n = n, !.job = stamp']]
      /\ EndPass(TRUE)
      /\ UNCHANGED <<kube, born, kstatus, overdue, pushed, disk, restarts>>

(* Create fails: the name is taken, or the API server says so.             *)
CreateRefused ==
  /\ At("create")
  /\ \/ worker.inst = Stranger
     \/ jobs[NextAttempt(db[worker.uid])].state # "none"
     \/ Fault("api")
  /\ EndPass(worker.changed)
  /\ UNCHANGED <<clusterVars, db, disk, restarts>>

(* Create reports an error, but the Job is there.                          *)
CreateUnacknowledged ==
  LET n == NextAttempt(db[worker.uid])
  IN  /\ At("create") /\ Fault("api")
      /\ worker.inst # Stranger /\ jobs[n].state = "none"
      /\ stamp' = stamp + 1
      /\ jobs' = [jobs EXCEPT ![n] = NewJob(stamp')]
      /\ EndPass(worker.changed)
      /\ UNCHANGED <<kube, born, kstatus, overdue, pushed, db, disk, restarts>>

(* updateKubeStatus: the object is found by name; an error is only logged. *)
Publish ==
  /\ At("publish")
  /\ LET b == db[worker.uid]
     IN  \/ kube # NoUid /\ ~Astray(b) /\ kstatus' = Public(b)
         \/ (kube = NoUid \/ Astray(b) \/ Fault("api")) /\ UNCHANGED kstatus
  /\ Goto("persist")
  /\ UNCHANGED <<kube, born, jobs, stamp, overdue, pushed, db, disk, restarts>>

(* updateBuildStatus, that is WriteValues: os.Create, which truncates, and *)
(* WriteString, which may leave the file empty or cut off.  An error is    *)
(* only logged.                                                            *)
OpenFile ==
  /\ At("persist")
  /\ \/ /\ disk' = [disk EXCEPT ![worker.uid] = NoBuild("torn")]
        /\ Goto("write")
     \/ Fault("io") /\ worker' = Idle /\ UNCHANGED disk
  /\ UNCHANGED <<clusterVars, db, restarts>>

WriteFile ==
  /\ At("write")
  /\ \/ disk' = [disk EXCEPT ![worker.uid] = Saved(db[worker.uid])]
     \/ Fault("short") /\ UNCHANGED disk
  /\ worker' = Idle
  /\ UNCHANGED <<clusterVars, db, restarts>>
-----------------------------------------------------------------------------
(***************************************************************************)
(* Scheduled tasks, crashes and restarts.                                  *)
(***************************************************************************)

(* cleanupOldDatabaseEntries, which RunTasksIfNeeded may call at the end   *)
(* of the Process of any build, those of other names included: entries     *)
(* whose object is gone, or is another one, lose their file and then their *)
(* place in the map; they keep both when the object cannot be read or the  *)
(* file cannot be removed, as when there is none.                          *)
Obsolete_Decided ==   \* mutant of Obsolete: decided builds are dropped
  {u \in Uid : db[u].state \in Terminal}
Obsolete ==
  {u \in Uid : Known(db[u]) /\ ~Astray(db[u]) /\ (kube = NoUid \/ kube # db[u].kubeUid)}
Astrays == {u \in Uid : Known(db[u]) /\ Astray(db[u])}
Removable(lost) == {u \in Obsolete \cup lost : disk[u].state # "absent"}
Cleanup ==
  /\ At("idle")
  /\ \A u \in Uid : db[u].state # "nil"
  /\ \E lost \in SUBSET Astrays : \E gone \in SUBSET Removable(lost) :
       /\ Removable(lost) # {}
       /\ Fault("api") \/ Fault("io") \/ gone = Removable(lost)
       /\ disk' = [u \in Uid |-> IF u \in gone THEN NoBuild("absent") ELSE disk[u]]
       /\ db' = [u \in Uid |-> IF u \in gone THEN NoBuild("absent") ELSE db[u]]
  /\ UNCHANGED <<clusterVars, worker, restarts>>

(* The operator's process ends, and its memory with it.                    *)
Die ==
  /\ db' = [u \in Uid |-> NoBuild("absent")]
  /\ worker' = Down
  /\ UNCHANGED <<clusterVars, disk>>

Crash == /\ restarts < MaxRestarts
         /\ ~At("down")
         /\ At("write") => Fault("torn")
         /\ restarts' = restarts + 1
         /\ Die

(* cleanupOldDatabaseEntries dereferences an entry that load left nil, so  *)
(* this takes a restart before it, and is not counted as another.          *)
CleanupPanic == /\ At("idle")
                /\ \E u \in Uid : db[u].state = "nil"
                /\ Die
                /\ UNCHANGED restarts

(* Mutants of Loaded: a file that cannot be parsed is not skipped; an      *)
(* expired build is read as a running one; completed attempts are not read.*)
Read(b, bearer) ==
  IF bearer = NoUid THEN {NoBuild("absent")} ELSE {[b EXCEPT !.kubeUid = bearer]}
Loaded_Unparsed(u, bearer) ==
  IF disk[u].state = "absent" THEN {NoBuild("absent")} ELSE Read(disk[u], bearer)
Loaded_Reopened(u, bearer) ==
  IF ~Known(disk[u]) THEN {NoBuild("absent")}
  ELSE Read([disk[u] EXCEPT !.state = "Running"], bearer)
Loaded_NoHistory(u, bearer) ==
  IF ~Known(disk[u]) THEN {NoBuild("absent")}
  ELSE Read([disk[u] EXCEPT !.completed = <<>>], bearer)

(* load, on the first Reconcile of a new process: a file that cannot be    *)
(* parsed is skipped, a build whose object is gone loses its file, and one *)
(* whose object cannot be read becomes a nil entry.  The kubeObj is the    *)
(* object that now bears the name in the namespace of that first request,  *)
(* which any KoupletBuild may have made.                                   *)
Bearers == {kube} \cup (IF Fault("elsewhere") THEN {NoUid, Stranger} ELSE {})
Loaded(u, bearer) ==
  IF ~Known(disk[u]) THEN {NoBuild("absent")}
  ELSE Read(disk[u], bearer) \cup (IF Fault("api") THEN {NoBuild("nil")} ELSE {})
Load ==
  /\ At("down")
  /\ \E bearer \in Bearers :
       /\ db' \in [Uid -> UNION {Loaded(u, bearer) : u \in Uid}]
       /\ \A u \in Uid : db'[u] \in Loaded(u, bearer)
  /\ \E kept \in SUBSET Uid :
       /\ Fault("io") \/ kept = {}
       /\ disk' = [u \in Uid |->
            IF Known(disk[u]) /\ db'[u].state = "absent" /\ u \notin kept
              THEN NoBuild("absent") ELSE disk[u]]
  /\ worker' = Idle
  /\ UNCHANGED <<clusterVars, restarts>>
-----------------------------------------------------------------------------
(***************************************************************************)
(* The cluster: users, the job controller, the garbage collector, time.    *)
(***************************************************************************)

CreateObject(u) ==
  /\ kube = NoUid /\ u \notin born
  /\ kube' = u
  /\ born' = born \cup {u}
  /\ kstatus' = NoStatus
  /\ UNCHANGED <<jobs, stamp, overdue, pushed, db, disk, worker, restarts>>

DeleteObject ==
  /\ Fault("delete") /\ kube # NoUid
  /\ kube' = NoUid
  /\ kstatus' = NoStatus
  /\ UNCHANGED <<born, jobs, stamp, overdue, pushed, db, disk, worker, restarts>>

SetJob(n, state) ==
  /\ jobs' = [jobs EXCEPT ![n] = IF state = "none" THEN NoJob
                                  ELSE [@ EXCEPT !.state = state]]
  /\ UNCHANGED <<kube, born, kstatus, stamp, overdue, db, disk, worker, restarts>>

StartJob(n) ==
  /\ jobs[n].state = "pending"
  /\ SetJob(n, "running") /\ UNCHANGED pushed

SucceedJob(n) ==
  /\ jobs[n].state \in Started
  /\ SetJob(n, "succeeded") /\ pushed' = pushed \cup {jobs[n].uid}

FailJob(n) ==
  /\ jobs[n].state \in Started
  /\ SetJob(n, "failed") /\ UNCHANGED pushed

(* Start time plus MaxJobBuildTime passes.                                 *)
OverrunJob(n) ==
  /\ Fault("slow") /\ jobs[n].state = "running"
  /\ SetJob(n, "overrun") /\ UNCHANGED pushed

(* A Job disappears with its owner, or because somebody deletes it.        *)
RemoveJob(n) ==
  /\ jobs[n].state # "none"
  /\ jobs[n].owner # kube \/ Fault("jobloss")
  /\ SetJob(n, "none") /\ UNCHANGED pushed

RemovePod(n) ==
  /\ Fault("podloss") /\ jobs[n].state = "succeeded"
  /\ SetJob(n, "podless") /\ UNCHANGED pushed

(* A build of another namespace that load attached to this object, because *)
(* it has its name: its status is written here (Running stands for all     *)
(* that are not this object's own), and its Jobs are made here under the   *)
(* names of this object's own, with a UID that is none of theirs (0 stands *)
(* for all).                                                               *)
Intruded == Fault("elsewhere") /\ restarts > 0 /\ At("idle") /\ kube # NoUid
StrangerPublishes ==
  /\ Intruded
  /\ kstatus' = [NoStatus EXCEPT !.state = "Running"]
  /\ UNCHANGED <<kube, born, jobs, stamp, overdue, pushed, db, disk, worker, restarts>>
StrangerCreates(n) ==
  /\ Intruded /\ jobs[n].state = "none"
  /\ jobs' = [jobs EXCEPT ![n] = [NoJob EXCEPT !.state = "pending", !.owner = kube]]
  /\ UNCHANGED <<kube, born, kstatus, stamp, overdue, pushed, db, disk, worker, restarts>>

(* A deadline counted from a time the operator holds passes: kubeCreation- *)
(* Time plus MaxOverallBuildTime, or jobQueueTime plus MaxJobWaitStart.    *)
(* Times no undecided build holds any more are forgotten.                  *)
Times(b) ==
  IF b.state \in {"Waiting", "Running"} THEN {b.created, b.active.job} \ {0} ELSE {}
HeldTimes == UNION {Times(db[u]) \cup Times(disk[u]) : u \in Uid}
DeadlinePasses(t) ==
  /\ Fault("slow") /\ t \in HeldTimes \ overdue
  /\ overdue' = (overdue \cap HeldTimes) \cup {t}
  /\ UNCHANGED <<kube, born, kstatus, jobs, stamp, pushed,
                 db, disk, worker, restarts>>
-----------------------------------------------------------------------------
(***************************************************************************)
(* The specification.                                                      *)
(***************************************************************************)

Init ==
  /\ kube = NoUid /\ born = {} /\ kstatus = NoStatus
  /\ jobs = [n \in 1..MaxAttempts |-> NoJob]
  /\ stamp = 0 /\ overdue = {} /\ pushed = {}
  /\ db = [u \in Uid |-> NoBuild("absent")]
  /\ disk = [u \in Uid |-> NoBuild("absent")]
  /\ worker = Idle
  /\ restarts = 0

Subprocess == PassNoInstance \/ PassDecided \/ PassScan
Create == CreateJob \/ CreateRefused \/ CreateUnacknowledged
Save == Publish \/ OpenFile \/ WriteFile
Operator == Subprocess \/ Create \/ Save \/ Load

JobStep(n) == StartJob(n) \/ SucceedJob(n) \/ FailJob(n) \/ OverrunJob(n)
                \/ RemoveJob(n) \/ RemovePod(n)

Next ==
  \/ Operator \/ Cleanup
  \/ Crash \/ CleanupPanic
  \/ \E u \in Uid : Reconcile(u) \/ CreateObject(u)
  \/ \E t \in HeldTimes : DeadlinePasses(t)
  \/ DeleteObject
  \/ StrangerPublishes
  \/ \E n \in 1..MaxAttempts : JobStep(n) \/ StrangerCreates(n)

Spec == Init /\ [][Next]_vars

(* Fairness.  The worker runs; the object is reconciled again and again    *)
(* (requeues and the manager's resync); a restarted process loads; the     *)
(* time an attempt may wait passes.  Nothing is assumed of Jobs, which may *)
(* hang, nor that the overall deadline passes.                             *)
WaitTimePasses(u) ==
  Known(db[u]) /\ db[u].active # NoAttempt /\ DeadlinePasses(db[u].active.job)

Fairness ==
  /\ WF_vars(Operator)
  /\ \A u \in Uid : WF_vars(Reconcile(u)) /\ WF_vars(WaitTimePasses(u))

FairSpec == Spec /\ Fairness
-----------------------------------------------------------------------------
(***************************************************************************)
(* Properties.                                                             *)
(***************************************************************************)

(* The types of the variables.  The map never holds a half-read file, and  *)
(* a file never holds a nil entry.                                         *)
TypeOK ==
  /\ kube \in Uid \cup {NoUid}
  /\ born \subseteq Uid
  /\ kstatus \in [state : BuildState \cup {""}, tried : Nat, running : 0..MaxAttempts]
  /\ jobs \in [1..MaxAttempts -> Job]
  /\ stamp \in Nat /\ restarts \in Nat
  /\ overdue \subseteq Nat /\ pushed \subseteq Nat
  /\ db \in [Uid -> BuildStatus] /\ \A u \in Uid : db[u].state # "torn"
  /\ disk \in [Uid -> BuildStatus] /\ \A u \in Uid : disk[u].state # "nil"
  /\ worker \in [at : {"idle", "pass", "create", "publish", "persist", "write", "down"},
                  uid : Uid \cup {NoUid}, inst : Uid \cup {NoUid, Stranger},
                  changed : BOOLEAN, dirty : BOOLEAN]

(* Whatever fails or restarts, the attempts of a build, in memory and on   *)
(* disk, are numbered 1, 2, ... without a gap, each is of a Job created    *)
(* later than the one before and than the build was first seen, and there  *)
(* are never more than MaxNumberofBuildAttempts of them.                   *)
Ordered(b) ==
  LET k == Len(b.completed)
      active == b.active # NoAttempt
  IN  /\ \A i \in 1..k : b.completed[i].n = i /\ b.completed[i].job > b.created
      /\ \A i \in 1..k, j \in 1..k : i < j => b.completed[i].job < b.completed[j].job
      /\ active => /\ b.active.n = k + 1 /\ b.active.job > b.created
                   /\ \A i \in 1..k : b.completed[i].job < b.active.job
      /\ k <= MaxAttempts
AttemptsInOrder == \A u \in Uid : Ordered(db[u]) /\ Ordered(disk[u])

(* A build is Completed only if one of its own attempts succeeded, that    *)
(* is, if a Job it created itself pushed an image (Jobs are looked up by   *)
(* name, and names are used again); and its successResult says what its    *)
(* state says, although it is set in three places.                         *)
VerdictEarned ==
  \A u \in Uid : Known(db[u]) =>
    /\ db[u].state = "Completed" =>
         \E i \in DOMAIN db[u].completed :
            db[u].completed[i].result = "yes" /\ db[u].completed[i].job \in pushed
    /\ db[u].state = "Completed" <=> db[u].success = "yes"
    /\ db[u].state = "Expired" <=> db[u].success = "no"

(* Once an attempt has succeeded no other is ever started: the successful  *)
(* one is the last, none is active, and the build is decided.              *)
NothingAfterSuccess ==
  \A u \in Uid : LET b == db[u] IN
    \A i \in DOMAIN b.completed : b.completed[i].result = "yes" =>
      i = Len(b.completed) /\ b.active = NoAttempt /\ b.state \in Terminal

(* A verdict is final: whatever its Jobs do later, and however often it is *)
(* reconciled, a decided build changes in nothing while the operator lives *)
(* but in being dropped from the map.                                      *)
VerdictFinal ==
  [][\A u \in Uid : db[u].state \in Terminal /\ Known(db'[u]) =>
       Saved(db'[u]) = Saved(db[u])]_vars

(* When the worker is between two requests everything it knows is on disk: *)
(* no decision of a reconcile depends on a later one to be saved.          *)
IdleSaved ==
  At("idle") => \A u \in Uid : Known(db[u]) => disk[u] = Saved(db[u])

(* What is on disk is never ahead of memory, nor of another history: its   *)
(* completed attempts are the first ones of those in memory.               *)
SavedPrefix ==
  \A u \in Uid : Known(db[u]) /\ Known(disk[u]) =>
    /\ disk[u].created = db[u].created
    /\ Len(disk[u].completed) <= Len(db[u].completed)
    /\ \A i \in DOMAIN disk[u].completed : disk[u].completed[i] = db[u].completed[i]

(* A verdict on disk was published first, so a restart, after which the    *)
(* build is never looked at again, does not leave a stale status behind.   *)
(* This is so where all KoupletBuilds are in one namespace: with           *)
(* "elsewhere" a build may publish to the object that has its name in      *)
(* another one.                                                            *)
SavedIsPublished ==
  \A u \in Uid : disk[u].state \in Terminal /\ kube = u => kstatus = Public(disk[u])

(* A verdict on disk is never written again, only removed.                 *)
DurableVerdict ==
  [][\A u \in Uid : disk[u].state \in Terminal =>
       disk'[u] \in {disk[u], NoBuild("absent")}]_vars

Decided(u) == kube = u => kstatus.state \in Terminal

(* While the operator is not killed a build is decided, and the decision   *)
(* published, by its attempts alone: Jobs may hang, their Pods may vanish, *)
(* and the overall deadline need never pass.                               *)
AttemptsDecide == [](restarts = 0) => \A u \in Uid : kube = u ~> Decided(u) /\ kube = u

(* Even if the operator is killed, a saved build whose overall time is     *)
(* over is decided, and the decision published. This is so where all       *)
(* KoupletBuilds are in one namespace, since load may drop the build       *)
(* otherwise, and where no write is cut off, since its file may then be    *)
(* unreadable.                                                             *)
DeadlineDecides ==
  \A u \in Uid : (Known(disk[u]) /\ disk[u].created \in overdue) ~> Decided(u)

(* The durable record the files make up.  A file open for writing counts   *)
(* as written.                                                             *)
OnRecord(u) == IF disk[u].state = "torn" THEN db[u] ELSE disk[u]
Ledger ==
  [u \in Uid |->
    LET b == OnRecord(u)
    IN  [verdict |-> IF b.state = "absent" THEN "unknown"
                     ELSE IF b.state \in Terminal THEN b.state ELSE "open",
         tried |-> Len(b.completed)]]

Promise == INSTANCE BuildPromise WITH alive <- kube, ledger <- Ledger

(* The controller keeps its promise: restarts, new objects under an old    *)
(* name and scheduled cleanups neither change a recorded verdict, nor      *)
(* lower the number of attempts, nor forget an object that exists. This    *)
(* too is so where all KoupletBuilds are in one namespace and no write is  *)
(* cut off: load drops a build whose object is in another namespace than   *)
(* the first request's, and one whose file it cannot read.                 *)
KeepsPromise == Promise!Spec

(* "Look for a successful attempt, and move the buildStatus to completed   *)
(* if so" (koupletbuild_models.go:429): a build that is decided within its *)
(* overall time and has a successful attempt is Completed.                 *)
SuccessWins ==
  \A u \in Uid : HasSuccess(db[u]) /\ db[u].state \in Terminal /\ ~OutOfTime(db[u])
                     => db[u].state = "Completed"
=============================================================================

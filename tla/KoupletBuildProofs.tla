------------------------- MODULE KoupletBuildProofs -------------------------
(***************************************************************************)
(* Theorems about KoupletBuild, for every set of objects, every maximal    *)
(* number of attempts and of restarts, and every set of faults.            *)
(***************************************************************************)
EXTENDS KoupletBuild, TLAPS

-----------------------------------------------------------------------------
(***************************************************************************)
(* What the operators on builds return.                                    *)
(***************************************************************************)

AnyState == BuildState \cup {"absent", "nil", "torn"}

(* The records that stand for "nothing there" are typed.                   *)
LEMMA NothingTyped ==
  /\ NoAttempt \in Attempt /\ NoJob \in Job
  /\ \A s \in AnyState : NoBuild(s) \in BuildStatus /\ NoBuild(s).state = s
BY BuildAssumption
DEF NoAttempt, Attempt, NoJob, Job, NoBuild, BuildStatus, AnyState

(* newBuildStatus returns a Waiting build with no attempt.                 *)
LEMMA NewBuildTyped ==
  ASSUME NEW u \in Uid, NEW now \in Nat
  PROVE  /\ NewBuildStatus(u, now) \in BuildStatus
         /\ NewBuildStatus(u, now).state = "Waiting"
         /\ NewBuildStatus(u, now).created = now
         /\ NewBuildStatus(u, now).active = NoAttempt
         /\ NewBuildStatus(u, now).completed = <<>>
BY NothingTyped DEF NewBuildStatus, NoBuild, BuildStatus, BuildState, AnyState

(* The scan leaves a Running build of the same age, and its attempts are   *)
(* unchanged, but for the active one, which is kept or completed.          *)
LEMMA ScanTyped ==
  ASSUME NEW b \in BuildStatus, NEW s
  PROVE  /\ Scanned(b, s) \in BuildStatus
         /\ Scanned(b, s).state = "Running"
         /\ Scanned(b, s).created = b.created
<1> DEFINE a == Examined(b.active, s)
<1>1. a \in Attempt
  BY DEF Examined, Attempt, BuildStatus
<1>2. NoAttempt \in Attempt
  BY NothingTyped
<1>3. Append(b.completed, a) \in Seq(Attempt)
  BY <1>1 DEF BuildStatus
<1>4. CASE b.active = NoAttempt
  BY <1>4 DEF Scanned, BuildStatus, BuildState
<1>5. CASE b.active # NoAttempt /\ Removed(b.active, s)
  BY <1>1, <1>2, <1>3, <1>5 DEF Scanned, BuildStatus, BuildState
<1>6. CASE b.active # NoAttempt /\ ~Removed(b.active, s)
  BY <1>1, <1>6 DEF Scanned, BuildStatus, BuildState
<1> QED
  BY <1>4, <1>5, <1>6

(* The decisions taken on a Running build change its state and success     *)
(* result alone; a build that stays Running has an attempt left.           *)
LEMMA DecideTyped ==
  ASSUME NEW b \in BuildStatus, b.state = "Running"
  PROVE  /\ Decide(b) \in BuildStatus
         /\ Decide(b).state \in {"Running"} \cup Terminal
         /\ Decide(b).active = b.active
         /\ Decide(b).completed = b.completed
         /\ Decide(b).created = b.created
         /\ Decide(b).state = "Running" =>
              Len(b.completed) < MaxAttempts /\ ~HasSuccess(b)
<1> USE DEF BuildStatus, BuildState, Terminal, AnyState
<1> DEFINE e == Expire(b)
<1>1. /\ e \in BuildStatus
      /\ e.state \in {"Running", "Expired"}
      /\ e.active = b.active /\ e.completed = b.completed /\ e.created = b.created
      /\ e.state = "Running" => Len(b.completed) < MaxAttempts
  <2>1. Len(b.completed) \in Nat
    OBVIOUS
  <2>2. CASE OutOfAttempts(b) \/ OutOfTime(b)
    BY <2>2 DEF Expire
  <2>3. CASE ~(OutOfAttempts(b) \/ OutOfTime(b))
    <3>1. e = b
      BY <2>3 DEF Expire
    <3>2. Len(b.completed) < MaxAttempts
      BY <2>1, <2>3, BuildAssumption DEF OutOfAttempts
    <3> QED
      BY <3>1, <3>2
  <2> QED
    BY <2>2, <2>3
<1>2. HasSuccess(e) <=> HasSuccess(b)
  BY <1>1 DEF HasSuccess
<1>3. Decide(b) = Complete(e)
  BY DEF Decide
<1> HIDE DEF e
<1> QED
  BY <1>1, <1>2, <1>3 DEF Complete
-----------------------------------------------------------------------------
(***************************************************************************)
(* The inductive invariant.  Good says of one build, in memory or on disk, *)
(* that its attempts are in order, that nothing follows a success, and     *)
(* that its times have been read.  The worker is at work on a build that   *)
(* the map holds, and creates a Job only for a Running build which has no  *)
(* active and no successful attempt, and has an attempt left.              *)
(***************************************************************************)

SuccessLast(b) ==
  \A i \in DOMAIN b.completed : b.completed[i].result = "yes" =>
    i = Len(b.completed) /\ b.active = NoAttempt /\ b.state \in Terminal

Dated(b, t) ==
  /\ b.created <= t /\ b.active.job <= t
  /\ \A i \in DOMAIN b.completed : b.completed[i].job <= t

Good(b, t) == Ordered(b) /\ SuccessLast(b) /\ Dated(b, t)

AllGood == \A u \in Uid : Good(db[u], stamp) /\ Good(disk[u], stamp)

WorkerInv ==
  /\ worker.at \notin {"idle", "down"} => worker.uid \in Uid /\ Known(db[worker.uid])
  /\ worker.at = "create" => LET b == db[worker.uid] IN
       /\ b.state = "Running" /\ b.active = NoAttempt
       /\ ~HasSuccess(b) /\ Len(b.completed) < MaxAttempts

IInv == TypeOK /\ WorkerInv /\ AllGood

(* The attempts of a build are typed.                                      *)
LEMMA AttemptsTyped ==
  ASSUME NEW b \in BuildStatus
  PROVE  /\ Len(b.completed) \in Nat /\ DOMAIN b.completed = 1..Len(b.completed)
         /\ b.active \in Attempt /\ b.created \in Nat
         /\ b.active.n \in 0..MaxAttempts /\ b.active.job \in Nat
         /\ \A i \in 1..Len(b.completed) :
              b.completed[i] \in Attempt /\ b.completed[i].job \in Nat
<1>1. b.completed \in Seq(Attempt) /\ b.active \in Attempt /\ b.created \in Nat
  BY DEF BuildStatus
<1>2. \A i \in 1..Len(b.completed) : b.completed[i] \in Attempt
  BY <1>1
<1> HIDE DEF BuildStatus
<1> QED
  BY <1>1, <1>2, BuildAssumption DEF Attempt

(* A build stays good as time passes.                                      *)
LEMMA GoodLater ==
  ASSUME NEW b \in BuildStatus, NEW t \in Nat, NEW t1 \in Nat, t <= t1, Good(b, t)
  PROVE  Good(b, t1)
<1>1. /\ b.created <= t1 /\ b.active.job <= t1
      /\ \A i \in DOMAIN b.completed : b.completed[i].job <= t1
  BY AttemptsTyped DEF Good, Dated
<1> QED
  BY <1>1 DEF Good, Dated

(* A build without attempts is good.                                       *)
LEMMA GoodEmpty ==
  ASSUME NEW b \in BuildStatus, NEW t \in Nat, b.created <= t,
         b.active = NoAttempt, b.completed = <<>>
  PROVE  Good(b, t)
BY BuildAssumption DEF Good, Ordered, SuccessLast, Dated, NoAttempt, BuildStatus

(* So is nothing.                                                          *)
LEMMA NothingGood ==
  ASSUME NEW s \in AnyState, NEW t \in Nat
  PROVE  Good(NoBuild(s), t)
<1>1. NoBuild(s) \in BuildStatus
  BY NothingTyped
<1>2. /\ NoBuild(s).created <= t /\ NoBuild(s).active = NoAttempt
      /\ NoBuild(s).completed = <<>>
  BY DEF NoBuild
<1> QED
  BY <1>1, <1>2, GoodEmpty

(* The status of an object nobody has published on is typed.               *)
KubeStatus == [state : BuildState \cup {""}, tried : Nat, running : 0..MaxAttempts]
LEMMA NoStatusTyped == NoStatus \in KubeStatus
BY BuildAssumption DEF NoStatus, KubeStatus

(* Only the attempts and the state matter, and the state only if there is  *)
(* a success: the object a build belongs to does not.                      *)
LEMMA GoodSame ==
  ASSUME NEW b \in BuildStatus, NEW c \in BuildStatus, NEW t \in Nat, Good(b, t),
         c.created = b.created, c.active = b.active, c.completed = b.completed,
         c.state = b.state
  PROVE  Good(c, t)
BY DEF Good, Ordered, SuccessLast, Dated

(* A pass of subProcess over an undecided good build leaves a good build:  *)
(* there was no attempt to scan, or it goes on, or it is completed.        *)
LEMMA GoodPass ==
  ASSUME NEW b \in BuildStatus, NEW s, NEW t \in Nat,
         Undecided(b), Good(b, t)
  PROVE  Good(Decide(Scanned(b, s)), t)
<1> DEFINE c == Scanned(b, s)
           d == Decide(c)
           a == Examined(b.active, s)
           k == Len(b.completed)
<1> SUFFICES Good(d, t)
  OBVIOUS
<1>1. c \in BuildStatus /\ c.state = "Running" /\ c.created = b.created
  BY ScanTyped
<1>2. /\ d \in BuildStatus
      /\ d.active = c.active /\ d.completed = c.completed /\ d.created = c.created
      /\ d.state \in {"Running"} \cup Terminal
      /\ d.state = "Running" => ~HasSuccess(c)
  BY <1>1, DecideTyped
<1>3. \A i \in 1..k : b.completed[i].result # "yes"
  BY AttemptsTyped DEF Good, SuccessLast, Undecided
<1>4. /\ a \in Attempt /\ a.n = b.active.n /\ a.job = b.active.job
      /\ b.active \in Attempt /\ a.job \in Nat
  BY AttemptsTyped DEF Examined, Attempt
<1>5. CASE b.active = NoAttempt
  <2>1. c.completed = b.completed /\ c.active = NoAttempt
    BY <1>5 DEF Scanned, BuildStatus
  <2> HIDE DEF c, d
  <2>2. d.completed = b.completed /\ d.active = b.active /\ d.created = b.created
    BY <1>1, <1>2, <1>5, <2>1
  <2>3. Ordered(d) /\ Dated(d, t)
    BY <2>2 DEF Good, Ordered, Dated
  <2>4. SuccessLast(d)
    BY <1>3, <2>2, AttemptsTyped DEF SuccessLast
  <2> QED
    BY <2>3, <2>4 DEF Good
<1>6. CASE b.active # NoAttempt /\ ~Removed(b.active, s)
  <2>1. c.completed = b.completed /\ c.active = a
    BY <1>6 DEF Scanned, BuildStatus
  <2> HIDE DEF c, d, a
  <2>2. /\ d.completed = b.completed /\ d.created = b.created
        /\ d.active.n = b.active.n /\ d.active.job = b.active.job
    BY <1>1, <1>2, <1>4, <2>1
  <2>3. Ordered(d)
    BY <1>6, <2>2 DEF Good, Ordered
  <2>4. Dated(d, t)
    BY <2>2 DEF Good, Dated
  <2>5. SuccessLast(d)
    BY <1>3, <2>2, AttemptsTyped DEF SuccessLast
  <2> QED
    BY <2>3, <2>4, <2>5 DEF Good
<1>7. CASE b.active # NoAttempt /\ Removed(b.active, s)
  <2>1. /\ c.completed = Append(b.completed, a) /\ c.active = NoAttempt
        /\ b.completed \in Seq(Attempt)
    BY <1>7 DEF Scanned, BuildStatus
  <2> HIDE DEF c, d, a
  <2>2. /\ Len(c.completed) = k + 1 /\ DOMAIN c.completed = 1..(k + 1)
        /\ \A i \in 1..k : c.completed[i] = b.completed[i]
        /\ c.completed[k + 1] = a
        /\ k \in Nat
    BY <1>4, <2>1
  <2>3. /\ a.n = k + 1 /\ a.job > b.created /\ a.job <= t /\ k + 1 <= MaxAttempts
        /\ \A i \in 1..k : b.completed[i].job < a.job
    BY <1>4, <1>7, AttemptsTyped, BuildAssumption DEF Good, Ordered, Dated
  <2>4. Ordered(d)
    <3>1. ASSUME NEW i \in 1..(k + 1)
          PROVE  c.completed[i].n = i /\ c.completed[i].job > b.created
      <4>1. CASE i \in 1..k
        BY <2>2, <4>1 DEF Good, Ordered
      <4>2. CASE i = k + 1
        BY <2>2, <2>3, <4>2
      <4> QED
        BY <2>2, <4>1, <4>2
    <3>2. ASSUME NEW i \in 1..(k + 1), NEW j \in 1..(k + 1), i < j
          PROVE  c.completed[i].job < c.completed[j].job
      <4>1. i \in 1..k
        BY <2>2, <3>2
      <4>2. CASE j \in 1..k
        BY <2>2, <3>2, <4>1, <4>2 DEF Good, Ordered
      <4>3. CASE j = k + 1
        BY <2>2, <2>3, <4>1, <4>3
      <4> QED
        BY <2>2, <4>2, <4>3
    <3> QED
      BY <1>1, <1>2, <2>1, <2>2, <2>3, <3>1, <3>2 DEF Ordered
  <2>5. SuccessLast(d)
    <3>1. \A i \in 1..(k + 1) : c.completed[i].result = "yes" => i = k + 1
      BY <1>3, <2>2
    <3> QED
      BY <1>2, <2>1, <2>2, <3>1 DEF SuccessLast, HasSuccess
  <2>6. Dated(d, t)
    <3>1. ASSUME NEW i \in 1..(k + 1) PROVE c.completed[i].job <= t
      <4>1. CASE i \in 1..k
        BY <2>2, <4>1, AttemptsTyped DEF Good, Dated
      <4>2. CASE i = k + 1
        BY <2>2, <2>3, <4>2
      <4> QED
        BY <2>2, <4>1, <4>2
    <3> QED
      BY <1>1, <1>2, <2>1, <2>2, <3>1, AttemptsTyped DEF Good, Dated, NoAttempt
  <2> QED
    BY <2>4, <2>5, <2>6 DEF Good, d, c
<1> QED
  BY <1>5, <1>6, <1>7
-----------------------------------------------------------------------------
(***************************************************************************)
(* The invariant holds initially and every step preserves it.              *)
(***************************************************************************)

LEMMA InitInvariant == Init => IInv
<1> SUFFICES ASSUME Init PROVE IInv
  OBVIOUS
<1> DEFINE b == NoBuild("absent")
<1>1. b \in BuildStatus /\ b.state = "absent"
  BY NothingTyped DEF AnyState
<1>2. b.created <= 0 /\ b.active = NoAttempt /\ b.completed = <<>>
  BY DEF NoBuild
<1>3. Good(b, 0)
  BY <1>1, <1>2, GoodEmpty
<1> HIDE DEF b
<1>4. TypeOK
  <2>1. db \in [Uid -> BuildStatus] /\ disk \in [Uid -> BuildStatus]
    BY <1>1 DEF Init, b
  <2>2. \A u \in Uid : db[u].state # "torn" /\ disk[u].state # "nil"
    BY <1>1 DEF Init, b
  <2>3. jobs \in [1..MaxAttempts -> Job]
    BY NothingTyped DEF Init
  <2> QED
    BY <2>1, <2>2, <2>3, NoStatusTyped DEF Init, TypeOK, Idle, KubeStatus
<1> QED
  BY <1>3, <1>4 DEF Init, IInv, WorkerInv, AllGood, Idle, b

(* A step of the cluster touches neither the operator nor its files.       *)
LEMMA ClusterStep ==
  ASSUME IInv, TypeOK', UNCHANGED <<stamp, db, disk, worker>>
  PROVE  IInv'
BY DEF IInv, WorkerInv, AllGood

(* A step that only moves the worker, away from "create".                  *)
LEMMA WorkerStep ==
  ASSUME IInv, UNCHANGED <<kube, born, jobs, overdue, pushed, restarts>>,
         UNCHANGED <<stamp, db, disk>>,
         kstatus' \in [state : BuildState \cup {""}, tried : Nat, running : 0..MaxAttempts],
         worker' \in [at : {"idle", "pass", "publish", "persist", "write", "down"},
                      uid : Uid \cup {NoUid}, inst : Uid \cup {NoUid, Stranger},
                      changed : BOOLEAN, dirty : BOOLEAN],
         worker'.at \notin {"idle", "down"} => worker'.uid = worker.uid,
         worker'.at \notin {"idle", "down"} => worker.at \notin {"idle", "down"}
  PROVE  IInv'
<1>1. TypeOK'
  BY DEF IInv, TypeOK
<1> QED
  BY <1>1 DEF IInv, WorkerInv, AllGood

(* The end of a pass moves the worker so.                                  *)
LEMMA EndPassMoves ==
  ASSUME TypeOK, NEW changed \in BOOLEAN, EndPass(changed)
  PROVE  /\ worker' \in [at : {"idle", "pass", "publish", "persist", "write", "down"},
                         uid : Uid \cup {NoUid}, inst : Uid \cup {NoUid, Stranger},
                         changed : BOOLEAN, dirty : BOOLEAN]
         /\ worker'.at \in {"idle", "pass", "publish"}
         /\ worker'.at # "idle" => worker'.uid = worker.uid
BY DEF EndPass, TypeOK, Idle

(* What holds of the builds at one time holds of them at the next.         *)
LEMMA AllLater ==
  ASSUME TypeOK, AllGood
  PROVE  /\ stamp \in Nat /\ stamp + 1 \in Nat /\ stamp <= stamp + 1
         /\ \A v \in Uid : Good(db[v], stamp + 1) /\ Good(disk[v], stamp + 1)
<1>1. stamp \in Nat /\ stamp + 1 \in Nat /\ stamp <= stamp + 1
  <2>1. stamp \in Nat
    BY DEF TypeOK
  <2> QED
    BY <2>1
<1>2. ASSUME NEW v \in Uid PROVE Good(db[v], stamp + 1) /\ Good(disk[v], stamp + 1)
  <2>1. /\ db[v] \in BuildStatus /\ Good(db[v], stamp)
        /\ disk[v] \in BuildStatus /\ Good(disk[v], stamp)
    BY DEF TypeOK, AllGood
  <2> QED
    BY <1>1, <2>1, GoodLater
<1> QED
  BY <1>1, <1>2

(* A step of the worker that changes its builds or its files.              *)
LEMMA StoreStep ==
  ASSUME IInv, UNCHANGED clusterVars, restarts' \in Nat,
         db' \in [Uid -> BuildStatus], disk' \in [Uid -> BuildStatus],
         \A u \in Uid : /\ db'[u].state # "torn" /\ Good(db'[u], stamp)
                        /\ disk'[u].state # "nil" /\ Good(disk'[u], stamp),
         \/ worker' = Idle \/ worker' = Down
         \/ /\ worker' = [worker EXCEPT !.at = "write"] /\ db' = db
            /\ worker.at \notin {"idle", "down"}
  PROVE  IInv'
<1>1. TypeOK /\ WorkerInv
  BY DEF IInv
<1>2. /\ worker' \in [at : {"idle", "down", "write"}, uid : Uid \cup {NoUid},
                      inst : Uid \cup {NoUid, Stranger}, changed : BOOLEAN, dirty : BOOLEAN]
      /\ worker'.at = "write" =>
           /\ db' = db /\ worker'.uid = worker.uid
           /\ worker.at \notin {"idle", "down"}
  <2>1. worker \in [at : {"idle", "pass", "create", "publish", "persist", "write", "down"},
                    uid : Uid \cup {NoUid}, inst : Uid \cup {NoUid, Stranger},
                    changed : BOOLEAN, dirty : BOOLEAN]
    BY <1>1 DEF TypeOK
  <2>2. /\ Idle \in [at : {"idle"}, uid : {NoUid}, inst : {NoUid},
                    changed : BOOLEAN, dirty : BOOLEAN]
        /\ Idle.at = "idle"
    BY DEF Idle
  <2>3. Down \in [at : {"down"}, uid : {NoUid}, inst : {NoUid},
                 changed : BOOLEAN, dirty : BOOLEAN]
    BY <2>2 DEF Down
  <2>4. CASE worker' = [worker EXCEPT !.at = "write"] /\ db' = db
             /\ worker.at \notin {"idle", "down"}
    BY <2>1, <2>4
  <2>5. CASE worker' = Idle \/ worker' = Down
    BY <2>2, <2>3, <2>5
  <2> QED
    BY <2>4, <2>5
<1>3. TypeOK'
  BY <1>1, <1>2 DEF TypeOK, clusterVars
<1>4. WorkerInv'
  BY <1>1, <1>2 DEF WorkerInv
<1> QED
  BY <1>3, <1>4 DEF IInv, AllGood, clusterVars

(* The build to which CreateJob gives an attempt stays good.               *)
LEMMA GoodCreate ==
  ASSUME NEW b \in BuildStatus, NEW t \in Nat, Good(b, t),
         b.active = NoAttempt, ~HasSuccess(b), Len(b.completed) < MaxAttempts
  PROVE  LET a == [NoAttempt EXCEPT !.n = NextAttempt(b), !.job = t + 1]
             c == [b EXCEPT !.active = a]
         IN  c \in BuildStatus /\ Good(c, t + 1) /\ c.state = b.state
<1> DEFINE a == [NoAttempt EXCEPT !.n = NextAttempt(b), !.job = t + 1]
           c == [b EXCEPT !.active = a]
           k == Len(b.completed)
<1>1. /\ k \in Nat /\ DOMAIN b.completed = 1..k /\ k + 1 \in 0..MaxAttempts
      /\ b.created \in Nat /\ \A i \in 1..k : b.completed[i].job \in Nat
  BY AttemptsTyped, BuildAssumption
<1>2. a \in Attempt /\ a.n = k + 1 /\ a.job = t + 1
  <2>1. t + 1 \in Nat /\ NextAttempt(b) = k + 1
    BY DEF NextAttempt
  <2>2. NoAttempt \in Attempt
    BY NothingTyped
  <2> QED
    BY <1>1, <2>1, <2>2 DEF Attempt
<1>3. /\ c \in BuildStatus /\ c.state = b.state /\ c.active = a
      /\ c.completed = b.completed /\ c.created = b.created
  BY <1>2 DEF BuildStatus
<1>4. Good(b, t + 1)
  BY GoodLater
<1> HIDE DEF a, c
<1>5. b.created <= t /\ \A i \in 1..k : b.completed[i].job <= t
  BY <1>1 DEF Good, Dated
<1>6. Ordered(c)
  <2>1. a.job > b.created /\ \A i \in 1..k : b.completed[i].job < a.job
    BY <1>1, <1>2, <1>5
  <2> QED
    BY <1>2, <1>3, <2>1 DEF Good, Ordered
<1>7. SuccessLast(c)
  BY <1>3 DEF SuccessLast, HasSuccess
<1>8. Dated(c, t + 1)
  BY <1>2, <1>3, <1>4 DEF Good, Dated
<1> QED
  BY <1>3, <1>6, <1>7, <1>8 DEF Good, a, c

(* The Job that is created is typed.                                       *)
LEMMA NewJobTyped ==
  ASSUME TypeOK, NEW n, worker.inst # Stranger
  PROVE  [jobs EXCEPT ![n] = NewJob(stamp + 1)] \in [1..MaxAttempts -> Job]
<1>1. stamp + 1 \in Nat /\ worker.inst \in Uid \cup {NoUid}
  <2>1. stamp \in Nat /\ worker.inst \in Uid \cup {NoUid, Stranger}
    BY DEF TypeOK
  <2> QED
    BY <2>1
<1>2. NoJob \in Job
  BY NothingTyped
<1>3. NewJob(stamp + 1) \in Job
  BY <1>1, <1>2 DEF NewJob, Job
<1> QED
  BY <1>3 DEF TypeOK

(* What load may make of a file is a good build, or nothing.               *)
LEMMA LoadedGood ==
  ASSUME TypeOK, AllGood, NEW u \in Uid, NEW bearer \in Bearers,
         NEW b \in Loaded(u, bearer)
  PROVE  b \in BuildStatus /\ b.state # "torn" /\ Good(b, stamp)
<1>1. /\ disk[u] \in BuildStatus /\ Good(disk[u], stamp)
      /\ stamp \in Nat /\ bearer \in Uid \cup {NoUid, Stranger}
  BY DEF TypeOK, AllGood, Bearers
<1>2. CASE b = NoBuild("absent") \/ b = NoBuild("nil")
  BY <1>1, <1>2, NothingGood, NothingTyped DEF AnyState
<1>3. CASE Known(disk[u]) /\ b = [disk[u] EXCEPT !.kubeUid = bearer]
  <2>1. /\ b \in BuildStatus /\ b.created = disk[u].created
        /\ b.active = disk[u].active /\ b.completed = disk[u].completed
        /\ b.state = disk[u].state
    BY <1>1, <1>3 DEF BuildStatus
  <2>2. Good(b, stamp)
    BY <1>1, <2>1, GoodSame
  <2> QED
    BY <1>3, <2>1, <2>2 DEF Known, BuildState, Terminal
<1> QED
  BY <1>2, <1>3 DEF Loaded, Read

LEMMA StepInvariant == IInv /\ [Next]_vars => IInv'
<1> SUFFICES ASSUME IInv, [Next]_vars PROVE IInv'
  OBVIOUS
<1>0. TypeOK /\ WorkerInv /\ AllGood
  BY DEF IInv
<1>a. CASE UNCHANGED vars
  <2>1. TypeOK'
    BY <1>0, <1>a DEF TypeOK, vars
  <2> QED
    BY <1>a, <2>1, ClusterStep DEF vars
<1>b. ASSUME NEW u \in Uid, Reconcile(u) PROVE IInv'
  <2>1. /\ worker' = [Idle EXCEPT !.at = "pass", !.uid = u, !.dirty = ~Known(db[u])]
        /\ UNCHANGED <<kube, born, kstatus, jobs, overdue, pushed, disk, restarts>>
    BY <1>b DEF Reconcile
  <2>2. CASE Known(db[u])
    <3>1. UNCHANGED <<db, stamp>>
      BY <1>b, <2>2 DEF Reconcile
    <3>2. TypeOK'
      BY <1>0, <2>1, <3>1 DEF TypeOK, Idle
    <3> QED
      BY <1>0, <2>1, <2>2, <3>1, <3>2 DEF IInv, WorkerInv, AllGood, Idle
  <2>3. CASE ~Known(db[u])
    <3> DEFINE b == NewBuildStatus(u, stamp + 1)
    <3>1. stamp' = stamp + 1 /\ db' = [db EXCEPT ![u] = b]
      BY <1>b, <2>3 DEF Reconcile
    <3>2. /\ stamp \in Nat /\ stamp + 1 \in Nat /\ stamp <= stamp + 1
          /\ \A v \in Uid : Good(db[v], stamp + 1) /\ Good(disk[v], stamp + 1)
      BY <1>0, AllLater
    <3>3. /\ b \in BuildStatus /\ b.state = "Waiting" /\ b.created = stamp + 1
          /\ b.active = NoAttempt /\ b.completed = <<>>
      BY <3>2, NewBuildTyped
    <3> HIDE DEF b
    <3>4. Good(b, stamp + 1)
      BY <3>2, <3>3, GoodEmpty
    <3>5. db' \in [Uid -> BuildStatus] /\ \A v \in Uid : db'[v].state # "torn"
      BY <1>0, <3>1, <3>3 DEF TypeOK
    <3>6. worker' \in [at : {"pass"}, uid : {u}, inst : {NoUid},
                      changed : {FALSE}, dirty : BOOLEAN]
      BY <2>1 DEF Idle
    <3>7. TypeOK'
      BY <1>0, <2>1, <3>1, <3>2, <3>5, <3>6 DEF TypeOK
    <3>8. WorkerInv'
      <4>1. db'[u].state = "Waiting" /\ worker'.at = "pass" /\ worker'.uid = u
        BY <1>0, <2>1, <3>1, <3>3 DEF TypeOK, Idle
      <4> QED
        BY <4>1 DEF WorkerInv, Known, BuildState
    <3>9. AllGood'
      BY <1>0, <2>1, <3>1, <3>2, <3>4 DEF AllGood, TypeOK
    <3> QED
      BY <3>7, <3>8, <3>9 DEF IInv
  <2> QED
    BY <2>2, <2>3
<1>c. CASE PassNoInstance \/ PassDecided
  <2>1. EndPass(FALSE) /\ worker.at = "pass" /\ UNCHANGED <<clusterVars, db, disk, restarts>>
    BY <1>c DEF PassNoInstance, PassDecided, At
  <2> QED
    BY <1>0, <2>1, EndPassMoves, WorkerStep DEF clusterVars, TypeOK
<1>d. CASE PassScan
  <2> DEFINE u == worker.uid
             b == db[u]
  <2>1. /\ worker.at = "pass" /\ u \in Uid /\ b \in BuildStatus /\ Known(b)
        /\ Good(b, stamp) /\ stamp \in Nat
        /\ Instance(b) \in Uid \cup {NoUid, Stranger}
    BY <1>0, <1>d DEF PassScan, At, WorkerInv, TypeOK, AllGood, Instance
  <2>2. PICK s \in Seen(b.active) :
          LET scanned == Scanned(b, s)
              decided == Decide(scanned)
              changed == \/ scanned.active # b.active
                         \/ decided.state # "Running"
          IN  /\ db' = [db EXCEPT ![u] = decided]
              /\ IF decided.state = "Running" /\ decided.active = NoAttempt
                   THEN worker' = [worker EXCEPT !.at = "create",
                                     !.inst = Instance(b), !.changed = changed]
                   ELSE EndPass(changed)
    BY <1>d DEF PassScan
  <2>3. Undecided(b) /\ UNCHANGED <<clusterVars, disk, restarts>>
    BY <1>d DEF PassScan
  <2> DEFINE c == Scanned(b, s)
             d == Decide(c)
             changed == c.active # b.active \/ d.state # "Running"
  <2>4. c \in BuildStatus /\ c.state = "Running"
    BY <2>1, ScanTyped
  <2>5. /\ d \in BuildStatus /\ d.state \in {"Running"} \cup Terminal
        /\ d.active = c.active /\ d.completed = c.completed
        /\ d.state = "Running" => Len(c.completed) < MaxAttempts /\ ~HasSuccess(c)
    BY <2>4, DecideTyped
  <2>6. Good(d, stamp)
    BY <2>1, <2>3, GoodPass
  <2>7. /\ db' = [db EXCEPT ![u] = d]
        /\ \/ /\ d.state = "Running" /\ d.active = NoAttempt
              /\ worker' = [worker EXCEPT !.at = "create", !.inst = Instance(b),
                                          !.changed = changed]
           \/ EndPass(changed)
    BY <2>2
  <2>8. changed \in BOOLEAN
    OBVIOUS
  <2> HIDE DEF c, d, changed
  <2>9. /\ worker' \in [at : {"idle", "pass", "create", "publish", "persist",
                              "write", "down"},
                        uid : Uid \cup {NoUid}, inst : Uid \cup {NoUid, Stranger},
                        changed : BOOLEAN, dirty : BOOLEAN]
        /\ worker'.at \notin {"idle", "down"} => worker'.uid = u
        /\ worker'.at = "create" => d.state = "Running" /\ d.active = NoAttempt
    <3>1. CASE /\ d.state = "Running" /\ d.active = NoAttempt
               /\ worker' = [worker EXCEPT !.at = "create", !.inst = Instance(b),
                                          !.changed = changed]
      BY <1>0, <2>1, <2>8, <3>1 DEF TypeOK
    <3>2. CASE EndPass(changed)
      BY <1>0, <2>8, <3>2, EndPassMoves
    <3> QED
      BY <2>7, <3>1, <3>2
  <2>10. d.state \in BuildState /\ d.state # "torn"
    BY <2>5 DEF BuildState, Terminal
  <2> HIDE DEF u, b
  <2>11. TypeOK'
    BY <1>0, <2>1, <2>3, <2>5, <2>7, <2>9, <2>10 DEF TypeOK, clusterVars
  <2>12. WorkerInv'
    <3>1. db'[u] = d
      BY <1>0, <2>1, <2>7 DEF TypeOK
    <3>2. HasSuccess(d) <=> HasSuccess(c)
      BY <2>5 DEF HasSuccess
    <3> QED
      BY <2>1, <2>5, <2>9, <2>10, <3>1, <3>2 DEF WorkerInv, Known, HasSuccess
  <2>13. AllGood'
    BY <1>0, <2>1, <2>3, <2>6, <2>7 DEF AllGood, TypeOK, clusterVars
  <2> QED
    BY <2>11, <2>12, <2>13 DEF IInv
<1>e. CASE CreateJob
  <2> DEFINE u == worker.uid
             b == db[u]
             n == NextAttempt(b)
             c == [b EXCEPT !.active = [NoAttempt EXCEPT !.n = n, !.job = stamp + 1]]
  <2>1. /\ stamp' = stamp + 1
        /\ \/ jobs' = jobs
           \/ worker.inst # Stranger /\ jobs' = [jobs EXCEPT ![n] = NewJob(stamp + 1)]
        /\ db' = [db EXCEPT ![u].active =
                     [NoAttempt EXCEPT !.n = n, !.job = stamp + 1]]
        /\ worker.at = "create" /\ EndPass(TRUE)
        /\ UNCHANGED <<kube, born, kstatus, overdue, pushed, disk, restarts>>
    BY <1>e DEF CreateJob, At
  <2>2. /\ u \in Uid /\ Known(b) /\ b \in BuildStatus /\ Good(b, stamp)
        /\ b.active = NoAttempt /\ ~HasSuccess(b) /\ Len(b.completed) < MaxAttempts
    BY <1>0, <2>1 DEF WorkerInv, TypeOK, AllGood
  <2>3. /\ stamp \in Nat /\ stamp + 1 \in Nat /\ stamp <= stamp + 1
        /\ \A v \in Uid : Good(db[v], stamp + 1) /\ Good(disk[v], stamp + 1)
    BY <1>0, AllLater
  <2>4. c \in BuildStatus /\ Good(c, stamp + 1) /\ c.state = b.state
    BY <2>2, <2>3, GoodCreate
  <2>5. db' = [db EXCEPT ![u] = c]
    BY <1>0, <2>1, <2>2 DEF TypeOK
  <2>6. jobs' \in [1..MaxAttempts -> Job]
    BY <1>0, <2>1, NewJobTyped DEF TypeOK
  <2>7. /\ worker' \in [at : {"idle", "pass", "publish", "persist", "write", "down"},
                        uid : Uid \cup {NoUid}, inst : Uid \cup {NoUid, Stranger},
                        changed : BOOLEAN, dirty : BOOLEAN]
        /\ worker'.at # "idle" => worker'.uid = u
    BY <1>0, <2>1, EndPassMoves
  <2> HIDE DEF u, b, n, c
  <2>8. db' \in [Uid -> BuildStatus] /\ \A v \in Uid : db'[v].state # "torn"
    BY <1>0, <2>2, <2>4, <2>5 DEF TypeOK, b
  <2>9. TypeOK'
    BY <1>0, <2>1, <2>3, <2>6, <2>7, <2>8 DEF TypeOK
  <2>10. WorkerInv'
    <3>1. Known(db'[u]) /\ worker'.at # "create"
      BY <1>0, <2>2, <2>4, <2>5, <2>7 DEF TypeOK, Known
    <3> QED
      BY <2>2, <2>7, <3>1 DEF WorkerInv
  <2>11. AllGood'
    BY <1>0, <2>1, <2>2, <2>3, <2>4, <2>5 DEF AllGood, TypeOK
  <2> QED
    BY <2>9, <2>10, <2>11 DEF IInv
<1>f. CASE CreateRefused
  <2>1. /\ EndPass(worker.changed) /\ worker.at = "create" /\ worker.changed \in BOOLEAN
        /\ UNCHANGED <<clusterVars, db, disk, restarts>>
    BY <1>0, <1>f DEF CreateRefused, At, TypeOK
  <2> QED
    BY <1>0, <2>1, EndPassMoves, WorkerStep DEF clusterVars, TypeOK
<1>g. CASE CreateUnacknowledged
  <2>1. /\ stamp' = stamp + 1 /\ \E n : jobs' = [jobs EXCEPT ![n] = NewJob(stamp + 1)]
        /\ worker.inst # Stranger
        /\ worker.at = "create" /\ EndPass(worker.changed)
        /\ UNCHANGED <<kube, born, kstatus, overdue, pushed, db, disk, restarts>>
    BY <1>g DEF CreateUnacknowledged, At
  <2>2. /\ stamp + 1 \in Nat
        /\ \A v \in Uid : Good(db[v], stamp + 1) /\ Good(disk[v], stamp + 1)
    BY <1>0, AllLater
  <2>3. worker.changed \in BOOLEAN
    BY <1>0 DEF TypeOK
  <2>4. /\ worker' \in [at : {"idle", "pass", "publish", "persist", "write", "down"},
                        uid : Uid \cup {NoUid}, inst : Uid \cup {NoUid, Stranger},
                        changed : BOOLEAN, dirty : BOOLEAN]
        /\ worker'.at # "idle" => worker'.uid = worker.uid
    BY <1>0, <2>1, <2>3, EndPassMoves
  <2>5. jobs' \in [1..MaxAttempts -> Job]
    BY <1>0, <2>1, NewJobTyped
  <2>6. TypeOK'
    BY <1>0, <2>1, <2>2, <2>4, <2>5 DEF TypeOK
  <2>7. WorkerInv' /\ AllGood'
    BY <1>0, <2>1, <2>2, <2>4 DEF WorkerInv, AllGood
  <2> QED
    BY <2>6, <2>7 DEF IInv
<1>h. CASE Publish
  <2>1. /\ worker' = [worker EXCEPT !.at = "persist"] /\ worker.at = "publish"
        /\ UNCHANGED <<kube, born, jobs, overdue, pushed, restarts, stamp, db, disk>>
        /\ kstatus' = kstatus \/ kstatus' = Public(db[worker.uid])
    BY <1>h DEF Publish, At, Goto
  <2>2. worker.uid \in Uid /\ Known(db[worker.uid]) /\ db[worker.uid] \in BuildStatus
    BY <1>0, <2>1 DEF WorkerInv, TypeOK
  <2>3. Public(db[worker.uid]) \in
          [state : BuildState \cup {""}, tried : Nat, running : 0..MaxAttempts]
    BY <2>2, AttemptsTyped DEF Public, Shown, Known
  <2> QED
    BY <1>0, <2>1, <2>3, WorkerStep DEF TypeOK
<1>i. CASE OpenFile
  <2>1. /\ worker.at = "persist" /\ UNCHANGED <<clusterVars, db, restarts>>
        /\ \/ /\ disk' = [disk EXCEPT ![worker.uid] = NoBuild("torn")]
              /\ worker' = [worker EXCEPT !.at = "write"]
           \/ worker' = Idle /\ disk' = disk
    BY <1>i DEF OpenFile, At, Goto
  <2>2. restarts' \in Nat /\ db' \in [Uid -> BuildStatus] /\ disk' \in [Uid -> BuildStatus]
    BY <1>0, <2>1, NothingTyped DEF TypeOK, AnyState
  <2>3. Good(NoBuild("torn"), stamp) /\ NoBuild("torn").state = "torn"
    BY <1>0, NothingGood, NothingTyped DEF TypeOK, AnyState
  <2>4. \A u \in Uid : /\ db'[u].state # "torn" /\ Good(db'[u], stamp)
                       /\ disk'[u].state # "nil" /\ Good(disk'[u], stamp)
    BY <1>0, <2>1, <2>3 DEF TypeOK, AllGood
  <2> QED
    BY <2>1, <2>2, <2>4, StoreStep
<1>j. CASE WriteFile
  <2> DEFINE u == worker.uid
             b == Saved(db[u])
  <2>1. /\ worker.at = "write" /\ UNCHANGED <<clusterVars, db, restarts>>
        /\ disk' = [disk EXCEPT ![u] = b] \/ disk' = disk
        /\ worker' = Idle
    BY <1>j DEF WriteFile, At
  <2>2. /\ u \in Uid /\ Known(db[u]) /\ db[u] \in BuildStatus /\ Good(db[u], stamp)
        /\ stamp \in Nat
    BY <1>0, <2>1 DEF WorkerInv, TypeOK, AllGood
  <2>3. /\ b \in BuildStatus /\ b.state = db[u].state /\ b.created = db[u].created
        /\ b.active = db[u].active /\ b.completed = db[u].completed
    BY <2>2 DEF Saved, BuildStatus
  <2>4. Good(b, stamp) /\ b.state # "nil"
    BY <2>2, <2>3, GoodSame DEF Known, BuildState, Terminal
  <2> HIDE DEF b
  <2>5. restarts' \in Nat /\ db' \in [Uid -> BuildStatus] /\ disk' \in [Uid -> BuildStatus]
    BY <1>0, <2>1, <2>2, <2>3 DEF TypeOK
  <2>6. \A v \in Uid : /\ db'[v].state # "torn" /\ Good(db'[v], stamp)
                       /\ disk'[v].state # "nil" /\ Good(disk'[v], stamp)
    BY <1>0, <2>1, <2>2, <2>4 DEF TypeOK, AllGood
  <2> QED
    BY <2>1, <2>5, <2>6, StoreStep
<1>k. CASE Cleanup
  <2>1. PICK gone : /\ disk' = [u \in Uid |-> IF u \in gone THEN NoBuild("absent") ELSE disk[u]]
                    /\ db' = [u \in Uid |-> IF u \in gone THEN NoBuild("absent") ELSE db[u]]
    BY <1>k DEF Cleanup
  <2>2. worker.at = "idle" /\ UNCHANGED <<clusterVars, worker, restarts>>
    BY <1>k DEF Cleanup, At
  <2>3. /\ NoBuild("absent") \in BuildStatus /\ NoBuild("absent").state = "absent"
        /\ Good(NoBuild("absent"), stamp)
    BY <1>0, NothingGood, NothingTyped DEF TypeOK, AnyState
  <2>4. db' \in [Uid -> BuildStatus] /\ disk' \in [Uid -> BuildStatus]
    BY <1>0, <2>1, <2>3 DEF TypeOK
  <2>5. \A u \in Uid : /\ db'[u].state # "torn" /\ Good(db'[u], stamp)
                       /\ disk'[u].state # "nil" /\ Good(disk'[u], stamp)
    BY <1>0, <2>1, <2>3 DEF TypeOK, AllGood
  <2>6. TypeOK'
    BY <1>0, <2>2, <2>4, <2>5 DEF TypeOK, clusterVars
  <2>7. WorkerInv' /\ AllGood'
    BY <2>2, <2>5 DEF WorkerInv, AllGood, clusterVars
  <2> QED
    BY <2>6, <2>7 DEF IInv
<1>l. CASE Crash \/ CleanupPanic
  <2>1. /\ restarts' = restarts + 1 \/ restarts' = restarts
        /\ db' = [u \in Uid |-> NoBuild("absent")]
        /\ worker' = Down /\ UNCHANGED <<clusterVars, disk>>
    BY <1>l DEF Crash, CleanupPanic, Die
  <2>2. /\ NoBuild("absent") \in BuildStatus /\ NoBuild("absent").state = "absent"
        /\ Good(NoBuild("absent"), stamp)
    BY <1>0, NothingGood, NothingTyped DEF TypeOK, AnyState
  <2>3. restarts' \in Nat /\ db' \in [Uid -> BuildStatus] /\ disk' \in [Uid -> BuildStatus]
    <3>1. restarts \in Nat /\ disk \in [Uid -> BuildStatus]
      BY <1>0 DEF TypeOK
    <3> QED
      BY <2>1, <2>2, <3>1
  <2>4. \A u \in Uid : /\ db'[u].state # "torn" /\ Good(db'[u], stamp)
                       /\ disk'[u].state # "nil" /\ Good(disk'[u], stamp)
    BY <1>0, <2>1, <2>2 DEF TypeOK, AllGood
  <2> QED
    BY <2>1, <2>3, <2>4, StoreStep
<1>m. CASE Load
  <2>1. PICK bearer \in Bearers :
          /\ db' \in [Uid -> UNION {Loaded(u, bearer) : u \in Uid}]
          /\ \A u \in Uid : db'[u] \in Loaded(u, bearer)
          /\ worker' = Idle /\ UNCHANGED <<clusterVars, restarts>>
    BY <1>m DEF Load
  <2>2. PICK kept \in SUBSET Uid :
          disk' = [u \in Uid |->
            IF Known(disk[u]) /\ db'[u].state = "absent" /\ u \notin kept
              THEN NoBuild("absent") ELSE disk[u]]
    BY <1>m DEF Load
  <2>3. /\ NoBuild("absent") \in BuildStatus /\ NoBuild("absent").state = "absent"
        /\ Good(NoBuild("absent"), stamp)
    BY <1>0, NothingGood, NothingTyped DEF TypeOK, AnyState
  <2>4. \A u \in Uid : db'[u] \in BuildStatus /\ db'[u].state # "torn" /\ Good(db'[u], stamp)
    BY <1>0, <2>1, LoadedGood
  <2>5. restarts' \in Nat /\ db' \in [Uid -> BuildStatus] /\ disk' \in [Uid -> BuildStatus]
    BY <1>0, <2>1, <2>2, <2>3, <2>4 DEF TypeOK
  <2>6. \A u \in Uid : disk'[u].state # "nil" /\ Good(disk'[u], stamp)
    BY <1>0, <2>2, <2>3 DEF TypeOK, AllGood
  <2> QED
    BY <2>1, <2>4, <2>5, <2>6, StoreStep
<1>n. CASE DeleteObject \/ \E u \in Uid : CreateObject(u)
  <2>1. TypeOK'
    BY <1>0, <1>n, NoStatusTyped DEF TypeOK, DeleteObject, CreateObject, KubeStatus
  <2> QED
    BY <1>n, <2>1, ClusterStep DEF DeleteObject, CreateObject
<1>o. CASE \E t \in HeldTimes : DeadlinePasses(t)
  <2>1. PICK t \in HeldTimes : DeadlinePasses(t)
    BY <1>o
  <2>2. \A u \in Uid : Times(db[u]) \subseteq Nat /\ Times(disk[u]) \subseteq Nat
    BY <1>0, AttemptsTyped DEF TypeOK, Times
  <2>3. HeldTimes \subseteq Nat
    BY <2>2 DEF HeldTimes
  <2>4. TypeOK'
    BY <1>0, <2>1, <2>3 DEF DeadlinePasses, TypeOK
  <2> QED
    BY <2>1, <2>4, ClusterStep DEF DeadlinePasses
<1>p. ASSUME NEW n \in 1..MaxAttempts, JobStep(n) PROVE IInv'
  <2>1. jobs[n] \in Job /\ jobs[n].uid \in Nat
    BY <1>0 DEF TypeOK, Job
  <2>2. PICK s \in {"none", "running", "overrun", "succeeded", "podless", "failed"} :
          SetJob(n, s)
    BY <1>p DEF JobStep, StartJob, SucceedJob, FailJob, OverrunJob, RemoveJob, RemovePod
  <2>3. pushed' \subseteq Nat
    BY <1>0, <1>p, <2>1
    DEF TypeOK, JobStep, StartJob, SucceedJob, FailJob, OverrunJob, RemoveJob, RemovePod
  <2>4. jobs' \in [1..MaxAttempts -> Job]
    <3>1. [jobs[n] EXCEPT !.state = s] \in Job
      BY <2>1 DEF Job
    <3> QED
      BY <1>0, <2>2, <3>1, NothingTyped DEF SetJob, TypeOK
  <2>5. TypeOK'
    BY <1>0, <2>2, <2>3, <2>4 DEF TypeOK, SetJob
  <2> QED
    BY <2>2, <2>5, ClusterStep DEF SetJob
<1>q. CASE StrangerPublishes
  <2>1. kstatus' \in KubeStatus
    BY <1>q, NoStatusTyped DEF StrangerPublishes, KubeStatus, BuildState
  <2>2. TypeOK'
    BY <1>0, <1>q, <2>1 DEF TypeOK, StrangerPublishes, KubeStatus
  <2> QED
    BY <1>q, <2>2, ClusterStep DEF StrangerPublishes
<1>r. ASSUME NEW n \in 1..MaxAttempts, StrangerCreates(n) PROVE IInv'
  <2>1. [NoJob EXCEPT !.state = "pending", !.owner = kube] \in Job
    BY <1>0, NothingTyped DEF TypeOK, Job
  <2>2. TypeOK'
    BY <1>0, <1>r, <2>1 DEF TypeOK, StrangerCreates
  <2> QED
    BY <1>r, <2>2, ClusterStep DEF StrangerCreates
<1> QED
  BY <1>a, <1>b, <1>c, <1>d, <1>e, <1>f, <1>g, <1>h, <1>i, <1>j, <1>k, <1>l, <1>m,
     <1>n, <1>o, <1>p, <1>q, <1>r
  DEF Next, Operator, Subprocess, Create, Save
-----------------------------------------------------------------------------
(***************************************************************************)
(* The theorems.                                                           *)
(***************************************************************************)

(* The invariant that the others follow from.                              *)
THEOREM Invariant == Spec => []IInv
BY InitInvariant, StepInvariant, PTL DEF Spec

(* Every variable keeps its type: in particular no half-read file enters   *)
(* the map, and no entry that could not be read is ever saved.             *)
THEOREM TypeCorrect == Spec => []TypeOK
<1>1. IInv => TypeOK
  BY DEF IInv
<1> QED
  BY <1>1, Invariant, PTL

(* Through every fault and restart the attempts of a build, in memory and  *)
(* on disk, are numbered without a gap, are of ever later Jobs, and are at *)
(* most MaxNumberofBuildAttempts.                                          *)
THEOREM AttemptsStayInOrder == Spec => []AttemptsInOrder
<1>1. IInv => AttemptsInOrder
  BY DEF IInv, AllGood, Good, AttemptsInOrder
<1> QED
  BY <1>1, Invariant, PTL

(* No attempt is ever started after one that succeeded.                    *)
THEOREM SuccessIsLast == Spec => []NothingAfterSuccess
<1>1. IInv => NothingAfterSuccess
  BY DEF IInv, AllGood, Good, SuccessLast, NothingAfterSuccess
<1> QED
  BY <1>1, Invariant, PTL
-----------------------------------------------------------------------------
(***************************************************************************)
(* Verdicts are final.  Only load could bring a build back in another      *)
(* state than the map has, and it finds the map empty.                     *)
(***************************************************************************)

DownEmpty == worker.at = "down" => \A u \in Uid : db[u] = NoBuild("absent")

LEMMA DownStep == IInv /\ DownEmpty /\ [Next]_vars => DownEmpty'
<1> SUFFICES ASSUME IInv, DownEmpty, [Next]_vars, worker'.at = "down"
             PROVE  \A u \in Uid : db'[u] = NoBuild("absent")
  BY DEF DownEmpty
<1>0. TypeOK
  BY DEF IInv
<1>1. CASE UNCHANGED <<db, worker>>
  BY <1>1 DEF DownEmpty
<1>2. CASE Crash \/ CleanupPanic
  BY <1>2 DEF Crash, CleanupPanic, Die
<1>3. ASSUME EndPass(TRUE) \/ EndPass(FALSE) \/ EndPass(worker.changed) PROVE FALSE
  <2>1. worker.changed \in BOOLEAN
    BY <1>0 DEF TypeOK
  <2> QED
    BY <1>0, <1>3, <2>1, EndPassMoves
<1>4. ASSUME NEW place \in {"create", "persist", "write"}, NEW i, NEW c,
             \/ worker' = [worker EXCEPT !.at = place]
             \/ worker' = [worker EXCEPT !.at = place, !.inst = i, !.changed = c]
      PROVE  FALSE
  BY <1>0, <1>4 DEF TypeOK
<1>5. ASSUME \/ worker' = Idle
             \/ \E u, d : worker' = [Idle EXCEPT !.at = "pass", !.uid = u, !.dirty = d]
      PROVE  FALSE
  <2>1. Idle.at = "idle" /\ DOMAIN Idle = {"at", "uid", "inst", "changed", "dirty"}
    BY DEF Idle
  <2>2. CASE worker' = Idle
    BY <2>1, <2>2
  <2>3. ASSUME NEW u, NEW d, worker' = [Idle EXCEPT !.at = "pass", !.uid = u, !.dirty = d]
        PROVE  worker'.at = "pass"
    BY <2>1, <2>3
  <2> QED
    BY <1>5, <2>2, <2>3
<1>6. CASE PassScan
  <2>1. \/ EndPass(TRUE) \/ EndPass(FALSE)
        \/ \E i, c : worker' = [worker EXCEPT !.at = "create", !.inst = i, !.changed = c]
    BY <1>6 DEF PassScan
  <2> QED
    BY <1>3, <1>4, <2>1
<1>7. CASE PassNoInstance \/ PassDecided \/ Create
  BY <1>3, <1>7 DEF PassNoInstance, PassDecided, Create, CreateJob, CreateRefused,
                    CreateUnacknowledged
<1>8. CASE Save
  BY <1>4, <1>5, <1>8 DEF Save, Publish, OpenFile, WriteFile, Goto
<1>9. CASE Load \/ \E u \in Uid : Reconcile(u)
  BY <1>5, <1>9 DEF Load, Reconcile
<1>10. CASE Cleanup \/ DeleteObject \/ (\E u \in Uid : CreateObject(u))
             \/ (\E t \in HeldTimes : DeadlinePasses(t))
             \/ (\E n \in 1..MaxAttempts : JobStep(n) \/ StrangerCreates(n))
             \/ StrangerPublishes \/ UNCHANGED vars
  <2>1. worker' = worker
    BY <1>10 DEF Cleanup, DeleteObject, CreateObject, DeadlinePasses, JobStep, StartJob,
      SucceedJob, FailJob, OverrunJob, RemoveJob, RemovePod, SetJob,
      StrangerPublishes, StrangerCreates, vars
  <2>2. CASE Cleanup
    BY <1>0, <2>1, <2>2 DEF Cleanup, At
  <2>3. CASE ~Cleanup
    <3>1. db' = db
      BY <1>10, <2>3 DEF DeleteObject, CreateObject, DeadlinePasses, JobStep, StartJob,
        SucceedJob, FailJob, OverrunJob, RemoveJob, RemovePod, SetJob,
      StrangerPublishes, StrangerCreates, vars
    <3> QED
      BY <1>1, <2>1, <3>1
  <2> QED
    BY <2>2, <2>3
<1> QED
  BY <1>2, <1>6, <1>7, <1>8, <1>9, <1>10 DEF Next, Operator, Subprocess

(* What one step may do to the build of an object that is decided.         *)
KeepsVerdicts ==
  \A u \in Uid : db[u].state \in Terminal /\ Known(db'[u]) => Saved(db'[u]) = Saved(db[u])

LEMMA StepKeepsVerdicts == IInv /\ DownEmpty /\ [Next]_vars => KeepsVerdicts
<1> SUFFICES ASSUME IInv, DownEmpty, [Next]_vars,
                    NEW v \in Uid, db[v].state \in Terminal, Known(db'[v])
             PROVE  Saved(db'[v]) = Saved(db[v])
  BY DEF KeepsVerdicts
<1>0. TypeOK /\ WorkerInv
  BY DEF IInv
<1>1. Known(db[v])
  BY DEF Known, BuildState
<1>2. ~Known(NoBuild("absent"))
  BY NothingTyped DEF Known, BuildState, Terminal, AnyState
<1>3. CASE db' = db
  BY <1>3
<1>4. ASSUME NEW u \in Uid, Reconcile(u) PROVE db'[v] = db[v]
  <2>1. CASE Known(db[u])
    BY <1>4, <2>1 DEF Reconcile
  <2>2. CASE ~Known(db[u])
    BY <1>0, <1>1, <1>4, <2>2 DEF Reconcile, TypeOK
  <2> QED
    BY <2>1, <2>2
<1>5. CASE PassScan
  <2>1. /\ Undecided(db[worker.uid])
        /\ \E d : db' = [db EXCEPT ![worker.uid] = d]
    BY <1>5 DEF PassScan
  <2> QED
    BY <1>0, <2>1 DEF TypeOK, Undecided
<1>6. CASE CreateJob
  <2>1. /\ db[worker.uid].state = "Running"
        /\ \E a : db' = [db EXCEPT ![worker.uid].active = a]
    BY <1>0, <1>6 DEF CreateJob, At, WorkerInv
  <2>2. v # worker.uid
    BY <2>1 DEF Terminal
  <2> QED
    BY <1>0, <2>1, <2>2 DEF TypeOK
<1>7. CASE Cleanup
  <2>1. db'[v] = db[v] \/ db'[v] = NoBuild("absent")
    BY <1>7 DEF Cleanup
  <2> QED
    BY <1>2, <2>1
<1>8. CASE Crash \/ CleanupPanic
  BY <1>2, <1>8 DEF Crash, CleanupPanic, Die
<1>9. CASE Load
  BY <1>1, <1>2, <1>9 DEF Load, At, DownEmpty
<1>10. CASE \/ PassNoInstance \/ PassDecided \/ CreateRefused \/ CreateUnacknowledged \/ Save
            \/ DeleteObject \/ (\E u \in Uid : CreateObject(u))
            \/ (\E t \in HeldTimes : DeadlinePasses(t))
            \/ (\E n \in 1..MaxAttempts : JobStep(n) \/ StrangerCreates(n))
            \/ StrangerPublishes \/ UNCHANGED vars
  <2>1. db' = db
    BY <1>10 DEF PassNoInstance, PassDecided, CreateRefused, CreateUnacknowledged, Save,
      Publish, OpenFile, WriteFile, DeleteObject, CreateObject, DeadlinePasses, JobStep,
      StartJob, SucceedJob, FailJob, OverrunJob, RemoveJob, RemovePod, SetJob,
      StrangerPublishes, StrangerCreates, vars
  <2> QED
    BY <1>3, <2>1
<1> QED
  BY <1>4, <1>5, <1>6, <1>7, <1>8, <1>9, <1>10 DEF Next, Operator, Subprocess, Create

(* While the operator lives, a decided build keeps its verdict, its        *)
(* attempts and its times, whatever happens to its Jobs and its object.    *)
THEOREM VerdictsAreFinal == Spec => VerdictFinal
<1>1. Init => DownEmpty
  BY DEF Init, DownEmpty, Idle
<1>2. IInv /\ DownEmpty /\ [Next]_vars => DownEmpty'
  BY DownStep
<1>3. IInv /\ DownEmpty /\ [Next]_vars => [KeepsVerdicts]_vars
  BY StepKeepsVerdicts
<1>4. Spec => [][KeepsVerdicts]_vars
  BY <1>1, <1>2, <1>3, Invariant, PTL DEF Spec
<1> QED
  BY <1>4 DEF KeepsVerdicts, VerdictFinal
=============================================================================

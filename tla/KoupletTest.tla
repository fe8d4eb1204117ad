----------------------------- MODULE KoupletTest -----------------------------
(***************************************************************************)
(* The controller of the KoupletTest resource.  A KoupletTest is a         *)
(* collection of tests; the controller runs each test in a Job, a bounded  *)
(* number at a time, retries the ones that fail, and publishes results.    *)
(* Its database is in memory; what changes in it is noted in a dirty set   *)
(* (entryMap) and written to files in bulk.                                *)
(*                                                                         *)
(* One goroutine reconciles.  It is modelled at the grain of its calls to  *)
(* the API server and of its bulk writes: between two of them the cluster  *)
(* may change, and the operator may be killed.  A test is what its id      *)
(* says; its labels and environment, and the upload of its log, are left   *)
(* out, and so are lists that are only displayed (completedTests,          *)
(* completedCollections) and the short status of a test that is running.   *)
(*                                                                         *)
(* Source: staging/controllers/kouplettest.                                *)
(***************************************************************************)
EXTENDS Integers, Sequences, FiniteSets

CONSTANTS
  Uid,             \* the KoupletTest objects
  NameOf,          \* the name of each, which several may bear in turn
  NumTests,        \* the number of tests in the spec of each
  MaxActive,       \* MaxActiveTests * NumberOfNodes
  Nodes,           \* NumberOfNodes: starts per MinimumTimeBetweenTestRuns
  FailureRetries,  \* FailureRetries of the spec
  MaxRestarts,     \* bound: how often the operator may be killed
  MaxCopies,       \* bound: Jobs that exist at a time for one id of a test
  Faults           \* what may go wrong besides failing tests

(* api    : a call to the API server may return an error                   *)
(* io     : a bulk write may stop, at a file that cannot be opened or is   *)
(*          cut off                                                        *)
(* torn   : the operator may be killed during a bulk write                 *)
(* delete : KoupletTest objects may be deleted                             *)
(* jobloss: a Job may be deleted by somebody else                          *)
(* slow   : the expire time of a running Job may pass                      *)
(* due    : the scheduled tasks may become due                             *)
FaultKind == {"api", "io", "torn", "delete", "jobloss", "slow", "due"}

ASSUME TestAssumption ==
  /\ NumTests \in [Uid -> Nat \ {0}] /\ DOMAIN NameOf = Uid
  /\ MaxActive \in Nat /\ Nodes \in Nat
  /\ FailureRetries \in Nat /\ MaxRestarts \in Nat /\ MaxCopies \in Nat \ {0}
  /\ Faults \subseteq FaultKind

VARIABLES
  alive,       \* the objects that exist
  born,        \* the objects created so far
  kstatus,     \* their status subresources
  jobs,        \* the Jobs in the cluster
  coll,        \* KoupletDB.collections
  waiting,     \* KoupletDB.waitingCollections
  running,     \* KoupletDB.runningCollections
  dirty,       \* PersistenceContext.entryMap: what is to be written
  recent,      \* testStartTimes that MinimumTimeBetweenTestRuns still covers
  saved,       \* the files under /kouplet-persistence/test, by collection
  worker,      \* what the reconciling goroutine is doing
  submitted,   \* number of collections created so far: dateSubmitted
  restarts     \* how often the operator was killed

clusterVars == <<alive, born, kstatus, jobs>>
memory == <<coll, waiting, running, dirty, recent>>
vars == <<alive, born, kstatus, jobs, coll, waiting, running, dirty, recent,
          saved, worker, submitted, restarts>>
-----------------------------------------------------------------------------
(***************************************************************************)
(* Data.                                                                   *)
(***************************************************************************)

(* A TestEntry.  Ids start at 0 in the code and at 1 here, so that 0 can   *)
(* stand for a nil retryFromID.  processed is set with the status, to      *)
(* Complete or Expired, and is not kept apart; result says whether         *)
(* handleFinishedRunningTestJob found the test to have passed.  A status   *)
(* or a bucket, here and of a collection, is the text that is written of   *)
(* it to a file and read again.                                            *)
Status == {"Waiting", "Running", "Complete", "Expired"}
Bucket == {"Queued", "Running", "Retry", "Completed"}
Entry == [id : Nat, from : Nat, status : Status, bucket : Bucket,
          result : {"none", "pass", "fail"}]
NewEntry(id, from) ==
  [id |-> id, from |-> from, status |-> "Waiting",
   bucket |-> IF from = 0 THEN "Queued" ELSE "Retry", result |-> "none"]

(* A TestCollection; its status and its bucket change together.  Pointers  *)
(* to entries are indices into entries, which only grows; queued, active   *)
(* and retry are queuedTests, runningTests and testsForRetry.              *)
CollState == {"absent", "Waiting", "Running", "Completed"}
Collection == [bucket : CollState, date : Nat, started : BOOLEAN, next : Nat,
               entries : Seq(Entry), queued : Seq(Nat), active : Seq(Nat),
               retry : Seq(Nat)]
NoCollection ==
  [bucket |-> "absent", date |-> 0, started |-> FALSE, next |-> 1,
   entries |-> <<>>, queued |-> <<>>, active |-> <<>>, retry |-> <<>>]
Present(u) == coll[u].bucket # "absent"

(* testEntries, the map from ids to entries: a later entry with an id that *)
(* is in use replaces the earlier one.                                     *)
Index(c, id) == {k \in DOMAIN c.entries : c.entries[k].id = id}
HasEntry(c, id) == Index(c, id) # {}
Latest(c, id) == CHOOSE k \in Index(c, id) : \A j \in Index(c, id) : j <= k

(* newTestCollection, and GetOrCreateCollection: one queued entry for each *)
(* test of the spec.                                                       *)
Fresh(date) == [NoCollection EXCEPT !.bucket = "Waiting", !.date = date]
NewCollection(tests, date) ==
  [Fresh(date) EXCEPT
     !.next = tests + 1,
     !.entries = [i \in 1..tests |-> NewEntry(i, 0)],
     !.queued = [i \in 1..tests |-> i]]

(* A Job of the test with this id: pending until startTime is set, done    *)
(* when completionTime is, which a Job that fails for good never has;      *)
(* overdue when its expire time has passed.                                *)
JobState == {"pending", "running", "overdue", "done"}
Job == [uid : Uid, id : Nat, copy : 1..MaxCopies, state : JobState]
JobsOf(u) == {j \in jobs : j.uid = u}
Unfinished(u) == {j \in JobsOf(u) : j.state # "done"}

(* The files of a collection: the entity, and two files for each entry.    *)
Entity(c) == [bucket |-> c.bucket, date |-> c.date, started |-> c.started,
              next |-> c.next]
NoEntity == Entity(NoCollection)
NoFiles == [entity |-> NoEntity, shallow |-> {}, result |-> {}]
Shallow(e) == [e EXCEPT !.result = "none"]

(* A start time, at first still to be written: whether it has a file.      *)
Unfiled == FALSE
Timed(times) == Append(times, Unfiled)

(* The earliest leaves the period MinimumTimeBetweenTestRuns, or is an     *)
(* hour old and cleaned up, its file with it: it counts no more either way.*)
Forgotten(times) == Tail(times)

(* The entries of entryMap, a deleted collection's excepted.               *)
EntityOf(u) == [kind |-> "entity", uid |-> u, id |-> 0]
ShallowOf(u, id) == [kind |-> "shallow", uid |-> u, id |-> id]
ResultOf(u, id) == [kind |-> "result", uid |-> u, id |-> id]

(* putEntry: what is noted twice is there once.                            *)
Note(items) == dirty \cup items

Fault(kind) == kind \in Faults
InOrder(S, key) ==   \* the elements of S by ascending keys
  [i \in 1..Cardinality(S) |->
     CHOOSE x \in S : Cardinality({y \in S : key[y] < key[x]}) = i - 1]
Only(s, I) ==   \* what s has at the places I
  LET first[i \in 0..Len(s)] ==
        IF i = 0 THEN <<>>
        ELSE IF i \in I THEN Append(first[i - 1], s[i]) ELSE first[i - 1]
  IN  first[Len(s)]
Without(s, x) == Only(s, {i \in DOMAIN s : s[i] # x})

(* The worker between two reconciles.  index is its place in runningCol-   *)
(* lections; touched and queue are stateChanged and testsInQueue > 0; todo *)
(* holds the Jobs still to be examined, as they were listed; slots is      *)
(* testsToRunTotal, changed is stateChanged of Process, and doomed the     *)
(* collections whose files the next bulk write deletes.                    *)
Idle == [at |-> "idle", index |-> 1, queue |-> FALSE, touched |-> FALSE,
         todo |-> {}, slots |-> 0, changed |-> {}, doomed |-> {}]
Down == [Idle EXCEPT !.at = "down"]
Hung == [Idle EXCEPT !.at = "hung"]
At(place) == worker.at = place
Goto(place) == worker' = [worker EXCEPT !.at = place]
Current == running[worker.index]
-----------------------------------------------------------------------------
(***************************************************************************)
(* The chain of retries a test entry belongs to.                           *)
(***************************************************************************)

(* The entries met d retries back.  There are none past the first run of a *)
(* test, nor past an entry that is missing.                                *)
Parents(c, ks) ==
  {Latest(c, c.entries[k].from) : k \in {i \in ks : HasEntry(c, c.entries[i].from)}}
Lineage(c, k) ==
  LET back[d \in 0..Len(c.entries)] ==
        IF d = 0 THEN {k} ELSE Parents(c, back[d - 1])
  IN  back

(* The loops over retryFromID in handleFinishedRunningTestJob and in       *)
(* getTestEntryRetry: how often the first goes round, and whether they end *)
(* or meet an entry that is missing.                                       *)
Retries(c, k) == Cardinality({d \in 1..Len(c.entries) : Lineage(c, k)[d] # {}})
Endless(c, k) == Lineage(c, k)[Len(c.entries)] # {}
Broken(c, k) ==
  \E d \in 0..Len(c.entries) : \E i \in Lineage(c, k)[d] :
    c.entries[i].from # 0 /\ ~HasEntry(c, c.entries[i].from)
-----------------------------------------------------------------------------
(***************************************************************************)
(* What is published of a collection (generateStatus).                     *)
(***************************************************************************)

(* The status is called Complete where the bucket is called Completed.     *)
StatusText(bucket) == IF bucket = "Completed" THEN "Complete" ELSE bucket

Held(c) == {Latest(c, c.entries[i].id) : i \in DOMAIN c.entries}
Results(c) == {<<c.entries[k].id, c.entries[k].result>> : k \in Held(c)}

(* The first run of the test that k is a run of, or, where the chain is    *)
(* broken, the last that is met.                                           *)
Root(c, k) == CHOOSE r \in Lineage(c, k)[Retries(c, k)] : TRUE

(* Percent of a share.  0 of 0 is not a number, and int of that is, on     *)
(* amd64, the least integer; here -1.                                      *)
NotANumber == -1
Share(part, whole) ==
  IF whole = 0 THEN NotANumber ELSE (100 * part) \div whole

(* Mutant of Percent: only first runs count.                               *)
Percent_FirstRuns(c) ==
  LET first == {k \in Held(c) : c.entries[k].from = 0}
  IN  Share(Cardinality({k \in first : c.entries[k].result = "pass"}),
            Cardinality(first))

(* The share of tests of which a run passed.  Runs whose chain is broken   *)
(* are of no test.                                                         *)
Percent(c) ==
  LET roots == {r \in {Root(c, k) : k \in Held(c)} : c.entries[r].from = 0}
      passed == {Root(c, k) : k \in {i \in Held(c) : c.entries[i].result = "pass"}}
  IN  Share(Cardinality(roots \cap passed), Cardinality(roots))

NoStatus == [status |-> "", percent |-> 0, results |-> {}]
Public(c) == [status |-> StatusText(c.bucket), percent |-> Percent(c),
              results |-> {r \in Results(c) : r[2] # "none"}]
-----------------------------------------------------------------------------
(***************************************************************************)
(* A pass over the running collections (subProcess).                       *)
(***************************************************************************)

(* Reconcile: the object's collection is created if there is none, and is  *)
(* written at once; then Process runs over all collections, as it does     *)
(* when the object is gone.                                                *)
Register(u) ==
  /\ coll' = [coll EXCEPT ![u] = NewCollection(NumTests[u], submitted + 1)]
  /\ submitted' = submitted + 1
  /\ waiting' = Append(waiting, u)
  /\ dirty' = Note({EntityOf(u)} \cup {ShallowOf(u, i) : i \in 1..NumTests[u]})
  /\ worker' = [Idle EXCEPT !.at = "register"]

Reconcile(u) ==
  /\ At("idle") /\ u \in born
  /\ IF u \in alive /\ ~Present(u)
       THEN Register(u)
       ELSE /\ worker' = [Idle EXCEPT !.at = "pass"]
            /\ UNCHANGED <<coll, waiting, dirty, submitted>>
  /\ UNCHANGED <<clusterVars, running, recent, saved, restarts>>

(* markAsPrimary, markAsRunning and markAsComplete.                        *)
Primary(c) == [c EXCEPT !.started = TRUE]
Promoted(c) == [c EXCEPT !.bucket = "Running"]
Completed(c) == [c EXCEPT !.bucket = "Completed"]

(* The end of a collection's turn, its record being c and what is to be    *)
(* written d: the collection at the head gets its start time, and a change *)
(* ends the pass.                                                          *)
FinishTurn(c, d, changed) ==
  LET u == Current
      first == worker.index = 1 /\ ~c.started
      more == c.queued # <<>> \/ c.retry # <<>>
  IN  /\ coll' = [coll EXCEPT ![u] = IF first THEN Primary(c) ELSE c]
      /\ dirty' = d \cup (IF first THEN {EntityOf(u)} ELSE {})
      /\ worker' =
           IF changed
             THEN [Idle EXCEPT !.at = "pass", !.changed = worker.changed \cup {u}]
             ELSE [Idle EXCEPT !.at = "pass", !.changed = worker.changed,
                               !.index = worker.index + 1,
                               !.queue = worker.queue \/ more]

HasTurn == At("pass") /\ worker.index <= Len(running)

(* process: the Jobs are listed, once for all that follows, or cannot be.  *)
(* Only those that have ended or expired, of entries that run, matter to   *)
(* processRunningJobs; those not completed take a place each.              *)
Listed_Completed(u) ==   \* mutant of Listed: expire times are not looked at
  {j \in JobsOf(u) : j.state = "done" /\ HasEntry(coll[u], j.id)
                     /\ coll[u].entries[Latest(coll[u], j.id)].status = "Running"}
Listed(u) ==
  {j \in JobsOf(u) : /\ j.state \in {"done", "overdue"}
                     /\ HasEntry(coll[u], j.id)
                     /\ coll[u].entries[Latest(coll[u], j.id)].status = "Running"}

(* Mutants of Slots: only Jobs that have started are counted; the entries  *)
(* believed to be running are.                                             *)
SlotsLeft(n) == IF n < MaxActive THEN MaxActive - n ELSE 0
Slots_Started(u) ==
  SlotsLeft(Cardinality({j \in JobsOf(u) : j.state \in {"running", "overdue"}}))
Slots_InMemory(u) == SlotsLeft(Len(coll[u].active))
Slots(u) == SlotsLeft(Cardinality(Unfinished(u)))
ListJobs ==
  /\ HasTurn
  /\ worker' = [worker EXCEPT !.at = IF Listed(Current) = {} THEN "start" ELSE "examine",
                              !.todo = Listed(Current), !.slots = Slots(Current)]
  /\ UNCHANGED <<clusterVars, memory, saved, submitted, restarts>>

ListFails ==
  /\ HasTurn /\ Fault("api")
  /\ FinishTurn(coll[Current], dirty, FALSE)
  /\ UNCHANGED <<clusterVars, waiting, running, recent, saved, submitted, restarts>>

(* handleFinishedRunningTestJob, for the running entry at a.               *)
Retried_OnceMore(c, a) == Retries(c, a) <= FailureRetries   \* mutant of Retried
Retried(c, a) == Retries(c, a) < FailureRetries
Ended(c, a, result) ==
  LET ended == [c EXCEPT !.active = Without(@, a),
                         !.entries[a].bucket = "Completed",
                         !.entries[a].result = result]
      retry == NewEntry(c.next, c.entries[a].id)
  IN  IF result = "fail" /\ Retried(c, a)
        THEN [ended EXCEPT !.next = @ + 1,
                           !.entries = Append(@, retry),
                           !.retry = Append(@, Len(c.entries) + 1)]
        ELSE ended

(* Mutants of Written: the new retry is not noted; nor is the result.      *)
Written_NoRetry(u, c, a, result) ==
  {ShallowOf(u, c.entries[a].id), ResultOf(u, c.entries[a].id)}
Written_NoResult(u, c, a, result) ==
  {ShallowOf(u, c.entries[a].id)}
    \cup (IF result = "fail" /\ Retried(c, a) THEN {ShallowOf(u, c.next)} ELSE {})

(* What it notes as changed.                                               *)
Written(u, c, a, result) ==
  {ShallowOf(u, c.entries[a].id), ResultOf(u, c.entries[a].id)}
    \cup (IF result = "fail" /\ Retried(c, a) THEN {ShallowOf(u, c.next)} ELSE {})

(* An iteration of processRunningJobs over a Job that completed, or is to  *)
(* be killed, seen as j.  Two Jobs of an entry count once.  What a test    *)
(* that completed reported is found in the log of the first Pod with its   *)
(* labels, where that can be read.  The Job to be killed is deleted; an    *)
(* error is only logged.                                                   *)
Log == {"passes", "failures", "unreadable"}
Verdict(log) == IF log = "passes" THEN "pass" ELSE "fail"
Outcomes(j) == IF j.state = "done" THEN {Verdict(log) : log \in Log} ELSE {"fail"}
Marked(c, j) ==
  [c EXCEPT !.entries[Latest(c, j.id)].status =
     IF j.state = "done" THEN "Complete" ELSE "Expired"]
IsRunning(c, j) == c.entries[Latest(c, j.id)].status = "Running"
Of(c, j) == Only(c.active, {i \in DOMAIN c.active : c.entries[c.active[i]].id = j.id})

KillIfOverdue_Not(j) == UNCHANGED jobs   \* mutant of KillIfOverdue
KillIfOverdue(j) ==
  \/ /\ j.state = "overdue"
     /\ jobs' = {i \in jobs : <<i.uid, i.id, i.copy>> # <<j.uid, j.id, j.copy>>}
  \/ /\ j.state = "done" \/ Fault("api")
     /\ UNCHANGED jobs

ExamineAgain(j) ==
  /\ At("examine") /\ j \in worker.todo
  /\ ~IsRunning(coll[Current], j)
  /\ worker' = [worker EXCEPT !.todo = @ \ {j}]
  /\ UNCHANGED <<clusterVars, memory, saved, submitted, restarts>>

ExamineJob(j) ==
  LET u == Current
      c == Marked(coll[u], j)
      matched == Of(c, j) # <<>>
      a == Head(Of(c, j))
  IN  /\ At("examine") /\ j \in worker.todo
      /\ IsRunning(coll[u], j)
      /\ \E result \in Outcomes(j) :
           /\ matched /\ result = "fail" => ~Endless(c, a) /\ ~Broken(c, a)
           /\ coll' = [coll EXCEPT ![u] = IF matched THEN Ended(c, a, result) ELSE c]
           /\ dirty' = Note({ShallowOf(u, j.id)}
                              \cup (IF matched THEN Written(u, c, a, result) ELSE {}))
      /\ KillIfOverdue(j)
      /\ worker' = [worker EXCEPT !.todo = @ \ {j}, !.touched = @ \/ matched]
      /\ UNCHANGED <<alive, born, kstatus, waiting, running, recent, saved,
                     submitted, restarts>>

(* The count of its retries never ends.                                    *)
ExamineHangs(j) ==
  LET c == Marked(coll[Current], j)
  IN  /\ At("examine") /\ j \in worker.todo
      /\ IsRunning(coll[Current], j) /\ Of(c, j) # <<>>
      /\ Endless(c, Head(Of(c, j)))
      /\ KillIfOverdue(j)
      /\ worker' = Hung
      /\ UNCHANGED <<alive, born, kstatus, memory, saved, submitted, restarts>>

(* Whatever finished ends the turn; nothing is started then.               *)
Examined ==
  /\ At("examine") /\ worker.todo = {}
  /\ IF worker.touched
       THEN FinishTurn(coll[Current], dirty, TRUE)
       ELSE Goto("start") /\ UNCHANGED <<coll, dirty>>
  /\ UNCHANGED <<clusterVars, waiting, running, recent, saved, submitted, restarts>>

(* processWaitingTests.  The next test is the first that waits, those of   *)
(* the first round before those for retry.                                 *)
Waits(c, list) ==
  Only(list, {i \in DOMAIN list : c.entries[list[i]].status = "Waiting"})
Startable(c) == Waits(c, c.queued) \o Waits(c, c.retry)
MayStart ==
  /\ At("start") /\ worker.slots > 0
  /\ Len(recent) < Nodes
  /\ Startable(coll[Current]) # <<>>
Taken(c, k) == [c EXCEPT !.queued = Without(@, k), !.retry = Without(@, k)]

(* A Job made for entry k.                                                 *)
FreeCopies(u, id) ==
  1..MaxCopies \ {j.copy : j \in {i \in jobs : i.uid = u /\ i.id = id}}
NewJob(u, id) ==
  [uid |-> u, id |-> id, state |-> "pending",
   copy |-> CHOOSE n \in FreeCopies(u, id) : \A m \in FreeCopies(u, id) : n <= m]

StartTest ==
  LET u == Current
      c == coll[u]
      k == Head(Startable(c))
      id == c.entries[k].id
  IN  /\ MayStart /\ u \in alive
      /\ FreeCopies(u, id) # {}
      /\ jobs' = jobs \cup {NewJob(u, id)}
      /\ coll' = [coll EXCEPT ![u] =
                    [Taken(c, k) EXCEPT !.active = Append(@, k),
                                        !.entries[k].status = "Running",
                                        !.entries[k].bucket = "Running"]]
      /\ recent' = Timed(recent)
      /\ dirty' = Note({ShallowOf(u, id)})
      /\ worker' = [worker EXCEPT !.slots = @ - 1, !.touched = TRUE]
      /\ UNCHANGED <<alive, born, kstatus, waiting, running, saved,
                     submitted, restarts>>

(* "On failure, add the removed element to the end of the original slice". *)
Requeued_Dropped(c, k) == Taken(c, k)   \* mutant of Requeued
Requeued(c, k) ==
  IF c.entries[k].bucket = "Queued"
    THEN [Taken(c, k) EXCEPT !.queued = Append(@, k)]
    ELSE [Taken(c, k) EXCEPT !.retry = Append(@, k)]
StartFailed ==
  LET c == coll[Current] IN FinishTurn(Requeued(c, Head(Startable(c))), dirty, TRUE)

(* The object is gone, or another has its name, or the API server refuses. *)
StartFails ==
  /\ MayStart
  /\ Current \notin alive \/ Fault("api")
  /\ StartFailed
  /\ UNCHANGED <<clusterVars, waiting, running, recent, saved, submitted, restarts>>

(* Create reports an error, but the Job is there.                          *)
StartUnacknowledged ==
  LET u == Current
      id == coll[u].entries[Head(Startable(coll[u]))].id
  IN  /\ MayStart /\ u \in alive /\ Fault("api")
      /\ Cardinality(FreeCopies(u, id)) > 1
      /\ jobs' = jobs \cup {NewJob(u, id)}
      /\ StartFailed
      /\ UNCHANGED <<alive, born, kstatus, waiting, running, recent, saved,
                     submitted, restarts>>

StartNoMore ==
  /\ At("start") /\ ~MayStart
  /\ FinishTurn(coll[Current], dirty, worker.touched)
  /\ UNCHANGED <<clusterVars, waiting, running, recent, saved, submitted, restarts>>

(* When no running collection has a test left to start, the next one that  *)
(* waits joins them.                                                       *)
MayPromote == waiting # <<>> /\ ~worker.queue
Promote ==
  /\ At("pass") /\ worker.index > Len(running) /\ MayPromote
  /\ LET u == Head(waiting)
     IN  /\ running' = Append(running, u)
         /\ waiting' = Tail(waiting)
         /\ coll' = [coll EXCEPT ![u] = Promoted(@)]
         /\ dirty' = Note({EntityOf(u)})
         /\ worker' = [Idle EXCEPT !.at = "pass", !.changed = worker.changed \cup {u}]
  /\ UNCHANGED <<clusterVars, recent, saved, submitted, restarts>>
-----------------------------------------------------------------------------
(***************************************************************************)
(* The rest of Process: completed collections, collections whose object is *)
(* gone, the bulk write, the scheduled tasks, the status updates.          *)
(***************************************************************************)

IsComplete_NoRetries(c) == c.queued = <<>> /\ c.active = <<>>   \* mutant
IsComplete(c) == c.queued = <<>> /\ c.active = <<>> /\ c.retry = <<>>
Completing == {u \in Uid : /\ \E i \in DOMAIN running : running[i] = u
                           /\ IsComplete(coll[u])}

(* Whether an object has the name now, be it another one than u.           *)
Borne(u) == \E o \in alive : NameOf[o] = NameOf[u]
Bearer(u) == CHOOSE o \in alive : NameOf[o] = NameOf[u]
Gone == {u \in Uid : Present(u) /\ ~Borne(u)}

(* removeByUUID, for each of them.                                         *)
Dropped(list, gone) == Only(list, {i \in DOMAIN list : list[i] \notin gone})

Settle ==
  /\ At("pass") /\ worker.index > Len(running) /\ ~MayPromote
  /\ \E gone \in SUBSET Gone :
       /\ gone = Gone \/ Fault("api")
       /\ coll' = [u \in Uid |->
            IF u \in gone THEN NoCollection
            ELSE IF u \in Completing THEN Completed(coll[u])
            ELSE coll[u]]
       /\ waiting' = Dropped(waiting, gone)
       /\ running' = Dropped(running, gone \cup Completing)
       /\ dirty' = {d \in dirty : d.uid \notin gone}
                     \cup {EntityOf(u) : u \in Completing \ gone}
       /\ worker' = [Idle EXCEPT !.at = "resolve", !.doomed = gone,
                                 !.changed = worker.changed \cup Completing]
  /\ UNCHANGED <<clusterVars, recent, saved, submitted, restarts>>

(* What a bulk write writes.  There is nothing to write of a test without  *)
(* a result, noted as it is when its id is given again.                    *)
HasResult(c, id) == c.entries[Latest(c, id)].result # "none"
ToWrite == {d \in dirty : d.kind = "result" => HasResult(coll[d.uid], d.id)}

(* The files after a bulk write of some of that, when one of them was left *)
(* empty or cut off, which is as if it were not there.                     *)
Filed(u, some, torn) ==
  LET c == coll[u]
      f == saved[u]
      Ids(items, kind) == {d.id : d \in {e \in items : e.uid = u /\ e.kind = kind}}
      now(kind) == {c.entries[Latest(c, id)] : id \in Ids(some, kind)}
      old(kind) == Ids(some \cup torn, kind)
  IN  [entity |-> IF EntityOf(u) \in some THEN Entity(c)
                  ELSE IF EntityOf(u) \in torn THEN NoEntity ELSE f.entity,
       shallow |-> {e \in f.shallow : e.id \notin old("shallow")}
                     \cup {Shallow(e) : e \in now("shallow")},
       result |-> {r \in f.result : r[1] \notin old("result")}
                     \cup {<<e.id, e.result>> : e \in now("result")}]

(* resolve: the files of doomed collections go, and what is to be written  *)
(* is, in no particular order, up to the first write that fails; what      *)
(* could not be is forgotten.                                              *)
FilesAfter(some, torn, kept) ==
  saved' = [u \in Uid |-> IF u \in worker.doomed \ kept THEN NoFiles
                          ELSE Filed(u, some, torn)]
AllFiled == [i \in DOMAIN recent |-> TRUE]
StartTimes ==   \* those that have a file may have been written now
  {r \in [DOMAIN recent -> BOOLEAN] : \A i \in DOMAIN recent : recent[i] => r[i]}

Resolve ==
  /\ At("register") \/ At("resolve")
  /\ recent' \in StartTimes
  /\ \E some \in SUBSET ToWrite, kept \in SUBSET worker.doomed :
       /\ Fault("io") \/ (some = ToWrite /\ kept = {} /\ recent' = AllFiled)
       /\ \E torn \in SUBSET (ToWrite \ some) :
            /\ Cardinality(torn) <= 1
            /\ FilesAfter(some, torn, kept)
  /\ dirty' = {}
  /\ worker' = [worker EXCEPT !.doomed = {},
                              !.at = IF @ = "register" THEN "pass" ELSE "tasks"]
  /\ UNCHANGED <<clusterVars, coll, waiting, running, submitted, restarts>>

(* cleanupOldJobs: the Jobs of tests that completed, when that is long     *)
(* enough ago, and those no entry is known of; a Delete may fail.          *)
Orphans == {j \in jobs : ~Present(j.uid) \/ ~HasEntry(coll[j.uid], j.id)}
Processed == {j \in jobs \ Orphans :
  /\ j.state = "done"
  /\ coll[j.uid].entries[Latest(coll[j.uid], j.id)].status \in {"Complete", "Expired"}}
CleanJobs ==
  /\ Fault("due") /\ At("tasks")
  /\ \E old \in SUBSET Processed, refused \in SUBSET (Orphans \cup Processed) :
       /\ refused = {} \/ Fault("api")
       /\ jobs' = jobs \ ((Orphans \cup old) \ refused)
       /\ dirty' = Note({ShallowOf(j.uid, j.id) : j \in old})
  /\ Goto("prune")
  /\ UNCHANGED <<alive, born, kstatus, coll, waiting, running, recent, saved,
                 submitted, restarts>>

(* taskRemoveOldDatabaseKeys.                                              *)
PruneFiles ==
  /\ Fault("due") /\ (At("tasks") \/ At("prune"))
  /\ saved' = [u \in Uid |-> IF Present(u) THEN saved[u] ELSE NoFiles]
  /\ Goto("publish")
  /\ UNCHANGED <<clusterVars, memory, submitted, restarts>>

(* The status updates, in no particular order.  The first that fails ends  *)
(* Process.                                                                *)
Publishing == At("tasks") \/ At("prune") \/ At("publish")
Endlessly(c) == \E i \in DOMAIN c.entries : Endless(c, Latest(c, c.entries[i].id))

(* "Ensure we are not updating an old object with the same name".          *)
IsOwn_NotAsked(u) == Borne(u) /\ Present(u)   \* mutant of IsOwn
IsOwn(u) == u \in alive

Published(u) ==
  worker' = IF worker.changed = {u} THEN Idle
            ELSE [worker EXCEPT !.at = "publish", !.changed = @ \ {u}]
Publish(u) ==
  /\ Publishing /\ u \in worker.changed /\ IsOwn(u)
  /\ ~Endlessly(coll[u])
  /\ kstatus' = [kstatus EXCEPT ![Bearer(u)] = Public(coll[u])]
  /\ Published(u)
  /\ UNCHANGED <<alive, born, jobs, memory, saved, submitted, restarts>>

PublishSkips(u) ==
  /\ Publishing /\ u \in worker.changed
  /\ Borne(u) /\ ~IsOwn(u)
  /\ Published(u)
  /\ UNCHANGED <<clusterVars, memory, saved, submitted, restarts>>

PublishHangs(u) ==
  /\ Publishing /\ u \in worker.changed \cap alive
  /\ Endlessly(coll[u])
  /\ worker' = Hung
  /\ UNCHANGED <<clusterVars, memory, saved, submitted, restarts>>

PublishFails ==
  /\ Publishing /\ worker.changed # {}
  /\ Fault("api") \/ \E u \in worker.changed : ~Borne(u)
  /\ worker' = Idle
  /\ UNCHANGED <<clusterVars, memory, saved, submitted, restarts>>

PublishNone ==
  /\ Publishing /\ worker.changed = {}
  /\ worker' = Idle
  /\ UNCHANGED <<clusterVars, memory, saved, submitted, restarts>>
-----------------------------------------------------------------------------
(***************************************************************************)
(* Crashes and restarts.                                                   *)
(***************************************************************************)

(* The start times that are found again: those that have a file.           *)
Reloaded(times) == Only(times, {i \in DOMAIN times : times[i]})

(* The operator's process ends, and its memory with it.                    *)
Die(times) ==
  /\ coll' = [u \in Uid |-> NoCollection]
  /\ waiting' = <<>> /\ running' = <<>> /\ dirty' = {}
  /\ recent' = Reloaded(times)
  /\ worker' = Down
  /\ UNCHANGED <<alive, born, kstatus, submitted>>

Killed == /\ restarts < MaxRestarts
          /\ restarts' = restarts + 1

Crash == /\ ~At("down")
         /\ Killed
         /\ Die(recent)
         /\ UNCHANGED <<jobs, saved>>

(* Killed during a bulk write: some files are written, and one may have    *)
(* been created and not yet written.                                       *)
CrashWriting ==
  /\ At("register") \/ At("resolve")
  /\ Fault("torn") /\ Killed
  /\ \E some \in SUBSET ToWrite, kept \in SUBSET worker.doomed :
       \E torn \in SUBSET (ToWrite \ some) :
         /\ Cardinality(torn) <= 1
         /\ FilesAfter(some, torn, kept)
  /\ \E times \in StartTimes : Die(times)
  /\ UNCHANGED jobs

(* An entry that a retry points to is not there, so a nil pointer is       *)
(* followed, after the Job that is to be killed is deleted.  That takes a  *)
(* restart before it, and is not counted as one.                           *)
ExaminePanics(j) ==
  LET c == Marked(coll[Current], j)
  IN  /\ At("examine") /\ j \in worker.todo
      /\ IsRunning(coll[Current], j) /\ Of(c, j) # <<>>
      /\ Broken(c, Head(Of(c, j)))
      /\ KillIfOverdue(j)
      /\ Die(recent)
      /\ UNCHANGED <<saved, restarts>>

(* load: the collections whose file can be read and whose object exists,   *)
(* each with the entries whose files can be read, in the order of their    *)
(* ids; the lists of collections are in the order of submission.  One      *)
(* whose object cannot be read is skipped.                                 *)
Named(entries, bucket) ==
  InOrder({k \in DOMAIN entries : entries[k].bucket = bucket},
          [k \in DOMAIN entries |-> k])
Entries(f) ==
  LET entries == InOrder(f.shallow, [e \in f.shallow |-> e.id])
      Result(id) == {r \in f.result : r[1] = id}
  IN  [k \in DOMAIN entries |->
         [entries[k] EXCEPT !.result =
            IF Result(entries[k].id) = {} THEN "none"
            ELSE (CHOOSE r \in Result(entries[k].id) : TRUE)[2]]]
Collected(f, entries) ==
  [bucket |-> f.entity.bucket, date |-> f.entity.date,
   started |-> f.entity.started, next |-> f.entity.next, entries |-> entries,
   queued |-> Named(entries, "Queued"), active |-> Named(entries, "Running"),
   retry |-> Named(entries, "Retry")]

(* Mutants of Loaded: results are not read; entries for retry are put in   *)
(* no list; lists are made of ids.                                         *)
Loaded_NoResults(f) == Collected(f, InOrder(f.shallow, [e \in f.shallow |-> e.id]))
Loaded_NoRetries(f) == [Collected(f, Entries(f)) EXCEPT !.retry = <<>>]
Loaded_Ids(f) ==
  [Collected(f, Entries(f)) EXCEPT !.retry =
     [i \in DOMAIN @ |-> Entries(f)[@[i]].id]]

Loaded(f) == Collected(f, Entries(f))

InBucket(found, bucket) == {u \in found : saved[u].entity.bucket = bucket}
Listing_Newest(found, bucket) ==   \* mutant of Listing
  InOrder(InBucket(found, bucket),
          [u \in found |-> submitted - saved[u].entity.date])
Listing(found, bucket) ==
  InOrder(InBucket(found, bucket), [u \in found |-> saved[u].entity.date])

Loadable == {u \in alive : saved[u].entity # NoEntity}
Load ==
  /\ At("down")
  /\ \E found \in SUBSET Loadable :
       /\ found = Loadable \/ Fault("api")
       /\ coll' = [u \in Uid |-> IF u \in found THEN Loaded(saved[u]) ELSE NoCollection]
       /\ waiting' = Listing(found, "Waiting")
       /\ running' = Listing(found, "Running")
  /\ worker' = Idle
  /\ UNCHANGED <<clusterVars, dirty, recent, saved, submitted, restarts>>
-----------------------------------------------------------------------------
(***************************************************************************)
(* The cluster: users, the Job controller, the garbage collector, time.    *)
(***************************************************************************)

operatorVars == <<memory, saved, worker, submitted, restarts>>

CreateObject(u) ==
  /\ u \notin born /\ ~Borne(u)
  /\ alive' = alive \cup {u} /\ born' = born \cup {u}
  /\ UNCHANGED <<kstatus, jobs, operatorVars>>

DeleteObject(u) ==
  /\ Fault("delete") /\ u \in alive
  /\ alive' = alive \ {u}
  /\ kstatus' = [kstatus EXCEPT ![u] = NoStatus]
  /\ UNCHANGED <<born, jobs, operatorVars>>

Become(j, state) ==
  /\ jobs' = (jobs \ {j}) \cup {[j EXCEPT !.state = state]}
  /\ UNCHANGED <<alive, born, kstatus, operatorVars>>

StartJob(j) == j.state = "pending" /\ Become(j, "running")
FinishJob(j) == j.state \in {"running", "overdue"} /\ Become(j, "done")
ExpireJob(j) == Fault("slow") /\ j.state = "running" /\ Become(j, "overdue")

(* A Job disappears with its owner, or because somebody deletes it.        *)
RemoveJob(j) ==
  /\ j.uid \notin alive \/ Fault("jobloss")
  /\ jobs' = jobs \ {j}
  /\ UNCHANGED <<alive, born, kstatus, operatorVars>>

(* MinimumTimeBetweenTestRuns passes since the earliest start it covers.   *)
WindowPasses ==
  /\ recent # <<>>
  /\ recent' = Forgotten(recent)
  /\ UNCHANGED <<clusterVars, coll, waiting, running, dirty, saved, worker,
                 submitted, restarts>>
-----------------------------------------------------------------------------
(***************************************************************************)
(* The specification.                                                      *)
(***************************************************************************)

Init ==
  /\ alive = {} /\ born = {} /\ jobs = {}
  /\ kstatus = [u \in Uid |-> NoStatus]
  /\ coll = [u \in Uid |-> NoCollection]
  /\ waiting = <<>> /\ running = <<>> /\ dirty = {} /\ recent = <<>>
  /\ saved = [u \in Uid |-> NoFiles]
  /\ worker = Idle
  /\ submitted = 0 /\ restarts = 0

Examine(j) == ExamineAgain(j) \/ ExamineJob(j) \/ ExamineHangs(j)
Start == StartTest \/ StartFails \/ StartUnacknowledged \/ StartNoMore
Tasks == CleanJobs \/ PruneFiles
Publication ==
  \/ \E u \in Uid : Publish(u) \/ PublishSkips(u) \/ PublishHangs(u)
  \/ PublishFails \/ PublishNone

Process ==
  \/ ListJobs \/ ListFails
  \/ (\E j \in worker.todo : Examine(j)) \/ Examined
  \/ Start \/ Promote \/ Settle \/ Resolve \/ Publication
Operator == Process \/ Load

JobStep(j) == StartJob(j) \/ FinishJob(j) \/ ExpireJob(j)

Next ==
  \/ Operator \/ Tasks
  \/ \E u \in Uid : Reconcile(u) \/ CreateObject(u) \/ DeleteObject(u)
  \/ Crash \/ CrashWriting \/ \E j \in worker.todo : ExaminePanics(j)
  \/ \E j \in jobs : JobStep(j) \/ RemoveJob(j)
  \/ WindowPasses

Spec == Init /\ [][Next]_vars

(* Fairness.  The worker runs, and takes the requests to reconcile in the  *)
(* order of a queue, so that none waits for ever; a Job starts, and then   *)
(* finishes or reaches its expire time, but need do nothing after that;    *)
(* time passes.                                                            *)
Fairness ==
  /\ WF_vars(Operator)
  /\ \A u \in Uid : SF_vars(Reconcile(u))
  /\ WF_vars(\E j \in jobs : j.state # "overdue" /\ JobStep(j))
  /\ WF_vars(WindowPasses)

FairSpec == Spec /\ Fairness
-----------------------------------------------------------------------------
(***************************************************************************)
(* Properties.                                                             *)
(***************************************************************************)

(* The types of the variables.                                             *)
CollectionOK(c) ==
  /\ DOMAIN c = DOMAIN NoCollection
  /\ c.bucket \in CollState /\ c.date \in Nat /\ c.started \in BOOLEAN /\ c.next \in Nat
  /\ c.entries \in Seq(Entry)
  /\ \A list \in {c.queued, c.active, c.retry} : list \in Seq(DOMAIN c.entries)
TypeOK ==
  /\ alive \subseteq born /\ born \subseteq Uid
  /\ jobs \subseteq Job
  /\ \A u \in Uid : CollectionOK(coll[u])
  /\ waiting \in Seq(Uid) /\ running \in Seq(Uid) /\ recent \in Seq(BOOLEAN)
  /\ \A u \in Uid : saved[u].shallow \subseteq Entry /\ saved[u].entity.bucket \in CollState
  /\ worker.at \in {"idle", "register", "pass", "examine", "start", "resolve",
                    "tasks", "prune", "publish", "hung", "down"}
  /\ worker.changed \subseteq Uid /\ worker.doomed \subseteq Uid

(* "Ensure that testEntries that are removed from tc.queuedTests or tc.    *)
(* waitingTests are restored" (kouplettest_models.go:705): whatever fails, *)
(* every entry is in exactly the list its bucket names, and there once.    *)
Places(list, k) == {i \in DOMAIN list : list[i] = k}
EveryEntryListed ==
  \A u \in Uid : \A k \in DOMAIN coll[u].entries :
    LET bucket == coll[u].entries[k].bucket
        Holds(name, list) ==
          Cardinality(Places(list, k)) = (IF bucket = name THEN 1 ELSE 0)
    IN  /\ Holds("Queued", coll[u].queued)
        /\ Holds("Running", coll[u].active)
        /\ Holds("Retry", coll[u].retry)

(* However Jobs end, or the operator does, a collection never has more     *)
(* Jobs that have not completed than MaxActiveTests * NumberOfNodes.       *)
ActiveBounded == \A u \in Uid : Cardinality(Unfinished(u)) <= MaxActive

(* No test runs more than FailureRetries times after its first run, and no *)
(* run is retried twice.                                                   *)
RetriesBounded ==
  \A u \in Uid : LET c == coll[u] IN
    /\ \A k \in DOMAIN c.entries : Retries(c, k) <= FailureRetries
    /\ \A k, i \in DOMAIN c.entries :
         c.entries[k].from = c.entries[i].from => k = i \/ c.entries[k].from = 0

(* While the operator is not killed, every Job of an existing object that  *)
(* has not ended is the only one of a test that is running: none goes on   *)
(* that nobody waits for, or counts against MaxActiveTests for ever.       *)
NoStrayJob ==
  \A j \in jobs : j.state # "done" /\ j.uid \in alive =>
    /\ Present(j.uid) /\ HasEntry(coll[j.uid], j.id)
    /\ coll[j.uid].entries[Latest(coll[j.uid], j.id)].status = "Running"
    /\ \A i \in jobs : i.uid = j.uid /\ i.id = j.id => i = j

(* A KoupletTest is published as complete only when each of its tests has  *)
(* passed, or has failed and been retried to the end, and the files say    *)
(* so.                                                                     *)
RunsOf(c, id) ==
  {k \in DOMAIN c.entries :
     \E d \in 0..Len(c.entries) : Index(c, id) = Lineage(c, k)[d]}
GaveUp(c, k) ==
  \/ c.entries[k].result = "pass"
  \/ c.entries[k].result = "fail" /\ Retries(c, k) = FailureRetries
CompleteMeansDone ==
  \A u \in Uid : kstatus[u].status = "Complete" =>
    LET c == Loaded(saved[u])
    IN  \A id \in 1..NumTests[u] : \E k \in RunsOf(c, id) : GaveUp(c, k)

(* Collections take their turns in the order in which they were submitted, *)
(* across restarts: those that run came before those that wait, and each   *)
(* is in the list its bucket names.                                        *)
CollectionsInLine ==
  LET line == running \o waiting
  IN  /\ \A i, k \in DOMAIN line : i < k => coll[line[i]].date < coll[line[k]].date
      /\ \A u \in Uid : /\ coll[u].bucket = "Running" <=> Places(running, u) # {}
                        /\ coll[u].bucket = "Waiting" <=> Places(waiting, u) # {}

(* At any time the files alone are enough to go on from: they hold every   *)
(* test of a collection, the result of every test that ended, and the      *)
(* retry of every one that failed and may be retried.                      *)
FilesSuffice ==
  \A u \in Uid : saved[u].entity # NoEntity =>
    LET c == Loaded(saved[u]) IN
      /\ \A id \in 1..NumTests[u] : HasEntry(c, id)
      /\ \A k \in DOMAIN c.entries :
           /\ c.entries[k].bucket = "Completed" <=> c.entries[k].result # "none"
           /\ c.entries[k].result = "fail" =>
                \/ Retries(c, k) = FailureRetries
                \/ \E i \in DOMAIN c.entries : c.entries[i].from = c.entries[k].id

(* "Calculate the percent by looking for the retry with the highest        *)
(* percentage" (kouplettest_models.go:524): the percentage published of a  *)
(* KoupletTest is that of the tests in its spec of which some run, by the  *)
(* results published with it and the retries on file, has passed.          *)
PercentEarned ==
  \A u \in alive : kstatus[u].status # "" =>
    LET c == Loaded(saved[u])
        Passed(id) == \E k \in RunsOf(c, id) :
                        <<c.entries[k].id, "pass">> \in kstatus[u].results
    IN  kstatus[u].percent
          = Share(Cardinality({id \in 1..NumTests[u] : Passed(id)}), NumTests[u])

(* Whatever is published was saved before: no restart takes it back.       *)
PublishedIsSaved ==
  \A u \in alive :
    /\ kstatus[u].results \subseteq saved[u].result
    /\ kstatus[u].status = "Complete" => saved[u].entity.bucket = "Completed"

(* What users were told stays: a published result is not withdrawn, nor    *)
(* changed, the percentage never falls, though the tests that fail are     *)
(* retried, nor is a KoupletTest that was complete anything else later.    *)
PublishedStays ==
  [][\A u \in alive' :
       /\ kstatus[u].results \subseteq kstatus'[u].results
       /\ kstatus[u].percent <= kstatus'[u].percent
       /\ kstatus[u].status = "Complete" => kstatus'[u] = kstatus[u]]_vars

(* Every KoupletTest is complete some day, and published as such, as long  *)
(* as each Job starts, and ends or reaches its expire time.                *)
AllTestsEnd == \A u \in Uid : u \in alive ~> kstatus[u].status = "Complete"

(* "How many times have we already retried this test?"                     *)
(* (kouplettest_models.go:1373): the worker finds out.                     *)
RetriesAreCounted == ~At("hung")

(* "GC collections which do not have a corresponding kube object"          *)
(* (kouplettest_models.go:98): a collection whose object is deleted is     *)
(* dropped.                                                                *)
DeletedAreDropped == \A u \in Uid : u \in born \ alive ~> ~Present(u)
=============================================================================

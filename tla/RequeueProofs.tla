----------------------------- MODULE RequeueProofs -----------------------------
(***************************************************************************)
(* Theorems about Requeue, for every set of names, finite or not, and for  *)
(* every Window, Delay and bound.                                          *)
(***************************************************************************)
EXTENDS Requeue, FiniteSetTheorems, SequenceTheorems, TLAPS

-----------------------------------------------------------------------------
(***************************************************************************)
(* The work queue.                                                         *)
(***************************************************************************)

(* A sequence of names without repetitions.                                *)
Unrepeated(s) == s \in Seq(Name) /\ IsInjective(s)

(* Append puts a new name in, behind what is there, and repeats none.      *)
LEMMA AppendKeeps ==
  ASSUME NEW s, Unrepeated(s), NEW n \in Name
  PROVE  /\ Append(s, n) \in Seq(Name)
         /\ \A m : Contains(Append(s, n), m) <=> m = n \/ Contains(s, m)
         /\ ~Contains(s, n) => Unrepeated(Append(s, n))
<1> DEFINE t == Append(s, n)
<1>1. /\ t \in Seq(Name) /\ Len(t) = Len(s) + 1 /\ Len(s) \in Nat
      /\ DOMAIN t = 1..Len(t) /\ DOMAIN s = 1..Len(s)
      /\ \A i \in 1..Len(s) : t[i] = s[i]
      /\ t[Len(s) + 1] = n
  BY DEF Unrepeated
<1> HIDE DEF t
<1>2. \A m : Contains(t, m) => m = n \/ Contains(s, m)
  BY <1>1 DEF Contains
<1>3. Contains(t, n) /\ \A m : Contains(s, m) => Contains(t, m)
  BY <1>1 DEF Contains
<1>4. ~Contains(s, n) => IsInjective(t)
  <2>1. SUFFICES ASSUME ~Contains(s, n),
                        NEW i \in DOMAIN t, NEW j \in DOMAIN t, t[i] = t[j]
                 PROVE  i = j
    BY DEF IsInjective
  <2>2. CASE i <= Len(s) /\ j <= Len(s)
    BY <1>1, <2>1, <2>2 DEF Unrepeated, IsInjective
  <2>3. CASE i > Len(s) /\ j > Len(s)
    BY <1>1, <2>3
  <2>4. CASE (i <= Len(s) /\ j > Len(s)) \/ (i > Len(s) /\ j <= Len(s))
    BY <1>1, <2>1, <2>4 DEF Contains
  <2> QED
    BY <1>1, <2>2, <2>3, <2>4
<1> QED
  BY <1>1, <1>2, <1>3, <1>4 DEF Unrepeated, t

(* Tail takes the head out and leaves the others.                          *)
LEMMA TailKeeps ==
  ASSUME NEW s, Unrepeated(s), s # <<>>
  PROVE  /\ Head(s) \in Name /\ Unrepeated(Tail(s))
         /\ ~Contains(Tail(s), Head(s))
         /\ \A n : Contains(s, n) => n = Head(s) \/ Contains(Tail(s), n)
<1> DEFINE t == Tail(s)
<1>1. /\ Head(s) \in Name /\ Head(s) = s[1]
      /\ t \in Seq(Name) /\ Len(t) = Len(s) - 1
      /\ DOMAIN t = 1..Len(t) /\ DOMAIN s = 1..Len(s) /\ Len(s) \in Nat \ {0}
      /\ \A i \in 1..Len(t) : t[i] = s[i + 1]
  BY HeadTailProperties, EmptySeq DEF Unrepeated
<1> HIDE DEF t
<1>2. IsInjective(t)
  BY <1>1 DEF IsInjective, Unrepeated
<1>3. ~Contains(t, Head(s))
  BY <1>1 DEF Contains, IsInjective, Unrepeated
<1>4. ASSUME NEW n, Contains(s, n), n # Head(s)
      PROVE  Contains(t, n)
  <2>1. PICK i \in 1..Len(s) : s[i] = n
    BY <1>4 DEF Contains
  <2>2. i - 1 \in 1..Len(t) /\ t[i - 1] = n
    BY <1>1, <1>4, <2>1
  <2> QED
    BY <2>2 DEF Contains
<1> QED
  BY <1>1, <1>2, <1>3, <1>4 DEF Unrepeated, t

(* The objects that are listed come once each, in any order.               *)
LEMMA ListKeeps ==
  ASSUME NEW S \in SUBSET Name, IsFiniteSet(S), NEW s \in SetToSeqs(S)
  PROVE  Unrepeated(s) /\ \A n \in S : Contains(s, n)
<1> DEFINE c == Cardinality(S)
<1>1. c \in Nat
  BY FS_CardinalityType
<1>2. s \in [1..c -> S] /\ \A i, j \in 1..c : i # j => s[i] # s[j]
  BY DEF SetToSeqs
<1> HIDE DEF c
<1>3. s \in Seq(Name) /\ Len(s) = c
  BY <1>1, <1>2
<1>4. s \in Injection(1..c, S)
  BY <1>2 DEF Injection, IsInjective
<1>5. s \in Surjection(1..c, S)
  <2>1. Cardinality(1..c) = c /\ IsFiniteSet(1..c)
    BY <1>1, FS_Interval
  <2> QED
    BY <1>4, <2>1, FS_Injection DEF c
<1> QED
  BY <1>1, <1>2, <1>3, <1>5 DEF Unrepeated, IsInjective, Contains, Surjection

(* There are only names in such a sequence.                                *)
LEMMA NamesOnly ==
  ASSUME NEW s, Unrepeated(s)
  PROVE  ~Contains(s, NoName)
BY RequeueAssumption DEF Contains, Unrepeated

-----------------------------------------------------------------------------
(***************************************************************************)
(* Types.                                                                  *)
(***************************************************************************)

(* Finitely many objects exist.  What the worker is at is not queued as    *)
(* well, and there is no work and no timer while no process leads: the     *)
(* list of the objects is the first that comes into the queue.             *)
AtRest == processing = NoName /\ queue = <<>> /\ waiting = [n \in Name |-> NotWaiting]
RequeueInv ==
  /\ TypeOK
  /\ IsFiniteSet(exists)
  /\ ~Contains(queue, processing)
  /\ process # "leading" => AtRest

(* Add leaves a queue behind that has the request once, or marks it.       *)
LEMMA AddKeeps ==
  ASSUME RequeueInv, NEW n \in Name, Add(n)
  PROVE  /\ Unrepeated(queue') /\ again' \in BOOLEAN
         /\ ~Contains(queue', processing)
         /\ Contains(queue', n) \/ (processing = n /\ again')
         /\ \A m : Contains(queue, m) => Contains(queue', m)
         /\ again => again'
<1>1. Unrepeated(queue) /\ again \in BOOLEAN /\ ~Contains(queue, processing)
  BY DEF RequeueInv, TypeOK, Unrepeated
<1>2. CASE processing = n \/ Contains(queue, n)
  BY <1>1, <1>2 DEF Add
<1>3. CASE ~(processing = n \/ Contains(queue, n))
  BY <1>1, <1>3, AppendKeeps DEF Add
<1> QED
  BY <1>2, <1>3

(* A watch event is an Add, or nothing where nobody leads.                 *)
LEMMA NotifyKeeps ==
  ASSUME RequeueInv, NEW n \in Name, Notify(n)
  PROVE  /\ Unrepeated(queue') /\ again' \in BOOLEAN
         /\ ~Contains(queue', processing)
         /\ process # "leading" => queue' = queue
BY AddKeeps DEF Notify, RequeueInv, TypeOK, Unrepeated

(* Done leaves the worker without a request, and queues it if marked.      *)
LEMMA DoneKeeps ==
  ASSUME RequeueInv, processing # NoName, Done
  PROVE  /\ Unrepeated(queue') /\ again' = FALSE /\ processing' = NoName
         /\ ~Contains(queue', NoName)
         /\ again => Contains(queue', processing)
         /\ \A m : Contains(queue, m) => Contains(queue', m)
<1>1. Unrepeated(queue) /\ ~Contains(queue, processing) /\ processing \in Name
      /\ again \in BOOLEAN
  BY DEF RequeueInv, TypeOK, Unrepeated
<1>2. CASE again
  <2>1. queue' = Append(queue, processing)
    BY <1>2 DEF Done
  <2>2. Unrepeated(queue') /\ Contains(queue', processing)
    BY <1>1, <2>1, AppendKeeps
  <2>3. \A m : Contains(queue, m) => Contains(queue', m)
    BY <1>1, <2>1, AppendKeeps
  <2> QED
    BY <1>2, <2>2, <2>3, NamesOnly DEF Done
<1>3. CASE ~again
  <2>1. queue' = queue /\ again' = FALSE /\ processing' = NoName
    BY <1>3 DEF Done
  <2> QED
    BY <1>1, <1>3, <2>1, NamesOnly
<1> QED
  BY <1>2, <1>3

(* A timer that is set to come sooner, or set at all.                      *)
LEMMA SoonerKeeps ==
  ASSUME TypeOK, NEW n \in Name, NEW ticks \in 0..Delay \cup 0..MaxBackoff
  PROVE  /\ Sooner(n, ticks) \in [Name -> 0..Delay \cup 0..MaxBackoff \cup {NotWaiting}]
         /\ Sooner(n, ticks)[n] <= ticks
         /\ Sooner(n, ticks)[n] \in {ticks, waiting[n]}
         /\ \A m \in Name \ {n} : Sooner(n, ticks)[m] = waiting[m]
BY RequeueAssumption DEF TypeOK, Sooner, NotWaiting

LEMMA RequeueInitInv == Init => RequeueInv
<1> SUFFICES ASSUME Init PROVE RequeueInv
  OBVIOUS
<1>1. TypeOK
  <2>1. waiting \in [Name -> 0..Delay \cup 0..MaxBackoff \cup {NotWaiting}]
    BY DEF Init
  <2>2. queue \in Seq(Name) /\ IsInjective(queue)
    BY DEF Init, IsInjective
  <2>3. window \in -1..Window /\ errors \in 0..MaxErrors /\ lag \in 0..MaxLag
    BY RequeueAssumption DEF Init, FirstWindow
  <2> QED
    BY <2>1, <2>2, <2>3 DEF Init, TypeOK
<1> QED
  BY <1>1, FS_EmptySet DEF Init, RequeueInv, AtRest, Contains

LEMMA WorkerKeeps == RequeueInv /\ Worker => RequeueInv'
<1> SUFFICES ASSUME RequeueInv, Worker PROVE RequeueInv'
  OBVIOUS
<1>1. Unrepeated(queue) /\ TypeOK
  BY DEF RequeueInv, TypeOK, Unrepeated
<1>2. CASE Take
  <2>1. /\ Head(queue) \in Name /\ Unrepeated(Tail(queue))
        /\ ~Contains(Tail(queue), Head(queue))
    BY <1>1, <1>2, TailKeeps DEF Take
  <2> QED
    BY <1>2, <2>1 DEF Take, RequeueInv, TypeOK, Unrepeated, AtRest
<1>3. CASE Return \/ ReturnError
  <2>1. processing # NoName /\ processing \in Name /\ Done /\ process = "leading"
    BY <1>1, <1>3 DEF Return, ReturnError, TypeOK, RequeueInv, AtRest
  <2>2. waiting' \in [Name -> 0..Delay \cup 0..MaxBackoff \cup {NotWaiting}]
    <3>1. CASE Return
      <4>1. Delay \in 0..Delay \cup 0..MaxBackoff
        BY RequeueAssumption
      <4> QED
        BY <1>1, <2>1, <3>1, <4>1, SoonerKeeps DEF Return, TypeOK, RequeueAfter
    <3>2. CASE ReturnError
      <4>1. PICK backoff \in 1..MaxBackoff : waiting' = Sooner(processing, backoff)
        BY <3>2 DEF ReturnError, Retry
      <4>2. backoff \in 0..Delay \cup 0..MaxBackoff
        BY <4>1, RequeueAssumption
      <4> QED
        BY <1>1, <2>1, <4>1, <4>2, SoonerKeeps
    <3> QED
      BY <1>3, <3>1, <3>2
  <2>3. window' \in -1..Window /\ errors' \in 0..MaxErrors /\ lag' \in 0..MaxLag
    BY <1>1, <1>3, RequeueAssumption DEF Return, ReturnError, TypeOK, NextWindow
  <2>4. UNCHANGED <<exists, process>>
    BY <1>3 DEF Return, ReturnError
  <2>5. /\ Unrepeated(queue') /\ again' = FALSE /\ processing' = NoName
        /\ ~Contains(queue', NoName)
    BY <2>1, DoneKeeps
  <2>6. TypeOK'
    BY <1>1, <2>2, <2>3, <2>4, <2>5 DEF TypeOK, Unrepeated
  <2> QED
    BY <2>1, <2>4, <2>5, <2>6 DEF RequeueInv
<1> QED
  BY <1>2, <1>3 DEF Worker

LEMMA ManagerKeeps == RequeueInv /\ Manager => RequeueInv'
<1> SUFFICES ASSUME RequeueInv, Manager PROVE RequeueInv'
  OBVIOUS
<1>1. CASE Setup
  BY <1>1 DEF Setup, memory, RequeueInv, TypeOK, AtRest
<1>2. CASE Lead
  <2>1. Unrepeated(queue')
    BY <1>2, ListKeeps DEF Lead, RequeueInv, TypeOK
  <2>2. processing = NoName
    BY <1>2 DEF Lead, RequeueInv, AtRest
  <2>3. ~Contains(queue', processing')
    <3>1. ~Contains(queue', NoName) /\ processing' = NoName
      BY <1>2, <2>1, <2>2, NamesOnly DEF Lead
    <3> QED
      BY <3>1
  <2> QED
    BY <1>2, <2>1, <2>3 DEF Lead, RequeueInv, TypeOK, Unrepeated
<1>3. CASE Exit
  <2>1. waiting' \in [Name -> 0..Delay \cup 0..MaxBackoff \cup {NotWaiting}]
    BY <1>3 DEF Exit, NoMemory
  <2>2. queue' \in Seq(Name) /\ IsInjective(queue') /\ ~Contains(queue', processing')
    BY <1>3 DEF Exit, NoMemory, IsInjective, Contains
  <2>3. AtRest'
    BY <1>3 DEF Exit, NoMemory, AtRest, NotWaiting
  <2>4. window' \in -1..Window /\ errors' \in 0..MaxErrors /\ lag' \in 0..MaxLag
    BY <1>3, RequeueAssumption DEF Exit, NoMemory, FirstWindow
  <2>5. TypeOK'
    BY <1>3, <2>1, <2>2, <2>4
       DEF Exit, NoMemory, RequeueInv, TypeOK, NotWaiting
  <2> QED
    BY <1>3, <2>2, <2>3, <2>5 DEF Exit, RequeueInv
<1> QED
  BY <1>1, <1>2, <1>3 DEF Manager

LEMMA ClusterKeeps ==
  ASSUME NEW n \in Name, RequeueInv,
         CreateObject(n) \/ DeleteObject(n) \/ ChangeObject(n)
  PROVE  RequeueInv'
<1>1. UNCHANGED <<process, processing, waiting, window, errors, lag>>
  BY DEF CreateObject, DeleteObject, ChangeObject
<1>2. /\ Unrepeated(queue') /\ again' \in BOOLEAN
      /\ ~Contains(queue', processing)
      /\ process # "leading" => queue' = queue
  BY NotifyKeeps DEF CreateObject, DeleteObject, ChangeObject
<1>3. exists' \subseteq Name /\ IsFiniteSet(exists')
  BY FS_AddElement, FS_RemoveElement
     DEF CreateObject, DeleteObject, ChangeObject, RequeueInv, TypeOK
<1>4. TypeOK'
  BY <1>1, <1>2, <1>3 DEF RequeueInv, TypeOK, Unrepeated, NotWaiting
<1> QED
  BY <1>1, <1>2, <1>3, <1>4 DEF RequeueInv, AtRest, NotWaiting

LEMMA ReadyKeeps ==
  ASSUME NEW n \in Name, RequeueInv, Ready(n)
  PROVE  RequeueInv'
<1>1. /\ Unrepeated(queue') /\ again' \in BOOLEAN
      /\ ~Contains(queue', processing)
  BY AddKeeps DEF Ready
<1>2. process = "leading"
  BY RequeueAssumption DEF Ready, RequeueInv, AtRest, NotWaiting
<1>3. TypeOK'
  BY <1>1 DEF Ready, RequeueInv, TypeOK, Unrepeated, NotWaiting
<1> QED
  BY <1>1, <1>2, <1>3 DEF Ready, RequeueInv

LEMMA TickKeeps == RequeueInv /\ Tick => RequeueInv'
<1> SUFFICES ASSUME RequeueInv, Tick PROVE RequeueInv'
  OBVIOUS
<1>1. waiting' \in [Name -> 0..Delay \cup 0..MaxBackoff \cup {NotWaiting}]
  BY RequeueAssumption DEF Tick, RequeueInv, TypeOK, NotWaiting
<1>2. window' \in -1..Window /\ lag' \in 0..MaxLag
  BY RequeueAssumption DEF Tick, RequeueInv, TypeOK
<1>3. TypeOK'
  BY <1>1, <1>2 DEF Tick, RequeueInv, TypeOK, NotWaiting
<1>4. AtRest => AtRest'
  BY DEF Tick, AtRest, NotWaiting
<1> QED
  BY <1>3, <1>4 DEF Tick, RequeueInv

LEMMA RequeueStepInv == RequeueInv /\ [Next]_vars => RequeueInv'
<1> SUFFICES ASSUME RequeueInv, [Next]_vars PROVE RequeueInv'
  OBVIOUS
<1>1. CASE UNCHANGED vars
  BY <1>1 DEF vars, RequeueInv, TypeOK, AtRest, NotWaiting
<1>2. CASE Cluster
  BY <1>2, ClusterKeeps DEF Cluster
<1>3. CASE \E n \in Name : Ready(n)
  BY <1>3, ReadyKeeps
<1> QED
  BY <1>1, <1>2, <1>3, WorkerKeeps, ManagerKeeps, TickKeeps DEF Next

(* Every step keeps the types, the queue without repetitions among them.   *)
THEOREM RequeueInvariant == Spec => []RequeueInv
<1> QED
  BY RequeueInitInv, RequeueStepInv, PTL DEF Spec

-----------------------------------------------------------------------------
(***************************************************************************)
(* The timers.                                                             *)
(***************************************************************************)

(* While no reconcile has failed, the timers are Window and a tick apart,  *)
(* and each has waited at least as long as the deadline has been set: so a *)
(* timer that is set once the deadline is past comes after all others.     *)
Timers == {n \in Name : waiting[n] # NotWaiting}
Apart(m, n) == waiting[m] + Window < waiting[n] \/ waiting[n] + Window < waiting[m]
TimersInv ==
  errors = 0 =>
    /\ \A n \in Timers : waiting[n] \in 0..Delay - Window + window
    /\ \A m, n \in Timers : m # n => Apart(m, n)

(* The timers that there are stay as they are.                             *)
LEMMA TimersStay ==
  ASSUME TimersInv, waiting' = waiting, window' = window, errors' = errors
  PROVE  TimersInv'
BY DEF TimersInv, Timers, Apart, NotWaiting

LEMMA ReturnTimers == RequeueInv /\ TimersInv /\ Return => TimersInv'
<1> SUFFICES ASSUME RequeueInv, TimersInv, Return, errors' = 0 PROVE TimersInv'
  BY DEF TimersInv
<1>1. processing \in Name /\ TypeOK /\ errors = 0
  BY DEF Return, RequeueInv, TypeOK
<1>2. CASE window < 0
  <2>1. /\ waiting' = Sooner(processing, Delay) /\ window' = Window
    BY <1>2 DEF Return, Requeues, RequeueAfter, NextWindow
  <2>2. /\ waiting'[processing] <= Delay
        /\ waiting'[processing] \in {Delay, waiting[processing]}
        /\ \A m \in Name \ {processing} : waiting'[m] = waiting[m]
        /\ waiting' \in [Name -> 0..Delay \cup 0..MaxBackoff \cup {NotWaiting}]
    <3>1. Delay \in 0..Delay \cup 0..MaxBackoff
      BY RequeueAssumption
    <3> QED
      BY <1>1, <2>1, <3>1, SoonerKeeps
  <2>3. \A n \in Timers : waiting[n] \in Nat /\ waiting[n] + Window < Delay
    BY <1>1, <1>2, RequeueAssumption DEF TimersInv, Timers, TypeOK
  <2>4. ASSUME NEW n \in Timers'
        PROVE  \/ n \in Timers /\ waiting'[n] = waiting[n]
               \/ n = processing /\ waiting'[n] = Delay
    BY <1>1, <2>2, <2>4, RequeueAssumption DEF Timers, NotWaiting
  <2>5. \A n \in Timers' : waiting'[n] \in 0..Delay - Window + window'
    BY <2>1, <2>3, <2>4, RequeueAssumption
  <2>6. ASSUME NEW m \in Timers', NEW n \in Timers', m # n
        PROVE  Apart(m, n)'
    <3>1. CASE /\ m \in Timers /\ waiting'[m] = waiting[m]
               /\ n \in Timers /\ waiting'[n] = waiting[n]
      BY <1>1, <2>6, <3>1 DEF TimersInv, Apart
    <3>2. CASE m \in Timers /\ waiting'[m] = waiting[m] /\ waiting'[n] = Delay
      BY <2>3, <3>2 DEF Apart
    <3>3. CASE n \in Timers /\ waiting'[n] = waiting[n] /\ waiting'[m] = Delay
      BY <2>3, <3>3 DEF Apart
    <3> QED
      BY <2>4, <2>6, <3>1, <3>2, <3>3
  <2> QED
    BY <2>5, <2>6 DEF TimersInv
<1>3. CASE ~(window < 0)
  BY <1>1, <1>3, TimersStay DEF Return, Requeues
<1> QED
  BY <1>2, <1>3

LEMMA TickTimers == RequeueInv /\ TimersInv /\ Tick => TimersInv'
<1> SUFFICES ASSUME RequeueInv, TimersInv, Tick, errors = 0 PROVE TimersInv'
  BY DEF Tick, TimersInv
<1>1. TypeOK
  BY DEF RequeueInv
<1>2. Timers' = Timers /\ \A n \in Timers : waiting'[n] = waiting[n] - 1
  BY <1>1, RequeueAssumption DEF Tick, Timers, TypeOK, NotWaiting
<1>3. \A n \in Timers : waiting[n] \in 1..Delay - Window + window
  BY DEF TimersInv, Tick, Timers
<1>4. window' = window - 1 \/ window' = window
  BY DEF Tick
<1>5. \A n \in Timers : waiting'[n] \in 0..Delay - Window + window'
  BY <1>1, <1>2, <1>3, <1>4, RequeueAssumption DEF TypeOK
<1>6. \A m, n \in Timers : m # n => Apart(m, n)'
  BY <1>2, <1>3, RequeueAssumption DEF TimersInv, Apart
<1> QED
  BY <1>2, <1>5, <1>6 DEF TimersInv

LEMMA TimersStepInv == RequeueInv /\ TimersInv /\ [Next]_vars => TimersInv'
<1> SUFFICES ASSUME RequeueInv, TimersInv, [Next]_vars PROVE TimersInv'
  OBVIOUS
<1>1. CASE \/ Take \/ Setup \/ Lead \/ Cluster \/ UNCHANGED vars
  BY <1>1, TimersStay
     DEF Take, Setup, Lead, memory, vars, Cluster, CreateObject, DeleteObject,
         ChangeObject
<1>2. CASE ReturnError
  BY <1>2 DEF ReturnError, RequeueInv, TypeOK, TimersInv
<1>3. CASE Exit
  BY <1>3 DEF Exit, NoMemory, TimersInv, Timers, NotWaiting
<1>4. ASSUME NEW n \in Name, Ready(n)
      PROVE  TimersInv'
  BY <1>4 DEF Ready, RequeueInv, TypeOK, TimersInv, Timers, Apart, NotWaiting
<1> QED
  BY <1>1, <1>2, <1>3, <1>4, ReturnTimers, TickTimers DEF Next, Worker, Manager

LEMMA TimersInitInv == Init => TimersInv
BY DEF Init, TimersInv, Timers, NotWaiting

(* What is more than a period apart falls into different periods.          *)
LEMMA OtherPeriod ==
  ASSUME NEW i \in Nat, NEW j \in Nat, i + Window < j
  PROVE  i \div (Window + 1) < j \div (Window + 1)
<1> DEFINE p == Window + 1
           q == i \div p
           r == j \div p
<1>1. p \in Nat \ {0} /\ i + p <= j
  BY RequeueAssumption
<1>2. q \in Nat /\ r \in Nat /\ q * p <= i /\ j < (r + 1) * p
  BY <1>1
<1>3. (q + 1) * p < (r + 1) * p
  BY <1>1, <1>2
<1> QED
  BY <1>1, <1>2, <1>3

(* Timers that are apart are no more than there are periods in Delay.      *)
LEMMA ApartAreFew ==
  ASSUME TypeOK, TimersInv, errors = 0
  PROVE  Cardinality(Timers) <= Delay \div (Window + 1) + 1
<1> DEFINE period == [n \in Timers |-> waiting[n] \div (Window + 1)]
           most == Delay \div (Window + 1)
<1>1. \A n \in Timers : waiting[n] \in 0..Delay
  BY RequeueAssumption DEF TypeOK, TimersInv
<1>2. most \in Nat /\ \A i \in 0..Delay : i \div (Window + 1) \in 0..most
  BY RequeueAssumption
<1>3. period \in [Timers -> 0..most]
  BY <1>1, <1>2
<1>4. ASSUME NEW m \in Timers, NEW n \in Timers, m # n
      PROVE  period[m] # period[n]
  <2>1. waiting[m] \in Nat /\ waiting[n] \in Nat /\ Apart(m, n)
    BY <1>1, <1>4 DEF TimersInv
  <2> QED
    BY <1>2, <1>1, <2>1, OtherPeriod DEF Apart
<1>5. period \in Injection(Timers, 0..most)
  BY <1>3, <1>4 DEF Injection, IsInjective
<1>6. IsFiniteSet(0..most) /\ Cardinality(0..most) = most + 1
  BY <1>2, FS_Interval
<1> HIDE DEF period, most
<1>7. Cardinality(Timers) <= Cardinality(0..most)
  BY <1>5, <1>6, FS_Injection
<1> QED
  BY <1>6, <1>7 DEF most

(* The shared deadline keeps the timers from multiplying, for every number *)
(* of objects and events: there are never more than fit into Delay.        *)
THEOREM TimersAreBounded == Spec => []TimersBounded
<1>1. RequeueInv /\ TimersInv => TimersBounded
  BY ApartAreFew DEF RequeueInv, TimersBounded, Timers
<1> QED
  BY <1>1, RequeueInvariant, TimersInitInv, TimersStepInv, PTL DEF Spec
=============================================================================

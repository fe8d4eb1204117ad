---------------------------- MODULE BuildPromise ----------------------------
(***************************************************************************)
(* What the KoupletBuild controller promises about its durable record of   *)
(* builds: for each object an open entry whose number of tried attempts    *)
(* only grows, then one verdict that never changes; and the entry of an    *)
(* object that exists is never forgotten.                                  *)
(***************************************************************************)
EXTENDS Naturals

CONSTANTS Uid, NoUid, MaxAttempts

VARIABLES
  alive,   \* the object that exists, or NoUid
  ledger   \* the durable record of every object

Verdict == {"Completed", "Expired"}
Entry == [verdict : {"unknown", "open"} \cup Verdict, tried : 0..MaxAttempts]
Unknown == [verdict |-> "unknown", tried |-> 0]

Init == alive = NoUid /\ ledger = [u \in Uid |-> Unknown]

(* The object is created, or deleted.                                      *)
Change == alive' \in Uid \cup {NoUid} /\ UNCHANGED ledger

(* Attempts are recorded, and perhaps the verdict; a success takes one.    *)
Record(u, entry) ==
  /\ ledger[u].verdict \notin Verdict
  /\ entry.verdict # "unknown" /\ entry.tried >= ledger[u].tried
  /\ entry.verdict = "Completed" => entry.tried > 0
  /\ ledger' = [ledger EXCEPT ![u] = entry]
  /\ UNCHANGED alive

(* Objects that do not exist any more are forgotten.                       *)
Forget(gone) ==
  /\ alive \notin gone
  /\ ledger' = [u \in Uid |-> IF u \in gone THEN Unknown ELSE ledger[u]]
  /\ UNCHANGED alive

Next ==
  \/ Change
  \/ \E u \in Uid, entry \in Entry : Record(u, entry)
  \/ \E gone \in SUBSET Uid : Forget(gone)

Spec == Init /\ [][Next]_<<alive, ledger>>
=============================================================================

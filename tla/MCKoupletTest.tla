---------------------------- MODULE MCKoupletTest ----------------------------
(***************************************************************************)
(* Small instances of KoupletTest for TLC: one or two KoupletTest objects. *)
(***************************************************************************)
EXTENDS KoupletTest, TLC

CONSTANTS t1, t2

OneObject == {t1}
TwoObjects == {t1, t2}
OneEach == [u \in Uid |-> 1]
TwoAndOne == [u \in Uid |-> IF u = t1 THEN 2 ELSE 1]
OwnNames == [u \in Uid |-> u]
OneName == [u \in Uid |-> t1]
Interchangeable == Permutations(Uid)

(* A bound: what the last process writes nobody reads, so its writes need  *)
(* not fail.                                                               *)
LastWritesSucceed ==
  restarts = MaxRestarts /\ (At("register") \/ At("resolve")) /\ worker' # worker
    => FilesAfter(ToWrite, {}, {}) /\ recent' = AllFiled
=============================================================================

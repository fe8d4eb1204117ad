----------------------------- MODULE MCBuildCycle -----------------------------
(* Instances of BuildCycle for TLC.                                        *)
EXTENDS BuildCycle

CONSTANTS n1, n2, n3, a, b, jar, war

TwoNames == {n1, n2}
ThreeNames == {n1, n2, n3}
TwoUrls == {a, b}
TwoFiles == {jar, war}
Interchangeable ==
  Permutations(Name \ {Build}) \cup Permutations(Url) \cup Permutations(File)
=============================================================================

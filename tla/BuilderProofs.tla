----------------------------- MODULE BuilderProofs -----------------------------
(***************************************************************************)
(* Theorems about Builder, for every set of URLs and every set of names of *)
(* files, however many of either there are.                                *)
(***************************************************************************)
EXTENDS Builder, TLAPS

-----------------------------------------------------------------------------
(***************************************************************************)
(* The inductive invariant.                                                *)
(***************************************************************************)

(* A directory, or the part of an image made of it, has the file of a URL. *)
Holds(files, u) == fileOf[u] \in DOMAIN files /\ files[fileOf[u]] = u

(* The program runs until it has an exit code, and then it is at the end.  *)
EndInv == exit # "none" => at = "end"

(* What is not left to be downloaded is in resources, under its own name.  *)
DownloadInv ==
  exit = "none" =>
    /\ at \in {"begin", "clone", "root"} => left = Url
    /\ at \in {"bud", "push", "end"} => left = {}
    /\ \A u \in Url \ left : Holds(resources, u)

(* The image is whole from the moment it is built, not only when pushed.   *)
ImageInv ==
  pushed \/ (exit = "none" /\ at = "push") => \A u \in Url : Holds(image, u)

(* The last line is only reached with the image pushed; and buildah's      *)
(* storage is in use from the build on, where no step calls fail().        *)
PushInv == exit = "none" /\ at = "end" => pushed
StorageInv ==
  /\ storage => at \in {"push", "end"}
  /\ exit \in {"zero", "nonzero"} => ~storage

(* An exit code of 0 is a push, or a return for want of a login.           *)
ZeroInv == exit = "zero" => pushed \/ lacks = "login"

BuilderInv ==
  /\ BuilderTypeOK /\ EndInv /\ DownloadInv /\ ImageInv
  /\ PushInv /\ StorageInv /\ ZeroInv

-----------------------------------------------------------------------------
(***************************************************************************)
(* The steps.                                                              *)
(***************************************************************************)

(* The directory without any file is one of the values of resources.       *)
LEMMA NoFileTyped == NoFile \in Files
<1>1. {} \in SUBSET File
  OBVIOUS
<1>2. NoFile \in [{} -> Url \cup {NoUrl}]
  BY DEF NoFile
<1> QED
  BY <1>1, <1>2 DEF Files

LEMMA BuilderInitInv == BuilderInit => BuilderInv
<1> SUFFICES ASSUME BuilderInit PROVE BuilderInv
  OBVIOUS
<1> USE DEF BuilderInit
<1>1. BuilderTypeOK
  BY NoFileTyped DEF BuilderTypeOK, Place, Code
<1>2. EndInv /\ PushInv /\ StorageInv /\ ZeroInv /\ ImageInv
  BY DEF EndInv, PushInv, StorageInv, ZeroInv, ImageInv
<1>3. DownloadInv
  BY DEF DownloadInv
<1> QED
  BY <1>1, <1>2, <1>3 DEF BuilderInv

(* An end that leaves the storage as it may be, with a code that is earned.*)
LEMMA EndKeeps ==
  ASSUME BuilderInv, exit = "none",
         NEW code \in Code, NEW used \in BOOLEAN, Ends(code, used),
         code # "killed" => ~used,
         code = "zero" => pushed \/ lacks = "login"
  PROVE  BuilderInv'
<1> USE DEF Ends
<1>1. BuilderTypeOK'
  BY NoFileTyped DEF BuilderInv, BuilderTypeOK, Place
<1>2. EndInv' /\ PushInv' /\ DownloadInv'
  BY DEF EndInv, PushInv, DownloadInv, Code
<1>3. ImageInv'
  BY DEF BuilderInv, ImageInv, Holds, Code
<1>4. StorageInv' /\ ZeroInv'
  BY DEF StorageInv, ZeroInv, Code
<1> QED
  BY <1>1, <1>2, <1>3, <1>4 DEF BuilderInv

(* fail(), where the storage is not in use yet.                            *)
LEMMA FailKeeps ==
  ASSUME BuilderInv, exit = "none", at \notin {"push", "end"}, Fail
  PROVE  BuilderInv'
<1>1. storage = FALSE
  BY DEF BuilderInv, BuilderTypeOK, StorageInv
<1> QED
  BY <1>1, EndKeeps DEF Fail, Code

(* A command that fails.                                                   *)
LEMMA FailedKeeps ==
  ASSUME BuilderInv, exit = "none", NEW used, Failed(used)
  PROVE  BuilderInv'
BY EndKeeps DEF Failed, Dispose, Code

(* A step on to the next place that changes nothing else.                  *)
LEMMA MoveKeeps ==
  ASSUME BuilderInv, exit = "none", Unmoved,
         <<at, at'>> \in {<<"begin", "clone">>, <<"clone", "root">>, <<"download", "bud">>},
         at = "download" => left = {}
  PROVE  BuilderInv'
<1> USE DEF Unmoved
<1>1. at' \in {"clone", "root", "bud"} /\ at \in {"begin", "clone", "download"}
  OBVIOUS
<1>2. BuilderTypeOK'
  BY <1>1 DEF BuilderInv, BuilderTypeOK, Place
<1>3. DownloadInv'
  BY DEF BuilderInv, DownloadInv, Holds
<1>4. ImageInv'
  BY <1>1 DEF BuilderInv, ImageInv, Holds
<1>5. EndInv' /\ PushInv' /\ StorageInv' /\ ZeroInv'
  BY <1>1 DEF BuilderInv, EndInv, PushInv, StorageInv, ZeroInv
<1> QED
  BY <1>2, <1>3, <1>4, <1>5 DEF BuilderInv

LEMMA FindRootKeeps == BuilderInv /\ FindRoot => BuilderInv'
<1> SUFFICES ASSUME BuilderInv, FindRoot PROVE BuilderInv'
  OBVIOUS
<1>1. CASE Fail
  BY <1>1, FailKeeps DEF FindRoot, Step
<1>2. ASSUME NEW own \in SUBSET File, resources' = [f \in own |-> NoUrl],
             at' = "download",
             UNCHANGED <<lacks, fileOf, left, storage, image, pushed, exit>>
      PROVE  BuilderInv'
  <2>1. at = "root" /\ exit = "none"
    BY DEF FindRoot, Step
  <2>2. resources' \in [own -> Url \cup {NoUrl}]
    BY <1>2
  <2>3. resources' \in Files
    BY <2>2 DEF Files
  <2>4. BuilderTypeOK'
    BY <1>2, <2>3 DEF BuilderInv, BuilderTypeOK, Place
  <2>5. DownloadInv'
    BY <1>2, <2>1 DEF BuilderInv, DownloadInv
  <2>6. ImageInv'
    BY <1>2, <2>1 DEF BuilderInv, ImageInv, Holds
  <2>7. EndInv' /\ PushInv' /\ StorageInv' /\ ZeroInv'
    BY <1>2, <2>1 DEF BuilderInv, EndInv, PushInv, StorageInv, ZeroInv
  <2> QED
    BY <2>4, <2>5, <2>6, <2>7 DEF BuilderInv
<1> QED
  BY <1>1, <1>2 DEF FindRoot

(* A file that is downloaded replaces none: what is there stays.           *)
LEMMA DownloadKeeps ==
  ASSUME NEW u \in Url, BuilderInv, Download(u)
  PROVE  BuilderInv'
<1>1. at = "download" /\ exit = "none" /\ u \in left
  BY DEF Download, Step
<1>2. CASE Fail
  BY <1>1, <1>2, FailKeeps
<1>3. CASE /\ MayCopy(u)
           /\ resources' = [f \in DOMAIN resources \cup {fileOf[u]} |->
                              IF f = fileOf[u] THEN u ELSE resources[f]]
           /\ left' = left \ {u}
           /\ UNCHANGED <<lacks, fileOf, at, storage, image, pushed, exit>>
  <2>1. PICK own \in SUBSET File : resources \in [own -> Url \cup {NoUrl}]
    BY DEF BuilderInv, BuilderTypeOK, Files
  <2>2. fileOf[u] \in File
    BY DEF BuilderInv, BuilderTypeOK
  <2>3. resources' \in [own \cup {fileOf[u]} -> Url \cup {NoUrl}]
    BY <1>3, <2>1
  <2>4. resources' \in Files
    <3>1. own \cup {fileOf[u]} \in SUBSET File
      BY <2>1, <2>2
    <3> QED
      BY <2>3, <3>1 DEF Files
  <2>5. BuilderTypeOK'
    BY <1>3, <2>4 DEF BuilderInv, BuilderTypeOK
  <2>6. DownloadInv'
    <3>1. SUFFICES ASSUME NEW v \in Url \ left' PROVE Holds(resources, v)'
      BY <1>1, <1>3, <3>1 DEF DownloadInv
    <3>2. CASE v = u
      BY <1>3, <3>2 DEF Holds
    <3>3. CASE v # u
      <4>1. Holds(resources, v)
        BY <1>1, <1>3, <3>1, <3>3 DEF BuilderInv, DownloadInv
      <4>2. fileOf[v] # fileOf[u]
        BY <1>3, <4>1 DEF Holds, MayCopy
      <4> QED
        BY <1>3, <4>1, <4>2 DEF Holds
    <3> QED
      BY <3>2, <3>3
  <2>7. ImageInv'
    BY <1>1, <1>3 DEF BuilderInv, ImageInv, Holds
  <2>8. EndInv' /\ PushInv' /\ StorageInv' /\ ZeroInv'
    BY <1>3 DEF BuilderInv, EndInv, PushInv, StorageInv, ZeroInv
  <2> QED
    BY <2>5, <2>6, <2>7, <2>8 DEF BuilderInv
<1> QED
  BY <1>2, <1>3 DEF Download

LEMMA LoginKeeps == BuilderInv /\ Login => BuilderInv'
<1> SUFFICES ASSUME BuilderInv, Login PROVE BuilderInv'
  OBVIOUS
<1>1. at = "download" /\ exit = "none" /\ left = {}
  BY DEF Login, Step
<1>2. CASE lacks = "login"
  <2>1. storage = FALSE /\ Ends("zero", storage)
    BY <1>1, <1>2 DEF Login, BuilderInv, BuilderTypeOK, StorageInv
  <2> QED
    BY <1>1, <1>2, <2>1, EndKeeps DEF Code
<1>3. CASE lacks # "login"
  <2>1. Failed(FALSE) \/ (at' = "bud" /\ Unmoved)
    BY <1>3 DEF Login
  <2> QED
    BY <1>1, <2>1, FailedKeeps, MoveKeeps
<1> QED
  BY <1>2, <1>3

LEMMA BudKeeps == BuilderInv /\ Bud => BuilderInv'
<1> SUFFICES ASSUME BuilderInv, Bud PROVE BuilderInv'
  OBVIOUS
<1>1. at = "bud" /\ exit = "none"
  BY DEF Bud, Step
<1>2. CASE Fail \/ Failed(TRUE)
  BY <1>1, <1>2, FailKeeps, FailedKeeps
<1>3. CASE /\ at' = "push" /\ storage' = TRUE /\ image' = resources
           /\ UNCHANGED <<lacks, fileOf, left, resources, pushed, exit>>
  <2>1. BuilderTypeOK'
    BY <1>3 DEF BuilderInv, BuilderTypeOK, Place
  <2>2. \A u \in Url : Holds(resources, u)
    BY <1>1 DEF BuilderInv, DownloadInv
  <2>3. DownloadInv'
    BY <1>1, <1>3, <2>2 DEF BuilderInv, DownloadInv, Holds
  <2>4. ImageInv'
    BY <1>3, <2>2 DEF ImageInv, Holds
  <2>5. EndInv' /\ PushInv' /\ StorageInv' /\ ZeroInv'
    BY <1>1, <1>3 DEF BuilderInv, EndInv, PushInv, StorageInv, ZeroInv
  <2> QED
    BY <2>1, <2>3, <2>4, <2>5 DEF BuilderInv
<1> QED
  BY <1>2, <1>3 DEF Bud

LEMMA PushKeeps == BuilderInv /\ Push => BuilderInv'
<1> SUFFICES ASSUME BuilderInv, Push PROVE BuilderInv'
  OBVIOUS
<1>1. at = "push" /\ exit = "none"
  BY DEF Push, Step
<1>2. CASE Failed(TRUE)
  BY <1>1, <1>2, FailedKeeps
<1>3. CASE /\ at' = "end" /\ pushed' = TRUE
           /\ UNCHANGED <<lacks, fileOf, left, resources, storage, image, exit>>
  <2>1. BuilderTypeOK'
    BY <1>3 DEF BuilderInv, BuilderTypeOK, Place
  <2>2. DownloadInv' /\ ImageInv'
    BY <1>1, <1>3 DEF BuilderInv, DownloadInv, ImageInv, Holds
  <2>3. EndInv' /\ PushInv' /\ StorageInv' /\ ZeroInv'
    BY <1>1, <1>3 DEF BuilderInv, EndInv, PushInv, StorageInv, ZeroInv
  <2> QED
    BY <2>1, <2>2, <2>3 DEF BuilderInv
<1> QED
  BY <1>2, <1>3 DEF Push

LEMMA BuilderStepInv == BuilderInv /\ [BuilderNext]_builderVars => BuilderInv'
<1> SUFFICES ASSUME BuilderInv, [BuilderNext]_builderVars PROVE BuilderInv'
  OBVIOUS
<1>1. CASE Begin
  <2>1. Fail \/ (at' = "clone" /\ Unmoved)
    BY <1>1 DEF Begin
  <2> QED
    BY <1>1, <2>1, FailKeeps, MoveKeeps DEF Begin, Step
<1>2. CASE Clone
  BY <1>2, FailedKeeps, MoveKeeps DEF Clone, Step
<1>3. CASE FindRoot
  BY <1>3, FindRootKeeps
<1>4. ASSUME NEW u \in Url, Download(u)
      PROVE  BuilderInv'
  BY <1>4, DownloadKeeps
<1>5. CASE Login
  BY <1>5, LoginKeeps
<1>6. CASE Bud
  BY <1>6, BudKeeps
<1>7. CASE Push
  BY <1>7, PushKeeps
<1>8. CASE End
  <2>1. exit = "none" /\ pushed /\ Ends("zero", FALSE)
    BY <1>8 DEF End, Step, Dispose, BuilderInv, PushInv
  <2> QED
    BY <2>1, EndKeeps DEF Code
<1>9. CASE Killed
  BY <1>9, EndKeeps DEF Killed, Code, BuilderInv, BuilderTypeOK
<1>10. CASE UNCHANGED builderVars
  BY <1>10 DEF builderVars, BuilderInv, BuilderTypeOK, EndInv, DownloadInv,
               ImageInv, PushInv, StorageInv, ZeroInv, Holds
<1> QED
  BY <1>1, <1>2, <1>3, <1>4, <1>5, <1>6, <1>7, <1>8, <1>9, <1>10
     DEF BuilderNext, Run

-----------------------------------------------------------------------------
(***************************************************************************)
(* The theorems.                                                           *)
(***************************************************************************)

(* What main does keeps the invariant, from its first line to its end.     *)
THEOREM BuilderInvariant == BuilderSpec => []BuilderInv
<1> QED
  BY BuilderInitInv, BuilderStepInv, PTL DEF BuilderSpec

(* The image that is pushed has every file that was downloaded, whatever   *)
(* the names the URLs give them and the files the repository has.          *)
THEOREM ImagesAreWhole == BuilderSpec => []PushedIsWhole
<1>1. BuilderInv => PushedIsWhole
  BY DEF BuilderInv, ImageInv, Holds, PushedIsWhole
<1> QED
  BY <1>1, BuilderInvariant, PTL

(* No end of the program but a kill leaves buildah's storage in use.       *)
THEOREM StorageIsCleared == BuilderSpec => []StorageCleared
<1>1. BuilderInv => StorageCleared
  BY DEF BuilderInv, StorageInv, StorageCleared, Code
<1> QED
  BY <1>1, BuilderInvariant, PTL
=============================================================================

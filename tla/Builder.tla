-------------------------------- MODULE Builder --------------------------------
(***************************************************************************)
(* The program in the container of a builder Job.  It clones a git         *)
(* repository, downloads the URLs of the spec into the repository's        *)
(* directory resources, logs into the registry, builds the image and       *)
(* pushes it.  All that the operator learns of it is its exit code.        *)
(*                                                                         *)
(* It is sequential, but it ends in many ways: by fail() or an exception   *)
(* (exit code 1, nothing is cleaned up), by a command that fails (1, and   *)
(* cleaned up), by a return from main (0, not cleaned up), by its last     *)
(* line (0, cleaned up), or because it is killed.                          *)
(*                                                                         *)
(* Source: builder-image/project/src/com/kouplet/builder.                  *)
(***************************************************************************)
EXTENDS FiniteSets

CONSTANTS
  Url,   \* the URLs of the spec
  File,  \* names of files
  NoUrl  \* the content of a file that is of no URL

ASSUME BuilderAssumption == NoUrl \notin Url

VARIABLES
  lacks,      \* what the environment does not have
  fileOf,     \* what follows the last slash of each URL
  at,         \* the step the program is at
  left,       \* the URLs still to be downloaded
  resources,  \* the directory resources: the content of each file in it
  storage,    \* buildah's storage, /var/lib/containers, holds something
  image,      \* the resources the image was built with
  pushed,     \* the image was pushed
  exit        \* the exit code

builderVars ==
  <<lacks, fileOf, at, left, resources, storage, image, pushed, exit>>
-----------------------------------------------------------------------------
Place == {"begin", "clone", "root", "download", "bud", "push", "end"}
Code == {"zero", "nonzero", "killed"}   \* a kill is no exit code of its own
NoFile == [f \in {} |-> NoUrl]
Files == UNION {[S -> Url \cup {NoUrl}] : S \in SUBSET File}

(* The program ends, and its container with it; what was pushed stays, as  *)
(* does buildah's storage when it is a volume.                             *)
Ends(code, used) ==
  /\ exit' = code /\ at' = "end"
  /\ left' = {} /\ resources' = NoFile /\ storage' = used
  /\ image' = IF pushed THEN image ELSE NoFile
  /\ UNCHANGED <<lacks, fileOf, pushed>>

Step(place) == at = place /\ exit = "none"
Unmoved ==
  UNCHANGED <<lacks, fileOf, left, resources, storage, image, pushed, exit>>

(* fail(), or an exception that leaves main.                               *)
Fail == Ends("nonzero", storage)

(* disposeOfResources.  What cannot be deleted is only printed; the        *)
(* program is root, and all can be.                                        *)
Dispose(code) == Ends(code, FALSE)

(* Mutants of Failed: it calls fail(); it exits with code 0.               *)
Failed_Fail(used) == Ends("nonzero", used)
Failed_Zero(used) == Dispose("zero")

(* assertSuccess, when the command has failed and storage may be in use.   *)
Failed(used) == Dispose("nonzero")
-----------------------------------------------------------------------------
(***************************************************************************)
(* The steps of main.                                                      *)
(***************************************************************************)

(* The environment is read and the SSH key, if there is one, copied.       *)
Begin ==
  /\ Step("begin")
  /\ \/ Fail
     \/ /\ lacks # "repository" /\ at' = "clone"
        /\ Unmoved

Clone ==
  /\ Step("clone")
  /\ \/ Failed(FALSE)
     \/ /\ at' = "root"
        /\ Unmoved

(* The root of the repository is looked for under what follows the last    *)
(* slash of its URL, and is not there when that ends in .git; nor need the *)
(* sub-path be.  The directory resources is made if the repository has     *)
(* none; the files it has are of no URL.                                   *)
FindRoot ==
  /\ Step("root")
  /\ \/ Fail
     \/ /\ \E own \in SUBSET File : resources' = [f \in own |-> NoUrl]
        /\ at' = "download"
        /\ UNCHANGED <<lacks, fileOf, left, storage, image, pushed, exit>>

(* What get returns: the body of a response that is good, whatever its     *)
(* certificate; or it throws an exception.                                 *)
Get(u) == {"body", "exception"}

(* Mutant of MayCopy: Files.copy with REPLACE_EXISTING.                    *)
MayCopy_Replacing(u) == TRUE

(* Files.copy refuses to write to a file that exists.                      *)
MayCopy(u) == fileOf[u] \notin DOMAIN resources

(* The URLs come in the order of a hash map.  A file that exists is an     *)
(* exception as well.                                                      *)
Download(u) ==
  /\ Step("download") /\ u \in left
  /\ \E answer \in Get(u) :
       IF answer = "exception" \/ ~MayCopy(u) THEN Fail
       ELSE /\ resources' = [f \in DOMAIN resources \cup {fileOf[u]} |->
                              IF f = fileOf[u] THEN u ELSE resources[f]]
            /\ left' = left \ {u}
            /\ UNCHANGED <<lacks, fileOf, at, storage, image, pushed, exit>>

(* Without a user, password or host main returns, and the exit code is 0.  *)
Login ==
  /\ Step("download") /\ left = {}
  /\ IF lacks = "login" THEN Ends("zero", storage)
     ELSE \/ Failed(FALSE)
          \/ /\ at' = "bud"
             /\ Unmoved

Bud ==
  /\ Step("bud")
  /\ IF lacks = "image" THEN Fail
     ELSE \/ Failed(TRUE)
          \/ /\ at' = "push" /\ storage' = TRUE /\ image' = resources
             /\ UNCHANGED <<lacks, fileOf, left, resources, pushed, exit>>

Push ==
  /\ Step("push")
  /\ \/ Failed(TRUE)
     \/ /\ at' = "end" /\ pushed' = TRUE
        /\ UNCHANGED <<lacks, fileOf, left, resources, storage, image, exit>>

End == Step("end") /\ Dispose("zero")

(* The container is killed, or a command cannot even be started, which is  *)
(* an exception: memory has run out, or the node is drained.               *)
Killed == exit = "none" /\ Ends("killed", storage)
-----------------------------------------------------------------------------
(* A Job of the operator lacks nothing: Kubernetes does not start a        *)
(* container with a key that its Secret does not have.                     *)
Complete == lacks = "nothing"

BuilderInit ==
  /\ lacks \in {"nothing", "repository", "login", "image"}
  /\ fileOf \in [Url -> File] /\ left = Url
  /\ at = "begin" /\ exit = "none"
  /\ resources = NoFile /\ image = NoFile
  /\ storage = FALSE /\ pushed = FALSE

Run ==
  \/ Begin \/ Clone \/ FindRoot
  \/ \E u \in Url : Download(u)
  \/ Login \/ Bud \/ Push \/ End

BuilderNext == Run \/ Killed
BuilderSpec == BuilderInit /\ [][BuilderNext]_builderVars
-----------------------------------------------------------------------------
(***************************************************************************)
(* Properties.                                                             *)
(***************************************************************************)

BuilderTypeOK ==
  /\ lacks \in {"nothing", "repository", "login", "image"}
  /\ at \in Place /\ left \subseteq Url /\ fileOf \in [Url -> File]
  /\ resources \in Files /\ image \in Files
  /\ storage \in BOOLEAN /\ pushed \in BOOLEAN
  /\ exit \in Code \cup {"none"}

(* An image that is pushed was built with all of the files downloaded, no  *)
(* two of them, nor one of the repository's own, under the same name.      *)
PushedIsWhole ==
  pushed => \A u \in Url : fileOf[u] \in DOMAIN image /\ image[fileOf[u]] = u

(* However the program ends, unless it is killed, it leaves nothing in     *)
(* buildah's storage, which may be a volume that outlives the container.   *)
StorageCleared == exit \in Code \ {"killed"} => ~storage
=============================================================================

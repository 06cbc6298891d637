--------------------------- MODULE AndroidAssets ---------------------------
(***************************************************************************)
(* AndroidAssets.copyAsset: the recursive copy of an asset, a file or a    *)
(* directory, to the file system.                                          *)
(*                                                                         *)
(* Paths are relative to the asset and to the destination alike, so << >>  *)
(* is both.  A file is a sequence of chunks, one per round of the loop of  *)
(* copyFile.  Several threads may copy to the same destination, a copy may *)
(* throw anywhere, and the process may die anywhere; the file system       *)
(* survives, and with it what earlier copies or versions left there.       *)
(***************************************************************************)
EXTENDS Naturals, Sequences

CONSTANTS
    Threads,   \* threads that call copyAsset
    Names,     \* names of files and directories
    Paths,     \* the files and directories of the asset, as sequences of names
    NChunks,   \* the number of chunks of a file
    NoFile     \* no path

ASSUME AssetsAssumption ==
    /\ Paths \subseteq Seq(Names)
    /\ << >> \in Paths
    /\ \A p \in Paths : \A n \in 0..Len(p) : SubSeq(p, 1, n) \in Paths
    /\ NChunks \in Nat
    /\ NoFile \notin Paths

VARIABLES
    node,    \* what is at a path of the destination
    data,    \* the chunks that the file at a path has
    home,    \* whether the directory that holds the destination exists
    copying, \* the threads inside copyAsset
    todo,    \* the paths each copy has found and not yet visited
    file,    \* the path of the file a copy is writing, or NoFile
    next,    \* the chunk of it that comes next
    trusted  \* history: see copyAsset, Throw and Kill

vars == << node, data, home, copying, todo, file, next, trusted >>

fs == << node, data, home >>

(* The chunks of a file; chunk 0 stands for bytes of an earlier version. *)
Chunks == 1..NChunks

(* p is q or a directory above q. *)
Above(p, q) == Len(p) <= Len(q) /\ \A i \in 1..Len(p) : p[i] = q[i]

(* What AssetManager.list returns. *)
list(p) == { q \in Paths : Len(q) = Len(p) + 1 /\ Above(p, q) }

Parent(p) == SubSeq(p, 1, Len(p) - 1)

(* There is a directory to create p in. *)
Placed(p) == IF p = << >> THEN home ELSE node[Parent(p)] = "dir"

-----------------------------------------------------------------------------
(***************************************************************************)
(* copyAsset.  A copy that starts while no other one is in flight is       *)
(* trusted, together with those that join it, until one of them fails.     *)
(***************************************************************************)
copyAsset(th) ==
    /\ th \notin copying
    /\ copying' = copying \cup {th}
    /\ todo' = [todo EXCEPT ![th] = {<< >>}]
    /\ trusted' = (trusted \/ copying = {})
    /\ UNCHANGED << fs, file, next >>

(* Mutant: a directory that is there already is taken to be complete. *)
copyDirOnce(th, p) ==
    /\ node' = [node EXCEPT ![p] = IF @ = "none" /\ Placed(p) THEN "dir" ELSE @]
    /\ todo' = [todo EXCEPT ![th] = (@ \ {p})
                                      \cup IF node[p] = "none" THEN list(p) ELSE {}]
    /\ UNCHANGED << data, home, copying, file, next, trusted >>

(* Mutant: the directory itself is visited again. *)
copyDirAgain(th, p) ==
    /\ node' = [node EXCEPT ![p] = IF @ = "none" /\ Placed(p) THEN "dir" ELSE @]
    /\ todo' = [todo EXCEPT ![th] = @ \cup list(p)]
    /\ UNCHANGED << data, home, copying, file, next, trusted >>

(***************************************************************************)
(* copyFileOrDir on a directory.  mkdir fails if the directory above is    *)
(* not there, and may fail for other reasons; nobody looks at its result.  *)
(* Calling it on something that another thread has created since exists()  *)
(* does nothing, so that the two are one step.                             *)
(***************************************************************************)
copyDir(th, p) ==
    /\ \/ /\ node[p] = "none"
          /\ Placed(p)
          /\ node' = [node EXCEPT ![p] = "dir"]
       \/ UNCHANGED node
    /\ todo' = [todo EXCEPT ![th] = (@ \ {p}) \cup list(p)]
    /\ UNCHANGED << data, home, copying, file, next, trusted >>

(* copyFile up to its loop: FileOutputStream creates or empties the file. *)
open(th, p) ==
    /\ Placed(p)
    /\ node[p] # "dir"
    /\ node' = [node EXCEPT ![p] = "file"]
    /\ data' = [data EXCEPT ![p] = {}]
    /\ file' = [file EXCEPT ![th] = p]
    /\ next' = [next EXCEPT ![th] = 1]
    /\ todo' = [todo EXCEPT ![th] = @ \ {p}]
    /\ UNCHANGED << home, copying, trusted >>

(***************************************************************************)
(* A copy visits its directories depth first, in the order of list; the    *)
(* model allows any order in which directories come before their contents. *)
(***************************************************************************)
copyFileOrDir(th) ==
    /\ th \in copying
    /\ file[th] = NoFile
    /\ \E p \in todo[th] : \/ list(p) # {} /\ copyDir(th, p)
                           \/ list(p) = {} /\ open(th, p)

(* Mutant: a whole buffer is written once more at the end of the file. *)
writeBuffer(th) ==
    /\ file[th] # NoFile
    /\ next[th] <= NChunks + 1
    /\ data' = [data EXCEPT ![file[th]] = @ \cup {next[th]}]
    /\ next' = [next EXCEPT ![th] = @ + 1]
    /\ UNCHANGED << node, home, copying, todo, file, trusted >>

(* A round of the loop of copyFile, at the position of this copy's stream. *)
write(th) ==
    /\ file[th] # NoFile
    /\ next[th] <= NChunks
    /\ data' = [data EXCEPT ![file[th]] = @ \cup {next[th]}]
    /\ next' = [next EXCEPT ![th] = @ + 1]
    /\ UNCHANGED << node, home, copying, todo, file, trusted >>

close(th) ==
    /\ file[th] # NoFile
    /\ next[th] > NChunks
    /\ file' = [file EXCEPT ![th] = NoFile]
    /\ UNCHANGED << fs, copying, todo, next, trusted >>

Return(th) ==
    /\ th \in copying
    /\ todo[th] = {} /\ file[th] = NoFile
    /\ copying' = copying \ {th}
    /\ UNCHANGED << fs, todo, file, next, trusted >>

(* list, open, read, write or close throws, for whatever reason. *)
Throw(th) ==
    /\ th \in copying
    /\ copying' = copying \ {th}
    /\ todo' = [todo EXCEPT ![th] = {}]
    /\ file' = [file EXCEPT ![th] = NoFile]
    /\ trusted' = FALSE
    /\ UNCHANGED << fs, next >>

(* The process dies; a new one finds the files as they are. *)
Kill ==
    /\ copying' = {}
    /\ todo' = [th \in Threads |-> {}]
    /\ file' = [th \in Threads |-> NoFile]
    /\ trusted' = FALSE
    /\ UNCHANGED << fs, next >>

-----------------------------------------------------------------------------
(* Whatever exists has directories all the way above it. *)
Consistent ==
    \A p \in Paths : node[p] # "none" =>
        home /\ \A q \in Paths : Above(q, p) /\ q # p => node[q] = "dir"

Init ==
    /\ node \in [Paths -> {"none", "dir", "file"}]
    /\ home \in BOOLEAN
    /\ Consistent
    /\ data \in [Paths -> SUBSET {0}]
    /\ \A p \in Paths : node[p] # "file" => data[p] = {}
    /\ copying = {}
    /\ todo = [th \in Threads |-> {}]
    /\ file = [th \in Threads |-> NoFile]
    /\ next = [th \in Threads |-> 1]
    /\ trusted = FALSE

Steps(th) ==
    \/ copyFileOrDir(th)
    \/ write(th)
    \/ close(th)
    \/ Return(th)
    \/ Throw(th)

Next ==
    \/ \E th \in Threads : copyAsset(th) \/ Steps(th)
    \/ Kill

Spec == Init /\ [][Next]_vars

(* A thread that is copying goes on. *)
FairSpec == Spec /\ \A th \in Threads : WF_vars(Steps(th))

-----------------------------------------------------------------------------
(***************************************************************************)
(* Properties.                                                             *)
(***************************************************************************)

(* The types of the file system and of the copies in flight. *)
TypeOK ==
    /\ node \in [Paths -> {"none", "dir", "file"}]
    /\ data \in [Paths -> SUBSET (Chunks \cup {0})]
    /\ home \in BOOLEAN
    /\ copying \subseteq Threads
    /\ todo \in [Threads -> SUBSET Paths]
    /\ file \in [Threads -> Paths \cup {NoFile}]
    /\ next \in [Threads -> 1..(NChunks + 1)]
    /\ trusted \in BOOLEAN

(* The destination has every file and directory of the asset, in full. *)
Complete ==
    \A p \in Paths :
        IF list(p) = {} THEN node[p] = "file" /\ data[p] = Chunks
                        ELSE node[p] = "dir"

(***************************************************************************)
(* What copyAsset documents: it throws `when any part of the copy          *)
(* operation goes wrong'.  Once the copies that overlapped have all        *)
(* returned without an exception the destination is complete, although     *)
(* mkdir's result is ignored, copies empty each other's files, and earlier *)
(* ones may have been cut short.                                           *)
(***************************************************************************)
ReturnMeansComplete == trusted /\ copying = {} => Complete

(***************************************************************************)
(* Every copy ends, by returning or by an exception, unless the process    *)
(* dies first.                                                             *)
(***************************************************************************)
CopiesEnd == \A th \in Threads : th \in copying ~> th \notin copying
=============================================================================

---------------------------- MODULE AssetProofs ----------------------------
(***************************************************************************)
(* copyAsset copies any asset completely or throws, for any number of      *)
(* threads.                                                                *)
(***************************************************************************)
EXTENDS AndroidAssets, TLAPS

-----------------------------------------------------------------------------
(***************************************************************************)
(* Paths.                                                                  *)
(***************************************************************************)

LEMMA PathFacts ==
    ASSUME NEW p \in Paths
    PROVE  p \in Seq(Names) /\ Len(p) \in Nat /\ Above(p, p) /\ Above(<< >>, p)
BY AssetsAssumption DEF Above

LEMMA PrefixFacts ==
    ASSUME NEW p \in Paths, NEW m \in 0..Len(p)
    PROVE  /\ SubSeq(p, 1, m) \in Paths
           /\ Len(SubSeq(p, 1, m)) = m
           /\ \A i \in 1..m : SubSeq(p, 1, m)[i] = p[i]
<1>1. p \in Seq(Names) /\ Len(p) \in Nat /\ m \in Nat
  BY PathFacts
<1>2. SubSeq(p, 1, m) \in Paths
  BY AssetsAssumption
<1>3. QED
  BY <1>1, <1>2

LEMMA AboveTransitive ==
    ASSUME NEW p \in Paths, NEW q \in Paths, NEW r \in Paths,
           Above(p, q), Above(q, r)
    PROVE  Above(p, r)
<1>1. Len(p) \in Nat /\ Len(q) \in Nat /\ Len(r) \in Nat
  BY PathFacts
<1>2. QED
  BY <1>1 DEF Above

(* Paths as long as each other and above each other are the same. *)
LEMMA AboveSame ==
    ASSUME NEW p \in Paths, NEW q \in Paths, Above(p, q), Len(q) <= Len(p)
    PROVE  p = q
<1>1. p \in Seq(Names) /\ q \in Seq(Names) /\ Len(p) \in Nat /\ Len(q) \in Nat
  BY PathFacts
<1>2. Len(p) = Len(q) /\ \A i \in 1..Len(p) : p[i] = q[i]
  BY <1>1 DEF Above
<1>3. QED
  BY <1>1, <1>2

(* Below a directory is what is below something in it. *)
LEMMA BelowIsListed ==
    ASSUME NEW p \in Paths, NEW x \in Paths, Above(p, x), p # x
    PROVE  \E q \in list(p) : Above(q, x)
<1> DEFINE q == SubSeq(x, 1, Len(p) + 1)
<1>1. p \in Seq(Names) /\ x \in Seq(Names) /\ Len(p) \in Nat /\ Len(x) \in Nat
  BY PathFacts
<1>2. Len(p) + 1 \in 0..Len(x)
  BY <1>1, AboveSame DEF Above
<1>3. q \in Paths
  BY <1>2, PrefixFacts
<1>4. Len(q) = Len(p) + 1 /\ \A i \in 1..(Len(p) + 1) : q[i] = x[i]
  BY <1>2, PrefixFacts
<1> HIDE DEF q
<1>5. Above(q, x) /\ Above(p, q)
  BY <1>1, <1>2, <1>4 DEF Above
<1>6. q \in list(p)
  BY <1>3, <1>4, <1>5 DEF list
<1>7. QED
  BY <1>5, <1>6

(* What is above a path and not the path is above its parent. *)
LEMMA AboveParent ==
    ASSUME NEW p \in Paths, NEW x \in Paths, Above(x, p), x # p
    PROVE  p # << >> /\ Parent(p) \in Paths /\ Above(x, Parent(p))
<1>1. p \in Seq(Names) /\ x \in Seq(Names) /\ Len(p) \in Nat /\ Len(x) \in Nat
  BY PathFacts
<1>2. Len(x) <= Len(p) - 1 /\ Len(p) - 1 \in 0..Len(p)
  BY <1>1, AboveSame DEF Above
<1>3. Parent(p) \in Paths
  BY <1>2, PrefixFacts DEF Parent
<1>4. /\ Len(Parent(p)) = Len(p) - 1
      /\ \A i \in 1..(Len(p) - 1) : Parent(p)[i] = p[i]
  BY <1>2, PrefixFacts DEF Parent
<1>5. Above(x, Parent(p))
  BY <1>1, <1>2, <1>4 DEF Above
<1>6. p # << >>
  BY <1>1, <1>2
<1>7. QED
  BY <1>3, <1>5, <1>6

(* A path with a directory to be in has directories all the way above it. *)
LEMMA PlacedHasDirs ==
    ASSUME Consistent, NEW p \in Paths, Placed(p)
    PROVE  home /\ \A q \in Paths : Above(q, p) /\ q # p => node[q] = "dir"
<1>1. CASE p = << >>
  BY <1>1, AboveParent DEF Placed
<1>2. CASE p # << >>
  <2>1. << >> # p /\ Above(<< >>, p) /\ << >> \in Paths
    BY <1>2, PathFacts, AssetsAssumption
  <2>2. Parent(p) \in Paths /\ node[Parent(p)] = "dir"
    BY <1>2, <2>1, AboveParent DEF Placed
  <2>3. home /\ \A q \in Paths :
          Above(q, Parent(p)) /\ q # Parent(p) => node[q] = "dir"
    BY <2>2 DEF Consistent
  <2>4. QED
    BY <2>2, <2>3, AboveParent
<1>3. QED
  BY <1>1, <1>2

-----------------------------------------------------------------------------
(***************************************************************************)
(* The inductive invariant: what is missing is still ahead of some copy.   *)
(***************************************************************************)
OnlyCopying ==
    \A th \in Threads : th \notin copying => todo[th] = {} /\ file[th] = NoFile

WritingFiles ==
    \A th \in Threads : file[th] # NoFile => node[file[th]] = "file"

Ahead(p) == \E th \in Threads : \E q \in todo[th] : Above(q, p)

Behind(p) == \E th \in Threads : \E q \in todo[th] : Above(p, q)

FileCovered(p) ==
    \/ Ahead(p)
    \/ /\ node[p] = "file" /\ 0 \notin data[p]
       /\ \A k \in Chunks : \/ k \in data[p]
                           \/ \E th \in Threads : file[th] = p /\ next[th] <= k

DirCovered(p) == node[p] = "dir" \/ Ahead(p) \/ Behind(p)

Covered ==
    \A p \in Paths : IF list(p) = {} THEN FileCovered(p) ELSE DirCovered(p)

AssetInv ==
    /\ TypeOK
    /\ Consistent
    /\ OnlyCopying
    /\ WritingFiles
    /\ trusted => Covered

LEMMA CopyAssetInv ==
    ASSUME AssetInv, NEW th \in Threads, copyAsset(th)
    PROVE  AssetInv'
<1>1. << >> \in Paths /\ todo[th] = {}
  BY AssetsAssumption DEF AssetInv, OnlyCopying, copyAsset
<1>2. TypeOK'
  BY <1>1 DEF AssetInv, TypeOK, copyAsset, fs
<1>3. /\ todo'[th] = {<< >>}
      /\ UNCHANGED << node, data, home, file, next >>
  BY DEF AssetInv, TypeOK, copyAsset, fs
<1>4. \A p \in Paths : Ahead(p)'
  BY <1>3, PathFacts DEF Ahead
<1>5. Covered'
  BY <1>4 DEF Covered, FileCovered, DirCovered
<1>6. Consistent' /\ OnlyCopying' /\ WritingFiles'
  BY <1>3 DEF AssetInv, TypeOK, Consistent, OnlyCopying, WritingFiles, copyAsset
<1>7. QED
  BY <1>2, <1>5, <1>6 DEF AssetInv

LEMMA CopyDirInv ==
    ASSUME AssetInv, NEW th \in copying, NEW p \in todo[th], list(p) # {},
           copyDir(th, p)
    PROVE  AssetInv'
<1>1. /\ th \in Threads /\ p \in Paths /\ list(p) \subseteq Paths
      /\ UNCHANGED << data, home, copying, file, next, trusted >>
      /\ \A u \in Threads : todo'[u] = IF u = th THEN (todo[th] \ {p}) \cup list(p)
                                                  ELSE todo[u]
      /\ \A u \in Threads : todo[u] \subseteq Paths
  BY DEF AssetInv, TypeOK, copyDir, list
<1>2. TypeOK'
  BY <1>1 DEF AssetInv, TypeOK, copyDir
<1>3. \/ UNCHANGED node
      \/ /\ node[p] = "none" /\ Placed(p) /\ node'[p] = "dir"
         /\ \A q \in Paths : q # p => node'[q] = node[q]
  BY <1>1 DEF copyDir, AssetInv, TypeOK
<1>4. Consistent'
  BY <1>1, <1>3, PlacedHasDirs DEF AssetInv, Consistent
<1>5. OnlyCopying' /\ WritingFiles'
  BY <1>1, <1>3 DEF AssetInv, TypeOK, OnlyCopying, WritingFiles
<1>6. \A x \in Paths : Ahead(x) /\ x # p => Ahead(x)'
  <2>1. SUFFICES ASSUME NEW x \in Paths, x # p, NEW u \in Threads,
                        NEW q \in todo[u], Above(q, x)
                 PROVE  Ahead(x)'
    BY DEF Ahead
  <2>2. CASE u = th /\ q = p
    <3>1. \E r \in list(p) : Above(r, x)
      BY <1>1, <2>1, <2>2, BelowIsListed
    <3>2. QED
      BY <1>1, <3>1 DEF Ahead
  <2>3. CASE ~(u = th /\ q = p)
    <3>1. q \in todo'[u]
      BY <1>1, <2>1, <2>3
    <3>2. QED
      BY <2>1, <3>1 DEF Ahead
  <2>4. QED
    BY <2>2, <2>3
<1>7. \A x \in Paths : Behind(x) => Behind(x)'
  <2>1. SUFFICES ASSUME NEW x \in Paths, NEW u \in Threads,
                        NEW q \in todo[u], Above(x, q)
                 PROVE  Behind(x)'
    BY DEF Behind
  <2>2. CASE u = th /\ q = p
    <3>1. PICK r \in list(p) : TRUE
      OBVIOUS
    <3>2. Above(p, r) /\ r \in Paths
      BY DEF list
    <3>3. Above(x, r)
      BY <1>1, <2>1, <2>2, <3>2, AboveTransitive
    <3>4. QED
      BY <1>1, <3>3 DEF Behind
  <2>3. CASE ~(u = th /\ q = p)
    <3>1. q \in todo'[u]
      BY <1>1, <2>1, <2>3
    <3>2. QED
      BY <2>1, <3>1 DEF Behind
  <2>4. QED
    BY <2>2, <2>3
<1>8. Behind(p)'
  BY <1>1, <1>7, PathFacts DEF Behind
<1>9. ASSUME trusted, NEW x \in Paths, list(x) = {}
      PROVE  FileCovered(x)'
  <2>1. x # p /\ FileCovered(x)
    BY <1>9 DEF AssetInv, Covered
  <2>2. node'[x] = node[x]
    BY <1>3, <2>1, <1>9
  <2>3. CASE Ahead(x)
    BY <1>6, <2>1, <2>3 DEF FileCovered
  <2>4. CASE ~Ahead(x)
    BY <1>1, <2>1, <2>2, <2>4 DEF FileCovered
  <2>5. QED
    BY <2>3, <2>4
<1>10. ASSUME trusted, NEW x \in Paths, list(x) # {}
       PROVE  DirCovered(x)'
  <2>1. DirCovered(x) /\ (node[x] = "dir" => node'[x] = "dir")
    BY <1>3, <1>10 DEF AssetInv, Covered
  <2>2. QED
    BY <1>6, <1>7, <1>8, <2>1 DEF DirCovered
<1>11. trusted => Covered'
  BY <1>9, <1>10 DEF Covered, list
<1>12. QED
  BY <1>1, <1>2, <1>4, <1>5, <1>11 DEF AssetInv

LEMMA OpenInv ==
    ASSUME AssetInv, NEW th \in copying, NEW p \in todo[th], list(p) = {},
           file[th] = NoFile, open(th, p)
    PROVE  AssetInv'
<1>1. /\ th \in Threads /\ p \in Paths
      /\ UNCHANGED << home, copying, trusted >>
      /\ \A u \in Threads : todo'[u] = IF u = th THEN todo[th] \ {p} ELSE todo[u]
      /\ \A u \in Threads : file'[u] = IF u = th THEN p ELSE file[u]
      /\ \A u \in Threads : next'[u] = IF u = th THEN 1 ELSE next[u]
      /\ \A u \in Threads : todo[u] \subseteq Paths
      /\ Placed(p) /\ node[p] # "dir" /\ p # NoFile
  BY AssetsAssumption DEF AssetInv, TypeOK, open
<1>2. 1 \in 1..(NChunks + 1)
  BY AssetsAssumption
<1>3. TypeOK'
  BY <1>1, <1>2 DEF AssetInv, TypeOK, open
<1>4. /\ node'[p] = "file" /\ data'[p] = {}
      /\ \A q \in Paths : q # p => node'[q] = node[q] /\ data'[q] = data[q]
  BY <1>1 DEF open, AssetInv, TypeOK
<1>5. \A x \in Paths : Above(p, x) => x = p
  BY <1>1, BelowIsListed
<1>6. home /\ \A x \in Paths : Above(x, p) /\ x # p => node[x] = "dir"
  BY <1>1, PlacedHasDirs DEF AssetInv
<1>7. Consistent'
  BY <1>1, <1>4, <1>5, <1>6 DEF AssetInv, Consistent
<1>8. OnlyCopying' /\ WritingFiles'
  BY <1>1, <1>4 DEF AssetInv, TypeOK, OnlyCopying, WritingFiles
<1>9. \A x \in Paths : Ahead(x) /\ x # p => Ahead(x)'
  BY <1>1, <1>5 DEF Ahead
<1>10. \A x \in Paths : Behind(x) => Behind(x)' \/ Above(x, p)
  BY <1>1 DEF Behind
<1>11. ASSUME trusted, NEW x \in Paths, list(x) = {}
       PROVE  FileCovered(x)'
  <2>1. CASE x = p
    <3>1. \A k \in Chunks : 1 <= k
      BY AssetsAssumption DEF Chunks
    <3>2. file'[th] = p /\ next'[th] = 1
      BY <1>1
    <3>3. QED
      BY <1>1, <1>4, <2>1, <3>1, <3>2 DEF FileCovered
  <2>2. CASE x # p /\ Ahead(x)
    BY <1>9, <2>2 DEF FileCovered
  <2>3. CASE x # p /\ ~Ahead(x)
    <3>1. /\ node'[x] = "file" /\ 0 \notin data'[x] /\ data'[x] = data[x]
          /\ \A k \in Chunks : k \in data[x]
                \/ \E u \in Threads : file[u] = x /\ next[u] <= k
      BY <1>4, <1>11, <2>3 DEF AssetInv, Covered, FileCovered
    <3>2. x # NoFile
      BY AssetsAssumption
    <3>3. \A u \in Threads : file[u] = x => file'[u] = x /\ next'[u] = next[u]
      BY <1>1, <3>2
    <3>4. QED
      BY <3>1, <3>3 DEF FileCovered
  <2>4. QED
    BY <2>1, <2>2, <2>3
<1>12. ASSUME trusted, NEW x \in Paths, list(x) # {}
       PROVE  DirCovered(x)'
  <2>1. x # p /\ DirCovered(x)
    BY <1>12 DEF AssetInv, Covered
  <2>2. node'[x] = node[x]
    BY <1>4, <2>1
  <2>3. QED
    BY <1>6, <1>9, <1>10, <2>1, <2>2 DEF DirCovered
<1>13. trusted => Covered'
  BY <1>11, <1>12 DEF Covered, list
<1>14. QED
  BY <1>1, <1>3, <1>7, <1>8, <1>13 DEF AssetInv

(* Steps that leave the agendas alone keep directories covered. *)
LEMMA DirsUnchanged ==
    ASSUME UNCHANGED << node, todo >>
    PROVE  /\ \A x : DirCovered(x)' = DirCovered(x)
           /\ \A x : Ahead(x)' = Ahead(x)
BY DEF DirCovered, Ahead, Behind

LEMMA WriteInv ==
    ASSUME AssetInv, NEW th \in Threads, write(th)
    PROVE  AssetInv'
<1> DEFINE p == file[th]
<1>1. /\ p \in Paths /\ p # NoFile
      /\ UNCHANGED << node, home, copying, todo, file, trusted >>
      /\ NChunks \in Nat /\ next[th] \in 1..(NChunks + 1)
      /\ next[th] <= NChunks
      /\ \A u \in Threads : next'[u] = IF u = th THEN next[th] + 1 ELSE next[u]
      /\ \A q \in Paths : data'[q] = IF q = p THEN data[p] \cup {next[th]}
                                             ELSE data[q]
  BY AssetsAssumption DEF AssetInv, TypeOK, write
<1>2. next[th] \in Chunks /\ next[th] + 1 \in 1..(NChunks + 1) /\ next[th] # 0
  BY <1>1 DEF Chunks
<1>3. TypeOK'
  BY <1>1, <1>2 DEF AssetInv, TypeOK, write
<1>4. Consistent' /\ OnlyCopying' /\ WritingFiles'
  BY <1>1 DEF AssetInv, Consistent, OnlyCopying, WritingFiles
<1>5. ASSUME trusted, NEW x \in Paths, list(x) = {}
      PROVE  FileCovered(x)'
  <2>1. FileCovered(x)
    BY <1>5 DEF AssetInv, Covered
  <2>2. CASE Ahead(x)
    BY <1>1, <2>2, DirsUnchanged DEF FileCovered
  <2>3. CASE ~Ahead(x)
    <3>1. 0 \notin data'[x] /\ node'[x] = "file"
      BY <1>1, <1>2, <2>1, <2>3 DEF FileCovered
    <3>2. ASSUME NEW k \in Chunks
          PROVE  k \in data'[x] \/ \E u \in Threads : file'[u] = x /\ next'[u] <= k
      <4>1. k \in Nat /\ data[x] \subseteq data'[x]
        BY <1>1, AssetsAssumption DEF Chunks
      <4>2. k \in data[x] \/ \E u \in Threads : file[u] = x /\ next[u] <= k
        BY <2>1, <2>3, <3>2 DEF FileCovered
      <4>3. ASSUME NEW u \in Threads, file[u] = x, next[u] <= k
            PROVE  k \in data'[x] \/ (file'[u] = x /\ next'[u] <= k)
        BY <1>1, <4>1, <4>3
      <4>4. QED
        BY <4>1, <4>2, <4>3
    <3>3. QED
      BY <3>1, <3>2 DEF FileCovered
  <2>4. QED
    BY <2>2, <2>3
<1>6. trusted => Covered'
  BY <1>1, <1>5, DirsUnchanged DEF AssetInv, Covered, list
<1>7. QED
  BY <1>1, <1>3, <1>4, <1>6 DEF AssetInv

LEMMA CloseInv ==
    ASSUME AssetInv, NEW th \in Threads, close(th)
    PROVE  AssetInv'
<1>1. /\ UNCHANGED << node, data, home, copying, todo, next, trusted >>
      /\ \A u \in Threads : file'[u] = IF u = th THEN NoFile ELSE file[u]
      /\ next[th] > NChunks /\ next[th] \in Nat /\ NChunks \in Nat
  BY AssetsAssumption DEF AssetInv, TypeOK, close, fs
<1>2. TypeOK'
  BY <1>1 DEF AssetInv, TypeOK, close
<1>3. Consistent' /\ OnlyCopying' /\ WritingFiles'
  BY <1>1 DEF AssetInv, Consistent, OnlyCopying, WritingFiles
<1>4. \A k \in Chunks : ~(next[th] <= k)
  BY <1>1 DEF Chunks
<1>5. \A x \in Paths : FileCovered(x) => FileCovered(x)'
  BY <1>1, <1>4, DirsUnchanged DEF FileCovered
<1>6. trusted => Covered'
  BY <1>1, <1>5, DirsUnchanged DEF AssetInv, Covered, list
<1>7. QED
  BY <1>1, <1>2, <1>3, <1>6 DEF AssetInv

LEMMA EndInv ==
    ASSUME AssetInv, \/ Kill
                     \/ \E th \in Threads : Return(th) \/ Throw(th)
    PROVE  AssetInv'
<1>1. ASSUME ~trusted', UNCHANGED << fs, next >>, TypeOK',
             \A u \in Threads : \/ todo'[u] = {} /\ file'[u] = NoFile
                               \/ /\ todo'[u] = todo[u] /\ file'[u] = file[u]
                                  /\ u \in copying => u \in copying'
      PROVE  AssetInv'
  <2>1. Consistent' /\ OnlyCopying' /\ WritingFiles'
    BY <1>1 DEF AssetInv, Consistent, OnlyCopying, WritingFiles, fs
  <2>2. QED
    BY <1>1, <2>1 DEF AssetInv
<1>2. CASE Kill
  <2>1. TypeOK'
    BY <1>2 DEF Kill, AssetInv, TypeOK, fs
  <2>2. QED
    BY <1>1, <1>2, <2>1 DEF Kill
<1>3. ASSUME NEW th \in Threads, Throw(th)
      PROVE  AssetInv'
  <2>1. TypeOK'
    BY <1>3 DEF Throw, AssetInv, TypeOK, fs
  <2>2. \A u \in Threads : \/ todo'[u] = {} /\ file'[u] = NoFile
                          \/ /\ todo'[u] = todo[u] /\ file'[u] = file[u]
                             /\ u \in copying => u \in copying'
    BY <1>3 DEF Throw, AssetInv, TypeOK
  <2>3. QED
    BY <1>1, <1>3, <2>1, <2>2 DEF Throw
<1>4. ASSUME NEW th \in Threads, Return(th)
      PROVE  AssetInv'
  <2>1. UNCHANGED << node, data, home, todo, file, next, trusted >>
    BY <1>4 DEF Return, fs
  <2>2. TypeOK' /\ Consistent' /\ OnlyCopying' /\ WritingFiles'
    BY <1>4, <2>1 DEF AssetInv, TypeOK, Consistent, OnlyCopying, WritingFiles,
                      Return
  <2>3. Covered' = Covered
    BY <2>1 DEF Covered, FileCovered, DirCovered, Ahead, Behind
  <2>4. QED
    BY <2>1, <2>2, <2>3 DEF AssetInv
<1>5. QED
  BY <1>2, <1>3, <1>4

LEMMA AssetInvariant == Spec => []AssetInv
<1>1. Init => AssetInv
  <2> SUFFICES ASSUME Init PROVE AssetInv
    OBVIOUS
  <2>1. 1 \in 1..(NChunks + 1)
    BY AssetsAssumption
  <2>2. TypeOK
    BY <2>1 DEF Init, TypeOK
  <2>3. QED
    BY <2>2 DEF Init, AssetInv, OnlyCopying, WritingFiles
<1>2. AssetInv /\ [Next]_vars => AssetInv'
  <2> SUFFICES ASSUME AssetInv, [Next]_vars PROVE AssetInv'
    OBVIOUS
  <2>1. ASSUME NEW th \in Threads, Steps(th)
        PROVE  AssetInv'
    <3>1. CASE copyFileOrDir(th)
      BY <3>1, CopyDirInv, OpenInv DEF copyFileOrDir
    <3>2. QED
      BY <2>1, <3>1, WriteInv, CloseInv, EndInv DEF Steps
  <2>2. CASE UNCHANGED vars
    BY <2>2 DEF vars, AssetInv, TypeOK, Consistent, OnlyCopying, WritingFiles,
                Covered, FileCovered, DirCovered, Ahead, Behind
  <2>3. QED
    BY <2>1, <2>2, CopyAssetInv, EndInv DEF Next
<1>3. QED
  BY <1>1, <1>2, PTL DEF Spec

(* The file system and the copies in flight are well typed. *)
THEOREM AssetsTypeCorrect == Spec => []TypeOK
<1>1. AssetInv => TypeOK
  BY DEF AssetInv
<1>2. QED
  BY <1>1, AssetInvariant, PTL

(***************************************************************************)
(* Whatever the asset and however many threads copy it to one destination, *)
(* after whatever failures and crashes: once the copies that overlapped    *)
(* have returned without an exception, the destination is complete.        *)
(***************************************************************************)
THEOREM CopyIsComplete == Spec => []ReturnMeansComplete
<1>1. AssetInv => ReturnMeansComplete
  <2> SUFFICES ASSUME AssetInv, trusted, copying = {}, NEW p \in Paths
               PROVE  IF list(p) = {} THEN node[p] = "file" /\ data[p] = Chunks
                                      ELSE node[p] = "dir"
    BY DEF ReturnMeansComplete, Complete
  <2>1. \A th \in Threads : todo[th] = {} /\ file[th] = NoFile
    BY DEF AssetInv, OnlyCopying
  <2>2. ~Ahead(p) /\ ~Behind(p)
    BY <2>1 DEF Ahead, Behind
  <2>3. CASE list(p) = {}
    <3>1. /\ node[p] = "file" /\ 0 \notin data[p]
          /\ \A k \in Chunks : k \in data[p]
      BY <2>1, <2>2, <2>3, AssetsAssumption DEF AssetInv, Covered, FileCovered
    <3>2. data[p] \subseteq Chunks \cup {0}
      BY DEF AssetInv, TypeOK
    <3>3. QED
      BY <2>3, <3>1, <3>2
  <2>4. CASE list(p) # {}
    BY <2>2, <2>4 DEF AssetInv, Covered, DirCovered
  <2>5. QED
    BY <2>3, <2>4
<1>2. QED
  BY <1>1, AssetInvariant, PTL
=============================================================================

--------------------------- MODULE ActivityProofs ---------------------------
(***************************************************************************)
(* The directory and the texts of the example, for any number of instances *)
(* of the activity.                                                        *)
(***************************************************************************)
EXTENDS MainActivity, TLAPS

(***************************************************************************)
(* DirUntilTorn is not inductive: an instance that onCreate adds must not  *)
(* be among the ready ones already, and those that are must be alive, so   *)
(* that onCreate and onDestroy of others count them as torn.               *)
(***************************************************************************)
Ready == ready \subseteq alive

Texts == text \in [Activities -> {"none", "Model is loaded", "a value",
                                  "Model is not loaded"}]

ActivityInv == Ready /\ Texts /\ DirUntilTorn /\ TextIsTrue

(* Initially, and after a process has died, there are no instances. *)
LEMMA InitInv == Init => ActivityInv
  BY DEF Init, ActivityInv, Ready, Texts, DirUntilTorn, TextIsTrue

LEMMA DieInv == Die => ActivityInv'
  BY DEF Die, ActivityInv, Ready, Texts, DirUntilTorn, TextIsTrue

(* The directory that a successful setUp leaves is there. *)
LEMMA OnCreateInv ==
  ASSUME NEW a \in Activities, ActivityInv, onCreate(a) PROVE ActivityInv'
<1>1. Ready'
  BY DEF ActivityInv, Ready, onCreate, setUp
<1>2. Texts' /\ TextIsTrue'
  BY DEF ActivityInv, Texts, TextIsTrue, onCreate
<1>3. DirUntilTorn'
  <2>1. CASE models' = "empty" /\ ready' = ready \cup {a}
    BY <2>1 DEF DirUntilTorn
  <2>2. CASE UNCHANGED ready
    BY <2>2 DEF ActivityInv, Ready, DirUntilTorn, onCreate
  <2> QED BY <2>1, <2>2 DEF onCreate, setUp
<1> QED BY <1>1, <1>2, <1>3 DEF ActivityInv

LEMMA OnDestroyInv ==
  ASSUME NEW a \in Activities, ActivityInv, onDestroy(a) PROVE ActivityInv'
<1>1. Ready' /\ DirUntilTorn'
  BY DEF ActivityInv, Ready, DirUntilTorn, onDestroy
<1>2. Texts' /\ TextIsTrue'
  BY DEF ActivityInv, Texts, TextIsTrue, onDestroy
<1> QED BY <1>1, <1>2 DEF ActivityInv

(* Neither a load that succeeds nor one that fails removes the directory. *)
LEMMA OnLoadModelInv ==
  ASSUME NEW a \in Activities, ActivityInv, onLoadModel(a) PROVE ActivityInv'
<1>1. CASE Die
  BY <1>1, DieInv
<1>2. CASE notLoaded(a)
  <2>1. models # "absent" => models' # "absent"
    BY <1>2 DEF notLoaded
  <2> QED BY <2>1, <1>2 DEF notLoaded, ActivityInv, Ready, Texts, DirUntilTorn, TextIsTrue
<1>3. CASE loaded(a) /\ ~Die
  <2>1. /\ models' = "complete" /\ bundle' = bundle \cup {a}
        /\ text' = [text EXCEPT ![a] = "Model is loaded"]
        /\ UNCHANGED << alive, ready, torn >>
    BY <1>3 DEF loaded
  <2> QED BY <2>1 DEF ActivityInv, Ready, Texts, DirUntilTorn, TextIsTrue
<1> QED BY <1>1, <1>2, <1>3 DEF onLoadModel

LEMMA OnRunModelInv ==
  ASSUME NEW a \in Activities, ActivityInv, onRunModel(a) PROVE ActivityInv'
<1>1. CASE Die
  BY <1>1, DieInv
<1>2. CASE ~Die
  BY <1>2 DEF onRunModel, ActivityInv, Ready, Texts, DirUntilTorn, TextIsTrue
<1> QED BY <1>1, <1>2

LEMMA OnUnloadModelInv ==
  ASSUME NEW a \in Activities, ActivityInv, onUnloadModel(a) PROVE ActivityInv'
  BY DEF onUnloadModel, ActivityInv, Ready, Texts, DirUntilTorn, TextIsTrue

LEMMA NextInv == ActivityInv /\ [Next]_vars => ActivityInv'
<1> SUFFICES ASSUME ActivityInv, [Next]_vars PROVE ActivityInv'
  OBVIOUS
<1>1. CASE Kill
  BY <1>1, DieInv DEF Kill
<1>2. ASSUME NEW a \in Activities,
             \/ onCreate(a) \/ onDestroy(a) \/ onLoadModel(a)
             \/ onRunModel(a) \/ onUnloadModel(a)
      PROVE  ActivityInv'
  BY <1>2, OnCreateInv, OnDestroyInv, OnLoadModelInv, OnRunModelInv, OnUnloadModelInv
<1>3. CASE UNCHANGED vars
  BY <1>3 DEF vars, ActivityInv, Ready, Texts, DirUntilTorn, TextIsTrue
<1> QED BY <1>1, <1>2, <1>3 DEF Next

LEMMA ActivityInvariant == Spec => []ActivityInv
  BY InitInv, NextInv, PTL DEF Spec

(***************************************************************************)
(* However many instances there are, in whatever order Android calls them  *)
(* back and wherever it kills the process: the directory that an instance  *)
(* has set up is there until another one is created or destroyed.          *)
(***************************************************************************)
THEOREM DirectoryKept == Spec => []DirUntilTorn
<1>1. ActivityInv => DirUntilTorn
  BY DEF ActivityInv
<1> QED BY <1>1, ActivityInvariant, PTL

(***************************************************************************)
(* And each instance shows whether it has a model: onLoadModel and         *)
(* onRunModel set the text only after the step that may fail.              *)
(***************************************************************************)
THEOREM TextsAreTrue == Spec => []TextIsTrue
<1>1. ActivityInv => TextIsTrue
  BY DEF ActivityInv
<1> QED BY <1>1, ActivityInvariant, PTL
=============================================================================

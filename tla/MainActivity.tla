---------------------------- MODULE MainActivity ----------------------------
(***************************************************************************)
(* The example application: activities that load, run and unload a model   *)
(* which they copy from the assets to a directory `models'.                *)
(*                                                                         *)
(* All callbacks run on the main thread, one at a time, but instances of   *)
(* the activity overlap: Android may create one before it destroys another *)
(* of the same process.  They share the directory, which also outlives the *)
(* process, and the native memory, which does not.                         *)
(***************************************************************************)
EXTENDS Naturals

CONSTANTS
    Activities,  \* instances of MainActivity
    MaxSessions  \* the number of sessions there is memory for

ASSUME ActivityAssumption == MaxSessions \in Nat

VARIABLES
    models,    \* what is in the directory
    alive,     \* the instances between onCreate and onDestroy
    bundle,    \* those whose field savedModelBundle is not null
    text,      \* what each instance shows
    sessions,  \* the number of native sessions in memory
    ready,     \* history: those whose setUp succeeded
    torn       \* history: those after which another one has changed `models'

vars == << models, alive, bundle, text, sessions, ready, torn >>

(* What deleteRecursive leaves of the directory when some delete fails. *)
Remains(m) == [absent |-> {"absent"},
               empty |-> {"empty"},
               partial |-> {"partial", "empty"},
               complete |-> {"complete", "partial", "empty"}][m]

(* The process dies, with the sessions and without any onDestroy. *)
Die ==
    /\ alive' = {} /\ bundle' = {} /\ ready' = {} /\ torn' = {}
    /\ text' = [a \in Activities |-> "none"]
    /\ sessions' = 0

-----------------------------------------------------------------------------
(* Mutant: the directory is made before the old one is deleted. *)
setUpReversed(a) ==
    /\ models' = IF models = "absent" THEN "empty" ELSE "absent"
    /\ ready' = ready \cup {a}

(***************************************************************************)
(* setUp: delete the directory if it is there, then make it; onCreate      *)
(* catches the exception when either fails.                                *)
(***************************************************************************)
setUp(a) ==
    \/ models' = "empty" /\ ready' = ready \cup {a}
    \/ models' \in {"absent"} \cup Remains(models) /\ UNCHANGED ready

onCreate(a) ==
    /\ a \notin alive
    /\ setUp(a)
    /\ alive' = alive \cup {a}
    /\ torn' = torn \cup alive
    /\ UNCHANGED << bundle, text, sessions >>

(* tearDown fails if there is no directory; onDestroy catches that, too. *)
onDestroy(a) ==
    /\ a \in alive
    /\ models' \in {"absent"} \cup Remains(models)
    /\ alive' = alive \ {a}
    /\ bundle' = bundle \ {a}
    /\ text' = [text EXCEPT ![a] = "none"]
    /\ ready' = ready \ {a}
    /\ torn' = (torn \cup alive) \ {a}
    /\ UNCHANGED sessions

(* Mutant: the text is set whether or not the copy succeeded. *)
notLoadedSilently(a) ==
    /\ models' \in IF models = "absent" THEN {"absent"}
                   ELSE {models, "partial", "complete"}
    /\ text' = [text EXCEPT ![a] = "Model is loaded"]
    /\ UNCHANGED << alive, bundle, sessions, ready, torn >>

(* bundleForFile throws, which it must where there is no directory to copy *)
(* to: onLoadModel catches the exception and changes nothing.              *)
notLoaded(a) ==
    /\ models' \in IF models = "absent" THEN {"absent"}
                   ELSE {models, "partial", "complete"}
    /\ UNCHANGED << alive, bundle, text, sessions, ready, torn >>

(***************************************************************************)
(* Otherwise the copy is complete (module AndroidAssets) and is loaded; a  *)
(* bundle that the field already has is dropped without close().  The      *)
(* exception of a failing load is not caught.                              *)
(***************************************************************************)
loaded(a) ==
    /\ models # "absent"
    /\ models' = "complete"
    /\ \/ /\ sessions < MaxSessions
          /\ sessions' = sessions + 1
          /\ bundle' = bundle \cup {a}
          /\ text' = [text EXCEPT ![a] = "Model is loaded"]
          /\ UNCHANGED << alive, ready, torn >>
       \/ Die

onLoadModel(a) == a \in alive /\ (loaded(a) \/ notLoaded(a))

(* Without a bundle, or when run throws, nobody catches the exception. *)
onRunModel(a) ==
    /\ a \in alive
    /\ \/ /\ a \in bundle
          /\ text' = [text EXCEPT ![a] = "a value"]
          /\ UNCHANGED << alive, bundle, sessions, ready, torn >>
       \/ Die
    /\ UNCHANGED models

(* The bundle is dropped without close(). *)
onUnloadModel(a) ==
    /\ a \in alive
    /\ bundle' = bundle \ {a}
    /\ text' = [text EXCEPT ![a] = "Model is not loaded"]
    /\ UNCHANGED << models, alive, sessions, ready, torn >>

(* Android kills the process, possibly in the middle of a callback. *)
Kill == Die /\ models' \in {models, "absent"} \cup Remains(models)
                               \cup IF models = "absent" THEN {"empty"}
                                    ELSE {"partial", "complete"}

-----------------------------------------------------------------------------
Init ==
    /\ models = "absent"
    /\ alive = {} /\ bundle = {} /\ ready = {} /\ torn = {}
    /\ text = [a \in Activities |-> "none"]
    /\ sessions = 0

Next ==
    \/ Kill
    \/ \E a \in Activities : \/ onCreate(a) \/ onDestroy(a) \/ onLoadModel(a)
                             \/ onRunModel(a) \/ onUnloadModel(a)

Spec == Init /\ [][Next]_vars

-----------------------------------------------------------------------------
(***************************************************************************)
(* Properties.                                                             *)
(***************************************************************************)

(***************************************************************************)
(* An instance that has set up its directory keeps it, emptied or not,     *)
(* until another instance is created or destroyed: neither a failing load  *)
(* nor its own callbacks take it away.                                     *)
(***************************************************************************)
DirUntilTorn == ready \ torn # {} => models # "absent"

(***************************************************************************)
(* What an instance shows is true: it says that the model is loaded, or    *)
(* shows a value, exactly while it has a bundle, after loads that failed   *)
(* and callbacks of other instances too.                                   *)
(***************************************************************************)
TextIsTrue ==
    \A a \in Activities :
        text[a] \in {"Model is loaded", "a value"} <=> a \in bundle
=============================================================================

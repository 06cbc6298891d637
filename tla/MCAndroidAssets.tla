-------------------------- MODULE MCAndroidAssets --------------------------
(* A model with a graph and, in a directory of its own, two variable files. *)
EXTENDS AndroidAssets

FileNames == {"saved_model", "variables", "index", "data"}

SavedModel == { << >>, << "saved_model" >>, << "variables" >>,
                << "variables", "index" >>, << "variables", "data" >> }
=============================================================================

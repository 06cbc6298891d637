--------------------------- MODULE MCMainActivity ---------------------------
(* Two instances, as when the user leaves the activity and is back before *)
(* Android has destroyed the first.                                       *)
EXTENDS MainActivity
=============================================================================

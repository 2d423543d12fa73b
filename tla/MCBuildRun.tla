----------------------------- MODULE MCBuildRun -----------------------------
(* A build with two attempts of which two transport failures may repeat one. *)
EXTENDS BuildRun
=============================================================================

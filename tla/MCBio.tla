-------------------------------- MODULE MCBio -------------------------------
(* Bio for TLC, with no symmetry: the run checks liveness.                  *)
EXTENDS Bio
=============================================================================

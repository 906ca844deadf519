------------------------------- MODULE MCReady -------------------------------
(***************************************************************************)
(* The instance of Ready that TLC checks.                                  *)
(***************************************************************************)
EXTENDS Ready
=============================================================================

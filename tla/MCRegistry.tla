----------------------------- MODULE MCRegistry -----------------------------
(* The instance of Registry that TLC checks; Registry.cfg has the values.  *)
EXTENDS Registry
=============================================================================

------------------------------ MODULE MCGuardian ------------------------------
(* One launch; the model is finite as it stands.                           *)
EXTENDS Guardian
=============================================================================

----------------------------- MODULE MCRunLedger -----------------------------
(* Two runs competing for one key and one request id, two owner tokens.    *)
EXTENDS RunLedger, TLC

RunSymmetry == Permutations(Runs) \cup Permutations(Owners)
=============================================================================

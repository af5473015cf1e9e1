----------------------------- MODULE MCExecution -----------------------------
EXTENDS Execution, TLC

(* Every run asks for the same key.                                        *)
CONSTANT k1
SharedKey == [r \in Runs |-> k1]

(* The runs are interchangeable when all of them are effectful.            *)
RunSymmetry == Permutations(Runs)
=============================================================================

---------------------------- MODULE MCSubmission ----------------------------
EXTENDS Submission

(* Every run asks for the same key.                                        *)
CONSTANT k1
SharedKey == [r \in Runs |-> k1]
=============================================================================

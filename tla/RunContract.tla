----------------------------- MODULE RunContract -----------------------------
(***************************************************************************)
(* What an invocation promises, without leases, transactions, processes'   *)
(* deaths or files: a run is opened once, its workflow executes at most    *)
(* once, it is decided once, and the resource it asked for is its own from *)
(* the moment it opens until it is settled with known effects, or settled  *)
(* and reconciled, with no workflow executing.  Execution implements it.   *)
(***************************************************************************)
EXTENDS Naturals

CONSTANTS Runs, Keys, None

(* What an implementation has to grant of its constants; the theorems name *)
(* it as a hypothesis.                                                     *)
ContractAssumption ==
    /\ None \notin Runs
    /\ None \notin Keys
    /\ "fresh" \notin Keys \cup {None}

VARIABLES
    phase,      \* how far each run has come
    resolved,   \* whether a decided run's effects are known
    wants,      \* the key each run was opened with
    holder,     \* the run holding each key
    execution   \* whether each run's workflow has not begun, runs, is over

contractVars == <<phase, resolved, wants, holder, execution>>

Phases == {"fresh", "open", "decided", "settled", "forgotten"}

ContractTypeOK ==
    /\ phase \in [Runs -> Phases]
    /\ resolved \in [Runs -> BOOLEAN]
    /\ wants \in [Runs -> Keys \cup {None, "fresh"}]
    /\ holder \in [Keys -> Runs \cup {None}]
    /\ execution \in [Runs -> {"ahead", "on", "over"}]

ContractInit ==
    /\ phase = [r \in Runs |-> "fresh"]
    /\ resolved = [r \in Runs |-> TRUE]
    /\ wants = [r \in Runs |-> "fresh"]
    /\ holder = [k \in Keys |-> None]
    /\ execution = [r \in Runs |-> "ahead"]

-----------------------------------------------------------------------------
Open(r) == \E key \in Keys \cup {None} :
    /\ phase[r] = "fresh"
    /\ key \in Keys => holder[key] = None
    /\ phase' = [phase EXCEPT ![r] = "open"]
    /\ wants' = [wants EXCEPT ![r] = key]
    /\ holder' = [k \in Keys |-> IF k = key THEN r ELSE holder[k]]
    /\ \E known \in BOOLEAN : resolved' = [resolved EXCEPT ![r] = known]
    /\ UNCHANGED execution

(* A worker that is fenced out between its last heartbeat and its          *)
(* acknowledgement can still begin a decided run, never a settled one.     *)
Begin(r) ==
    /\ phase[r] \in {"open", "decided"}
    /\ execution[r] = "ahead"
    /\ execution' = [execution EXCEPT ![r] = "on"]
    /\ UNCHANGED <<phase, resolved, wants, holder>>

(* The workflow ends, or can no longer begin.                              *)
End(r) ==
    /\ execution[r] # "over"
    /\ execution' = [execution EXCEPT ![r] = "over"]
    /\ UNCHANGED <<phase, resolved, wants, holder>>

Decide(r) ==
    /\ phase[r] = "open"
    /\ phase' = [phase EXCEPT ![r] = "decided"]
    /\ \E known \in BOOLEAN : resolved' = [resolved EXCEPT ![r] = known]
    /\ UNCHANGED <<wants, holder, execution>>

FreeKeysOf(r) == holder' = [k \in Keys |-> IF holder[k] = r THEN None ELSE holder[k]]

SettleRun(r) ==
    /\ phase[r] = "decided"
    /\ execution[r] # "on"
    /\ phase' = [phase EXCEPT ![r] = "settled"]
    /\ IF resolved[r] THEN FreeKeysOf(r) ELSE UNCHANGED holder
    /\ UNCHANGED <<resolved, wants, execution>>

Reconcile(r) ==
    /\ phase[r] = "settled"
    /\ execution[r] # "on"
    /\ FreeKeysOf(r)
    /\ UNCHANGED <<phase, resolved, wants, execution>>

Forget(r) ==
    /\ phase[r] = "settled"
    /\ execution[r] # "on"
    /\ \A k \in Keys : holder[k] # r
    /\ phase' = [phase EXCEPT ![r] = "forgotten"]
    /\ resolved' = [resolved EXCEPT ![r] = TRUE]
    /\ UNCHANGED <<wants, holder, execution>>

ContractNext == \E r \in Runs :
    \/ Open(r) \/ Begin(r) \/ End(r) \/ Decide(r)
    \/ SettleRun(r) \/ Reconcile(r) \/ Forget(r)

ContractSpec == ContractInit /\ [][ContractNext]_contractVars

-----------------------------------------------------------------------------
(* Two runs that asked for the same key never execute at the same time.    *)
OneWorkflowPerKey ==
    \A r, q \in Runs :
        /\ execution[r] = "on" /\ execution[q] = "on"
        /\ wants[r] = wants[q] /\ wants[r] \in Keys
        => r = q
=============================================================================

--------------------------- MODULE RunContractProofs ---------------------------
(***************************************************************************)
(* The contract keeps resources exclusive, for any runs and keys: whatever *)
(* implements RunContract never executes two workflows on one resource.    *)
(***************************************************************************)
EXTENDS RunContract, TLAPS

(* The strengthening that is inductive: only an unsettled run executes,    *)
(* and an unsettled run holds the key it asked for.                        *)
ExecutingIsUnsettled ==
    \A r \in Runs : execution[r] = "on" => phase[r] \in {"open", "decided"}
UnsettledHolds ==
    \A r \in Runs : phase[r] \in {"open", "decided"} /\ wants[r] \in Keys
                        => holder[wants[r]] = r
ContractInv == ContractTypeOK /\ ExecutingIsUnsettled /\ UnsettledHolds

LEMMA ContractInitInv ==
    ASSUME ContractAssumption, ContractInit PROVE ContractInv
  BY
  DEF ContractInit, ContractInv, ContractTypeOK, ExecutingIsUnsettled,
      UnsettledHolds, Phases

LEMMA ContractStepInv ==
    ASSUME ContractAssumption, ContractInv, [ContractNext]_contractVars
    PROVE  ContractInv'
  <1> USE DEF ContractAssumption, ContractInv, ContractTypeOK,
              ExecutingIsUnsettled, UnsettledHolds, Phases
  <1>1. ASSUME NEW r \in Runs, Open(r) PROVE ContractInv'
    <2> PICK key \in Keys \cup {None} :
          /\ phase[r] = "fresh"
          /\ key \in Keys => holder[key] = None
          /\ phase' = [phase EXCEPT ![r] = "open"]
          /\ wants' = [wants EXCEPT ![r] = key]
          /\ holder' = [k \in Keys |-> IF k = key THEN r ELSE holder[k]]
          /\ \E known \in BOOLEAN : resolved' = [resolved EXCEPT ![r] = known]
          /\ UNCHANGED execution
      BY <1>1 DEF Open
    <2>1. ContractTypeOK'
      OBVIOUS
    <2>2. ExecutingIsUnsettled'
      OBVIOUS
    <2>3. UnsettledHolds'
      <3> SUFFICES ASSUME NEW q \in Runs, phase'[q] \in {"open", "decided"},
                          wants'[q] \in Keys
                   PROVE  holder'[wants'[q]] = q
        OBVIOUS
      <3>1. CASE q = r
        BY <3>1
      <3>2. CASE q # r
        BY <3>2
      <3> QED BY <3>1, <3>2
    <2> QED BY <2>1, <2>2, <2>3
  <1>2. ASSUME NEW r \in Runs, Begin(r) PROVE ContractInv'
    BY <1>2 DEF Begin
  <1>3. ASSUME NEW r \in Runs, End(r) PROVE ContractInv'
    BY <1>3 DEF End
  <1>4. ASSUME NEW r \in Runs, Decide(r) PROVE ContractInv'
    BY <1>4 DEF Decide
  <1>5. ASSUME NEW r \in Runs, SettleRun(r) PROVE ContractInv'
    <2>1. holder' \in [Keys -> Runs \cup {None}]
      BY <1>5 DEF SettleRun, FreeKeysOf
    <2>2. \A k \in Keys : holder[k] # r => holder'[k] = holder[k]
      BY <1>5 DEF SettleRun, FreeKeysOf
    <2> QED BY <1>5, <2>1, <2>2 DEF SettleRun
  <1>6. ASSUME NEW r \in Runs, Reconcile(r) PROVE ContractInv'
    <2>1. holder' \in [Keys -> Runs \cup {None}]
      BY <1>6 DEF Reconcile, FreeKeysOf
    <2>2. \A k \in Keys : holder[k] # r => holder'[k] = holder[k]
      BY <1>6 DEF Reconcile, FreeKeysOf
    <2> QED BY <1>6, <2>1, <2>2 DEF Reconcile
  <1>7. ASSUME NEW r \in Runs, Forget(r) PROVE ContractInv'
    BY <1>7 DEF Forget
  <1>8. CASE UNCHANGED contractVars
    BY <1>8 DEF contractVars
  <1> QED
    BY <1>1, <1>2, <1>3, <1>4, <1>5, <1>6, <1>7, <1>8 DEF ContractNext

LEMMA ContractInvariant ==
    ContractAssumption => (ContractSpec => []ContractInv)
  <1> SUFFICES ASSUME ContractAssumption PROVE ContractSpec => []ContractInv
    OBVIOUS
  <1>1. ContractInit => ContractInv
    BY ContractInitInv
  <1>2. ContractInv /\ [ContractNext]_contractVars => ContractInv'
    BY ContractStepInv
  <1> QED BY <1>1, <1>2, PTL DEF ContractSpec

(* The variables of the contract keep their types.                         *)
THEOREM ContractTypes == ContractAssumption => (ContractSpec => []ContractTypeOK)
  <1> SUFFICES ASSUME ContractAssumption PROVE ContractSpec => []ContractTypeOK
    OBVIOUS
  <1>1. ContractSpec => []ContractInv
    BY ContractInvariant
  <1>2. ContractInv => ContractTypeOK
    BY DEF ContractInv
  <1> QED BY <1>1, <1>2, PTL

(* Two workflows never execute on one resource at the same time.           *)
THEOREM ContractExclusion ==
    ContractAssumption => (ContractSpec => []OneWorkflowPerKey)
  <1> SUFFICES ASSUME ContractAssumption PROVE ContractSpec => []OneWorkflowPerKey
    OBVIOUS
  <1>1. ContractSpec => []ContractInv
    BY ContractInvariant
  <1>2. ContractInv => OneWorkflowPerKey
    BY DEF ContractInv, ExecutingIsUnsettled, UnsettledHolds, OneWorkflowPerKey
  <1> QED BY <1>1, <1>2, PTL
=============================================================================

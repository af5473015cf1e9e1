-------------------------- MODULE WorkflowsProofs --------------------------
(***************************************************************************)
(* Theorems about one run under its worker: a result is earned, what       *)
(* task-reproduce finds is backed by what its workers did, what            *)
(* deploy-monitor says of a deployment is so, no secret can be read in the *)
(* log, and everything is of its type, for all programs, requests, jobs,   *)
(* plans of a deployment, secrets, chunks and interleavings.  The folds    *)
(* that cut and redact are recursions over sets; what they compute is      *)
(* proved by taking the least number, or the smallest set, that it would   *)
(* not hold of.                                                            *)
(***************************************************************************)
EXTENDS Workflows, FiniteSetTheorems, SequenceTheorems, TLAPS

-----------------------------------------------------------------------------
(* Evidence: what is accepted makes a record.                              *)

\* the checks are a list, and the effects are some effects
Judgeable(e) ==
    /\ \E n \in Nat : DOMAIN e.checks = 1..n
    /\ e.effects \in Effects

(* The checks of one status are finitely many (verification.py).           *)
LEMMA StatusIsFinite ==
    ASSUME NEW e, Judgeable(e), NEW status
    PROVE  /\ IsFiniteSet(WithStatus(e.checks, status))
           /\ Cardinality(WithStatus(e.checks, status)) \in Nat
<1>1. PICK n \in Nat : DOMAIN e.checks = 1..n
  BY DEF Judgeable
<1>2. IsFiniteSet(1..n)
  BY FS_Interval
<1>3. WithStatus(e.checks, status) \in SUBSET (1..n)
  BY <1>1 DEF WithStatus
<1>4. IsFiniteSet(WithStatus(e.checks, status))
  BY <1>2, <1>3, FS_Subset
<1> QED BY <1>4, FS_CardinalityType

(* As many checks pass as are required: the required names are distinct,   *)
(* and a passing check has one name (domain.py, consistent_state).         *)
LEMMA PassesCoverRequired ==
    ASSUME NEW e, Judgeable(e), NEW required \in Seq(CheckNames), NEW exit,
           Injective(required), ProvenPass(e, required, exit)
    PROVE  Cardinality(WithStatus(e.checks, "pass")) >= Len(required)
<1> DEFINE W == WithStatus(e.checks, "pass")
           f == [i \in 1..Len(required) |-> CHOOSE k \in W : e.checks[k].name = required[i]]
<1>0. Len(required) \in Nat /\ DOMAIN required = 1..Len(required)
  OBVIOUS
<1>1. \A i \in 1..Len(required) : f[i] \in W /\ e.checks[f[i]].name = required[i]
  BY DEF ProvenPass, Proves
<1>2. \A i, j \in 1..Len(required) : f[i] = f[j] => i = j
  <2>1. \A i, j \in 1..Len(required) : f[i] = f[j] => required[i] = required[j]
    BY <1>1
  <2>2. \A i, j \in 1..Len(required) : required[i] = required[j] => i = j
    BY <1>0 DEF Injective
  <2> QED BY <2>1, <2>2
<1>3. f \in [1..Len(required) -> W]
  BY <1>1
<1> HIDE DEF f
<1>4. f \in Injection(1..Len(required), W)
  BY <1>2, <1>3 DEF Injection, IsInjective
<1>5. Cardinality(1..Len(required)) <= Cardinality(W)
  BY <1>4, StatusIsFinite, FS_Injection
<1>6. Cardinality(1..Len(required)) = Len(required)
  BY <1>0, FS_Interval
<1>7. Cardinality(W) \in Nat
  BY StatusIsFinite
<1> QED BY <1>0, <1>5, <1>6, <1>7

(* What the worker makes of a workflow's evidence (verify_evidence and     *)
(* Run.finish): a refusal that has a name, or a record that can be built.  *)
LEMMA AcceptedIsConsistent ==
    ASSUME NEW r, NEW e, Judgeable(e), NEW required \in Seq(CheckNames), NEW exit,
           Injective(required), r \in {Started("unknown"), Started("none")},
           Verdict(e, required, exit) = "accepted"
    PROVE  /\ Finished(r, e, required, exit) = Completed(r, e, required)
           /\ Consistent(Completed(r, e, required))
           /\ e.mine
           /\ e.outcome = "pass" => ProvenPass(e, required, exit)
           /\ e.outcome = "fail" => ProvenFailure(e)
<1>1. /\ e.mine
      /\ e.outcome = "pass" => ProvenPass(e, required, exit)
      /\ e.outcome = "fail" => ProvenFailure(e)
  BY DEF Verdict
<1> DEFINE c == Completed(r, e, required)
<1>2. /\ c.state = "completed" /\ c.outcome = e.outcome /\ c.effects = e.effects
      /\ c.counts = Counts(e, required) /\ c.error = None
  BY DEF Completed, Started
<1>3. /\ Counts(e, required).passed = Cardinality(WithStatus(e.checks, "pass"))
      /\ Counts(e, required).failed = Cardinality(WithStatus(e.checks, "fail"))
      /\ Counts(e, required).required = Len(required)
  BY DEF Counts
<1>4. Counts(e, required) # None
  <2>1. Counts(e, required) \in [required : Nat, passed : Nat, failed : Nat, skipped : Nat]
    <3>1. \A status : Cardinality(WithStatus(e.checks, status)) \in Nat
      BY StatusIsFinite
    <3>2. Len(required) \in Nat
      OBVIOUS
    <3> QED BY <3>1, <3>2 DEF Counts
  <2> QED BY <2>1, EvidenceAssumption
<1> HIDE DEF c
<1>5. ASSUME c.outcome = "pass"
      PROVE  c.counts.failed = 0 /\ c.counts.passed >= c.counts.required
             /\ c.effects \notin {"unknown", "partial"}
  <2>1. ProvenPass(e, required, exit)
    BY <1>1, <1>2, <1>5
  <2>2. WithStatus(e.checks, "fail") = {} /\ e.effects \notin {"partial", "unknown"}
    BY <2>1 DEF ProvenPass
  <2>3. Cardinality(WithStatus(e.checks, "pass")) >= Len(required)
    BY <2>1, PassesCoverRequired
  <2> QED BY <1>2, <1>3, <2>2, <2>3, FS_EmptySet
<1>6. ASSUME c.outcome = "fail" PROVE c.counts.failed > 0
  <2>1. WithStatus(e.checks, "fail") # {}
    BY <1>1, <1>2, <1>6 DEF ProvenFailure
  <2>2. /\ IsFiniteSet(WithStatus(e.checks, "fail"))
        /\ Cardinality(WithStatus(e.checks, "fail")) \in Nat
    BY StatusIsFinite
  <2>3. Cardinality(WithStatus(e.checks, "fail")) # 0
    BY <2>1, <2>2, FS_EmptySet
  <2> QED BY <1>2, <1>3, <2>2, <2>3
<1>7. Consistent(c)
  BY <1>2, <1>4, <1>5, <1>6 DEF Consistent
<1> QED BY <1>1, <1>7 DEF c, Finished

\* what the gate may refuse evidence with
Refusals == {"STALE_EVIDENCE", "DUPLICATE_CHECK", "INVALID_OUTPUT", "UNPROVEN_PASS",
             "UNPROVEN_FAILURE", "PROCESS_FAILED"}

(* Evidence that is not accepted is refused under one of six names         *)
(* (verification.py).                                                      *)
LEMMA VerdictIsNamed ==
    ASSUME NEW e, NEW required, NEW exit
    PROVE  Verdict(e, required, exit) \in Refusals \cup {"accepted"}
BY DEF Verdict, Refusals

-----------------------------------------------------------------------------
(* The policy: what it admits, and how it refuses.                         *)

(* A non-empty set of numbers has a least one (the first condition that    *)
(* does not hold is the one reported).                                     *)
LEMMA LeastIsIn ==
    ASSUME NEW I \in SUBSET Nat, I # {}
    PROVE  Min(I) \in I /\ \A y \in I : Min(I) =< y
<1>1. IsWellFoundedOn(OpToRel(<, Nat), Nat)
  BY NatLessThanWellFounded
<1>2. \E x \in I : \A y \in I : ~(<<y, x>> \in OpToRel(<, Nat))
  BY <1>1, WFMin
<1>3. \A x, y \in Nat : y < x => <<y, x>> \in OpToRel(<, Nat)
  BY DEF OpToRel
<1>4. PICK x \in I : \A y \in I : ~(<<y, x>> \in OpToRel(<, Nat))
  BY <1>2
<1>5. ASSUME NEW y \in I PROVE x =< y
  <2>1. ~(y < x)
    BY <1>3, <1>4
  <2> QED BY <2>1
<1> QED BY <1>5 DEF Min

\* what the policy may refuse a request with
PolicyRefusals == {"UNTRUSTED", "INPUT_TOO_LARGE", "INVALID_INPUT", "ENVIRONMENT_DENIED",
                   "PRODUCTION_PROFILE_REQUIRED", "SECRET_INPUT"}
                  \cup {HostChecks[i][2] : i \in DOMAIN HostChecks}

(* No refusal of the policy or of the evidence is called like a result, a  *)
(* stop or a worker's own failure.                                         *)
LEMMA NamesApart ==
    \A name \in PolicyRefusals \cup Refusals :
        name \notin {"allowed", "accepted", "CANCELLED", "EXECUTION_ERROR"}
<1> DEFINE N == {"MISSING_WORKSPACE", "CONTENT_CHANGED", "INCOMPATIBLE_PLATFORM", "WRONG_REPOSITORY",
                 "MISSING_PATH", "INVALID_PROFILE", "MISSING_CREDENTIAL", "INVALID_CREDENTIAL",
                 "MISSING_COMMAND"}
<1>1. \A i \in DOMAIN HostChecks : HostChecks[i][2] \in N
  BY DEF HostChecks
<1>2. PolicyRefusals \subseteq {"UNTRUSTED", "INPUT_TOO_LARGE", "INVALID_INPUT",
          "ENVIRONMENT_DENIED", "PRODUCTION_PROFILE_REQUIRED", "SECRET_INPUT"} \cup N
  BY <1>1 DEF PolicyRefusals
<1> QED BY <1>2 DEF Refusals

\* what has to hold, whatever the secrets are
Admits(q, st) ==
    /\ q.validation \/ st.granted
    /\ q.environment \in st.environments
    /\ \A i \in DOMAIN HostChecks : HostChecks[i][1] \in st.facts

(* A function on 1..n is a sequence of length n.                           *)
LEMMA ListIsSequence ==
    ASSUME NEW S, NEW n \in Nat, NEW f \in [1..n -> S]
    PROVE  f \in Seq(S) /\ Len(f) = n
OBVIOUS

\* five conditions, nine and one, one list after the other
ThreeParts(a, b, z, c) ==
    /\ Len(c) = 15
    /\ \A i \in 1..5 : c[i] = a[i]
    /\ \A i \in 1..9 : c[5 + i] = b[i]
    /\ c[15] = z[1]

(* Three sequences one after the other.                                    *)
LEMMA InThreeParts ==
    ASSUME NEW S, NEW a \in Seq(S), NEW b \in Seq(S), NEW z \in Seq(S),
           Len(a) = 5, Len(b) = 9, Len(z) = 1, NEW c, c = (a \o b) \o z
    PROVE  ThreeParts(a, b, z, c)
<1> DEFINE ab == a \o b
           d == ab \o z
<1>1. /\ ab \in Seq(S)
      /\ Len(ab) = Len(a) + Len(b)
      /\ \A i \in 1..Len(a) + Len(b) : ab[i] = IF i <= Len(a) THEN a[i] ELSE b[i - Len(a)]
  BY Zenon, ConcatProperties
<1>2. ab \in Seq(S)
  BY <1>1
<1> HIDE DEF ab
<1>3. /\ Len(d) = Len(ab) + Len(z)
      /\ \A i \in 1..Len(ab) + Len(z) : d[i] = IF i <= Len(ab) THEN ab[i] ELSE z[i - Len(ab)]
  BY ONLY <1>2, z \in Seq(S), ConcatProperties, Zenon
<1> HIDE DEF d
<1>4. /\ Len(ab) = 14
      /\ \A i \in 1..5 : ab[i] = a[i]
      /\ \A i \in 1..9 : ab[5 + i] = b[i]
  <2>1. ASSUME NEW i \in 1..9 PROVE ab[5 + i] = b[i]
    <3>1. 5 + i \in 1..14 /\ ~(5 + i <= 5) /\ (5 + i) - 5 = i
      OBVIOUS
    <3> QED BY <1>1, <3>1
  <2>2. ASSUME NEW i \in 1..5 PROVE ab[i] = a[i]
    <3>1. i \in 1..14 /\ i <= 5
      OBVIOUS
    <3> QED BY <1>1, <3>1
  <2> QED BY <1>1, <2>1, <2>2
<1>5. Len(d) = 15 /\ (\A i \in 1..14 : d[i] = ab[i]) /\ d[15] = z[1]
  BY <1>3, <1>4
<1>6. \A i \in 1..9 : 5 + i \in 1..14
  OBVIOUS
<1>7. \A i \in 1..5 : i \in 1..14
  OBVIOUS
<1>8. /\ Len(d) = 15
      /\ \A i \in 1..5 : d[i] = a[i]
      /\ \A i \in 1..9 : d[5 + i] = b[i]
      /\ d[15] = z[1]
  BY <1>4, <1>5, <1>6, <1>7
<1>9. c = d
  BY Zenon DEF d, ab
<1> QED BY <1>8, <1>9 DEF ThreeParts

\* the conditions before the host's
Asked(q, st) ==
    << <<q.validation \/ st.granted, "UNTRUSTED">>,
       <<q.inputs.small, "INPUT_TOO_LARGE">>,
       <<q.inputs.schema, "INVALID_INPUT">>,
       <<q.environment \in q.manifest \cap st.environments, "ENVIRONMENT_DENIED">>,
       <<~(q.environment = "production" /\ q.default), "PRODUCTION_PROFILE_REQUIRED">> >>
\* those on the host, and the last one: no secret in what is asked
OfHost(st) == [i \in DOMAIN HostChecks |-> <<HostChecks[i][1] \in st.facts, HostChecks[i][2]>>]
Hiding(q) == << <<\A i \in DOMAIN secrets : ~Holds(q.inputs.text, secrets[i]), "SECRET_INPUT">> >>

(* The conditions are fifteen, each with a refusal of the policy           *)
(* (policy.py, ExecutionPolicy.check).                                     *)
LEMMA ConditionsAre ==
    ASSUME NEW q, NEW st, NEW C, C = Conditions(q, st)
    PROVE  /\ Len(C) = 15
           /\ \A i \in 1..15 : C[i][2] \in PolicyRefusals
           /\ C[1] = <<q.validation \/ st.granted, "UNTRUSTED">>
           /\ C[4] = <<q.environment \in q.manifest \cap st.environments, "ENVIRONMENT_DENIED">>
           /\ \A i \in 1..9 : C[5 + i] = <<HostChecks[i][1] \in st.facts, HostChecks[i][2]>>
<1> DEFINE A == Asked(q, st)
           B == OfHost(st)
           Z == Hiding(q)
<1>1. C = (A \o B) \o Z
  BY DEF Conditions, Asked, OfHost, Hiding
<1>2. DOMAIN HostChecks = 1..9
  BY DEF HostChecks
<1> DEFINE S == {A[i] : i \in 1..5} \cup {B[i] : i \in 1..9} \cup {Z[1]}
<1>3. A \in Seq(S) /\ Len(A) = 5
  BY DEF Asked
<1>4. B \in Seq(S) /\ Len(B) = 9
  <2>1. B \in [1..9 -> S]
    BY <1>2 DEF OfHost
  <2> HIDE DEF B, S
  <2> QED BY <2>1, ListIsSequence
<1>5. Z \in Seq(S) /\ Len(Z) = 1
  BY DEF Hiding
<1>6. /\ A[1] = <<q.validation \/ st.granted, "UNTRUSTED">>
      /\ A[4] = <<q.environment \in q.manifest \cap st.environments, "ENVIRONMENT_DENIED">>
      /\ \A i \in 1..5 : A[i][2] \in PolicyRefusals
  BY DEF Asked, PolicyRefusals
<1>7. /\ \A i \in 1..9 : B[i] = <<HostChecks[i][1] \in st.facts, HostChecks[i][2]>>
      /\ \A i \in 1..9 : B[i][2] \in PolicyRefusals
  BY <1>2 DEF OfHost, PolicyRefusals
<1>8. Z[1][2] \in PolicyRefusals
  BY DEF Hiding, PolicyRefusals
<1> HIDE DEF A, B, Z, S
<1>9. /\ Len(C) = 15
      /\ \A i \in 1..5 : C[i] = A[i]
      /\ \A i \in 1..9 : C[5 + i] = B[i]
      /\ C[15] = Z[1]
  <2>1. A \in Seq(S) /\ B \in Seq(S) /\ Z \in Seq(S) /\ Len(A) = 5 /\ Len(B) = 9 /\ Len(Z) = 1
    BY <1>3, <1>4, <1>5
  <2>2. ThreeParts(A, B, Z, C)
    BY ONLY <1>1, <2>1, InThreeParts, Zenon
  <2> QED BY <2>2 DEF ThreeParts
<1>a. \A i \in 1..15 : C[i][2] \in PolicyRefusals
  <2> SUFFICES ASSUME NEW i \in 1..15 PROVE C[i][2] \in PolicyRefusals
    OBVIOUS
  <2>1. CASE i \in 1..5
    BY <1>6, <1>9, <2>1
  <2>2. CASE i \in 6..14
    <3>1. i - 5 \in 1..9 /\ i = 5 + (i - 5)
      BY <2>2
    <3> QED BY <1>7, <1>9, <3>1
  <2>3. CASE i = 15
    BY <1>8, <1>9, <2>3
  <2> QED BY <2>1, <2>2, <2>3
<1>b. C[1] = A[1] /\ C[4] = A[4]
  BY <1>9
<1>c. \A i \in 1..9 : C[5 + i] = <<HostChecks[i][1] \in st.facts, HostChecks[i][2]>>
  BY <1>7, <1>9
<1> QED BY <1>6, <1>9, <1>a, <1>b, <1>c

(* A condition that holds, holds.                                          *)
LEMMA FirstHolds ==
    ASSUME NEW P, NEW r, NEW c, c = <<P, r>>, c[1]
    PROVE  P
OBVIOUS

(* A refusal has a name of the policy's, and what is allowed holds to the  *)
(* last condition (policy.py, ExecutionPolicy.check).                      *)
LEMMA RefusalIsNamed ==
    ASSUME NEW q, NEW st
    PROVE  /\ Refusal(q, st) \in PolicyRefusals \cup {"allowed"}
           /\ Allowed(q, st) => Admits(q, st)
<1> DEFINE C == Conditions(q, st)
           I == {i \in 1..Len(C) : ~C[i][1]}
           first == IF I # {} THEN Min(I) ELSE 0
<1>1. Refusal(q, st) = IF first = 0 THEN "allowed" ELSE C[first][2]
  BY DEF Refusal, SelectInSeq
<1>2. /\ Len(C) = 15
      /\ \A i \in 1..15 : C[i][2] \in PolicyRefusals
      /\ C[1] = <<q.validation \/ st.granted, "UNTRUSTED">>
      /\ C[4] = <<q.environment \in q.manifest \cap st.environments, "ENVIRONMENT_DENIED">>
      /\ \A i \in 1..9 : C[5 + i] = <<HostChecks[i][1] \in st.facts, HostChecks[i][2]>>
  BY ConditionsAre
<1> HIDE DEF C
<1>3. I \in SUBSET Nat /\ I \subseteq 1..15
  BY <1>2
<1>4. I # {} => Min(I) \in I
  BY <1>3, LeastIsIn
<1>5. CASE I # {}
  <2>1. first \in 1..15
    <3>1. first \in I
      BY <1>4, <1>5
    <3> QED BY <1>3, <3>1
  <2>2. Refusal(q, st) = C[first][2]
    <3>1. first # 0
      BY <2>1
    <3> HIDE DEF first, I
    <3> QED BY <1>1, <3>1
  <2>3. Refusal(q, st) \in PolicyRefusals
    BY <1>2, <2>1, <2>2
  <2>4. "allowed" \notin PolicyRefusals
    BY NamesApart
  <2> QED BY <2>3, <2>4 DEF Allowed
<1>6. CASE I = {}
  <2>1. Refusal(q, st) = "allowed"
    BY <1>1, <1>6
  <2>2. \A i \in 1..15 : C[i][1]
    BY <1>2, <1>6
  <2>3. q.validation \/ st.granted
    <3> DEFINE P == q.validation \/ st.granted
    <3>1. C[1][1] /\ C[1] = <<P, "UNTRUSTED">>
      BY <1>2, <2>2
    <3> HIDE DEF P
    <3>2. P
      BY ONLY <3>1, FirstHolds
    <3> QED BY <3>2 DEF P
  <2>4. q.environment \in st.environments
    <3> DEFINE P == q.environment \in q.manifest \cap st.environments
    <3>1. C[4][1] /\ C[4] = <<P, "ENVIRONMENT_DENIED">>
      BY <1>2, <2>2
    <3> HIDE DEF P
    <3>2. P
      BY ONLY <3>1, FirstHolds
    <3> QED BY <3>2 DEF P
  <2>5. ASSUME NEW i \in 1..9 PROVE HostChecks[i][1] \in st.facts
    <3> DEFINE P == HostChecks[i][1] \in st.facts
    <3>1. 5 + i \in 1..15
      OBVIOUS
    <3>2. C[5 + i][1] /\ C[5 + i] = <<P, HostChecks[i][2]>>
      BY <1>2, <2>2, <3>1
    <3> HIDE DEF P
    <3>3. P
      BY ONLY <3>2, FirstHolds
    <3> QED BY <3>3 DEF P
  <2>6. DOMAIN HostChecks = 1..9
    BY DEF HostChecks
  <2> QED BY <2>1, <2>3, <2>4, <2>5, <2>6 DEF Admits
<1> QED BY <1>5, <1>6

-----------------------------------------------------------------------------
(* task-reproduce: what the workers did is what the finding says.          *)

\* what the replay may see and find, as sets
Codes == {"pinned", "other"}
Whats == {"unknown", "incomparable", "different_failure", "target_failure", "clean"}
\* an attempt that ran, and the replay in progress
Ran == [number : Nat, behavior : Behaviors, code : Codes]
Rep == [pc : {"load", "describe", "attempt", "running", "done"}, number : Nat,
        attempts : Seq([number : Nat, finding : Whats]), finding : Findings \cup {None}]

\* what an attempt, all attempts and the job amount to
Clean(a) == a.behavior = "clean" /\ a.code = "pinned"
AllClean == \A n \in DOMAIN ran : Clean(ran[n])
Supported == job.snapshot = "complete" /\ ~job.external
InRange == rep.number \in 1..MaxAttempts

\* what an observation lets one conclude about the attempt it is of
Tells(o, a) ==
    /\ o.environment = a.code
    /\ o.signature = Target /\ o.initial = Initial => a.behavior = "target_failure"
    /\ o.signature = None /\ o.initial = Initial /\ o.inputs = Incident.inputs
       /\ o.final.balance = Balance + Amounts => a.behavior = "clean"

\* the types of a replay
ReplayBase ==
    /\ job \in Jobs /\ checkout \in Codes /\ left \in Int
    /\ rep \in Rep /\ ran \in Seq(Ran)

\* how far the attempts have come
Progress ==
    /\ rep.pc # "done" => rep.finding = None
    /\ rep.pc \in {"load", "describe"} => ran = <<>>
    /\ rep.pc \in {"describe", "attempt", "running"} => Supported
    /\ rep.pc = "attempt" => InRange /\ Len(ran) = rep.number - 1 /\ AllClean
    /\ rep.pc = "running" =>
          /\ InRange /\ worker.scratch \in {"fresh", "used"}
          /\ worker.scratch = "fresh" => Len(ran) = rep.number - 1 /\ AllClean
          /\ worker.scratch = "used" =>
                /\ Len(ran) = rep.number
                /\ worker.says # None => Tells(worker.says, ran[Len(ran)])

\* attempts are numbered from 1 on, and only the last may have failed
Numbered == \A n \in DOMAIN ran : ran[n].number = n
CleanBefore == \A n \in 1..Len(ran) - 1 : Clean(ran[n])

\* a finding is backed by the attempts that ran (task_replay.py)
Backed ==
    /\ rep.finding = "reproduced" =>
          /\ ran # <<>> /\ Supported
          /\ ran[Len(ran)].behavior = "target_failure" /\ ran[Len(ran)].code = "pinned"
    /\ rep.finding = "not_reproduced" => Len(ran) = MaxAttempts /\ AllClean /\ Supported
    /\ rep.finding = "blocked" => ran = <<>>

\* the invariant of a replay
ReplayInv == ReplayBase /\ Progress /\ Numbered /\ CleanBefore /\ Backed

(* No finding and no signature is the absence of one.                      *)
LEMMA NoneIsNoName ==
    None \notin Findings /\ None # Target /\ None # "ACCOUNT_REJECTED" /\ Target # "ACCOUNT_REJECTED"
BY ReplayAssumption DEF Target

(* An observation tells of its attempt (worker.py, execute).               *)
LEMMA ObservationTells ==
    ASSUME NEW b \in Behaviors \ {"timeout", "lost_ack"}, NEW a, a.behavior = b, a.code = checkout
    PROVE  Tells(Observation(b), a)
<1> DEFINE o == Observation(b)
<1>1. o.environment = a.code
  BY DEF Observation
<1>2. o.initial = [Initial EXCEPT !.revision = IF b = "dirty_state" THEN @ + 1 ELSE @]
  BY DEF Observation
<1>3. o.initial.revision = IF b = "dirty_state" THEN Revision + 1 ELSE Revision
  BY <1>2 DEF Initial
<1>4. o.signature = IF b = "target_failure" \/ b = "dirty_state" THEN Target
                    ELSE IF b = "different_failure" THEN "ACCOUNT_REJECTED" ELSE None
  BY DEF Observation, Initial, Incident, Revision
<1>5. ASSUME o.signature = Target, o.initial = Initial PROVE b = "target_failure"
  <2>1. b # "dirty_state"
    BY <1>3, <1>5 DEF Initial, Revision
  <2> QED BY <1>4, <1>5, <2>1, NoneIsNoName DEF Target
<1>6. ASSUME o.signature = None, o.inputs = Incident.inputs, o.final.balance = Balance + Amounts
      PROVE  b = "clean"
  <2>1. b \notin {"target_failure", "dirty_state", "different_failure"}
    BY <1>4, <1>6, NoneIsNoName
  <2>2. b # "input_drift"
    BY <1>6 DEF Observation, Incident
  <2>3. o.final.balance = Balance + Amounts + (IF b = "bad_postcondition" THEN 1 ELSE 0)
    BY <1>4, <2>1 DEF Observation, Initial, Incident, Revision, Balance, Amounts
  <2>4. b # "bad_postcondition"
    BY <1>6, <2>3 DEF Balance, Amounts
  <2> QED BY <2>1, <2>2, <2>4 DEF Behaviors
<1> QED BY <1>1, <1>5, <1>6 DEF Tells

(* What is taken for the incident's failure or for a clean attempt is one, *)
(* under the incident's code (service.py, run).                            *)
LEMMA ShownIsSo ==
    ASSUME NEW o, NEW a, Tells(o, a), left \in Int
    PROVE  /\ Shows(o) \in Whats
           /\ Shows(o) = "target_failure" => a.behavior = "target_failure" /\ a.code = "pinned"
           /\ Shows(o) = "clean" => Clean(a)
<1>1. Shows(o) \in Whats
  BY DEF Shows, Whats
<1>2. ASSUME Shows(o) \in {"target_failure", "clean"} PROVE Comparable(o)
  <2> SUFFICES ASSUME ~Comparable(o) PROVE Shows(o) \in {"unknown", "incomparable"}
    BY <1>2
  <2>1. CASE left < 0
    BY <2>1 DEF Shows
  <2>2. CASE ~(left < 0)
    <3>1. (left >= 0 /\ ~Comparable(o)) \/ ~(left >= 0)
      OBVIOUS
    <3> QED BY <2>2, <3>1 DEF Shows
  <2> QED BY <2>1, <2>2
<1>3. Comparable(o) => o.environment = "pinned" /\ o.inputs = Incident.inputs /\ o.initial = Initial
  BY DEF Comparable, Incident
<1>4. Shows(o) = "target_failure" => o.signature = Target
  BY DEF Shows, Incident
<1>5. Shows(o) = "clean" => o.signature = None /\ Succeeded(o)
  BY DEF Shows, Incident
<1>6. Succeeded(o) => o.final.balance = Balance + Amounts
  BY DEF Succeeded, Incident, Initial
<1> QED BY <1>1, <1>2, <1>3, <1>4, <1>5, <1>6 DEF Tells, Clean

(* The experiment's record when it has found something, when it goes on    *)
(* and when an attempt is noted (service.py, run).                         *)
LEMMA FoundIs ==
    ASSUME NEW r \in Rep, NEW f \in Findings
    PROVE  Found(r, f) \in Rep /\ Found(r, f).pc = "done" /\ Found(r, f).finding = f
BY DEF Rep, Found

(* An attempt is noted.                                                    *)
LEMMA AttemptedIs ==
    ASSUME rep \in Rep, NEW what \in Whats
    PROVE  Attempted(what) \in Rep /\ Attempted(what).number = rep.number
           /\ Attempted(what).finding = rep.finding
<1> DEFINE one == [number |-> rep.number, finding |-> what]
<1>1. one \in [number : Nat, finding : Whats] /\ rep.attempts \in Seq([number : Nat, finding : Whats])
  BY DEF Rep
<1> HIDE DEF one
<1> DEFINE all == Append(rep.attempts, one)
<1>2. all \in Seq([number : Nat, finding : Whats])
  BY <1>1
<1>3. Attempted(what) = [rep EXCEPT !.attempts = all]
  BY DEF Attempted, one
<1> HIDE DEF all
<1> QED BY <1>2, <1>3 DEF Rep

(* At first nothing has run.                                               *)
LEMMA ReplayInitInv ==
    ASSUME job \in Jobs, checkout = "pinned", left = TotalTime, rep = Unstarted, ran = <<>>
    PROVE  ReplayInv
<1>1. ReplayBase
  BY ReplayAssumption DEF ReplayBase, Codes, Rep, Unstarted, Ran
<1>2. Progress /\ Numbered /\ CleanBefore /\ Backed
  BY NoneIsNoName DEF Progress, Numbered, CleanBefore, Backed, Unstarted, Findings
<1> QED BY <1>1, <1>2 DEF ReplayInv

(* Reading the incident (service.py, run; SqliteIncidents.load).           *)
LEMMA LoadKeeps == ReplayInv /\ Load => ReplayInv'
<1> SUFFICES ASSUME ReplayInv, Load PROVE ReplayInv'
  OBVIOUS
<1>1. ReplayBase /\ ran = <<>> /\ rep.finding = None /\ UNCHANGED <<job, checkout, left, worker, ran>>
  BY DEF ReplayInv, Progress, Load
<1>2. CASE rep' = Found(rep, "blocked")
  <2>1. rep' \in Rep /\ rep'.pc = "done" /\ rep'.finding = "blocked"
    BY <1>1, <1>2, FoundIs DEF ReplayBase, Findings
  <2> QED BY <1>1, <2>1 DEF ReplayInv, ReplayBase, Progress, Numbered, CleanBefore, Backed
<1>3. CASE rep' = [rep EXCEPT !.pc = "describe"] /\ Supported
  <2>1. rep' \in Rep /\ rep'.pc = "describe" /\ rep'.finding = None
    BY <1>1, <1>3 DEF ReplayBase, Rep
  <2> QED BY <1>1, <1>3, <2>1, NoneIsNoName
          DEF ReplayInv, ReplayBase, Progress, Numbered, CleanBefore, Backed, Supported, Findings
<1> QED BY <1>2, <1>3 DEF Load, Goes, Supported

(* Describing the environment (service.py, run).                           *)
LEMMA DescribeKeeps == ReplayInv /\ Describe => ReplayInv'
<1> SUFFICES ASSUME ReplayInv, Describe PROVE ReplayInv'
  OBVIOUS
<1>1. /\ ReplayBase /\ ran = <<>> /\ rep.finding = None /\ Supported
      /\ UNCHANGED <<job, checkout, left, worker, ran>>
  BY DEF ReplayInv, Progress, Describe
<1>2. ASSUME NEW f \in {"blocked", "inconclusive"}, rep' = Found(rep, f) PROVE ReplayInv'
  <2>1. rep' \in Rep /\ rep'.pc = "done" /\ rep'.finding = f
    BY <1>1, <1>2, FoundIs DEF ReplayBase, Findings
  <2> QED BY <1>1, <1>2, <2>1 DEF ReplayInv, ReplayBase, Progress, Numbered, CleanBefore, Backed
<1>3. CASE rep' = [rep EXCEPT !.pc = "attempt", !.number = 1]
  <2>1. rep' \in Rep /\ rep'.pc = "attempt" /\ rep'.number = 1 /\ rep'.finding = None
    BY <1>1, <1>3 DEF ReplayBase, Rep
  <2>2. 1 \in 1..MaxAttempts
    BY ReplayAssumption
  <2> QED BY <1>1, <2>1, <2>2, NoneIsNoName
          DEF ReplayInv, ReplayBase, Progress, Numbered, CleanBefore, Backed, Supported, Findings,
              InRange, AllClean
<1> QED BY <1>2, <1>3 DEF Describe, Goes

(* Starting an attempt, or none for want of time (service.py, run).        *)
LEMMA StartKeeps == ReplayInv /\ StartAttempt => ReplayInv'
<1> SUFFICES ASSUME ReplayInv, StartAttempt PROVE ReplayInv'
  OBVIOUS
<1>1. /\ ReplayBase /\ Supported /\ rep.finding = None /\ InRange
      /\ Len(ran) = rep.number - 1 /\ AllClean
      /\ UNCHANGED <<job, checkout, left, ran>>
  BY DEF ReplayInv, Progress, StartAttempt
<1>2. CASE rep' = Found(rep, "inconclusive")
  <2>1. rep' \in Rep /\ rep'.pc = "done" /\ rep'.finding = "inconclusive"
    BY <1>1, <1>2, FoundIs DEF ReplayBase, Findings
  <2> QED BY <1>1, <2>1 DEF ReplayInv, ReplayBase, Progress, Numbered, CleanBefore, Backed
<1>3. CASE rep' = [rep EXCEPT !.pc = "running"] /\ worker' = [scratch |-> "fresh"]
  <2>1. rep' \in Rep /\ rep'.pc = "running" /\ rep'.number = rep.number /\ rep'.finding = None
    BY <1>1, <1>3 DEF ReplayBase, Rep
  <2>2. worker'.scratch = "fresh"
    BY <1>3
  <2> QED BY <1>1, <2>1, <2>2, NoneIsNoName
          DEF ReplayInv, ReplayBase, Progress, Numbered, CleanBefore, Backed, Supported, Findings,
              InRange, AllClean
<1> QED BY <1>2, <1>3 DEF StartAttempt, Goes

(* The worker does what its job's plan says (worker.py).                   *)
LEMMA WorkerKeeps == ReplayInv /\ WorkerRuns => ReplayInv'
<1> SUFFICES ASSUME ReplayInv, WorkerRuns PROVE ReplayInv'
  OBVIOUS
<1> DEFINE b == Behavior(rep.number)
           a == [number |-> rep.number, behavior |-> b, code |-> checkout]
<1>1. /\ ReplayBase /\ Supported /\ rep.finding = None /\ rep.pc = "running" /\ InRange
      /\ Len(ran) = rep.number - 1 /\ AllClean
      /\ UNCHANGED <<job, checkout, left, rep>>
  BY DEF ReplayInv, Progress, WorkerRuns
<1>2. rep.number \in Nat \ {0}
  BY <1>1, ReplayAssumption DEF InRange
<1>3. b \in Behaviors
  <2>1. job.plan \in Seq(Behaviors) /\ job.plan # <<>>
    BY <1>1, ReplayAssumption DEF ReplayBase
  <2>2. Len(job.plan) \in Nat \ {0}
    BY <2>1
  <2> DEFINE I == {rep.number, Len(job.plan)}
             least == Min(I)
  <2>3. I \in SUBSET Nat /\ I # {}
    BY <1>2, <2>2
  <2>4. least \in I
    BY <2>3, LeastIsIn
  <2>5. least <= Len(job.plan)
    <3>1. \E x \in I : \A y \in I : x =< y
      BY <1>2, <2>2
    <3> QED BY <3>1 DEF Min
  <2>6. least \in 1..Len(job.plan)
    BY <1>2, <2>2, <2>4, <2>5
  <2> HIDE DEF least
  <2>7. job.plan[least] \in Behaviors
    BY <2>1, <2>6
  <2> QED BY <2>7 DEF least, Behavior
<1>4. b # "timeout" /\ ran' = Append(ran, a)
      /\ worker' = [scratch |-> "used", says |-> IF b = "lost_ack" THEN None ELSE Observation(b)]
  BY DEF WorkerRuns
<1> HIDE DEF b
<1>5. a \in Ran /\ a.number = rep.number /\ a.behavior = b /\ a.code = checkout
  BY <1>1, <1>2, <1>3 DEF Ran, ReplayBase
<1> HIDE DEF a
<1>6. /\ ran' \in Seq(Ran) /\ Len(ran') = rep.number /\ ran'[rep.number] = a
      /\ \A n \in 1..rep.number - 1 : ran'[n] = ran[n]
  BY <1>1, <1>2, <1>4, <1>5 DEF ReplayBase
<1>7. worker'.says # None => Tells(worker'.says, ran'[Len(ran')])
  <2>1. worker'.says = IF b = "lost_ack" THEN None ELSE Observation(b)
    BY <1>4
  <2>2. ASSUME b # "lost_ack" PROVE Tells(Observation(b), a)
    BY <1>3, <1>4, <1>5, <2>2, ObservationTells
  <2> QED BY <1>6, <2>1, <2>2
<1>8. worker'.scratch = "used"
  BY <1>4
<1>9. Progress'
  <2>1. Supported' /\ InRange'
    BY <1>1 DEF Supported, InRange
  <2> QED BY <1>1, <1>6, <1>7, <1>8, <2>1 DEF Progress, Tells
<1>10. DOMAIN ran = 1..rep.number - 1 /\ DOMAIN ran' = 1..rep.number
  BY <1>1, <1>2, <1>6 DEF ReplayBase
<1>11. Numbered'
  <2>1. \A n \in 1..rep.number : n = rep.number \/ n \in 1..rep.number - 1
    BY <1>2
  <2> QED BY <1>5, <1>6, <1>10, <2>1 DEF Numbered, ReplayInv
<1>12. CleanBefore'
  BY <1>1, <1>6, <1>10 DEF CleanBefore, AllClean, Clean
<1>13. ReplayBase' /\ Backed'
  BY <1>1, <1>6, NoneIsNoName DEF ReplayBase, Backed, Findings
<1> QED BY <1>9, <1>11, <1>12, <1>13 DEF ReplayInv

(* A worker that is lost ends the experiment (service.py, run).            *)
LEMMA LostKeeps == ReplayInv /\ WorkerIsLost => ReplayInv'
<1> SUFFICES ASSUME ReplayInv, WorkerIsLost PROVE ReplayInv'
  OBVIOUS
<1>1. ReplayBase /\ rep.finding = None /\ UNCHANGED <<job, checkout, left, ran>>
  BY DEF ReplayInv, Progress, WorkerIsLost
<1>2. rep' = Found(Attempted("unknown"), "inconclusive")
  BY DEF WorkerIsLost, Goes
<1>3. Attempted("unknown") \in Rep
  BY <1>1, AttemptedIs DEF ReplayBase, Whats
<1>4. rep' \in Rep /\ rep'.pc = "done" /\ rep'.finding = "inconclusive"
  BY <1>2, <1>3, FoundIs DEF Findings
<1> QED BY <1>1, <1>4 DEF ReplayInv, ReplayBase, Progress, Numbered, CleanBefore, Backed

(* An answer is classified (service.py, run).                              *)
LEMMA ObservedKeeps == ReplayInv /\ Observed => ReplayInv'
<1> SUFFICES ASSUME ReplayInv, Observed PROVE ReplayInv'
  OBVIOUS
<1> DEFINE what == Shows(worker.says)
           q == Attempted(what)
           last == ran[Len(ran)]
<1>1. /\ ReplayBase /\ Supported /\ rep.finding = None /\ rep.pc = "running" /\ InRange
      /\ Len(ran) = rep.number /\ Tells(worker.says, last) /\ CleanBefore
      /\ UNCHANGED <<job, checkout, left, ran>>
  BY DEF ReplayInv, Progress, Observed
<1>2. /\ what \in Whats
      /\ what = "target_failure" => last.behavior = "target_failure" /\ last.code = "pinned"
      /\ what = "clean" => Clean(last)
  BY <1>1, ShownIsSo DEF ReplayBase
<1>3. rep' = CASE what = "target_failure" -> Found(q, "reproduced")
              [] what \in {"unknown", "incomparable", "different_failure"} -> Found(q, "inconclusive")
              [] what = "clean" /\ rep.number < MaxAttempts ->
                   [q EXCEPT !.pc = "attempt", !.number = @ + 1]
              [] OTHER -> Found(q, "not_reproduced")
  BY DEF Observed, Goes
<1> HIDE DEF what
<1>4. q \in Rep /\ q.number = rep.number /\ q.finding = None
  BY <1>1, <1>2, AttemptedIs DEF ReplayBase
<1> HIDE DEF q
<1>5. rep.number \in Nat \ {0} /\ MaxAttempts \in Nat /\ rep.number <= MaxAttempts
  BY <1>1, ReplayAssumption DEF InRange
<1>6. ran # <<>> /\ DOMAIN ran = 1..rep.number
  BY <1>1, <1>5 DEF ReplayBase
<1>7. what = "clean" => AllClean
  BY <1>1, <1>2, <1>5, <1>6 DEF CleanBefore, AllClean
<1>8. Numbered' /\ CleanBefore'
  BY <1>1 DEF ReplayInv, Numbered, CleanBefore
<1>9. CASE what = "clean" /\ rep.number < MaxAttempts
  <2>1. rep' = [q EXCEPT !.pc = "attempt", !.number = q.number + 1]
    BY <1>3, <1>9
  <2>2. rep' \in Rep /\ rep'.pc = "attempt" /\ rep'.number = rep.number + 1 /\ rep'.finding = None
    <3> DEFINE n == rep.number + 1
    <3>1. n \in Nat /\ rep' = [q EXCEPT !.pc = "attempt", !.number = n]
      BY <1>4, <1>5, <2>1
    <3> HIDE DEF n
    <3>2. rep' \in Rep /\ rep'.pc = "attempt" /\ rep'.number = n /\ rep'.finding = q.finding
      BY <1>4, <3>1 DEF Rep
    <3> QED BY <1>4, <3>2 DEF n
  <2>3. rep'.number \in 1..MaxAttempts /\ Len(ran') = rep'.number - 1
    BY <1>1, <1>5, <1>9, <2>2
  <2>4. AllClean'
    BY <1>1, <1>7, <1>9 DEF AllClean
  <2> QED BY <1>1, <1>8, <2>2, <2>3, <2>4, NoneIsNoName
          DEF ReplayInv, ReplayBase, Progress, Backed, Supported, Findings, InRange
<1>10. ASSUME NEW f \in Findings \ {"blocked"}, rep' = Found(q, f),
              f = "reproduced" => what = "target_failure",
              f = "not_reproduced" => what = "clean" /\ ~(rep.number < MaxAttempts)
       PROVE  ReplayInv'
  <2>1. rep' \in Rep /\ rep'.pc = "done" /\ rep'.finding = f
    BY <1>4, <1>10, FoundIs
  <2>2. ReplayBase' /\ Progress'
    BY <1>1, <2>1 DEF ReplayBase, Progress
  <2>3. f = "reproduced" =>
          /\ ran' # <<>> /\ Supported'
          /\ ran'[Len(ran')].behavior = "target_failure" /\ ran'[Len(ran')].code = "pinned"
    BY <1>1, <1>2, <1>6, <1>10 DEF Supported
  <2>4. f = "not_reproduced" => Len(ran') = MaxAttempts /\ AllClean' /\ Supported'
    <3> SUFFICES ASSUME f = "not_reproduced"
                 PROVE  Len(ran') = MaxAttempts /\ AllClean' /\ Supported'
      OBVIOUS
    <3>1. rep.number = MaxAttempts
      BY <1>5, <1>10
    <3> QED BY <1>1, <1>7, <1>10, <3>1 DEF AllClean, Supported
  <2>5. Backed'
    BY <1>10, <2>1, <2>3, <2>4 DEF Backed
  <2> QED BY <1>8, <2>2, <2>5 DEF ReplayInv
<1> QED BY <1>2, <1>3, <1>9, <1>10 DEF Whats, Findings

(* Time passes and the checkout is edited beside the experiment.           *)
LEMMA WorldKeeps == ReplayInv /\ (TimePasses \/ Edit \/ UNCHANGED replayVars) => ReplayInv'
<1> SUFFICES ASSUME ReplayInv, TimePasses \/ Edit \/ UNCHANGED replayVars PROVE ReplayInv'
  OBVIOUS
<1>1. UNCHANGED <<job, rep, worker, ran>> /\ checkout' \in Codes /\ left' \in Int
  BY DEF TimePasses, Edit, replayVars, ReplayInv, ReplayBase, Codes
<1>2. ReplayBase' /\ Numbered' /\ CleanBefore'
  BY <1>1 DEF ReplayInv, ReplayBase, Numbered, CleanBefore
<1>3. Supported' = Supported /\ InRange' = InRange /\ AllClean' = AllClean
  BY <1>1 DEF Supported, InRange, AllClean
<1>4. Progress' /\ Backed'
  BY <1>1, <1>3 DEF ReplayInv, Progress, Backed, Tells
<1> QED BY <1>2, <1>4 DEF ReplayInv

(* The experiment's invariant is inductive.                                *)
LEMMA ReplayNextInv == ReplayInv /\ (ReplayNext \/ UNCHANGED replayVars) => ReplayInv'
BY LoadKeeps, DescribeKeeps, StartKeeps, WorkerKeeps, LostKeeps, ObservedKeeps, WorldKeeps
   DEF ReplayNext

-----------------------------------------------------------------------------
(* The log: what is hidden of a text, and where a text may be cut.         *)

(* A non-empty set of positions has a last one.                            *)
LEMMA GreatestIsIn ==
    ASSUME NEW n \in Nat, NEW I \in SUBSET (1..n), I # {}
    PROVE  Max(I) \in I /\ \A y \in I : Max(I) >= y
<1> DEFINE J == {n - x : x \in I}
<1>1. J \in SUBSET Nat /\ J # {}
  <2>1. J \in SUBSET Nat
    <3>1. \A x \in 1..n : n - x \in Nat
      OBVIOUS
    <3> QED BY <3>1
  <2> QED BY <2>1
<1>2. Min(J) \in J /\ \A y \in J : Min(J) =< y
  BY <1>1, LeastIsIn
<1>3. PICK x \in I : Min(J) = n - x
  BY <1>2
<1>4. \A y \in I : n - y \in J
  OBVIOUS
<1> HIDE DEF J
<1>5. ASSUME NEW y \in I PROVE x >= y
  <2>1. n - x =< n - y
    BY <1>2, <1>3, <1>4
  <2> QED BY <2>1
<1> QED BY <1>5 DEF Max

(* What holds at 0 and of the next of each number it holds of.             *)
LEMMA UpTo ==
    ASSUME NEW n \in Nat, NEW S, 0 \in S, \A k \in 1..n : k - 1 \in S => k \in S
    PROVE  \A k \in 0..n : k \in S
<1> DEFINE bad == {k \in 0..n : k \notin S}
<1> SUFFICES ASSUME bad # {} PROVE FALSE
  OBVIOUS
<1>1. bad \in SUBSET Nat
  OBVIOUS
<1>2. Min(bad) \in bad /\ \A y \in bad : Min(bad) =< y
  BY <1>1, LeastIsIn
<1> DEFINE m == Min(bad)
<1> HIDE DEF m
<1>3. m \in 0..n /\ m \notin S /\ \A y \in 0..n : y \notin S => m =< y
  BY <1>2 DEF m
<1>4. m \in 1..n /\ m - 1 \in 0..n /\ ~(m =< m - 1)
  BY <1>3
<1> QED BY <1>3, <1>4

\* the recursion of a fold over the places 1..n, from the left
Folding(it, n, V, base, step) ==
    /\ it \in [SUBSET (1..n) -> V]
    /\ \A s \in SUBSET (1..n) :
          it[s] = IF s = {} THEN base ELSE step[<<Max(s), it[s \ {Max(s)}]>>]

(* A fold over n places exists.                                            *)
LEMMA FoldExists ==
    ASSUME NEW n \in Nat, NEW V, NEW base \in V, NEW step \in [(1..n) \X V -> V]
    PROVE  \E it : Folding(it, n, V, base, step)
<1> DEFINE E(k) == \E it \in [SUBSET (1..k) -> V] :
                      \A s \in SUBSET (1..k) :
                         it[s] = IF s = {} THEN base ELSE step[<<Max(s), it[s \ {Max(s)}]>>]
           S == {k \in 0..n : E(k)}
<1>0. 0 \in 0..n /\ (\A k \in 1..n : k - 1 \in 0..n /\ k \in 0..n) /\ n \in 0..n
  OBVIOUS
<1>1. 0 \in S
  <2> DEFINE it == [s \in SUBSET (1..0) |-> base]
  <2>1. it \in [SUBSET (1..0) -> V] /\ \A s \in SUBSET (1..0) : s = {} /\ it[s] = base
    OBVIOUS
  <2> HIDE DEF it
  <2>2. E(0)
    BY <2>1
  <2> HIDE DEF E
  <2> QED BY <1>0, <2>2
<1>2. ASSUME NEW k \in 1..n, k - 1 \in S PROVE k \in S
  <2>1. PICK it \in [SUBSET (1..k-1) -> V] :
           \A s \in SUBSET (1..k-1) :
              it[s] = IF s = {} THEN base ELSE step[<<Max(s), it[s \ {Max(s)}]>>]
    BY <1>2
  <2>2. ASSUME NEW s \in SUBSET (1..k), s # {}
        PROVE  /\ Max(s) \in 1..n /\ s \ {Max(s)} \in SUBSET (1..k-1)
               /\ s \notin SUBSET (1..k-1) => Max(s) = k
    <3>1. Max(s) \in s /\ \A y \in s : Max(s) >= y
      <4>1. s \in SUBSET (1..k) /\ k \in Nat
        OBVIOUS
      <4> QED BY ONLY <2>2, <4>1, GreatestIsIn
    <3>2. Max(s) \in 1..k
      BY <3>1
    <3> DEFINE m == Max(s)
    <3> HIDE DEF m
    <3>3. m \in 1..k /\ (\A y \in s : m >= y) /\ \A y \in s : y \in 1..k
      BY <3>1, <3>2 DEF m
    <3>4. \A y \in s : y # m => y \in 1..k-1
      BY <3>3
    <3>5. m # k => m \in 1..k-1
      BY <3>3
    <3>6. s \ {m} \in SUBSET (1..k-1) /\ m \in 1..n
      BY <3>3, <3>4
    <3>7. s \notin SUBSET (1..k-1) => m = k
      BY <3>4, <3>5
    <3> QED BY <3>6, <3>7 DEF m
  <2> DEFINE at == [s \in SUBSET (1..k) |->
                      IF s = {} THEN base
                      ELSE IF s \in SUBSET (1..k-1) THEN it[s]
                      ELSE step[<<Max(s), it[s \ {Max(s)}]>>]]
  <2>3. at \in [SUBSET (1..k) -> V]
    BY <2>2
  <2>4. \A s \in SUBSET (1..k-1) : s \in SUBSET (1..k) /\ at[s] = it[s]
    BY <2>1
  <2>5. ASSUME NEW s \in SUBSET (1..k)
        PROVE  at[s] = IF s = {} THEN base ELSE step[<<Max(s), at[s \ {Max(s)}]>>]
    <3>1. CASE s = {}
      BY <3>1
    <3>2. CASE s # {}
      <4> DEFINE m == Max(s)
      <4>1. s \ {m} \in SUBSET (1..k-1)
        BY <2>2, <3>2
      <4>2. at[s \ {m}] = it[s \ {m}]
        BY <2>4, <4>1
      <4> QED BY <2>1, <3>2, <4>2
    <3> QED BY <3>1, <3>2
  <2> HIDE DEF at
  <2>6. E(k)
    BY <2>3, <2>5
  <2> HIDE DEF E
  <2> QED BY <1>0, <2>6
<1> HIDE DEF S
<1>3. n \in S
  BY <1>1, <1>2, UpTo
<1> QED BY <1>3 DEF S, Folding

(* The places up to the k-th, and the last of them.                        *)
LEMMA PlacesUpTo ==
    ASSUME NEW n \in Nat, NEW k \in 1..n
    PROVE  /\ 1..k \in SUBSET (1..n) /\ 1..k # {} /\ Max(1..k) = k
           /\ (1..k) \ {k} = 1..k-1 /\ k \in 0..n /\ k - 1 \in 0..n
<1>1. k \in 1..k /\ k \in Nat
  OBVIOUS
<1>2. 1..k \in SUBSET (1..n) /\ 1..k # {} /\ (1..k) \ {k} = 1..k-1
  BY <1>1
<1>3. Max(1..k) \in 1..k /\ \A y \in 1..k : Max(1..k) >= y
  BY <1>1, <1>2, GreatestIsIn
<1>4. Max(1..k) = k
  BY <1>1, <1>3
<1> QED BY <1>2, <1>4

\* what a replacement has written so far, and how much of the text it skips
State == [out : Seq(Characters \cup {Marker}), skip : Nat]
\* what a log may hold: characters, and markers among them
Text == Seq(Characters \cup {Marker})

\* a replacement's step over the i-th character
Passed(text, secret, done, i) ==
                 CASE done.skip > 0 -> [done EXCEPT !.skip = @ - 1]
                   [] done.skip = 0 /\ Occurs(secret, text, i) ->
                         [out |-> Append(done.out, Marker), skip |-> Len(secret) - 1]
                   [] OTHER -> [done EXCEPT !.out = Append(@, text[i])]

(* A replacement goes through the text once, character by character        *)
(* (logs.py, bytes.replace of one secret).                                 *)
LEMMA ReplaceFolds ==
   ASSUME NEW text \in Text, NEW secret \in Seq(Characters) \ {<<>>}
   PROVE \E F : /\ F[0] = [out |-> <<>>, skip |-> 0]
                /\ \A k \in 1..Len(text) : F[k] = Passed(text, secret, F[k-1], k)
                /\ Replace(text, secret) = F[Len(text)].out
<1> DEFINE n == Len(text)
           base == [out |-> <<>>, skip |-> 0]
           D == DOMAIN Positions(text)
           Op(done, i) == Passed(text, secret, done, i)
           Is(g) == g = [s \in SUBSET D |->
                             IF s = {} THEN base
                             ELSE LET x == Max(s) IN Op(g[s \ {x}], Positions(text)[x])]
           it == CHOOSE g : Is(g)
<1>1. D = 1..n /\ n \in Nat /\ \A i \in 1..n : Positions(text)[i] = i
  BY DEF Positions, Text
<1>2. Replace(text, secret) = it[D].out
  BY Zenon DEF Replace, FoldLeft, MapThenFoldSet, Passed
<1> DEFINE V == State
           step == [x \in (1..n) \X V |-> Op(x[2], x[1])]
<1>3. base \in V
  BY DEF State
<1>4. \A done \in V, i \in 1..n : Op(done, i) \in V
  <2> SUFFICES ASSUME NEW done \in V, NEW i \in 1..n PROVE Op(done, i) \in V
    OBVIOUS
  <2>1. done.out \in Text /\ done.skip \in Nat /\ done = [out |-> done.out, skip |-> done.skip]
    BY DEF State, Text
  <2>2. text[i] \in Characters \cup {Marker}
    BY DEF Text
  <2>3. Append(done.out, Marker) \in Text /\ Append(done.out, text[i]) \in Text
    BY <2>1, <2>2 DEF Text
  <2>4. Len(secret) - 1 \in Nat
    BY EmptySeq
  <2>5. CASE done.skip > 0
    <3>1. Op(done, i) = [out |-> done.out, skip |-> done.skip - 1]
      BY <2>1, <2>5 DEF Passed
    <3> QED BY <2>1, <2>5, <3>1 DEF State, Text
  <2>6. CASE done.skip = 0 /\ Occurs(secret, text, i)
    <3>1. Op(done, i) = [out |-> Append(done.out, Marker), skip |-> Len(secret) - 1]
      BY <2>6 DEF Passed
    <3> QED BY <2>3, <2>4, <3>1 DEF State, Text
  <2>7. CASE done.skip = 0 /\ ~Occurs(secret, text, i)
    <3>1. Op(done, i) = [out |-> Append(done.out, text[i]), skip |-> done.skip]
      <4>1. Op(done, i) = [done EXCEPT !.out = Append(@, text[i])]
        BY <2>7 DEF Passed
      <4> QED BY <2>1, <4>1
    <3> QED BY <2>1, <2>3, <3>1 DEF State, Text
  <2> QED BY <2>1, <2>5, <2>6, <2>7
<1>5. step \in [(1..n) \X V -> V]
  BY <1>4
<1> HIDE DEF step, V, base, Op, n
<1>6a. PICK f : Folding(f, n, V, base, step)
  BY <1>1, <1>3, <1>5, FoldExists
<1>6. f \in [SUBSET (1..n) -> V] /\
        \A s \in SUBSET (1..n) :
           f[s] = IF s = {} THEN base ELSE step[<<Max(s), f[s \ {Max(s)}]>>]
  BY <1>6a DEF Folding
<1> USE DEF step
<1> HIDE DEF D
<1>7. ASSUME NEW s \in SUBSET (1..n), s # {}
      PROVE  Max(s) \in 1..n /\ s \ {Max(s)} \in SUBSET (1..n)
  BY <1>1, <1>7, GreatestIsIn
<1>8. Is(f)
  <2>1. f = [s \in SUBSET (1..n) |-> f[s]]
    BY <1>6
  <2>2. \A s \in SUBSET (1..n) : f[s] = IF s = {} THEN base
                ELSE Op(f[s \ {Max(s)}], Positions(text)[Max(s)])
    BY <1>1, <1>6, <1>7
  <2> QED BY <1>1, <2>1, <2>2
<1>9. Is(it)
  <2> HIDE DEF Is
  <2> QED BY <1>8
<1> DEFINE F == [k \in 0..n |-> it[1..k]]
<1> HIDE DEF it
<1>10. F[0] = base
  <2>1. 1..0 = {} /\ 1..0 \in SUBSET D
    BY <1>1
  <2> QED BY <1>1, <1>9, <2>1
<1>11. ASSUME NEW k \in 1..n PROVE F[k] = Op(F[k-1], k)
  <2>1. /\ 1..k \in SUBSET (1..n) /\ 1..k # {} /\ Max(1..k) = k
        /\ (1..k) \ {k} = 1..k-1 /\ k \in 0..n /\ k - 1 \in 0..n
    BY <1>1, PlacesUpTo
  <2>2. it[1..k] = Op(it[(1..k) \ {k}], Positions(text)[k])
    BY <1>1, <1>9, <2>1
  <2> QED BY <1>1, <2>1, <2>2
<1>12. Replace(text, secret) = F[n].out
  BY <1>1, <1>2
<1> HIDE DEF F
<1>13. \A k \in 1..n : F[k] = Op(F[k-1], k)
  BY <1>11
<1> QED BY <1>10, <1>12, <1>13 DEF base, Op, n

\* a secret: it has at least one character
Word == Seq(Characters) \ {<<>>}

(* A word occurs where each of its characters does (logs.py, bytes.find).  *)
LEMMA OccursIs ==
    ASSUME NEW text \in Text, NEW w \in Word, NEW i \in 1..Len(text)
    PROVE  Occurs(w, text, i) <=>
              i + Len(w) - 1 <= Len(text) /\ \A j \in 1..Len(w) : text[i + j - 1] = w[j]
<1> DEFINE k == i + Len(w) - 1
           part == SubSeq(text, i, k)
<1>1. Len(w) \in Nat /\ Len(w) > 0 /\ Len(text) \in Nat
  BY EmptySeq DEF Word, Text
<1>2. CASE k <= Len(text)
  <2>1. part \in Seq(Characters \cup {Marker}) /\ Len(part) = Len(w)
        /\ \A j \in 1..Len(w) : part[j] = text[i + j - 1]
    BY <1>1, <1>2 DEF Text
  <2>2. w \in Seq(Characters \cup {Marker})
    BY DEF Word
  <2> HIDE DEF part
  <2>3. part = w <=> \A j \in 1..Len(w) : part[j] = w[j]
    BY <2>1, <2>2, SeqEqual
  <2> QED BY <1>2, <2>1, <2>3 DEF Occurs, part
<1>3. CASE ~(k <= Len(text))
  BY <1>3 DEF Occurs
<1> QED BY <1>2, <1>3

(* What the end of the output says, after k characters of the text.        *)
Aligned(text, secret, out, k) ==
    \A i \in 1..Len(out) : (\A j \in i..Len(out) : out[j] # Marker) =>
        \A j \in i..Len(out) :
            /\ j + k - Len(out) >= 1
            /\ out[j] = text[j + k - Len(out)]
            /\ ~Occurs(secret, text, j + k - Len(out))

\* how the output begins: as the text does, up to the first marker
Begins(text, out, k) ==
    /\ (\A j \in 1..Len(out) : out[j] # Marker) => Len(out) = k
    /\ \A i \in 1..Len(out) : (\A j \in 1..i : out[j] # Marker) =>
          \A j \in 1..i : j <= k /\ out[j] = text[j]

\* what is known of a replacement after k characters of the text
Passing(text, secret, done, k) ==
    /\ done \in State
    /\ done.skip > 0 => done.out # <<>> /\ done.out[Len(done.out)] = Marker
    /\ Aligned(text, secret, done.out, k)
    /\ Begins(text, done.out, k)
    /\ ~Holds(done.out, secret)
    /\ \A w \in Word : Holds(done.out, w) => Holds(text, w)

(* A word that ends where the output ends stands in the text.              *)
LEMMA LastWord ==
    ASSUME NEW text \in Text, NEW secret \in Word, NEW out \in Text, NEW k \in 0..Len(text),
           Aligned(text, secret, out, k), NEW w \in Word, NEW i \in 1..Len(out),
           i + Len(w) - 1 = Len(out), Occurs(w, out, i)
    PROVE  Holds(text, w) /\ w # secret
<1>1. Len(w) \in Nat /\ Len(w) > 0 /\ Len(text) \in Nat /\ Len(out) \in Nat
  BY EmptySeq DEF Word, Text
<1>2. \A j \in 1..Len(w) : out[i + j - 1] = w[j] /\ w[j] \in Characters
  BY OccursIs DEF Word
<1>3. \A j \in i..Len(out) : out[j] # Marker
  <2> SUFFICES ASSUME NEW j \in i..Len(out) PROVE out[j] # Marker
    OBVIOUS
  <2>1. j - i + 1 \in 1..Len(w) /\ i + (j - i + 1) - 1 = j
    BY <1>1
  <2> QED BY <1>2, <2>1, LogAssumption
<1> DEFINE p == i + k - Len(out)
<1>4. \A j \in i..Len(out) :
            /\ j + k - Len(out) >= 1
            /\ out[j] = text[j + k - Len(out)]
            /\ ~Occurs(secret, text, j + k - Len(out))
  BY <1>3 DEF Aligned
<1>5. p \in 1..Len(text) /\ p + Len(w) - 1 = k /\ ~Occurs(secret, text, p)
  <2>1. i \in i..Len(out)
    BY <1>1
  <2>2. i + k - Len(out) >= 1 /\ ~Occurs(secret, text, i + k - Len(out))
    BY <1>4, <2>1
  <2> QED BY <1>1, <2>2
<1>6. \A j \in 1..Len(w) : text[p + j - 1] = w[j]
  <2> SUFFICES ASSUME NEW j \in 1..Len(w) PROVE text[p + j - 1] = w[j]
    OBVIOUS
  <2>1. i + j - 1 \in i..Len(out) /\ (i + j - 1) + k - Len(out) = p + j - 1
    BY <1>1
  <2> QED BY <1>2, <1>4, <2>1
<1>7. Occurs(w, text, p)
  BY <1>1, <1>5, <1>6, OccursIs
<1> QED BY <1>5, <1>7 DEF Holds, Text

(* The output with one more character.                                     *)
LEMMA OneMore ==
    ASSUME NEW text \in Text, NEW secret \in Word, NEW out \in Text, NEW k \in 0..Len(text),
           NEW c \in Characters \cup {Marker},
           ~Holds(out, secret), \A w \in Word : Holds(out, w) => Holds(text, w),
           Aligned(text, secret, Append(out, c), k)
    PROVE  ~Holds(Append(out, c), secret) /\ \A w \in Word : Holds(Append(out, c), w) => Holds(text, w)
<1> DEFINE more == Append(out, c)
<1>1. /\ more \in Text /\ Len(more) = Len(out) + 1 /\ Len(out) \in Nat
      /\ \A j \in 1..Len(out) : more[j] = out[j]
  BY DEF Text
<1>2. ASSUME NEW w \in Word, Holds(more, w) PROVE Holds(text, w) /\ w # secret
  <2>1. PICK i \in 1..Len(more) : Occurs(w, more, i)
    BY <1>1, <1>2 DEF Holds, Text
  <2>2. Len(w) \in Nat /\ Len(w) > 0
    BY EmptySeq DEF Word
  <2> HIDE DEF more
  <2>3. i + Len(w) - 1 <= Len(more) /\ \A j \in 1..Len(w) : more[i + j - 1] = w[j]
    BY <1>1, <2>1, OccursIs
  <2>4. CASE i + Len(w) - 1 = Len(more)
    BY <1>1, <2>1, <2>4, LastWord DEF more
  <2>5. CASE i + Len(w) - 1 <= Len(out)
    <3>1. i \in 1..Len(out) /\ \A j \in 1..Len(w) : i + j - 1 \in 1..Len(out)
      BY <1>1, <2>2, <2>5
    <3>2. Occurs(w, out, i)
      BY <1>1, <2>3, <2>5, <3>1, OccursIs
    <3>3. Holds(out, w)
      BY <3>1, <3>2 DEF Holds, Text
    <3> QED BY <3>3
  <2>6. i + Len(w) - 1 = Len(more) \/ i + Len(w) - 1 <= Len(out)
    <3>1. i \in Nat /\ Len(out) \in Nat /\ Len(more) = Len(out) + 1 /\ Len(w) \in Nat
          /\ i + Len(w) - 1 <= Len(more)
      BY <1>1, <2>2, <2>3
    <3> QED BY ONLY <3>1
  <2> QED BY <2>4, <2>5, <2>6
<1> QED BY <1>2

(* An output whose last character is the marker has nothing at its end.    *)
LEMMA EndsMarked ==
    ASSUME NEW text \in Text, NEW secret \in Word, NEW out \in Text, out # <<>>,
           out[Len(out)] = Marker, NEW k \in Nat, NEW l \in Nat, Begins(text, out, l), l <= k
    PROVE  Aligned(text, secret, out, k) /\ Begins(text, out, k)
<1>1. Len(out) \in Nat /\ Len(out) > 0
  BY EmptySeq DEF Text
<1>2. ASSUME NEW i \in 1..Len(out) PROVE Len(out) \in i..Len(out)
  BY <1>1
<1>3. Aligned(text, secret, out, k)
  BY <1>2 DEF Aligned
<1>4. Len(out) \in 1..Len(out)
  BY <1>1
<1>5. ~\A j \in 1..Len(out) : out[j] # Marker
  BY <1>4
<1>6. ASSUME NEW i \in 1..Len(out), \A j \in 1..i : out[j] # Marker
      PROVE  \A j \in 1..i : j <= k /\ out[j] = text[j]
  <2>1. \A j \in 1..i : j <= l /\ out[j] = text[j]
    BY <1>6 DEF Begins
  <2> QED BY <2>1
<1> QED BY <1>3, <1>5, <1>6 DEF Begins

(* What it takes.                                                          *)
LEMMA PassingIs ==
    ASSUME NEW text, NEW secret, NEW k, NEW next, NEW out, next \in State, next.out = out,
           next.skip > 0 => out # <<>> /\ out[Len(out)] = Marker,
           Aligned(text, secret, out, k), Begins(text, out, k), ~Holds(out, secret),
           \A w \in Word : Holds(out, w) => Holds(text, w)
    PROVE  Passing(text, secret, next, k)
BY DEF Passing

(* Reading one more character of the text (bytes.replace from the left).   *)
LEMMA PassKeeps ==
    ASSUME NEW text \in Text, NEW secret \in Word, NEW k \in 1..Len(text), NEW done,
           Passing(text, secret, done, k - 1)
    PROVE  Passing(text, secret, Passed(text, secret, done, k), k)
<1> DEFINE out == done.out
           next == Passed(text, secret, done, k)
<1> SUFFICES Passing(text, secret, next, k)
  OBVIOUS
<1>1. /\ out \in Text /\ done.skip \in Nat /\ done = [out |-> out, skip |-> done.skip]
      /\ Len(out) \in Nat /\ k - 1 \in 0..Len(text) /\ k - 1 <= k /\ k \in 0..Len(text)
      /\ k \in Nat /\ k - 1 \in Nat /\ text[k] \in Characters \cup {Marker}
  BY DEF Passing, State, Text
<1>2. /\ Aligned(text, secret, out, k - 1) /\ Begins(text, out, k - 1)
      /\ ~Holds(out, secret) /\ \A w \in Word : Holds(out, w) => Holds(text, w)
  BY DEF Passing
<1>3. CASE done.skip > 0
  <2>1. next = [out |-> out, skip |-> done.skip - 1]
    BY <1>1, <1>3 DEF Passed
  <2>2. out # <<>> /\ out[Len(out)] = Marker
    BY <1>3 DEF Passing
  <2>3. Aligned(text, secret, out, k) /\ Begins(text, out, k)
    BY <1>1, <1>2, <2>2, EndsMarked
  <2>4. next \in State /\ next.out = out
    BY <1>1, <1>3, <2>1 DEF State, Text
  <2> HIDE DEF next, out
  <2> QED BY <1>2, <2>2, <2>3, <2>4, PassingIs
<1>4. ASSUME NEW c \in Characters \cup {Marker}
      PROVE  /\ Append(out, c) \in Text /\ Len(Append(out, c)) = Len(out) + 1
             /\ Append(out, c) # <<>> /\ Append(out, c)[Len(out) + 1] = c
             /\ \A j \in 1..Len(out) : Append(out, c)[j] = out[j]
  BY <1>1 DEF Text
<1>5. CASE done.skip = 0 /\ Occurs(secret, text, k)
  <2> DEFINE more == Append(out, Marker)
  <2>1. next = [out |-> more, skip |-> Len(secret) - 1]
    BY <1>5 DEF Passed
  <2>2. /\ more \in Text /\ Len(more) = Len(out) + 1 /\ more # <<>> /\ more[Len(more)] = Marker
        /\ \A j \in 1..Len(out) : more[j] = out[j]
    BY <1>4
  <2>3. Len(secret) - 1 \in Nat
    BY EmptySeq DEF Word
  <2>4. next \in State /\ next.out = more
    BY <2>1, <2>2, <2>3 DEF State, Text
  <2> HIDE DEF more, out, next
  <2>5. Begins(text, more, k - 1)
    <3>1. Len(more) \in 1..Len(more)
      BY <1>1, <2>2
    <3>2. ~\A j \in 1..Len(more) : more[j] # Marker
      BY <2>2, <3>1
    <3>3. ASSUME NEW i \in 1..Len(more), \A j \in 1..i : more[j] # Marker
          PROVE  \A j \in 1..i : j <= k - 1 /\ more[j] = text[j]
      <4>1. i # Len(more)
        BY <2>2, <3>1, <3>3
      <4>2. i \in 1..Len(out) /\ \A j \in 1..i : j \in 1..Len(out)
        BY <1>1, <2>2, <4>1
      <4>3. \A j \in 1..i : out[j] # Marker /\ more[j] = out[j]
        BY <2>2, <3>3, <4>2
      <4> QED BY <1>2, <4>2, <4>3 DEF Begins
    <3> QED BY <3>2, <3>3 DEF Begins
  <2>6. Aligned(text, secret, more, k) /\ Begins(text, more, k)
    BY <1>1, <2>2, <2>5, EndsMarked
  <2>7. ~Holds(more, secret) /\ \A w \in Word : Holds(more, w) => Holds(text, w)
    BY <1>1, <1>2, <2>6, OneMore DEF more
  <2> QED BY <2>2, <2>4, <2>6, <2>7, PassingIs
<1>6. CASE done.skip = 0 /\ ~Occurs(secret, text, k)
  <2> DEFINE c == text[k]
             more == Append(out, c)
  <2>1. next = [out |-> more, skip |-> 0]
    <3>1. next = [done EXCEPT !.out = Append(@, text[k])]
      BY <1>6 DEF Passed
    <3> QED BY <1>1, <1>6, <3>1
  <2>2. /\ more \in Text /\ Len(more) = Len(out) + 1 /\ more[Len(out) + 1] = c
        /\ \A j \in 1..Len(out) : more[j] = out[j]
    BY <1>1, <1>4
  <2>4. next \in State /\ next.out = more /\ ~(next.skip > 0)
    BY <2>1, <2>2 DEF State, Text
  <2>0. c = text[k] /\ c \in Characters \cup {Marker}
    BY <1>1
  <2> HIDE DEF more, out, next, c
  <2>5. Aligned(text, secret, more, k)
    <3> SUFFICES ASSUME NEW i \in 1..Len(more), \A j \in i..Len(more) : more[j] # Marker,
                        NEW j \in i..Len(more)
                 PROVE  /\ j + k - Len(more) >= 1
                        /\ more[j] = text[j + k - Len(more)]
                        /\ ~Occurs(secret, text, j + k - Len(more))
      BY DEF Aligned
    <3>1. CASE j = Len(more)
      <4>1. j + k - Len(more) = k
        BY <1>1, <2>2, <3>1
      <4> QED BY <1>1, <1>6, <2>0, <2>2, <3>1, <4>1
    <3>2. CASE j # Len(more)
      <4>1. /\ i \in 1..Len(out) /\ j \in i..Len(out)
            /\ \A l \in i..Len(out) : l \in i..Len(more) /\ l \in 1..Len(out)
            /\ j + k - Len(more) = j + (k - 1) - Len(out)
        BY <1>1, <2>2, <3>2
      <4>2. \A l \in i..Len(out) : out[l] # Marker /\ more[l] = out[l]
        BY <2>2, <4>1
      <4>3. /\ j + (k - 1) - Len(out) >= 1
            /\ out[j] = text[j + (k - 1) - Len(out)]
            /\ ~Occurs(secret, text, j + (k - 1) - Len(out))
        BY <1>2, <4>1, <4>2 DEF Aligned
      <4> QED BY <4>1, <4>2, <4>3
    <3> QED BY <3>1, <3>2
  <2>6. Begins(text, more, k)
    <3>1. ASSUME \A j \in 1..Len(more) : more[j] # Marker PROVE Len(more) = k
      <4>1. \A j \in 1..Len(out) : j \in 1..Len(more)
        BY <1>1, <2>2
      <4>2. \A j \in 1..Len(out) : out[j] # Marker
        BY <2>2, <3>1, <4>1
      <4>3. Len(out) = k - 1
        BY <1>2, <4>2 DEF Begins
      <4> QED BY <1>1, <2>2, <4>3
    <3>2. ASSUME NEW i \in 1..Len(more), \A j \in 1..i : more[j] # Marker, NEW j \in 1..i
          PROVE  j <= k /\ more[j] = text[j]
      <4>1. CASE j = Len(more)
        <5>1. i = Len(more)
          BY <1>1, <2>2, <4>1
        <5>2. Len(more) = k
          BY <3>1, <3>2, <5>1
        <5> QED BY <1>1, <2>0, <2>2, <4>1, <5>2
      <4>2. CASE j # Len(more)
        <5>1. j \in 1..Len(out) /\ \A l \in 1..j : l \in 1..i /\ l \in 1..Len(out)
          BY <1>1, <2>2, <4>2
        <5>2. \A l \in 1..j : out[l] # Marker
          BY <2>2, <3>2, <5>1
        <5>3. j \in 1..j
          BY <5>1
        <5>4. j <= k - 1 /\ out[j] = text[j]
          BY <1>2, <5>1, <5>2, <5>3 DEF Begins
        <5> QED BY <1>1, <2>2, <5>1, <5>4
      <4> QED BY <4>1, <4>2
    <3> QED BY <3>1, <3>2 DEF Begins
  <2>7. ~Holds(more, secret) /\ \A w \in Word : Holds(more, w) => Holds(text, w)
    BY <1>1, <1>2, <2>0, <2>5, OneMore DEF more
  <2> QED BY <2>4, <2>5, <2>6, <2>7, PassingIs
<1> QED BY <1>1, <1>3, <1>5, <1>6

\* how the output ends: as the text up to its k-th character, after the last marker
EndsAs(text, out, k) ==
    \A i \in 1..Len(out) : (\A j \in i..Len(out) : out[j] # Marker) =>
        \A j \in i..Len(out) : j + k - Len(out) >= 1 /\ out[j] = text[j + k - Len(out)]

(* What a text still shows when something in it is hidden.                 *)
Hides(text, out) ==
    /\ out \in Text
    /\ \A w \in Word : Holds(out, w) => Holds(text, w)
    /\ EndsAs(text, out, Len(text))
    /\ Begins(text, out, Len(text))

(* A replacement hides its secret and shows no word that the text did not  *)
(* hold (logs.py, bytes.replace).                                          *)
LEMMA ReplaceHides ==
    ASSUME NEW text \in Text, NEW secret \in Word
    PROVE  Hides(text, Replace(text, secret)) /\ ~Holds(Replace(text, secret), secret)
<1>1. PICK F : /\ F[0] = [out |-> <<>>, skip |-> 0]
               /\ \A k \in 1..Len(text) : F[k] = Passed(text, secret, F[k-1], k)
               /\ Replace(text, secret) = F[Len(text)].out
  BY ReplaceFolds DEF Word
<1> DEFINE S == {k \in 0..Len(text) : Passing(text, secret, F[k], k)}
<1>0. /\ Len(text) \in Nat /\ 0 \in 0..Len(text) /\ Len(text) \in 0..Len(text)
      /\ \A k \in 1..Len(text) : k \in 0..Len(text)
  BY DEF Text
<1>2. 0 \in S
  <2>1. F[0] \in State /\ F[0].out = <<>> /\ F[0].skip = 0
    BY <1>1 DEF State
  <2>2. Passing(text, secret, F[0], 0)
    BY <2>1 DEF Passing, Aligned, Begins, Holds
  <2> QED BY <1>0, <2>2
<1>3. ASSUME NEW k \in 1..Len(text), k - 1 \in S PROVE k \in S
  <2>1. Passing(text, secret, F[k - 1], k - 1)
    BY <1>3
  <2>2. Passing(text, secret, F[k], k)
    BY <1>1, <2>1, PassKeeps
  <2> QED BY <1>0, <2>2
<1> HIDE DEF S
<1>4. Len(text) \in S
  BY <1>0, <1>2, <1>3, UpTo
<1>5. Passing(text, secret, F[Len(text)], Len(text))
  BY <1>4 DEF S
<1> DEFINE out == Replace(text, secret)
<1>6. /\ out \in Text /\ Aligned(text, secret, out, Len(text)) /\ Begins(text, out, Len(text))
      /\ ~Holds(out, secret) /\ \A w \in Word : Holds(out, w) => Holds(text, w)
  BY <1>1, <1>5 DEF Passing, State, Text
<1> HIDE DEF out
<1>7. Hides(text, out)
  <2>1. EndsAs(text, out, Len(text))
    BY <1>6 DEF EndsAs, Aligned
  <2> QED BY <1>6, <2>1 DEF Hides
<1> QED BY <1>6, <1>7 DEF out

\* the known secrets are a list of words
Hidden == secrets \in Seq(Word)

(* Redaction replaces one secret after the other (logs.py,                 *)
(* RedactedLog.write; supervisor.py, clean_evidence).                      *)
LEMMA RedactedFolds ==
   ASSUME NEW text \in Text, Hidden
   PROVE \E F : /\ F[0] = text
                /\ \A k \in 1..Len(secrets) : F[k] = Replace(F[k-1], secrets[k])
                /\ Redacted(text) = F[Len(secrets)]
<1> DEFINE n == Len(secrets)
           D == DOMAIN secrets
           Op(t, i) == Replace(t, secrets[i])
           Is(g) == g = [s \in SUBSET D |->
                             IF s = {} THEN text
                             ELSE LET x == Max(s) IN Op(g[s \ {x}], x)]
           it == CHOOSE g : Is(g)
<1>1. D = 1..n /\ n \in Nat /\ \A i \in 1..n : secrets[i] \in Word
  BY DEF Hidden
<1>2. Redacted(text) = it[D]
  BY Zenon DEF Redacted, FoldLeft, MapThenFoldSet
<1> DEFINE step == [x \in (1..n) \X Text |-> Op(x[2], x[1])]
<1>4. \A t \in Text, i \in 1..n : Op(t, i) \in Text
  BY <1>1, ReplaceHides DEF Hides
<1>5. step \in [(1..n) \X Text -> Text]
  BY <1>4
<1> HIDE DEF step, Op, n
<1>6a. PICK f : Folding(f, n, Text, text, step)
  BY <1>1, <1>5, FoldExists
<1>6. f \in [SUBSET (1..n) -> Text] /\
        \A s \in SUBSET (1..n) :
           f[s] = IF s = {} THEN text ELSE step[<<Max(s), f[s \ {Max(s)}]>>]
  BY <1>6a DEF Folding
<1> USE DEF step
<1> HIDE DEF D
<1>7. ASSUME NEW s \in SUBSET (1..n), s # {}
      PROVE  Max(s) \in 1..n /\ s \ {Max(s)} \in SUBSET (1..n)
  BY <1>1, <1>7, GreatestIsIn
<1>8. Is(f)
  <2>1. f = [s \in SUBSET (1..n) |-> f[s]]
    BY <1>6
  <2>2. \A s \in SUBSET (1..n) : f[s] = IF s = {} THEN text
                ELSE Op(f[s \ {Max(s)}], Max(s))
    BY <1>1, <1>6, <1>7
  <2> QED BY <1>1, <2>1, <2>2
<1>9. Is(it)
  <2> HIDE DEF Is
  <2> QED BY <1>8
<1> DEFINE F == [k \in 0..n |-> it[1..k]]
<1> HIDE DEF it
<1>10. F[0] = text
  <2>1. 1..0 = {} /\ 1..0 \in SUBSET D
    BY <1>1
  <2> QED BY <1>1, <1>9, <2>1
<1>11. ASSUME NEW k \in 1..n PROVE F[k] = Op(F[k-1], k)
  <2>1. /\ 1..k \in SUBSET (1..n) /\ 1..k # {} /\ Max(1..k) = k
        /\ (1..k) \ {k} = 1..k-1 /\ k \in 0..n /\ k - 1 \in 0..n
    BY <1>1, PlacesUpTo
  <2>2. it[1..k] = Op(it[(1..k) \ {k}], k)
    BY <1>1, <1>9, <2>1
  <2> QED BY <1>1, <2>1, <2>2
<1>12. Redacted(text) = F[n]
  BY <1>1, <1>2
<1> HIDE DEF F
<1>13. \A k \in 1..n : F[k] = Op(F[k-1], k)
  BY <1>11
<1> QED BY <1>10, <1>12, <1>13 DEF Op, n

(* A text shows of itself no more than itself: where redaction begins.     *)
LEMMA HidesItself ==
    ASSUME NEW text \in Text
    PROVE  Hides(text, text)
<1>1. Len(text) \in Nat
  BY DEF Text
<1> QED BY <1>1 DEF Hides, EndsAs, Begins

(* What is hidden by one replacement stays hidden by the next one          *)
(* (logs.py, one replace per secret).                                      *)
LEMMA HidesAgain ==
    ASSUME NEW a \in Text, NEW b, NEW c, Hides(a, b), Hides(b, c)
    PROVE  Hides(a, c)
<1>1. /\ b \in Text /\ c \in Text /\ Len(a) \in Nat /\ Len(b) \in Nat /\ Len(c) \in Nat
      /\ \A w \in Word : Holds(c, w) => Holds(a, w)
  BY DEF Hides, Text
<1>2. ASSUME NEW i \in 1..Len(c), \A j \in i..Len(c) : c[j] # Marker, NEW j \in i..Len(c)
      PROVE  j + Len(a) - Len(c) >= 1 /\ c[j] = a[j + Len(a) - Len(c)]
  <2> DEFINE at(x) == x + Len(b) - Len(c)
  <2>1. \A x \in i..Len(c) : at(x) >= 1 /\ c[x] = b[at(x)]
    BY <1>2 DEF Hides, EndsAs
  <2>2. i \in i..Len(c) /\ at(i) \in 1..Len(b) /\ at(j) \in at(i)..Len(b)
    BY <1>1, <1>2, <2>1
  <2>3. ASSUME NEW y \in at(i)..Len(b) PROVE b[y] # Marker
    <3>1. y - Len(b) + Len(c) \in i..Len(c) /\ at(y - Len(b) + Len(c)) = y
      BY <1>1, <2>2
    <3> QED BY <1>2, <2>1, <3>1
  <2> DEFINE l == at(j)
             h == at(i)
  <2>4. l + Len(a) - Len(b) = j + Len(a) - Len(c)
    BY <1>1
  <2>5. c[j] = b[l] /\ h \in 1..Len(b) /\ l \in h..Len(b) /\ \A y \in h..Len(b) : b[y] # Marker
    BY <2>1, <2>2, <2>3
  <2> HIDE DEF l, h
  <2>6. l + Len(a) - Len(b) >= 1 /\ b[l] = a[l + Len(a) - Len(b)]
    BY <2>5 DEF Hides, EndsAs
  <2> QED BY <2>4, <2>5, <2>6
<1>3. ASSUME NEW i \in 1..Len(c), \A j \in 1..i : c[j] # Marker, NEW j \in 1..i
      PROVE  j <= Len(a) /\ c[j] = a[j]
  <2>1. \A x \in 1..i : x <= Len(b) /\ c[x] = b[x]
    BY <1>3 DEF Hides, Begins
  <2>2. i \in 1..i /\ i \in 1..Len(b) /\ \A x \in 1..i : b[x] # Marker
    BY <1>1, <1>3, <2>1
  <2>3. j <= Len(a) /\ b[j] = a[j]
    BY <2>2 DEF Hides, Begins
  <2> QED BY <2>1, <2>3
<1>4. ASSUME \A j \in 1..Len(c) : c[j] # Marker PROVE Len(c) = Len(a)
  <2>1. Len(c) = Len(b)
    BY <1>4 DEF Hides, Begins
  <2>2. ASSUME NEW j \in 1..Len(c) PROVE c[j] = b[j]
    <3>1. Len(c) \in 1..Len(c) /\ j \in 1..Len(c)
      BY <1>1
    <3> QED BY <1>4, <3>1 DEF Hides, Begins
  <2> QED BY <1>4, <2>1, <2>2 DEF Hides, Begins
<1> QED BY <1>1, <1>2, <1>3, <1>4 DEF Hides, EndsAs, Begins

(* Redaction hides every known secret, those hidden first included, though *)
(* later replacements change the text again (logs.py, RedactedLog.write;   *)
(* supervisor.py, clean_evidence).                                         *)
LEMMA RedactedHides ==
    ASSUME NEW text \in Text, Hidden
    PROVE  /\ Hides(text, Redacted(text))
           /\ \A x \in 1..Len(secrets) : ~Holds(Redacted(text), secrets[x])
<1>1. PICK F : /\ F[0] = text
               /\ \A k \in 1..Len(secrets) : F[k] = Replace(F[k-1], secrets[k])
               /\ Redacted(text) = F[Len(secrets)]
  BY RedactedFolds
<1> DEFINE S == {k \in 0..Len(secrets) : /\ Hides(text, F[k])
                                         /\ \A x \in 1..k : ~Holds(F[k], secrets[x])}
<1>0. /\ Len(secrets) \in Nat /\ 0 \in 0..Len(secrets) /\ Len(secrets) \in 0..Len(secrets)
      /\ \A k \in 1..Len(secrets) : k \in 0..Len(secrets) /\ secrets[k] \in Word
  BY DEF Hidden
<1>2. 0 \in S
  BY <1>0, <1>1, HidesItself
<1>3. ASSUME NEW k \in 1..Len(secrets), k - 1 \in S PROVE k \in S
  <2>1. Hides(text, F[k - 1]) /\ \A x \in 1..k - 1 : ~Holds(F[k - 1], secrets[x])
    BY <1>3
  <2>2. F[k - 1] \in Text
    BY <2>1 DEF Hides
  <2>3. F[k] = Replace(F[k-1], secrets[k])
    BY <1>1
  <2>4. Hides(F[k - 1], F[k]) /\ ~Holds(F[k], secrets[k])
    BY <1>0, <2>2, <2>3, ReplaceHides
  <2>5. Hides(text, F[k])
    BY <2>1, <2>4, HidesAgain
  <2>6. ASSUME NEW x \in 1..k PROVE ~Holds(F[k], secrets[x])
    <3>1. CASE x = k
      BY <2>4, <3>1
    <3>2. CASE x # k
      <4>1. x \in 1..k - 1 /\ x \in 1..Len(secrets)
        BY <1>0, <3>2
      <4> QED BY <1>0, <2>1, <2>4, <4>1 DEF Hides
    <3> QED BY <3>1, <3>2
  <2> QED BY <1>0, <2>5, <2>6
<1> HIDE DEF S
<1>4. Len(secrets) \in S
  BY <1>0, <1>2, <1>3, UpTo
<1> QED BY <1>1, <1>4 DEF S

\* the secret stands at i and goes over the cut
Crosses(buffer, secret, i, c) ==
    Occurs(secret, buffer, i) /\ i - 1 < c /\ c < i - 1 + Len(secret)

\* the cut after the occurrence at i was looked at
Moved(buffer, secret, c, i) == IF Crosses(buffer, secret, i, c) THEN i - 1 ELSE c

(* One secret moves the cut by its occurrences, from the left (logs.py,    *)
(* RedactedLog.write, the inner loop).                                     *)
LEMMA CutBeforeFolds ==
   ASSUME NEW buffer \in Text, NEW secret \in Word, NEW cut \in Nat
   PROVE \E F : /\ F[0] = cut
                /\ \A k \in 1..Len(buffer) : F[k] = Moved(buffer, secret, F[k-1], k)
                /\ CutBefore(buffer, cut, secret) = F[Len(buffer)]
<1> DEFINE n == Len(buffer)
           D == DOMAIN Positions(buffer)
           Op(c, i) == Moved(buffer, secret, c, i)
           Is(g) == g = [s \in SUBSET D |->
                             IF s = {} THEN cut
                             ELSE LET x == Max(s) IN Op(g[s \ {x}], Positions(buffer)[x])]
           it == CHOOSE g : Is(g)
<1>1. D = 1..n /\ n \in Nat /\ \A i \in 1..n : Positions(buffer)[i] = i
  BY DEF Positions, Text
<1>2. CutBefore(buffer, cut, secret) = it[D]
  BY Zenon DEF CutBefore, FoldLeft, MapThenFoldSet, Moved, Crosses
<1> DEFINE step == [x \in (1..n) \X Nat |-> Op(x[2], x[1])]
<1>4. \A c \in Nat, i \in 1..n : Op(c, i) \in Nat
  <2>1. \A i \in 1..n : i - 1 \in Nat
    OBVIOUS
  <2> QED BY <2>1 DEF Moved
<1>5. step \in [(1..n) \X Nat -> Nat]
  BY <1>4
<1> HIDE DEF step, Op, n
<1>6a. PICK f : Folding(f, n, Nat, cut, step)
  BY <1>1, <1>5, FoldExists
<1>6. f \in [SUBSET (1..n) -> Nat] /\
        \A s \in SUBSET (1..n) :
           f[s] = IF s = {} THEN cut ELSE step[<<Max(s), f[s \ {Max(s)}]>>]
  BY <1>6a DEF Folding
<1> USE DEF step
<1> HIDE DEF D
<1>7. ASSUME NEW s \in SUBSET (1..n), s # {}
      PROVE  Max(s) \in 1..n /\ s \ {Max(s)} \in SUBSET (1..n)
  BY <1>1, <1>7, GreatestIsIn
<1>8. Is(f)
  <2>1. f = [s \in SUBSET (1..n) |-> f[s]]
    BY <1>6
  <2>2. \A s \in SUBSET (1..n) : f[s] = IF s = {} THEN cut
                ELSE Op(f[s \ {Max(s)}], Positions(buffer)[Max(s)])
    BY <1>1, <1>6, <1>7
  <2> QED BY <1>1, <2>1, <2>2
<1>9. Is(it)
  <2> HIDE DEF Is
  <2> QED BY <1>8
<1> DEFINE F == [k \in 0..n |-> it[1..k]]
<1> HIDE DEF it
<1>10. F[0] = cut
  <2>1. 1..0 = {} /\ 1..0 \in SUBSET D
    BY <1>1
  <2> QED BY <1>1, <1>9, <2>1
<1>11. ASSUME NEW k \in 1..n PROVE F[k] = Op(F[k-1], k)
  <2>1. /\ 1..k \in SUBSET (1..n) /\ 1..k # {} /\ Max(1..k) = k
        /\ (1..k) \ {k} = 1..k-1 /\ k \in 0..n /\ k - 1 \in 0..n
    BY <1>1, PlacesUpTo
  <2>2. it[1..k] = Op(it[(1..k) \ {k}], Positions(buffer)[k])
    BY <1>1, <1>9, <2>1
  <2> QED BY <1>1, <2>1, <2>2
<1>12. CutBefore(buffer, cut, secret) = F[n]
  BY <1>1, <1>2
<1> HIDE DEF F
<1>13. \A k \in 1..n : F[k] = Op(F[k-1], k)
  BY <1>11
<1> QED BY <1>10, <1>12, <1>13 DEF Op, n

(* The cut stays, or it moves to the start of one occurrence that goes     *)
(* over it.                                                                *)
LEMMA CutBeforeIs ==
    ASSUME NEW buffer \in Text, NEW secret \in Word, NEW cut \in Nat
    PROVE  \/ /\ CutBefore(buffer, cut, secret) = cut
              /\ \A i \in 1..Len(buffer) : ~Crosses(buffer, secret, i, cut)
           \/ \E i \in 1..Len(buffer) : /\ CutBefore(buffer, cut, secret) = i - 1
                                        /\ Crosses(buffer, secret, i, cut)
<1>1. PICK F : /\ F[0] = cut
               /\ \A k \in 1..Len(buffer) : F[k] = Moved(buffer, secret, F[k-1], k)
               /\ CutBefore(buffer, cut, secret) = F[Len(buffer)]
  BY CutBeforeFolds
<1> DEFINE P(k) == \/ F[k] = cut /\ \A i \in 1..k : ~Crosses(buffer, secret, i, cut)
                   \/ \E i \in 1..k : F[k] = i - 1 /\ Crosses(buffer, secret, i, cut)
           S == {k \in 0..Len(buffer) : P(k)}
<1>0. /\ Len(buffer) \in Nat /\ 0 \in 0..Len(buffer) /\ Len(buffer) \in 0..Len(buffer)
      /\ \A k \in 1..Len(buffer) : k \in 0..Len(buffer)
  BY DEF Text
<1>2. 0 \in S
  BY <1>0, <1>1
<1>3. ASSUME NEW k \in 1..Len(buffer), k - 1 \in S PROVE k \in S
  <2>1. P(k - 1)
    BY <1>3
  <2>2. F[k] = Moved(buffer, secret, F[k-1], k)
    BY <1>1
  <2>3. CASE F[k - 1] = cut /\ \A i \in 1..k - 1 : ~Crosses(buffer, secret, i, cut)
    <3>1. CASE Crosses(buffer, secret, k, cut)
      <4>1. F[k] = k - 1
        BY <2>2, <2>3, <3>1 DEF Moved
      <4>2. k \in 1..k
        OBVIOUS
      <4> QED BY <1>0, <3>1, <4>1, <4>2
    <3>2. CASE ~Crosses(buffer, secret, k, cut)
      <4>1. F[k] = cut
        BY <2>2, <2>3, <3>2 DEF Moved
      <4>2. \A i \in 1..k : i = k \/ i \in 1..k - 1
        OBVIOUS
      <4> QED BY <1>0, <2>3, <3>2, <4>1, <4>2
    <3> QED BY <3>1, <3>2
  <2>4. ASSUME NEW i \in 1..k - 1, F[k - 1] = i - 1, Crosses(buffer, secret, i, cut)
        PROVE  k \in S
    <3>1. ~(k - 1 < i - 1) /\ i \in 1..k
      OBVIOUS
    <3>2. F[k] = i - 1
      BY <2>2, <2>4, <3>1 DEF Moved, Crosses
    <3> QED BY <1>0, <2>4, <3>1, <3>2
  <2> QED BY <2>1, <2>3, <2>4
<1> HIDE DEF S
<1>4. Len(buffer) \in S
  BY <1>0, <1>2, <1>3, UpTo
<1> QED BY <1>1, <1>4 DEF S

(* The greater of two numbers (logs.py, max).                              *)
LEMMA MaxOfTwo ==
    ASSUME NEW a \in Int, NEW b \in Int
    PROVE  Max({a, b}) = IF a >= b THEN a ELSE b
BY DEF Max

\* where the cut is before any secret moves it
FirstCut(buffer, final) == IF final THEN Len(buffer) ELSE Max({0, Len(buffer) - Keep})

(* The first cut keeps back one byte fewer than the longest secret has     *)
(* (logs.py, keep).                                                        *)
LEMMA FirstCutIs ==
    ASSUME NEW buffer \in Text, NEW final, Hidden
    PROVE  /\ Keep \in Nat /\ FirstCut(buffer, final) \in 0..Len(buffer)
           /\ ~final => FirstCut(buffer, final) = IF Len(buffer) >= Keep THEN Len(buffer) - Keep ELSE 0
<1>1. Keep \in Nat
  <2>1. CASE secrets = <<>>
    BY <2>1 DEF Keep
  <2>2. CASE secrets # <<>>
    <3>1. secrets[1] \in Word
      BY <2>2, EmptySeq DEF Hidden
    <3>2. Len(secrets[1]) - 1 \in Nat
      BY <3>1, EmptySeq DEF Word
    <3> QED BY <2>2, <3>2 DEF Keep
  <2> QED BY <2>1, <2>2
<1>2. Len(buffer) \in Nat
  BY DEF Text
<1>3. Max({0, Len(buffer) - Keep}) = IF 0 >= Len(buffer) - Keep THEN 0 ELSE Len(buffer) - Keep
  BY <1>1, <1>2, MaxOfTwo
<1> QED BY <1>1, <1>2, <1>3 DEF FirstCut

(* The cut is moved by one secret after the other (logs.py,                *)
(* RedactedLog.write, the outer loop).                                     *)
LEMMA CutFolds ==
   ASSUME NEW buffer \in Text, NEW final, Hidden
   PROVE \E F : /\ F[0] = FirstCut(buffer, final)
                /\ \A k \in 1..Len(secrets) : F[k] = CutBefore(buffer, F[k-1], secrets[k])
                /\ Cut(buffer, final) = F[Len(secrets)]
<1> DEFINE n == Len(secrets)
           D == DOMAIN secrets
           base == FirstCut(buffer, final)
           Op(c, i) == CutBefore(buffer, c, secrets[i])
           Is(g) == g = [s \in SUBSET D |->
                             IF s = {} THEN base
                             ELSE LET x == Max(s) IN Op(g[s \ {x}], x)]
           it == CHOOSE g : Is(g)
<1>1. D = 1..n /\ n \in Nat /\ \A i \in 1..n : secrets[i] \in Word
  BY DEF Hidden
<1>2. Cut(buffer, final) = it[D]
  BY Zenon DEF Cut, FoldLeft, MapThenFoldSet, FirstCut
<1>3. base \in Nat
  BY FirstCutIs
<1> DEFINE step == [x \in (1..n) \X Nat |-> Op(x[2], x[1])]
<1>4. \A c \in Nat, i \in 1..n : Op(c, i) \in Nat
  <2> SUFFICES ASSUME NEW c \in Nat, NEW i \in 1..n PROVE Op(c, i) \in Nat
    OBVIOUS
  <2> DEFINE w == secrets[i]
  <2>1. w \in Word
    BY <1>1
  <2> HIDE DEF w
  <2>2. CutBefore(buffer, c, w) = c \/ \E j \in 1..Len(buffer) : CutBefore(buffer, c, w) = j - 1
    BY <2>1, CutBeforeIs
  <2>3. \A j \in 1..Len(buffer) : j - 1 \in Nat
    OBVIOUS
  <2> QED BY <2>2, <2>3 DEF w
<1>5. step \in [(1..n) \X Nat -> Nat]
  BY <1>4
<1> HIDE DEF step, Op, n, base
<1>6a. PICK f : Folding(f, n, Nat, base, step)
  BY <1>1, <1>3, <1>5, FoldExists
<1>6. f \in [SUBSET (1..n) -> Nat] /\
        \A s \in SUBSET (1..n) :
           f[s] = IF s = {} THEN base ELSE step[<<Max(s), f[s \ {Max(s)}]>>]
  BY <1>6a DEF Folding
<1> USE DEF step
<1> HIDE DEF D
<1>7. ASSUME NEW s \in SUBSET (1..n), s # {}
      PROVE  Max(s) \in 1..n /\ s \ {Max(s)} \in SUBSET (1..n)
  BY <1>1, <1>7, GreatestIsIn
<1>8. Is(f)
  <2>1. f = [s \in SUBSET (1..n) |-> f[s]]
    BY <1>6
  <2>2. \A s \in SUBSET (1..n) : f[s] = IF s = {} THEN base
                ELSE Op(f[s \ {Max(s)}], Max(s))
    BY <1>1, <1>6, <1>7
  <2> QED BY <1>1, <2>1, <2>2
<1>9. Is(it)
  <2> HIDE DEF Is
  <2> QED BY <1>8
<1> DEFINE F == [k \in 0..n |-> it[1..k]]
<1> HIDE DEF it
<1>10. F[0] = base
  <2>1. 1..0 = {} /\ 1..0 \in SUBSET D
    BY <1>1
  <2> QED BY <1>1, <1>9, <2>1
<1>11. ASSUME NEW k \in 1..n PROVE F[k] = Op(F[k-1], k)
  <2>1. /\ 1..k \in SUBSET (1..n) /\ 1..k # {} /\ Max(1..k) = k
        /\ (1..k) \ {k} = 1..k-1 /\ k \in 0..n /\ k - 1 \in 0..n
    BY <1>1, PlacesUpTo
  <2>2. it[1..k] = Op(it[(1..k) \ {k}], k)
    BY <1>1, <1>9, <2>1
  <2> QED BY <1>1, <2>1, <2>2
<1>12. Cut(buffer, final) = F[n]
  BY <1>1, <1>2
<1> HIDE DEF F
<1>13. \A k \in 1..n : F[k] = Op(F[k-1], k)
  BY <1>11
<1> QED BY <1>10, <1>12, <1>13 DEF Op, n, base

(* Separate, by the secrets' places.                                       *)
Apart(text) ==
    \A i, j \in 1..Len(text), x, y \in 1..Len(secrets) :
        /\ Occurs(secrets[x], text, i) /\ Occurs(secrets[y], text, j)
        /\ i < j /\ j < i + Len(secrets[x])
        => j + Len(secrets[y]) <= i + Len(secrets[x])

(* Secrets in separate places, by their positions in the list (logs.py,    *)
(* the sorted secrets).                                                    *)
LEMMA SeparateIs ==
    ASSUME NEW text \in Text, Hidden, Separate(text)
    PROVE  Apart(text)
<1>1. DOMAIN text = 1..Len(text) /\ \A x \in 1..Len(secrets) : secrets[x] \in Range(secrets)
  BY DEF Text, Hidden, Range
<1> QED BY <1>1 DEF Separate, Apart

(* One secret moves the cut: what did not go over it still does not.       *)
LEMMA MovedKeeps ==
    ASSUME NEW buffer \in Text, Hidden, Apart(buffer), NEW x \in 1..Len(secrets),
           NEW y \in 1..Len(secrets), NEW i \in 1..Len(buffer), NEW j \in 1..Len(buffer),
           NEW cut \in Nat, Crosses(buffer, secrets[x], i, cut),
           Crosses(buffer, secrets[y], j, i - 1)
    PROVE  Crosses(buffer, secrets[y], j, cut) /\ j < i
<1>1. Len(secrets[x]) \in Nat /\ Len(secrets[y]) \in Nat /\ Len(buffer) \in Nat
  BY DEF Hidden, Word, Text
<1> DEFINE n == Len(secrets[x])
           m == Len(secrets[y])
<1> HIDE DEF n, m
<1>2. /\ i - 1 < cut /\ cut < i - 1 + n /\ j - 1 < i - 1 /\ i - 1 < j - 1 + m
      /\ Occurs(secrets[x], buffer, i) /\ Occurs(secrets[y], buffer, j)
  BY DEF Crosses, n, m
<1>3. n \in Nat /\ m \in Nat /\ i \in Nat /\ j \in Nat
  BY <1>1 DEF n, m
<1>4. j < i /\ i < j + m
  BY ONLY <1>2, <1>3
<1>5. i + n <= j + m
  BY <1>2, <1>4 DEF Apart, n, m
<1>6. j - 1 < cut /\ cut < j - 1 + m
  BY ONLY <1>2, <1>3, <1>4, <1>5, cut \in Nat
<1> QED BY <1>2, <1>4, <1>6 DEF Crosses, m

(* After one secret nothing of it goes over the cut, nor of those before.  *)
LEMMA NoneCrosses ==
    ASSUME NEW buffer \in Text, Hidden, Apart(buffer), NEW k \in 1..Len(secrets), NEW cut \in Nat,
           \A y \in 1..k - 1, j \in 1..Len(buffer) : ~Crosses(buffer, secrets[y], j, cut)
    PROVE  \A y \in 1..k, j \in 1..Len(buffer) :
              ~Crosses(buffer, secrets[y], j, CutBefore(buffer, cut, secrets[k]))
<1> DEFINE c == CutBefore(buffer, cut, secrets[k])
<1>0. secrets[k] \in Word /\ Len(secrets) \in Nat
  BY DEF Hidden
<1>0a. \A y \in 1..k : y = k \/ y \in 1..k - 1
  OBVIOUS
<1>0b. \A y \in 1..k : y \in 1..Len(secrets)
  BY <1>0
<1>1. \/ c = cut /\ \A i \in 1..Len(buffer) : ~Crosses(buffer, secrets[k], i, cut)
      \/ \E i \in 1..Len(buffer) : c = i - 1 /\ Crosses(buffer, secrets[k], i, cut)
  BY <1>0, CutBeforeIs
<1> HIDE DEF c
<1> SUFFICES ASSUME NEW y \in 1..k, NEW j \in 1..Len(buffer), Crosses(buffer, secrets[y], j, c)
             PROVE  FALSE
  BY DEF c
<1>2. CASE c = cut /\ \A i \in 1..Len(buffer) : ~Crosses(buffer, secrets[k], i, cut)
  BY <1>0a, <1>2
<1>3. ASSUME NEW i \in 1..Len(buffer), c = i - 1, Crosses(buffer, secrets[k], i, cut) PROVE FALSE
  <2>1. Crosses(buffer, secrets[y], j, cut) /\ j < i
    BY <1>0b, <1>3, MovedKeeps
  <2>2. y = k
    BY <1>0a, <2>1
  <2>3. Occurs(secrets[k], buffer, j) /\ Occurs(secrets[k], buffer, i) /\ i - 1 < j - 1 + Len(secrets[k])
    BY <1>3, <2>2 DEF Crosses
  <2> DEFINE n == Len(secrets[k])
  <2>4. n \in Nat
    BY <1>0 DEF Word
  <2>5. i < j + n => i + n <= j + n
    BY <2>1, <2>3 DEF Apart
  <2> HIDE DEF n
  <2>6. i - 1 < j - 1 + n
    BY <2>3 DEF n
  <2>7. j < i
    BY <2>1
  <2> QED BY ONLY <2>4, <2>5, <2>6, <2>7, i \in Nat, j \in Nat
<1> QED BY <1>1, <1>2, <1>3

(* Where the log cuts what it has read (logs.py:24-33).                    *)
LEMMA CutIs ==
    ASSUME NEW buffer \in Text, NEW final \in BOOLEAN, Hidden
    PROVE  /\ Cut(buffer, final) \in 0..FirstCut(buffer, final)
           /\ final => Cut(buffer, final) = Len(buffer)
           /\ Apart(buffer) => \A y \in 1..Len(secrets), j \in 1..Len(buffer) :
                                  ~Crosses(buffer, secrets[y], j, Cut(buffer, final))
<1> DEFINE first == FirstCut(buffer, final)
<1>1. PICK F : /\ F[0] = first
               /\ \A k \in 1..Len(secrets) : F[k] = CutBefore(buffer, F[k-1], secrets[k])
               /\ Cut(buffer, final) = F[Len(secrets)]
  BY CutFolds
<1>2. first \in 0..Len(buffer) /\ Len(buffer) \in Nat /\ (final => first = Len(buffer))
  BY FirstCutIs DEF Text, FirstCut
<1> HIDE DEF first
<1> DEFINE P(k) == /\ F[k] \in 0..first /\ (final => F[k] = Len(buffer))
                   /\ Apart(buffer) => \A y \in 1..k, j \in 1..Len(buffer) :
                                          ~Crosses(buffer, secrets[y], j, F[k])
           S == {k \in 0..Len(secrets) : P(k)}
<1>0. /\ Len(secrets) \in Nat /\ 0 \in 0..Len(secrets) /\ Len(secrets) \in 0..Len(secrets)
      /\ \A k \in 1..Len(secrets) : k \in 0..Len(secrets) /\ secrets[k] \in Word
  BY DEF Hidden
<1>3. 0 \in S
  BY <1>0, <1>1, <1>2
<1>4. ASSUME NEW k \in 1..Len(secrets), k - 1 \in S PROVE k \in S
  <2> DEFINE w == secrets[k]
             b == F[k - 1]
             c == F[k]
  <2>1. /\ b \in 0..first /\ (final => b = Len(buffer))
        /\ Apart(buffer) => \A y \in 1..k - 1, j \in 1..Len(buffer) : ~Crosses(buffer, secrets[y], j, b)
    BY <1>4
  <2>2. c = CutBefore(buffer, b, w) /\ w \in Word /\ b \in Nat /\ Len(w) \in Nat
    BY <1>0, <1>1, <2>1 DEF Word
  <2>3. Apart(buffer) => \A y \in 1..k, j \in 1..Len(buffer) : ~Crosses(buffer, secrets[y], j, c)
    BY <2>1, <2>2, NoneCrosses
  <2> HIDE DEF w, b, c
  <2>4. c = b \/ \E i \in 1..Len(buffer) : c = i - 1 /\ Crosses(buffer, w, i, b)
    BY <2>2, CutBeforeIs
  <2>5. c \in 0..first
    <3>1. \A i \in 1..Len(buffer) : i - 1 < b => i - 1 \in 0..first
      BY <1>2, <2>1
    <3> QED BY <2>1, <2>4, <3>1 DEF Crosses
  <2>6. ASSUME final, NEW i \in 1..Len(buffer), Crosses(buffer, w, i, b) PROVE FALSE
    <3>1. i + Len(w) - 1 <= Len(buffer) /\ b < i - 1 + Len(w) /\ b = Len(buffer)
      BY <2>1, <2>6 DEF Crosses, Occurs
    <3> QED BY <1>2, <2>2, <3>1
  <2>7. P(k)
    BY <2>1, <2>3, <2>4, <2>5, <2>6 DEF c
  <2> QED BY <1>0, <2>7
<1> HIDE DEF S
<1>5. Len(secrets) \in S
  BY <1>0, <1>3, <1>4, UpTo
<1>6. P(Len(secrets))
  BY <1>5 DEF S
<1> QED BY <1>1, <1>6 DEF first

(* The longest secret is the first.                                        *)
LongestFirst == \A x \in 1..Len(secrets) : Len(secrets[x]) <= Len(secrets[1])

(* What is kept back is enough for every secret but for its last byte      *)
(* (logs.py, keep).                                                        *)
LEMMA KeepIs ==
    ASSUME Hidden, LongestFirst
    PROVE  Keep \in Nat /\ \A x \in 1..Len(secrets) : Len(secrets[x]) - 1 <= Keep
<1>1. ASSUME NEW x \in 1..Len(secrets)
      PROVE  secrets # <<>> /\ Len(secrets[x]) \in Nat /\ Len(secrets[1]) \in Nat
             /\ Len(secrets[x]) <= Len(secrets[1]) /\ Len(secrets[x]) > 0
  <2>1. Len(secrets) \in Nat /\ Len(secrets) > 0 /\ 1 \in 1..Len(secrets)
    BY DEF Hidden
  <2>2. secrets[x] \in Word /\ secrets[1] \in Word
    BY <2>1 DEF Hidden
  <2> QED BY <2>1, <2>2, EmptySeq DEF Word, LongestFirst, Hidden
<1>2. \A x \in 1..Len(secrets) : Len(secrets[x]) - 1 <= Keep
  BY <1>1 DEF Keep
<1>3. Keep \in Nat
  BY FirstCutIs, <<>> \in Text, TRUE \in BOOLEAN DEF Text
<1> QED BY <1>2, <1>3

(* No secret moves the cut further than the longest is long.               *)
LEMMA CutStaysNear ==
    ASSUME NEW buffer \in Text, NEW final \in BOOLEAN, Hidden, LongestFirst
    PROVE  Cut(buffer, final) >= FirstCut(buffer, final) - Keep * Len(secrets)
<1> DEFINE first == FirstCut(buffer, final)
<1>1. PICK F : /\ F[0] = first
               /\ \A k \in 1..Len(secrets) : F[k] = CutBefore(buffer, F[k-1], secrets[k])
               /\ Cut(buffer, final) = F[Len(secrets)]
  BY CutFolds
<1>2. first \in 0..Len(buffer) /\ Len(buffer) \in Nat /\ Keep \in Nat
  BY FirstCutIs DEF Text
<1> HIDE DEF first
<1> DEFINE S == {k \in 0..Len(secrets) : F[k] \in Nat /\ F[k] >= first - Keep * k}
<1>0. /\ Len(secrets) \in Nat /\ 0 \in 0..Len(secrets) /\ Len(secrets) \in 0..Len(secrets)
      /\ \A k \in 1..Len(secrets) : k \in 0..Len(secrets) /\ secrets[k] \in Word
  BY DEF Hidden
<1>3. 0 \in S
  BY <1>0, <1>1, <1>2
<1>4. ASSUME NEW k \in 1..Len(secrets), k - 1 \in S PROVE k \in S
  <2> DEFINE w == secrets[k]
             b == F[k - 1]
             c == F[k]
  <2>1. b \in Nat /\ b >= first - Keep * (k - 1)
    BY <1>4
  <2>2. c = CutBefore(buffer, b, w) /\ w \in Word /\ Len(w) \in Nat /\ Len(w) - 1 <= Keep
    BY <1>0, <1>1, KeepIs DEF Word
  <2> HIDE DEF w, b, c
  <2>3. c = b \/ \E i \in 1..Len(buffer) : c = i - 1 /\ Crosses(buffer, w, i, b)
    BY <2>1, <2>2, CutBeforeIs
  <2>4. c \in Nat /\ c >= b - Keep
    <3>1. CASE c = b
      BY <1>2, <2>1, <3>1
    <3>2. ASSUME NEW i \in 1..Len(buffer), c = i - 1, Crosses(buffer, w, i, b)
          PROVE  c \in Nat /\ c >= b - Keep
      <4>1. b < i - 1 + Len(w)
        BY <3>2 DEF Crosses
      <4> QED BY <1>2, <2>1, <2>2, <3>2, <4>1
    <3> QED BY <2>3, <3>1, <3>2
  <2>5. Keep * (k - 1) = Keep * k - Keep /\ Keep * k \in Nat
    BY ONLY <1>2, k \in Nat
  <2>6. c >= first - Keep * k
    <3> DEFINE p == Keep * k
               q == Keep * (k - 1)
    <3>1. q = p - Keep /\ p \in Nat /\ b >= first - q
      BY <2>1, <2>5
    <3> HIDE DEF p, q
    <3>2. c >= first - p
      BY <1>2, <2>1, <2>4, <3>1
    <3> QED BY <3>2 DEF p
  <2> QED BY <1>0, <2>4, <2>6 DEF c
<1> HIDE DEF S
<1>5. Len(secrets) \in S
  BY <1>0, <1>3, <1>4, UpTo
<1> QED BY <1>1, <1>5 DEF S, first

\* a part of the text, from off on
Part(part, text, off) ==
    /\ off + Len(part) <= Len(text)
    /\ \A j \in 1..Len(part) : part[j] = text[off + j]

(* An occurrence in a part of a text is one in the text, and back.         *)
LEMMA OccursInPart ==
    ASSUME NEW text \in Text, NEW part \in Text, NEW off \in Nat, Part(part, text, off),
           NEW w \in Word, NEW i \in 1..Len(part)
    PROVE  /\ off + i \in 1..Len(text)
           /\ Occurs(w, part, i) => i + Len(w) - 1 <= Len(part) /\ Occurs(w, text, off + i)
           /\ Occurs(w, text, off + i) /\ i + Len(w) - 1 <= Len(part) => Occurs(w, part, i)
<1>1. Len(text) \in Nat /\ Len(part) \in Nat /\ Len(w) \in Nat /\ Len(w) > 0
  BY EmptySeq DEF Text, Word
<1>2. off + Len(part) <= Len(text) /\ \A j \in 1..Len(part) : part[j] = text[off + j]
  BY DEF Part
<1>3. off + i \in 1..Len(text)
  BY <1>1, <1>2
<1>4. ASSUME i + Len(w) - 1 <= Len(part), NEW j \in 1..Len(w)
      PROVE  part[i + j - 1] = text[(off + i) + j - 1]
  <2>1. i + j - 1 \in 1..Len(part) /\ off + (i + j - 1) = (off + i) + j - 1
    BY <1>1, <1>4
  <2> QED BY <1>2, <2>1
<1>5. i + Len(w) - 1 <= Len(part) => (off + i) + Len(w) - 1 <= Len(text)
  BY <1>1, <1>2
<1>6. Occurs(w, part, i) => i + Len(w) - 1 <= Len(part) /\ Occurs(w, text, off + i)
  <2> SUFFICES ASSUME Occurs(w, part, i)
               PROVE  i + Len(w) - 1 <= Len(part) /\ Occurs(w, text, off + i)
    OBVIOUS
  <2>1. i + Len(w) - 1 <= Len(part) /\ \A j \in 1..Len(w) : part[i + j - 1] = w[j]
    BY OccursIs
  <2>2. \A j \in 1..Len(w) : text[(off + i) + j - 1] = w[j]
    BY <1>4, <2>1
  <2> QED BY <1>3, <1>5, <2>1, <2>2, OccursIs
<1>7. Occurs(w, text, off + i) /\ i + Len(w) - 1 <= Len(part) => Occurs(w, part, i)
  <2> SUFFICES ASSUME Occurs(w, text, off + i), i + Len(w) - 1 <= Len(part)
               PROVE  Occurs(w, part, i)
    OBVIOUS
  <2>1. \A j \in 1..Len(w) : text[(off + i) + j - 1] = w[j]
    BY <1>3, OccursIs
  <2>2. \A j \in 1..Len(w) : part[i + j - 1] = w[j]
    BY <1>4, <2>1
  <2> QED BY <2>2, OccursIs
<1> QED BY <1>3, <1>6, <1>7

(* Secrets in separate places of a text are so in each part of it          *)
(* (logs.py, pending is a part of what was printed).                       *)
LEMMA ApartInPart ==
    ASSUME Hidden, NEW text \in Text, NEW part \in Text, NEW off \in Nat, Part(part, text, off),
           Apart(text)
    PROVE  Apart(part)
<1> SUFFICES ASSUME NEW i \in 1..Len(part), NEW j \in 1..Len(part),
                    NEW x \in 1..Len(secrets), NEW y \in 1..Len(secrets),
                    Occurs(secrets[x], part, i), Occurs(secrets[y], part, j),
                    i < j, j < i + Len(secrets[x])
             PROVE  j + Len(secrets[y]) <= i + Len(secrets[x])
  BY DEF Apart
<1> DEFINE v == secrets[x]
           w == secrets[y]
<1>1. v \in Word /\ w \in Word /\ Len(v) \in Nat /\ Len(w) \in Nat
  BY DEF Hidden, Word
<1> HIDE DEF v, w
<1>2. /\ off + i \in 1..Len(text) /\ Occurs(v, text, off + i)
      /\ off + j \in 1..Len(text) /\ Occurs(w, text, off + j)
  BY <1>1, OccursInPart DEF v, w
<1>3. off + i < off + j /\ off + j < (off + i) + Len(v)
  <2>1. j < i + Len(v)
    BY DEF v
  <2> QED BY ONLY <1>1, <2>1, i < j, i \in Nat, j \in Nat, off \in Nat
<1>4. (off + j) + Len(w) <= (off + i) + Len(v)
  BY <1>2, <1>3 DEF Apart, v, w
<1>5. j + Len(w) <= i + Len(v)
  BY ONLY <1>1, <1>4, i \in Nat, j \in Nat, off \in Nat
<1> QED BY <1>5 DEF v, w

\* no secret that is known goes over the end e, whatever else is printed
Settled(text, e) ==
    \A x \in 1..Len(secrets), i \in 1..e :
        i + Len(secrets[x]) - 1 > e =>
            i + Len(secrets[x]) - 1 <= Len(text) /\ ~Occurs(secrets[x], text, i)

\* a known secret can be read in it
Discloses(out) == \E x \in 1..Len(secrets) : Holds(out, secrets[x])

\* the log so far: what it says, and what it keeps back, of what was printed
Along(text, back, out) ==
    /\ Len(back) <= Len(text)
    /\ Part(back, text, Len(text) - Len(back))
    /\ EndsAs(text, out, Len(text) - Len(back))
    /\ Apart(text) => Settled(text, Len(text) - Len(back))

\* a chunk arrives: what was printed and kept back, before and after it
Read(text, back, data, buffer, more, ready, cut) ==
    /\ text \in Text /\ back \in Text /\ data \in Text
    /\ buffer = back \o data /\ more = text \o data
    /\ cut \in 0..Len(buffer) /\ ready = SubSeq(buffer, 1, cut)

(* What a chunk leaves to write and to keep back are parts of what was     *)
(* printed (logs.py, RedactedLog.write).                                   *)
LEMMA ReadIs ==
    ASSUME NEW text, NEW back, NEW data, NEW buffer, NEW more, NEW ready, NEW cut,
           Read(text, back, data, buffer, more, ready, cut),
           Len(back) <= Len(text), Part(back, text, Len(text) - Len(back))
    PROVE  /\ more \in Text /\ buffer \in Text /\ ready \in Text /\ Len(ready) = cut
           /\ Len(text) - Len(back) \in Nat /\ Len(text) \in Nat /\ Len(back) \in Nat
           /\ Len(more) = Len(text) + Len(data) /\ Len(buffer) = Len(back) + Len(data)
           /\ Len(data) \in Nat /\ cut \in Nat
           /\ Part(text, more, 0) /\ Part(buffer, more, Len(text) - Len(back))
           /\ Part(ready, buffer, 0) /\ Part(ready, more, Len(text) - Len(back))
<1>1. /\ Len(text) \in Nat /\ Len(back) \in Nat /\ Len(data) \in Nat
      /\ Len(text) - Len(back) \in Nat
  BY DEF Read, Text
<1>2. /\ more \in Text /\ Len(more) = Len(text) + Len(data)
      /\ \A j \in 1..Len(text) + Len(data) :
             more[j] = IF j <= Len(text) THEN text[j] ELSE data[j - Len(text)]
  BY ConcatProperties, Zenon DEF Read, Text
<1>3. /\ buffer \in Text /\ Len(buffer) = Len(back) + Len(data)
      /\ \A j \in 1..Len(back) + Len(data) :
             buffer[j] = IF j <= Len(back) THEN back[j] ELSE data[j - Len(back)]
  BY ConcatProperties, Zenon DEF Read, Text
<1>4. ready \in Text /\ Len(ready) = cut /\ \A j \in 1..cut : ready[j] = buffer[j]
  <2>1. buffer \in Seq(Characters \cup {Marker}) /\ cut \in 0..Len(buffer) /\ ready = SubSeq(buffer, 1, cut)
    BY <1>3 DEF Read, Text
  <2> QED BY <2>1 DEF Text
<1> DEFINE e == Len(text) - Len(back)
<1>5. Part(text, more, 0)
  BY <1>1, <1>2 DEF Part
<1>6. Part(buffer, more, e)
  <2>1. ASSUME NEW j \in 1..Len(buffer) PROVE buffer[j] = more[e + j]
    <3>1. CASE j <= Len(back)
      <4>1. j \in 1..Len(back) /\ e + j \in 1..Len(text) + Len(data) /\ e + j <= Len(text)
        BY <1>1, <3>1
      <4>2. back[j] = text[e + j]
        BY <4>1 DEF Part
      <4> QED BY <1>2, <1>3, <3>1, <4>1, <4>2
    <3>2. CASE ~(j <= Len(back))
      <4>1. e + j \in 1..Len(text) + Len(data) /\ ~(e + j <= Len(text)) /\ (e + j) - Len(text) = j - Len(back)
        BY <1>1, <1>3, <3>2
      <4> QED BY <1>2, <1>3, <3>2, <4>1
    <3> QED BY <3>1, <3>2
  <2> QED BY <1>1, <1>2, <1>3, <2>1 DEF Part
<1>7. cut \in Nat /\ cut <= Len(buffer)
  BY <1>1, <1>3 DEF Read
<1>8. Part(ready, buffer, 0)
  BY <1>3, <1>4, <1>7 DEF Part
<1>9. Part(ready, more, e)
  <2>1. e + Len(ready) <= Len(more)
    BY <1>1, <1>2, <1>3, <1>4, <1>7
  <2>2. \A j \in 1..Len(ready) : j \in 1..Len(buffer)
    BY <1>1, <1>3, <1>4, <1>7
  <2> QED BY <1>4, <1>6, <2>1, <2>2 DEF Part
<1> QED BY <1>1, <1>2, <1>3, <1>4, <1>5, <1>6, <1>7, <1>8, <1>9

(* A word over the seam of a log stands over the same place of the print.  *)
LEMMA OverTheSeam ==
    ASSUME Hidden, NEW text \in Text, NEW e \in 0..Len(text), NEW out \in Text,
           EndsAs(text, out, e), NEW more \in Text, Part(text, more, 0),
           NEW ready \in Text, Part(ready, more, e), NEW next, Hides(ready, next),
           NEW w \in Word, NEW i \in 1..Len(out), Occurs(w, out \o next, i),
           i + Len(w) - 1 > Len(out)
    PROVE  i + e - Len(out) \in 1..e /\ Occurs(w, more, i + e - Len(out))
<1> DEFINE all == out \o next
           l == Len(out)
           p == i + e - l
           m == Len(w)
<1>1. /\ Len(out) \in Nat /\ Len(next) \in Nat /\ Len(text) \in Nat /\ Len(more) \in Nat /\ Len(ready) \in Nat
      /\ Len(w) \in Nat /\ Len(w) > 0 /\ next \in Text /\ e \in Nat
  BY EmptySeq DEF Hides, Text, Word
<1>2. /\ all \in Text /\ Len(all) = l + Len(next)
      /\ \A j \in 1..l + Len(next) : all[j] = IF j <= l THEN out[j] ELSE next[j - l]
  BY <1>1, ConcatProperties, Zenon DEF Text
<1>3. i \in 1..Len(all)
  BY <1>1, <1>2
<1> HIDE DEF all
<1>4. i + m - 1 <= Len(all) /\ \A j \in 1..m : all[i + j - 1] = w[j] /\ w[j] # Marker
  <2>1. \A j \in 1..m : w[j] \in Characters
    BY DEF Word
  <2>2. Occurs(w, all, i)
    BY DEF all
  <2>3. i + m - 1 <= Len(all) /\ \A j \in 1..m : all[i + j - 1] = w[j]
    BY <1>2, <1>3, <2>2, OccursIs
  <2> QED BY <2>1, <2>3, LogAssumption
<1>5. \A j \in i..(i + m - 1) : all[j] # Marker
  <2> SUFFICES ASSUME NEW j \in i..(i + m - 1) PROVE all[j] # Marker
    OBVIOUS
  <2>1. j - i + 1 \in 1..m /\ i + (j - i + 1) - 1 = j
    BY <1>1
  <2> QED BY <1>4, <2>1
<1>6. \A j \in i..l : j + e - l >= 1 /\ out[j] = text[j + e - l]
  <2>1. ASSUME NEW j \in i..l PROVE out[j] # Marker
    <3>1. j \in i..(i + m - 1) /\ j \in 1..l + Len(next) /\ j <= l
      BY <1>1
    <3> QED BY <1>2, <1>5, <3>1
  <2> QED BY <2>1 DEF EndsAs
<1>7. p \in 1..e
  <2>1. i \in i..l
    BY <1>1
  <2>2. p >= 1
    BY <1>6, <2>1
  <2> QED BY <1>1, <2>2
<1>8. i + m - 1 - l \in 1..Len(next)
  BY <1>1, <1>2, <1>4
<1>9. \A j \in 1..(i + m - 1 - l) : j <= Len(ready) /\ next[j] = ready[j]
  <2>1. ASSUME NEW j \in 1..(i + m - 1 - l) PROVE next[j] # Marker
    <3>1. /\ l + j \in i..(i + m - 1) /\ l + j \in 1..l + Len(next)
          /\ ~(l + j <= l) /\ (l + j) - l = j
      BY <1>1, <1>8
    <3> QED BY <1>2, <1>5, <3>1
  <2> QED BY <1>8, <2>1 DEF Hides, Begins
<1>10. p + m - 1 <= Len(more)
  <2>1. i + m - 1 - l \in 1..(i + m - 1 - l)
    BY <1>8
  <2>2. i + m - 1 - l <= Len(ready)
    BY <1>9, <2>1
  <2>3. e + Len(ready) <= Len(more)
    BY DEF Part
  <2> QED BY <1>1, <2>2, <2>3
<1>11. ASSUME NEW j \in 1..m PROVE more[p + j - 1] = w[j]
  <2>1. all[i + j - 1] = w[j]
    BY <1>4
  <2>2. CASE i + j - 1 <= l
    <3> DEFINE k == i + j - 1
    <3>1. k \in i..l /\ k \in 1..l + Len(next) /\ k <= l /\ k + e - l = p + j - 1 /\ k + e - l <= Len(text)
      BY <1>1, <2>2
    <3> HIDE DEF k
    <3>2. all[k] = out[k] /\ out[k] = text[k + e - l] /\ k + e - l >= 1
      BY <1>2, <1>6, <3>1
    <3>3. text[k + e - l] = more[0 + (k + e - l)]
      <4>1. k + e - l \in 1..Len(text)
        BY <1>1, <3>1, <3>2
      <4> QED BY <4>1 DEF Part
    <3>4. 0 + (k + e - l) = p + j - 1
      BY <1>1, <3>1
    <3> QED BY <2>1, <3>2, <3>3, <3>4 DEF k
  <2>3. CASE ~(i + j - 1 <= l)
    <3> DEFINE k == i + j - 1 - l
    <3>1. /\ k \in 1..(i + m - 1 - l) /\ i + j - 1 \in 1..l + Len(next) /\ e + k = p + j - 1
          /\ (i + j - 1) - l = k /\ k \in Nat /\ k >= 1
      BY <1>1, <1>8, <2>3
    <3> HIDE DEF k
    <3>2. all[i + j - 1] = next[k]
      BY <1>2, <2>3, <3>1
    <3>3. next[k] = ready[k] /\ k <= Len(ready)
      BY <1>9, <3>1
    <3>4. ready[k] = more[e + k]
      BY <1>1, <3>1, <3>3 DEF Part
    <3> QED BY <2>1, <3>1, <3>2, <3>3, <3>4
  <2> QED BY <2>2, <2>3
<1>12. p \in 1..Len(more)
  BY <1>1, <1>7 DEF Part
<1> QED BY <1>7, <1>10, <1>11, <1>12, OccursIs

(* What the log says after one more chunk discloses no secret.             *)
LEMMA StepHides ==
    ASSUME Hidden, NEW text, NEW back, NEW data, NEW buffer, NEW more, NEW ready, NEW cut,
           NEW out \in Text,
           Read(text, back, data, buffer, more, ready, cut), Along(text, back, out),
           Apart(text) => ~Discloses(out), Apart(more)
    PROVE  Apart(text) /\ ~Discloses(out \o Redacted(ready))
<1> DEFINE e == Len(text) - Len(back)
           next == Redacted(ready)
           l == Len(out)
<1>1. /\ more \in Text /\ buffer \in Text /\ ready \in Text /\ text \in Text
      /\ e \in Nat /\ e \in 0..Len(text)
      /\ Part(text, more, 0) /\ Part(ready, more, e)
  <2>1. Len(back) <= Len(text) /\ Part(back, text, Len(text) - Len(back))
    BY DEF Along
  <2>2. /\ more \in Text /\ buffer \in Text /\ ready \in Text
        /\ Len(text) - Len(back) \in Nat /\ Len(text) \in Nat /\ Len(back) \in Nat
        /\ Part(text, more, 0) /\ Part(ready, more, Len(text) - Len(back))
    BY <2>1, ReadIs
  <2>3. text \in Text
    BY DEF Read
  <2> QED BY <2>2, <2>3
<1>2. Apart(text)
  BY <1>1, ApartInPart
<1>3. ~Discloses(out) /\ Settled(text, e)
  BY <1>2 DEF Along
<1>4. Hides(ready, next) /\ \A x \in 1..Len(secrets) : ~Holds(next, secrets[x])
  BY <1>1, RedactedHides
<1>5. EndsAs(text, out, e)
  BY DEF Along
<1> HIDE DEF e, next
<1>6. next \in Text /\ Len(next) \in Nat /\ l \in Nat
  BY <1>4 DEF Hides, Text
<1> DEFINE all == out \o next
<1>7. /\ all \in Text /\ Len(all) = l + Len(next) /\ DOMAIN all = 1..Len(all)
      /\ \A j \in 1..l + Len(next) : all[j] = IF j <= l THEN out[j] ELSE next[j - l]
  <2>1. /\ all \in Text /\ Len(all) = l + Len(next)
        /\ \A j \in 1..l + Len(next) : all[j] = IF j <= l THEN out[j] ELSE next[j - l]
    BY <1>6, ConcatProperties, Zenon DEF Text
  <2> HIDE DEF all
  <2> QED BY <2>1 DEF Text
<1>8. ASSUME NEW x \in 1..Len(secrets), Holds(all, secrets[x]) PROVE FALSE
  <2> DEFINE w == secrets[x]
             m == Len(w)
  <2>1. w \in Word /\ m \in Nat /\ m > 0
    BY EmptySeq DEF Hidden, Word
  <2>2. PICK i \in 1..Len(all) : Occurs(w, all, i)
    BY <1>7, <1>8 DEF Holds
  <2>3. i + m - 1 <= Len(all)
    BY <2>2 DEF Occurs
  <2> HIDE DEF w
  <2>4. CASE i + m - 1 <= l
    <3> HIDE DEF all
    <3>1. Part(out, all, 0)
      BY <1>6, <1>7 DEF Part
    <3>2. i \in 1..Len(out) /\ 0 + i = i
      BY <1>6, <1>7, <2>1, <2>4
    <3>3. Occurs(w, out, i)
      BY <1>7, <2>1, <2>2, <2>4, <3>1, <3>2, OccursInPart
    <3>4. Holds(out, w)
      BY <3>2, <3>3 DEF Holds, Text
    <3> QED BY <1>3, <3>4 DEF Discloses, w
  <2>5. CASE i > l
    <3> HIDE DEF all
    <3>1. Part(next, all, l)
      <4>1. \A j \in 1..Len(next) : l + j \in 1..l + Len(next) /\ ~(l + j <= l) /\ (l + j) - l = j
        BY <1>6
      <4> QED BY <1>6, <1>7, <4>1 DEF Part
    <3>2. i - l \in 1..Len(next) /\ l + (i - l) = i /\ (i - l) + m - 1 <= Len(next)
      BY <1>6, <1>7, <2>1, <2>3, <2>5
    <3>3. Occurs(w, next, i - l)
      <4> DEFINE k == i - l
      <4>1. k \in 1..Len(next) /\ l + k = i /\ k + m - 1 <= Len(next)
        BY <3>2
      <4> HIDE DEF k
      <4>2. Occurs(w, next, k)
        BY <1>6, <1>7, <2>1, <2>2, <3>1, <4>1, OccursInPart
      <4> QED BY <4>2 DEF k
    <3>4. Holds(next, w)
      BY <1>6, <3>2, <3>3 DEF Holds, Text
    <3> QED BY <1>4, <3>4 DEF w
  <2>6. CASE i <= l /\ i + m - 1 > l
    <3> DEFINE p == i + e - l
    <3>1. i \in 1..Len(out)
      BY <1>6, <1>7, <2>6
    <3>2. p \in 1..e /\ Occurs(w, more, p)
      BY <1>1, <1>4, <1>5, <2>1, <2>2, <2>6, <3>1, OverTheSeam
    <3>3. p + m - 1 > e
      BY <1>1, <1>6, <2>1, <2>6
    <3> HIDE DEF p
    <3>4. p + m - 1 <= Len(text) /\ ~Occurs(w, text, p)
      BY <1>3, <3>2, <3>3 DEF Settled, w
    <3>5. p \in 1..Len(text) /\ 0 + p = p
      BY <1>1, <3>2
    <3>6. Occurs(w, text, p)
      BY <1>1, <2>1, <3>2, <3>4, <3>5, OccursInPart
    <3> QED BY <3>4, <3>6
  <2>7. i <= l \/ i > l
    BY <1>6, <1>7
  <2>8. i + m - 1 <= l \/ i + m - 1 > l
    BY <1>6, <1>7, <2>1
  <2> QED BY <2>4, <2>5, <2>6, <2>7, <2>8
<1> HIDE DEF all
<1>9. ~Discloses(all)
  BY <1>8 DEF Discloses
<1> QED BY <1>2, <1>9 DEF all, next

(* The end of what the log says after one more chunk ends what it is about.*)
LEMMA StepEnds ==
    ASSUME Hidden, NEW text, NEW back, NEW data, NEW buffer, NEW more, NEW ready, NEW cut,
           NEW out \in Text,
           Read(text, back, data, buffer, more, ready, cut), Along(text, back, out)
    PROVE  EndsAs(more, out \o Redacted(ready), Len(text) - Len(back) + cut)
<1> DEFINE e == Len(text) - Len(back)
           next == Redacted(ready)
           l == Len(out)
           r == Len(next)
           all == out \o next
<1>0. Len(back) <= Len(text) /\ Part(back, text, Len(text) - Len(back)) /\ EndsAs(text, out, e)
  BY DEF Along
<1>1. /\ more \in Text /\ ready \in Text /\ Len(ready) = cut
      /\ e \in Nat /\ Len(text) \in Nat /\ Len(back) \in Nat /\ cut \in Nat
      /\ Part(text, more, 0) /\ Part(ready, more, e)
  <2>1. /\ more \in Text /\ ready \in Text /\ Len(ready) = cut
        /\ Len(text) - Len(back) \in Nat /\ Len(text) \in Nat /\ Len(back) \in Nat /\ cut \in Nat
        /\ Part(text, more, 0) /\ Part(ready, more, Len(text) - Len(back))
    BY <1>0, ReadIs
  <2> QED BY <2>1
<1>1a. e \in 0..Len(text)
  BY <1>1
<1>4. Hides(ready, next)
  BY <1>1, RedactedHides
<1> HIDE DEF e, next
<1>6. next \in Text /\ r \in Nat /\ l \in Nat
  BY <1>4 DEF Hides, Text
<1>7. /\ Len(all) = l + r
      /\ \A j \in 1..l + r : all[j] = IF j <= l THEN out[j] ELSE next[j - l]
  BY <1>6, ConcatProperties, Zenon DEF Text
<1>8. EndsAs(ready, next, cut) /\ Begins(ready, next, cut)
  BY <1>1, <1>4 DEF Hides
<1> HIDE DEF all, l, r
<1>9. ASSUME NEW i \in 1..Len(all), \A j \in i..Len(all) : all[j] # Marker, NEW j \in i..Len(all)
      PROVE  /\ j + (e + cut) - Len(all) >= 1
             /\ all[j] = more[j + (e + cut) - Len(all)]
  <2>1. \A k \in i..l + r : k \in 1..l + r /\ all[k] # Marker
    BY <1>6, <1>7, <1>9
  <2>2. CASE j > l
    <3> DEFINE h == IF i > l THEN i - l ELSE 1
               k == j - l
    <3>1. h \in 1..r /\ k \in h..r /\ h \in Nat /\ r \in Nat /\ k \in Nat
      BY <1>6, <1>7, <2>2
    <3>2. ASSUME NEW x \in h..r PROVE next[x] # Marker
      <4>1. l + x \in i..l + r /\ ~(l + x <= l) /\ (l + x) - l = x
        BY <1>6, <1>7
      <4> QED BY <1>7, <2>1, <4>1
    <3> HIDE DEF h, k
    <3>3. k + cut - Len(next) >= 1 /\ next[k] = ready[k + cut - Len(next)]
      BY <1>8, <3>1, <3>2 DEF EndsAs, r
    <3> DEFINE y == k + cut - r
    <3>4. y \in 1..Len(ready)
      BY <1>1, <3>1, <3>3 DEF r
    <3>5. ready[y] = more[e + y]
      <4> HIDE DEF y
      <4> QED BY <1>1, <3>4 DEF Part
    <3>6. e + y = j + (e + cut) - Len(all) /\ y >= 1
      BY <1>1, <1>6, <1>7, <3>4 DEF k
    <3>7. all[j] = next[k]
      <4>1. j \in 1..l + r /\ ~(j <= l)
        BY <1>6, <1>7, <2>2
      <4> QED BY <1>7, <4>1 DEF k
    <3>8. next[k] = ready[y]
      BY <3>3 DEF r
    <3>9. j + (e + cut) - Len(all) >= 1
      <4> HIDE DEF y
      <4>1. e + y >= 1
        BY <1>1, <3>6, <3>4
      <4> QED BY <3>6, <4>1
    <3> HIDE DEF y
    <3> QED BY <3>5, <3>6, <3>7, <3>8, <3>9
  <2>3. CASE j <= l
    <3>1. i \in 1..l /\ j \in i..l
      BY <1>6, <1>7, <2>3
    <3>2. ASSUME NEW x \in 1..r PROVE next[x] # Marker
      <4>1. l + x \in i..l + r /\ ~(l + x <= l) /\ (l + x) - l = x
        BY <1>6, <1>7, <3>1
      <4> QED BY <1>7, <2>1, <4>1
    <3>3. r = cut
      BY <1>8, <3>2 DEF Begins, r
    <3>4. ASSUME NEW x \in i..l PROVE out[x] # Marker
      <4>1. x \in i..l + r /\ x <= l
        BY <1>6, <3>1
      <4> QED BY <1>7, <2>1, <4>1
    <3>5. j + e - l >= 1 /\ out[j] = text[j + e - l]
      BY <1>0, <3>1, <3>4 DEF EndsAs, l
    <3> DEFINE y == j + e - l
    <3>6. y \in 1..Len(text)
      BY <1>1a, <1>6, <3>1, <3>5
    <3>7. text[y] = more[0 + y] /\ 0 + y = y
      BY <1>1, <3>6 DEF Part
    <3>8. y = j + (e + cut) - Len(all)
      BY <1>1, <1>6, <1>7, <3>3
    <3>9. all[j] = out[j]
      <4>1. j \in 1..l + r
        BY <1>6, <3>1
      <4> QED BY <1>7, <2>3, <4>1
    <3>10. out[j] = text[y] /\ y >= 1
      BY <3>5
    <3> HIDE DEF y
    <3> QED BY <3>7, <3>8, <3>9, <3>10
  <2> QED BY <1>6, <1>7, <2>2, <2>3
<1>10. EndsAs(more, all, e + cut)
  BY <1>9 DEF EndsAs
<1> QED BY <1>10 DEF all, e, next

(* Where the log is cut, no secret goes over the cut, whatever else is     *)
(* printed.                                                                *)
LEMMA StepSettles ==
    ASSUME Hidden, LongestFirst, NEW text, NEW back, NEW data, NEW buffer, NEW more, NEW ready,
           NEW out \in Text,
           Read(text, back, data, buffer, more, ready, Cut(buffer, FALSE)),
           Along(text, back, out), Apart(more)
    PROVE  Settled(more, Len(text) - Len(back) + Cut(buffer, FALSE))
<1> DEFINE e == Len(text) - Len(back)
           cut == Cut(buffer, FALSE)
<1>0. Len(back) <= Len(text) /\ Part(back, text, Len(text) - Len(back))
  BY DEF Along
<1>1. /\ more \in Text /\ buffer \in Text /\ text \in Text
      /\ e \in Nat /\ Len(text) \in Nat /\ cut \in Nat /\ Len(buffer) \in Nat
      /\ Len(more) \in Nat /\ Len(text) <= Len(more) /\ Len(more) = e + Len(buffer)
      /\ Part(text, more, 0) /\ Part(buffer, more, e)
  <2>1. /\ more \in Text /\ buffer \in Text
        /\ Len(text) - Len(back) \in Nat /\ Len(text) \in Nat /\ Len(back) \in Nat
        /\ Len(more) = Len(text) + Len(data) /\ Len(buffer) = Len(back) + Len(data)
        /\ Len(data) \in Nat
        /\ Part(text, more, 0) /\ Part(buffer, more, Len(text) - Len(back))
    <3>1. Read(text, back, data, buffer, more, ready, cut)
      OBVIOUS
    <3> HIDE DEF cut
    <3> QED BY <1>0, <3>1, ReadIs, SMTT(20)
  <2>2. text \in Text /\ cut \in 0..Len(buffer)
    BY DEF Read
  <2> HIDE DEF cut
  <2> QED BY <2>1, <2>2
<1>2. Apart(text) /\ Apart(buffer)
  BY <1>1, ApartInPart
<1>3. Settled(text, e)
  BY <1>2 DEF Along
<1>4. Keep \in Nat /\ \A x \in 1..Len(secrets) : Len(secrets[x]) - 1 <= Keep
  BY KeepIs
<1>5. cut > 0 => cut + Keep <= Len(buffer)
  <2>1. cut \in 0..FirstCut(buffer, FALSE)
    BY <1>1, CutIs
  <2>2. FirstCut(buffer, FALSE) = IF Len(buffer) >= Keep THEN Len(buffer) - Keep ELSE 0
    BY <1>1, FirstCutIs
  <2> DEFINE f == FirstCut(buffer, FALSE)
  <2>3. cut \in 0..f /\ f = IF Len(buffer) >= Keep THEN Len(buffer) - Keep ELSE 0
    BY <2>1, <2>2
  <2> HIDE DEF cut, f
  <2> QED BY ONLY <1>1, <1>4, <2>3
<1>6. \A y \in 1..Len(secrets), j \in 1..Len(buffer) : ~Crosses(buffer, secrets[y], j, cut)
  BY <1>1, <1>2, CutIs
<1> HIDE DEF e, cut
<1>7. ASSUME NEW x \in 1..Len(secrets), NEW i \in 1..e + cut, i + Len(secrets[x]) - 1 > e + cut
      PROVE  i + Len(secrets[x]) - 1 <= Len(more) /\ ~Occurs(secrets[x], more, i)
  <2> DEFINE w == secrets[x]
             m == Len(w)
  <2>1. w \in Word /\ m \in Nat /\ m > 0 /\ m - 1 <= Keep
    BY <1>4, EmptySeq DEF Hidden, Word
  <2>2. i + m - 1 > e + cut
    BY <1>7
  <2> HIDE DEF w
  <2>3. CASE i <= e
    <3>1. i \in 1..e /\ i + m - 1 > e
      BY <1>1, <2>1, <2>2, <2>3
    <3>2. i + m - 1 <= Len(text) /\ ~Occurs(w, text, i)
      BY <1>3, <3>1 DEF Settled, w
    <3>3. i \in 1..Len(text) /\ 0 + i = i
      BY <1>1, <2>1, <3>2
    <3>4. ~Occurs(w, more, i)
      BY <1>1, <2>1, <3>2, <3>3, OccursInPart
    <3> QED BY <1>1, <2>1, <3>2, <3>4 DEF w
  <2>4. CASE ~(i <= e)
    <3> DEFINE k == i - e
    <3>1. k \in 1..cut /\ e + k = i /\ cut > 0
      BY <1>1, <2>4
    <3>2. k + m - 1 <= Len(buffer) /\ k \in 1..Len(buffer) /\ k - 1 < cut /\ cut < k - 1 + m
      BY <1>1, <1>4, <1>5, <2>1, <2>2, <3>1
    <3> HIDE DEF k
    <3>3. ~Occurs(w, buffer, k)
      BY <1>6, <3>2 DEF Crosses, w
    <3>4. ~Occurs(w, more, i)
      BY <1>1, <2>1, <3>1, <3>2, <3>3, OccursInPart
    <3>5. i + m - 1 <= Len(more)
      BY <1>1, <2>1, <3>1, <3>2
    <3> QED BY <3>4, <3>5 DEF w
  <2> QED BY <2>3, <2>4
<1>8. Settled(more, e + cut)
  BY <1>7 DEF Settled
<1> QED BY <1>8 DEF e, cut

(* The log goes on along what is printed (RedactedLog.write).              *)
LEMMA StepGoesAlong ==
    ASSUME Hidden, LongestFirst, NEW text, NEW back, NEW data, NEW buffer, NEW more, NEW ready,
           NEW out \in Text,
           Read(text, back, data, buffer, more, ready, Cut(buffer, FALSE)), Along(text, back, out)
    PROVE  Along(more, SubSeq(buffer, Len(ready) + 1, Len(buffer)), out \o Redacted(ready))
<1> DEFINE e == Len(text) - Len(back)
           cut == Cut(buffer, FALSE)
           rest == SubSeq(buffer, Len(ready) + 1, Len(buffer))
<1>0. Len(back) <= Len(text) /\ Part(back, text, Len(text) - Len(back))
  BY DEF Along
<1>1. /\ more \in Text /\ buffer \in Text /\ Len(ready) = cut
      /\ e \in Nat /\ cut \in 0..Len(buffer) /\ Len(buffer) \in Nat
      /\ Len(more) = e + Len(buffer) /\ Part(buffer, more, e)
  <2>1. /\ more \in Text /\ buffer \in Text /\ Len(ready) = cut
        /\ Len(text) - Len(back) \in Nat /\ Len(text) \in Nat /\ Len(back) \in Nat
        /\ Len(more) = Len(text) + Len(data) /\ Len(buffer) = Len(back) + Len(data)
        /\ Len(data) \in Nat
        /\ Part(buffer, more, Len(text) - Len(back))
    <3>1. Read(text, back, data, buffer, more, ready, cut)
      OBVIOUS
    <3> HIDE DEF cut
    <3> QED BY <1>0, <3>1, ReadIs, SMTT(20)
  <2>2. cut \in 0..Len(buffer)
    BY DEF Read
  <2> HIDE DEF cut
  <2> QED BY <2>1, <2>2
<1>2. EndsAs(more, out \o Redacted(ready), e + cut)
  BY StepEnds
<1>3. Apart(more) => Settled(more, e + cut)
  BY StepSettles
<1> HIDE DEF e, cut
<1>4. /\ rest \in Text /\ Len(rest) = Len(buffer) - cut
      /\ \A j \in 1..Len(rest) : rest[j] = buffer[cut + j]
  BY <1>1 DEF Text
<1> HIDE DEF rest
<1>5. Len(rest) \in Nat /\ Len(rest) <= Len(more) /\ Len(more) - Len(rest) = e + cut
  BY <1>1, <1>4
<1>6. Part(rest, more, e + cut)
  <2>1. ASSUME NEW j \in 1..Len(rest) PROVE rest[j] = more[(e + cut) + j]
    <3>1. cut + j \in 1..Len(buffer) /\ e + (cut + j) = (e + cut) + j
      BY <1>1, <1>4
    <3>2. buffer[cut + j] = more[e + (cut + j)]
      BY <1>1, <3>1 DEF Part
    <3> QED BY <1>4, <3>1, <3>2
  <2>2. (e + cut) + Len(rest) <= Len(more)
    BY <1>1, <1>4
  <2> QED BY <2>1, <2>2 DEF Part
<1>7. Along(more, rest, out \o Redacted(ready))
  BY <1>2, <1>3, <1>5, <1>6 DEF Along
<1> QED BY <1>7 DEF rest

-----------------------------------------------------------------------------
(* The run: how it stands at each stage.                                   *)

\* a run that has begun, and what it was admitted with
Begun == run \in {Started("unknown"), Started("none")}
Admitted == admission \in Standing /\ Admits(request, admission)
IsReplay == program.kind = "replay"

\* the bundle, which never changes
Fixed ==
    /\ program.required \in Seq(CheckNames) /\ Injective(program.required)
    /\ IsReplay => program.required = Shipped("replay")
    /\ program.leaves \in DOMAIN Leavings

\* what the process left
Left ==
    /\ Judgeable(raw.evidence)
    /\ IsReplay => raw.evidence = ReplayEvidence /\ raw.exit = 0

\* a completed run is earned by its evidence
EarnedRun ==
    /\ request.validation \/ admission.granted
    /\ request.environment \in admission.environments /\ admission.facts = Facts
    /\ raw.evidence.mine
    /\ run.outcome = "pass" =>
          /\ raw.exit = 0 /\ run.effects \in {"none", "completed"}
          /\ Range(program.required) \subseteq NamesWith("pass")
          /\ NamesWith("fail") = {}
    /\ run.outcome = "fail" => NamesWith("fail") # {}

\* what a run that is over amounts to
Ended ==
    /\ run.error # "EXECUTION_ERROR"
    /\ Consistent(run) /\ run.effects \in Effects /\ run.state # "running"
    /\ admission = None => run.effects = "none" /\ run.state = "error"
    /\ run.state = "completed" => EarnedRun
    /\ IsReplay /\ raw # None => run.state = "completed" /\ run.outcome = OutcomeOf(rep.finding)

\* the invariant of a run under its worker
WorkInv ==
    /\ Fixed /\ standing \in Standing
    /\ stage \in {"submitted", "running", "exited", "done"}
    /\ stage # "done" => Begun
    /\ stage \in {"submitted", "running"} => raw = None
    /\ stage \in {"running", "exited"} => Admitted
    /\ stage = "exited" => Left
    /\ stage = "done" => Ended

(* A run that has begun and fails (supervisor.py, _execute's branches).    *)
LEMMA FailedIs ==
    ASSUME Begun, NEW error, NEW launched \in BOOLEAN
    PROVE  /\ Failed(run, error, launched).error = error
           /\ Failed(run, error, launched).state \in {"cancelled", "error"}
           /\ error # "CANCELLED" => Failed(run, error, launched).state = "error"
           /\ ~launched => Failed(run, error, launched).effects = "none"
           /\ Failed(run, error, launched).effects \in Effects
           /\ error # None => Consistent(Failed(run, error, launched))
<1> DEFINE r == Failed(run, error, launched)
<1>1. /\ r.error = error /\ r.state = IF error = "CANCELLED" THEN "cancelled" ELSE "error"
      /\ r.outcome = "inconclusive" /\ r.effects \in {"none", "unknown"}
      /\ ~launched => r.effects = "none"
  BY DEF Begun, Started, Failed
<1> HIDE DEF r
<1>2. error # None => Consistent(r)
  BY <1>1 DEF Consistent
<1> QED BY <1>1, <1>2 DEF r, Effects

(* Every refusal is an error of a run, and none of them is no error.       *)
LEMMA RefusalsAreErrors ==
    PolicyRefusals \cup Refusals \subseteq RunErrors /\ None \notin RunErrors
BY WorkflowAssumption DEF PolicyRefusals, Refusals, RunErrors

(* The evidence of task-reproduce is always accepted (entrypoint.py).      *)
LEMMA ReplayIsAccepted ==
    /\ Verdict(ReplayEvidence, Shipped("replay"), 0) = "accepted"
    /\ ReplayEvidence.outcome = OutcomeOf(rep.finding)
    /\ Judgeable(ReplayEvidence)
<1> DEFINE name == "target_failure_absent_in_bounded_replay"
           outcome == OutcomeOf(rep.finding)
           e == ReplayEvidence
           required == Shipped("replay")
<1>1. outcome \in {"pass", "fail", "inconclusive"}
  BY DEF OutcomeOf
<1> HIDE DEF outcome
<1>2. /\ e.mine = TRUE /\ e.fits = TRUE /\ e.outcome = outcome /\ e.effects = "none"
      /\ e.checks = << [name |-> name, status |-> IF outcome = "inconclusive" THEN "skip" ELSE outcome] >>
  BY DEF ReplayEvidence, outcome
<1>3. required = <<name>>
  BY DEF Shipped
<1> HIDE DEF e, required
<1>4. /\ DOMAIN e.checks = {1} /\ e.checks[1].name = name
      /\ e.checks[1].status = IF outcome = "inconclusive" THEN "skip" ELSE outcome
  BY <1>2
<1>5. Injective(Names(e.checks))
  BY <1>4 DEF Injective, Names
<1>6. WithStatus(e.checks, "fail") = IF outcome = "fail" THEN {1} ELSE {}
  BY <1>1, <1>4 DEF WithStatus
<1>7. outcome = "pass" => ProvenPass(e, required, 0)
  <2> SUFFICES ASSUME outcome = "pass" PROVE ProvenPass(e, required, 0)
    OBVIOUS
  <2>1. 1 \in WithStatus(e.checks, "pass")
    BY <1>4 DEF WithStatus
  <2>2. DOMAIN required = {1} /\ required[1] = name
    BY <1>3
  <2>3. \A i \in DOMAIN required : Proves(e.checks, required[i])
    BY <1>4, <2>1, <2>2 DEF Proves
  <2> QED BY <1>2, <1>6, <2>3 DEF ProvenPass
<1>8. outcome = "fail" => ProvenFailure(e)
  BY <1>6 DEF ProvenFailure
<1>9. Verdict(e, required, 0) = "accepted"
  BY <1>2, <1>5, <1>7, <1>8 DEF Verdict
<1>10. Judgeable(e)
  <2>1. DOMAIN e.checks = 1..1
    BY <1>4
  <2> QED BY <1>2, <2>1 DEF Judgeable, Effects
<1> QED BY <1>2, <1>9, <1>10 DEF e, required, outcome

(* So is the list of deploy-monitor's, whatever it says (entrypoint.py).   *)
LEMMA MonitorIsJudgeable == Judgeable(MonitorEvidence)
<1> DEFINE one == [name |-> "deployment_window",
                   status |-> IF mon.outcome = "inconclusive" THEN "skip" ELSE mon.outcome]
<1>1. MonitorEvidence.checks = <<one>>
  BY DEF MonitorEvidence
<1> HIDE DEF one
<1>2. DOMAIN MonitorEvidence.checks = 1..1
  BY <1>1
<1>3. MonitorEvidence.effects \in Effects
  BY DEF MonitorEvidence, Effects
<1> QED BY <1>2, <1>3 DEF Judgeable

(* What any program leaves is a list of checks and some effects.           *)
LEMMA LeavingsAreJudgeable ==
    ASSUME NEW l \in DOMAIN Leavings, NEW r \in Leavings[l]
    PROVE  Judgeable(r.evidence)
<1>1. r.evidence \in EvidenceType
  BY WorkflowAssumption
<1>2. r.evidence.checks \in Seq(Check) /\ r.evidence.effects \in Effects
  BY <1>1 DEF EvidenceType
<1>3. DOMAIN r.evidence.checks = 1..Len(r.evidence.checks) /\ Len(r.evidence.checks) \in Nat
  BY <1>2
<1> QED BY <1>2, <1>3 DEF Judgeable

(* A submitted run has begun and nothing is left of it.                    *)
LEMMA WorkInitInv == WorkflowInit => WorkInv /\ ReplayInv
<1> SUFFICES ASSUME WorkflowInit PROVE WorkInv /\ ReplayInv
  OBVIOUS
<1>1. PICK s \in Scenarios :
        /\ program = s.program /\ standing = s.standing
        /\ Requirable(program.required) /\ ReplayInit
        /\ stage = "submitted" /\ raw = None
        /\ run = Started(IF program.declares THEN "unknown" ELSE "none")
  BY DEF WorkflowInit
<1>2. /\ s.program \in Program /\ s.standing \in Standing
      /\ s.program.kind # "any" => s.program.required = Shipped(s.program.kind)
  BY WorkflowAssumption
<1>3. Fixed
  BY <1>1, <1>2 DEF Fixed, IsReplay, Requirable, Program
<1>4. Begun
  BY <1>1 DEF Begun
<1>5. WorkInv
  BY <1>1, <1>2, <1>3, <1>4 DEF WorkInv
<1>6. ReplayInv
  BY <1>1, ReplayInitInv DEF ReplayInit
<1> QED BY <1>5, <1>6

(* The bundle and the finding stay as they are, but for a replay's steps.  *)
Kept == UNCHANGED <<program, request>> /\ UNCHANGED replayVars

(* An end without a record (supervisor.py, the error branches).            *)
LEMMA FailureEnds ==
    ASSUME WorkInv, stage # "done", Kept, UNCHANGED standing, raw' = None,
           NEW error, NEW launched \in BOOLEAN, run' = Failed(run, error, launched), stage' = "done",
           error \in RunErrors, error # "EXECUTION_ERROR", launched => admission' # None,
           ~launched => error # "CANCELLED"
    PROVE  WorkInv'
<1>1. Begun
  BY DEF WorkInv
<1>2. /\ run'.error = error /\ run'.state \in {"cancelled", "error"}
      /\ error # "CANCELLED" => run'.state = "error"
      /\ ~launched => run'.effects = "none"
      /\ Consistent(run') /\ run'.effects \in Effects
  BY <1>1, FailedIs, RefusalsAreErrors
<1>3. Ended'
  BY <1>2 DEF Ended
<1>4. Fixed'
  BY DEF WorkInv, Fixed, Kept, IsReplay
<1> QED BY <1>3, <1>4 DEF WorkInv

(* The worker starts the workflow or refuses it (supervisor.py, _execute). *)
LEMMA StartsKeeps == WorkInv /\ Starts => WorkInv'
<1> SUFFICES ASSUME WorkInv, Starts PROVE WorkInv'
  OBVIOUS
<1>1. Kept /\ UNCHANGED <<standing, raw>> /\ raw = None /\ stage = "submitted" /\ Begun /\ Fixed
      /\ standing \in Standing
  BY DEF Starts, Same, NoScenario, Kept, WorkInv
<1>2. CASE Allowed(request, standing)
  <2>1. stage' = "running" /\ admission' = standing /\ run' = run
    BY <1>2 DEF Starts
  <2>2. Admits(request, standing)
    BY <1>2, RefusalIsNamed
  <2>3. Admitted'
    BY <1>1, <2>1, <2>2 DEF Admitted, Admits, Kept
  <2>4. Fixed' /\ Begun'
    BY <1>1, <2>1 DEF Fixed, Kept, IsReplay, Begun
  <2> QED BY <1>1, <2>1, <2>3, <2>4 DEF WorkInv
<1>3. CASE ~Allowed(request, standing)
  <2> DEFINE error == Refusal(request, standing)
  <2>1. stage' = "done" /\ run' = Failed(run, error, FALSE)
    BY <1>3 DEF Starts, Ends
  <2>2. error \in PolicyRefusals
    BY <1>3, RefusalIsNamed DEF Allowed
  <2> HIDE DEF error
  <2>3. error \notin {"CANCELLED", "EXECUTION_ERROR"} /\ error \in RunErrors
    BY <2>2, NamesApart, RefusalsAreErrors
  <2> QED BY <1>1, <2>1, <2>3, FailureEnds
<1> QED BY <1>2, <1>3

(* While the workflow runs: what it prints, its steps, a stop (observer,   *)
(* supervisor.py).                                                         *)
LEMMA RunningGoesOn ==
    ASSUME WorkInv, stage \in {"running", "submitted"},
           UNCHANGED <<program, request, stage, run, admission, raw>>, standing' \in Standing
    PROVE  WorkInv'
BY DEF WorkInv, Fixed, IsReplay, Begun, Admitted, Admits

(* A chunk is logged, or ends the run (observer.output).                   *)
LEMMA OutputKeeps ==
    ASSUME WorkInv, NEW stream, NEW data, NEW final, Output(stream, data, final)
    PROVE  WorkInv'
<1>1. /\ Kept /\ UNCHANGED <<standing, raw, admission>> /\ raw = None /\ stage = "running"
      /\ Admitted /\ standing \in Standing
  BY DEF Output, Same, NoScenario, Kept, WorkInv
<1>2. CASE stage' = "done" /\ run' = Failed(run, "OUTPUT_LIMIT", TRUE)
  <2>1. admission' # None /\ "OUTPUT_LIMIT" \in RunErrors
    BY <1>1, WorkflowAssumption DEF Admitted, RunErrors
  <2> QED BY <1>1, <1>2, <2>1, FailureEnds
<1>3. CASE UNCHANGED <<stage, run>>
  BY <1>1, <1>3, RunningGoesOn DEF Kept
<1> QED BY <1>2, <1>3 DEF Output, Ends

(* A stop, or an end without evidence (supervisor.py, _execute).           *)
LEMMA StopsKeeps == WorkInv /\ Stops => WorkInv'
<1> SUFFICES ASSUME WorkInv, Stops PROVE WorkInv'
  OBVIOUS
<1>1. /\ Kept /\ UNCHANGED <<standing, raw, admission>> /\ raw = None /\ stage = "running" /\ Admitted
  BY DEF Stops, Same, NoScenario, Kept, WorkInv
<1>2. PICK error \in {"CANCELLED", "MISSING_EVIDENCE"} :
        stage' = "done" /\ run' = Failed(run, error, TRUE)
  BY DEF Stops, Ends
<1>3. admission' # None /\ error \in RunErrors
  BY <1>1, WorkflowAssumption DEF Admitted, RunErrors
<1> QED BY <1>1, <1>2, <1>3, FailureEnds

(* The process leaves its evidence (raw-result.json).                      *)
LEMMA LeavesKeeps ==
    ASSUME WorkInv, NEW e, NEW text, NEW exit, Leaves(e, text, exit), UNCHANGED <<standing, rep>>,
           Judgeable(e), IsReplay => e = ReplayEvidence /\ exit = 0
    PROVE  WorkInv'
<1>1. /\ UNCHANGED <<program, request, run, admission>> /\ stage = "running" /\ stage' = "exited"
      /\ raw' = [evidence |-> e, text |-> text, exit |-> exit]
  BY DEF Leaves, Same
<1>2. raw'.evidence = e /\ raw'.exit = exit
  BY <1>1
<1>3. Left'
  BY <1>1, <1>2 DEF Left, IsReplay, ReplayEvidence
<1>4. Fixed' /\ Begun' /\ Admitted' /\ standing' \in Standing
  BY <1>1 DEF WorkInv, Fixed, IsReplay, Begun, Admitted, Admits
<1> QED BY <1>1, <1>3, <1>4 DEF WorkInv

(* The worker judges the evidence (verification.py; domain.py, finish).    *)
LEMMA JudgesKeeps == WorkInv /\ Judges => WorkInv'
<1> SUFFICES ASSUME WorkInv, Judges PROVE WorkInv'
  OBVIOUS
<1> DEFINE e == raw.evidence
           required == program.required
           verdict == Verdict(e, required, raw.exit)
<1>1. /\ Kept /\ UNCHANGED <<standing, raw, admission>> /\ stage = "exited" /\ stage' = "done"
      /\ run' = Finished(run, e, required, raw.exit)
      /\ Admitted /\ Left /\ Fixed /\ Begun /\ standing \in Standing
  BY DEF Judges, Ends, Same, NoScenario, Kept, WorkInv
<1>2. Judgeable(e) /\ required \in Seq(CheckNames) /\ Injective(required)
  BY <1>1 DEF Left, Fixed
<1>3. admission # None
  BY <1>1, WorkflowAssumption DEF Admitted
<1>4. IsReplay => verdict = "accepted" /\ e.outcome = OutcomeOf(rep.finding)
  BY <1>1, ReplayIsAccepted DEF Left, Fixed
<1>5. CASE verdict = "accepted"
  <2>1. /\ run' = Completed(run, e, required) /\ e.mine /\ Consistent(run')
        /\ e.outcome = "pass" => ProvenPass(e, required, raw.exit)
        /\ e.outcome = "fail" => ProvenFailure(e)
    BY <1>1, <1>2, <1>5, AcceptedIsConsistent DEF Begun
  <2>2. /\ run'.state = "completed" /\ run'.outcome = e.outcome /\ run'.effects = e.effects
        /\ run'.error = None
    BY <1>1, <2>1 DEF Completed, Begun, Started
  <2>3. ProvenPass(e, required, raw.exit) =>
          /\ raw.exit = 0 /\ e.effects \in {"none", "completed"}
          /\ Range(required) \subseteq NamesWith("pass")
          /\ NamesWith("fail") = {}
    BY <1>2 DEF ProvenPass, Proves, NamesWith, Range, Judgeable, Effects
  <2>4. ProvenFailure(e) => NamesWith("fail") # {}
    BY DEF ProvenFailure, NamesWith
  <2>5. admission.facts = Facts
    <3>1. admission.facts \subseteq Facts
      BY <1>1 DEF Admitted, Standing
    <3>2. Facts \subseteq admission.facts
      BY <1>1, PolicyAssumption DEF Admitted, Admits
    <3> QED BY <3>1, <3>2
  <2>6. EarnedRun'
    <3>1. UNCHANGED <<request, program, admission, raw>>
      BY <1>1 DEF Kept
    <3>2. NamesWith("pass")' = NamesWith("pass") /\ NamesWith("fail")' = NamesWith("fail")
      BY <3>1 DEF NamesWith
    <3> QED BY <1>1, <2>1, <2>2, <2>3, <2>4, <2>5, <3>1, <3>2 DEF EarnedRun, Admitted, Admits
  <2>7. Ended'
    <3>1. UNCHANGED <<program, rep, admission>>
      BY <1>1 DEF Kept, replayVars
    <3>2. run'.error # "EXECUTION_ERROR" /\ run'.effects \in Effects
      BY <1>2, <2>2, EvidenceAssumption DEF Judgeable
    <3> QED BY <2>1, <1>3, <1>4, <2>2, <2>6, <3>1, <3>2 DEF Ended, IsReplay
  <2>8. Fixed'
    BY <1>1 DEF Fixed, Kept, IsReplay
  <2> QED BY <1>1, <2>7, <2>8 DEF WorkInv
<1>6. CASE verdict # "accepted"
  <2>1. verdict \in Refusals
    BY <1>6, VerdictIsNamed
  <2>2. run' = Failed(run, verdict, TRUE)
    BY <1>1, <1>6 DEF Finished
  <2> HIDE DEF verdict
  <2>3. verdict # "EXECUTION_ERROR"
    BY <2>1, NamesApart
  <2>4. /\ run'.error = verdict /\ run'.state \in {"cancelled", "error"}
        /\ Consistent(run') /\ run'.effects \in Effects
    <3>1. Begun /\ verdict # None
      BY <1>1, <2>1, RefusalsAreErrors
    <3>2. /\ Failed(run, verdict, TRUE).error = verdict
          /\ Failed(run, verdict, TRUE).state \in {"cancelled", "error"}
          /\ Failed(run, verdict, TRUE).effects \in Effects
          /\ Consistent(Failed(run, verdict, TRUE))
      BY <3>1, FailedIs
    <3> QED BY <2>2, <3>2
  <2>5. Ended'
    <3>1. UNCHANGED <<program, admission>>
      BY <1>1 DEF Kept
    <3> QED BY <1>3, <1>4, <1>6, <2>3, <2>4, <3>1 DEF Ended, IsReplay
  <2>6. Fixed'
    BY <1>1 DEF Fixed, Kept, IsReplay
  <2> QED BY <1>1, <2>5, <2>6 DEF WorkInv
<1> QED BY <1>5, <1>6

(* Every step keeps both invariants: the run's and the experiment's.       *)
LEMMA WorkNextInv == WorkInv /\ ReplayInv /\ [WorkflowNext]_workflowVars => WorkInv' /\ ReplayInv'
<1> SUFFICES ASSUME WorkInv, ReplayInv, [WorkflowNext]_workflowVars PROVE WorkInv' /\ ReplayInv'
  OBVIOUS
<1>1. ReplayNext \/ UNCHANGED replayVars
  BY DEF WorkflowNext, workflowVars, Change, Starts, Prints, StreamEnds, Output, Reports, Monitors,
         Replays, Stops, Judges, NoScenario
<1>2. ReplayInv'
  BY <1>1, ReplayNextInv
<1>3. CASE Change
  <2>1. /\ stage = "submitted" /\ standing' \in Standing
        /\ UNCHANGED <<program, request, stage, run, admission, raw>>
    BY <1>3 DEF Change, workVars
  <2> QED BY <1>2, <2>1, RunningGoesOn
<1>4. CASE Starts
  BY <1>2, <1>4, StartsKeeps
<1>5. CASE Prints \/ StreamEnds
  BY <1>2, <1>5, OutputKeeps DEF Prints, StreamEnds
<1>6. CASE Reports
  <2>1. PICK r \in Leavings[program.leaves] : Leaves(r.evidence, r.text, r.exit)
    BY <1>6 DEF Reports
  <2>2. UNCHANGED <<standing, rep>> /\ ~IsReplay
    BY <1>6, <2>1 DEF Reports, NoScenario, replayVars, Leaves, Same, IsReplay
  <2>3. Judgeable(r.evidence)
    BY LeavingsAreJudgeable DEF WorkInv, Fixed
  <2> QED BY <1>2, <2>1, <2>2, <2>3, LeavesKeeps
<1>7. CASE Monitors
  <2>1. UNCHANGED <<standing, rep>> /\ ~IsReplay /\ stage = "running" /\ standing \in Standing
    BY <1>7 DEF Monitors, replayVars, IsReplay, WorkInv
  <2>2. CASE UNCHANGED workVars
    BY <1>2, <2>1, <2>2, RunningGoesOn DEF workVars
  <2>3. CASE Leaves(MonitorEvidence, <<>>, 0)
    BY <1>2, <2>1, <2>3, MonitorIsJudgeable, LeavesKeeps
  <2> QED BY <1>7, <2>2, <2>3 DEF Monitors
<1>8. CASE Replays
  <2>1. standing' = standing /\ stage = "running" /\ standing \in Standing
    BY <1>8 DEF Replays, WorkInv
  <2>2. CASE UNCHANGED workVars
    BY <1>2, <2>1, <2>2, RunningGoesOn DEF workVars
  <2>3. CASE Leaves(ReplayEvidence, <<>>, 0) /\ UNCHANGED replayVars
    BY <1>2, <2>1, <2>3, ReplayIsAccepted, LeavesKeeps DEF replayVars
  <2> QED BY <1>8, <2>2, <2>3 DEF Replays
<1>9. CASE Stops
  BY <1>2, <1>9, StopsKeeps
<1>10. CASE Judges
  BY <1>2, <1>10, JudgesKeeps
<1>11. CASE UNCHANGED workflowVars
  <2>1. UNCHANGED <<workVars, standing, replayVars>>
    BY <1>11 DEF workflowVars
  <2>2. Fixed' /\ (Begun' <=> Begun) /\ (Admitted' <=> Admitted) /\ (IsReplay' <=> IsReplay)
    BY <2>1 DEF WorkInv, Fixed, IsReplay, Begun, Admitted, Admits, workVars, replayVars
  <2>3. (Left' <=> Left) /\ (EarnedRun' <=> EarnedRun)
    BY <2>1, <2>2 DEF Left, EarnedRun, NamesWith, IsReplay, workVars, replayVars, ReplayEvidence
  <2>4. Ended' <=> Ended
    BY <2>1, <2>2, <2>3 DEF Ended, workVars, replayVars
  <2> QED BY <1>2, <2>1, <2>2, <2>3, <2>4 DEF WorkInv, workVars
<1> QED BY <1>3, <1>4, <1>5, <1>6, <1>7, <1>8, <1>9, <1>10, <1>11 DEF WorkflowNext

(* Both invariants hold in every reachable state (supervisor.py, _execute; *)
(* reproduction/service.py).                                               *)
THEOREM WorkInvariant == WorkflowSpec => [](WorkInv /\ ReplayInv)
<1>1. WorkflowInit => WorkInv /\ ReplayInv
  BY WorkInitInv
<1>2. WorkInv /\ ReplayInv /\ [WorkflowNext]_workflowVars => (WorkInv /\ ReplayInv)'
  BY WorkNextInv
<1> QED BY <1>1, <1>2, PTL DEF WorkflowSpec

(* A completed run was admitted by the policy as its worker found things,  *)
(* on evidence of its own, its pass is earned and its failure identified,  *)
(* and accepted evidence always makes a record, for every program, policy  *)
(* and way of printing (verification.py, domain.py, supervisor.py).        *)
THEOREM ResultEarned == WorkflowSpec => []ResultIsEarned
<1>1. WorkInv => ResultIsEarned
  <2> SUFFICES ASSUME WorkInv PROVE ResultIsEarned
    OBVIOUS
  <2>1. CASE stage = "done"
    BY <2>1 DEF WorkInv, Ended, EarnedRun, ResultIsEarned
  <2>2. CASE stage # "done"
    <3>1. run.error = None /\ run.state = "running"
      BY <2>2 DEF WorkInv, Begun, Started
    <3> QED BY <2>2, <3>1, EvidenceAssumption DEF ResultIsEarned
  <2> QED BY <2>1, <2>2
<1> QED BY <1>1, WorkInvariant, PTL

(* What task-reproduce finds is backed by what its workers did, for every  *)
(* job, edit of the checkout and lost worker (reproduction/service.py).    *)
THEOREM ReplayBacked == WorkflowSpec => []ReplayFindingIsBacked
<1>1. WorkInv /\ ReplayInv => ReplayFindingIsBacked
  <2> SUFFICES ASSUME WorkInv, ReplayInv PROVE ReplayFindingIsBacked
    OBVIOUS
  <2>1. /\ \A n \in 1..Len(ran) - 1 : Clean(ran[n])
        /\ \A n \in DOMAIN ran : ran[n].number = n
    BY DEF ReplayInv, Numbered, CleanBefore
  <2>2. IsReplay /\ raw # None /\ stage = "done" =>
          run.state = "completed" /\ run.outcome = OutcomeOf(rep.finding)
    BY DEF WorkInv, Ended
  <2>3. Backed
    BY DEF ReplayInv
  <2> QED BY <2>1, <2>2, <2>3 DEF ReplayFindingIsBacked, Backed, Clean, AllClean, IsReplay, Supported
<1> QED BY <1>1, WorkInvariant, PTL

-----------------------------------------------------------------------------
(* The log of a run: what is printed, what it says of it and keeps back.   *)

\* the secrets as the log has them, which never change
Ordered == Hidden /\ LongestFirst /\ secrets \in Sorted(Range(secrets))

\* the types of the log, and the bound of what it keeps back
LogBase ==
    /\ Ordered
    /\ pending \in [Streams -> Text] /\ shown \in [Streams -> Text] /\ printed \in [Streams -> Text]
    /\ \A s \in Streams : Len(pending[s]) <= Keep * (1 + Len(secrets))

\* no secret is shown, where no two cross
LogClean == \A s \in Streams : Apart(printed[s]) => ~Discloses(shown[s])

\* an open stream goes on with what was printed
LogAlong == \A s \in open : Along(printed[s], pending[s], shown[s])

(* The secrets, sorted, are words, the longest first.                      *)
LEMMA SecretsAreSorted ==
    ASSUME NEW S \in SUBSET Word, IsFiniteSet(S), secrets \in Sorted(S)
    PROVE  Ordered
<1>1. /\ secrets \in [1..Cardinality(S) -> S]
      /\ \A i, j \in 1..Cardinality(S) : i # j => secrets[i] # secrets[j]
      /\ \A i, j \in DOMAIN secrets : i < j => Len(secrets[i]) >= Len(secrets[j])
  BY DEF Sorted, SetToSeqs
<1> DEFINE n == Cardinality(S)
<1>2. n \in Nat
  BY FS_CardinalityType
<1> HIDE DEF n
<1>2a. /\ secrets \in [1..n -> S]
       /\ \A i, j \in 1..n : i # j => secrets[i] # secrets[j]
       /\ \A i, j \in DOMAIN secrets : i < j => Len(secrets[i]) >= Len(secrets[j])
  BY <1>1 DEF n
<1>3. secrets \in Seq(S) /\ Len(secrets) = n
  BY <1>2, <1>2a, ListIsSequence
<1>4. Hidden
  BY <1>3 DEF Hidden
<1>5. LongestFirst
  <2> SUFFICES ASSUME NEW x \in 1..Len(secrets) PROVE Len(secrets[x]) <= Len(secrets[1])
    BY DEF LongestFirst
  <2>1. 1 \in DOMAIN secrets /\ x \in DOMAIN secrets /\ DOMAIN secrets = 1..n
    BY <1>2, <1>2a, <1>3
  <2>2. secrets[x] \in Word /\ secrets[1] \in Word
    BY <2>1, <1>2a
  <2>3. Len(secrets[x]) \in Nat /\ Len(secrets[1]) \in Nat
    BY <2>2 DEF Word
  <2>4. CASE x = 1
    BY <2>3, <2>4
  <2>5. CASE x # 1
    <3>1. 1 < x
      BY <1>2, <1>3, <2>5
    <3>2. Len(secrets[1]) >= Len(secrets[x])
      BY <1>2a, <2>1, <3>1
    <3> QED BY <2>3, <3>2
  <2> QED BY <2>4, <2>5
<1>6. secrets \in Sorted(Range(secrets))
  <2> DEFINE R == Range(secrets)
  <2>1. R = {secrets[i] : i \in 1..n}
    BY <1>2a DEF Range
  <2>2. secrets \in [1..n -> R]
    BY <1>2a, <2>1
  <2>3. secrets \in Bijection(1..n, R)
    <3>1. \A i, j \in 1..n : secrets[i] = secrets[j] => i = j
      BY <1>2a
    <3> HIDE DEF R
    <3> QED BY <2>1, <2>2, <3>1 DEF Bijection, Injection, Surjection, IsInjective
  <2>4. IsFiniteSet(1..n) /\ Cardinality(1..n) = n
    BY <1>2, FS_Interval
  <2>5. Cardinality(R) = n
    <3> HIDE DEF R
    <3> QED BY <2>3, <2>4, FS_Bijection DEF ExistsBijection
  <2>6. secrets \in SetToSeqs(R)
    <3> HIDE DEF R
    <3> QED BY <1>2a, <2>2, <2>5 DEF SetToSeqs
  <2> QED BY <1>2a, <2>6 DEF Sorted
<1> QED BY <1>4, <1>5, <1>6 DEF Ordered

(* At first nothing is printed (RedactedLog's constructor).                *)
LEMMA LogInitIs ==
    ASSUME NEW S \in SUBSET Word, IsFiniteSet(S), LogInit(S), open = Streams
    PROVE  LogBase /\ LogClean /\ LogAlong
<1>1. /\ secrets \in Sorted(S) /\ pending = [s \in Streams |-> <<>>]
      /\ shown = [s \in Streams |-> <<>>] /\ printed = [s \in Streams |-> <<>>]
  BY DEF LogInit
<1>2. Ordered
  BY <1>1, SecretsAreSorted
<1>3. <<>> \in Text /\ Len(<<>>) = 0
  BY EmptySeq DEF Text
<1>4. Keep \in Nat /\ Len(secrets) \in Nat
  BY <1>2, KeepIs DEF Ordered, Hidden
<1>5. Keep * (1 + Len(secrets)) \in Nat
  BY <1>4
<1>6. LogBase
  BY <1>1, <1>2, <1>3, <1>5 DEF LogBase
<1>7. LogClean
  <2>1. \A w : ~Holds(<<>>, w)
    BY DEF Holds
  <2> QED BY <1>1, <2>1 DEF LogClean, Discloses
<1>8. Along(<<>>, <<>>, <<>>)
  BY <1>3 DEF Along, Part, EndsAs, Settled
<1> QED BY <1>1, <1>6, <1>7, <1>8 DEF LogAlong

(* A chunk is read after what was kept back.                               *)
LEMMA WriteReads ==
    ASSUME LogBase, NEW s \in Streams, NEW data \in Text, NEW final \in BOOLEAN
    PROVE  LET buffer == pending[s] \o data IN
           Read(printed[s], pending[s], data, buffer, printed[s] \o data,
                Ready(s, data, final), Cut(buffer, final))
<1> DEFINE buffer == pending[s] \o data
<1>1. printed[s] \in Text /\ pending[s] \in Text /\ Hidden
  BY DEF LogBase, Ordered
<1>2. buffer \in Text
  BY <1>1, ConcatProperties DEF Text
<1>3. Ready(s, data, final) = SubSeq(buffer, 1, Cut(buffer, final))
  BY DEF Ready
<1> HIDE DEF buffer
<1>4. Cut(buffer, final) \in 0..Len(buffer)
  <2>1. Cut(buffer, final) \in 0..FirstCut(buffer, final)
    BY <1>1, <1>2, CutIs
  <2>2. FirstCut(buffer, final) \in 0..Len(buffer)
    BY <1>1, <1>2, FirstCutIs
  <2>3. Len(buffer) \in Nat
    BY <1>2 DEF Text
  <2> QED BY <2>1, <2>2, <2>3
<1> QED BY <1>1, <1>3, <1>4 DEF Read, buffer

(* No more is kept back than the secrets are worth, whatever is printed.   *)
LEMMA RestIsShort ==
    ASSUME Ordered, NEW buffer \in Text, NEW final \in BOOLEAN, NEW ready,
           ready = SubSeq(buffer, 1, Cut(buffer, final))
    PROVE  LET rest == SubSeq(buffer, Len(ready) + 1, Len(buffer)) IN
           rest \in Text /\ Len(rest) <= Keep * (1 + Len(secrets))
<1> DEFINE cut == Cut(buffer, final)
           first == FirstCut(buffer, final)
           rest == SubSeq(buffer, Len(ready) + 1, Len(buffer))
           n == Len(secrets)
<1>1. Keep \in Nat /\ n \in Nat /\ Len(buffer) \in Nat
  BY KeepIs DEF Ordered, Hidden, Text
<1>2. /\ cut \in 0..first /\ first \in 0..Len(buffer) /\ cut >= first - Keep * n
      /\ final => cut = Len(buffer)
      /\ ~final => first = IF Len(buffer) >= Keep THEN Len(buffer) - Keep ELSE 0
  BY CutIs, FirstCutIs, CutStaysNear DEF Ordered
<1> HIDE DEF cut, first, n
<1>3. ready = SubSeq(buffer, 1, cut) /\ cut \in 0..Len(buffer)
  BY <1>1, <1>2 DEF cut
<1>3a. buffer \in Seq(Characters \cup {Marker})
  BY DEF Text
<1>4. Len(ready) = cut
  BY ONLY <1>1, <1>3, <1>3a
<1>5. rest \in Text /\ Len(rest) = Len(buffer) - cut
  <2>1. SubSeq(buffer, cut + 1, Len(buffer)) \in Seq(Characters \cup {Marker})
        /\ Len(SubSeq(buffer, cut + 1, Len(buffer))) = Len(buffer) - cut
    BY ONLY <1>1, <1>3, <1>3a
  <2> QED BY <1>4, <2>1 DEF Text
<1>6. Keep * (1 + n) = Keep + Keep * n /\ Keep * n \in Nat
  BY ONLY <1>1
<1> HIDE DEF rest
<1> DEFINE p == Keep * n
<1>7. cut >= first - p /\ p \in Nat
  BY <1>2, <1>6
<1> HIDE DEF p
<1>8. Len(buffer) - cut <= Keep + p
  <2>1. CASE final
    BY <1>1, <1>2, <1>7, <2>1
  <2>2. CASE ~final
    <3>1. first >= Len(buffer) - Keep /\ first \in Nat /\ cut \in Nat
      BY <1>1, <1>2, <2>2
    <3> QED BY ONLY <1>1, <1>7, <3>1
  <2> QED BY <2>1, <2>2
<1>9. Len(rest) <= Keep * (1 + n)
  BY <1>5, <1>6, <1>8 DEF p
<1> QED BY <1>5, <1>9 DEF rest, n

\* the invariant of the log: what is shown, and what is kept of a result, discloses nothing
LogInv ==
    /\ LogBase /\ LogClean /\ open \subseteq Streams
    /\ stage \in {"submitted", "running"} => LogAlong
    /\ stage = "exited" => raw.text \in Text
    /\ kept # None => ~Discloses(kept)

(* What is said of a text depends on the secrets only.                     *)
LEMMA SecretsStay ==
    ASSUME secrets' = secrets, NEW s
    PROVE  /\ Apart(printed[s])' <=> Apart(printed'[s])
           /\ Discloses(shown[s])' <=> Discloses(shown'[s])
           /\ Along(printed[s], pending[s], shown[s])' <=> Along(printed'[s], pending'[s], shown'[s])
           /\ Discloses(kept)' <=> Discloses(kept')
           /\ Ordered' <=> Ordered
           /\ Keep' = Keep
<1>1. Apart(printed[s])' <=> Apart(printed'[s])
  BY DEF Apart
<1>2. /\ Discloses(shown[s])' <=> Discloses(shown'[s])
      /\ Discloses(kept)' <=> Discloses(kept')
  BY DEF Discloses
<1>3. Along(printed[s], pending[s], shown[s])' <=> Along(printed'[s], pending'[s], shown'[s])
  BY <1>1 DEF Along, Settled
<1>4. (Ordered' <=> Ordered) /\ Keep' = Keep
  BY DEF Ordered, Hidden, LongestFirst, Keep, Sorted
<1> QED BY <1>1, <1>2, <1>3, <1>4

(* One stream is written, and the others are not.                          *)
LEMMA WriteKeeps ==
    ASSUME LogBase, LogClean, LogAlong, open \subseteq Streams, NEW s \in open, NEW data \in Text,
           NEW final \in BOOLEAN, ~Overflows(s, data, final), Write(s, data, final),
           open' = IF final THEN open \ {s} ELSE open
    PROVE  LogBase' /\ LogClean' /\ LogAlong'
<1> DEFINE buffer == pending[s] \o data
           more == printed[s] \o data
           ready == Ready(s, data, final)
           rest == SubSeq(buffer, Len(ready) + 1, Len(buffer))
           cut == Cut(buffer, final)
           out == shown[s] \o Redacted(ready)
<1>1. /\ pending' = [pending EXCEPT ![s] = rest]
      /\ shown' = [shown EXCEPT ![s] = out]
      /\ printed' = [printed EXCEPT ![s] = more]
      /\ secrets' = secrets
  BY DEF Write
<1>2. s \in Streams
  OBVIOUS
<1>3. Read(printed[s], pending[s], data, buffer, more, ready, cut)
  BY <1>2, WriteReads
<1>4. /\ Ordered /\ Hidden /\ LongestFirst /\ shown[s] \in Text /\ printed[s] \in Text
      /\ pending[s] \in Text
  BY <1>2 DEF LogBase, Ordered
<1>5. Along(printed[s], pending[s], shown[s]) /\ (Apart(printed[s]) => ~Discloses(shown[s]))
  BY <1>2 DEF LogAlong, LogClean
<1>6. more \in Text /\ buffer \in Text /\ ready \in Text
  <2>1. Len(pending[s]) <= Len(printed[s])
        /\ Part(pending[s], printed[s], Len(printed[s]) - Len(pending[s]))
    BY <1>5 DEF Along
  <2> HIDE DEF more, buffer, ready, cut
  <2> QED BY <1>3, <2>1, ReadIs
<1>7. rest \in Text /\ Len(rest) <= Keep * (1 + Len(secrets))
  <2>1. ready = SubSeq(buffer, 1, cut)
    BY DEF Ready
  <2> HIDE DEF buffer, ready
  <2> QED BY <1>4, <1>6, <2>1, RestIsShort
<1>8. out \in Text
  <2>1. Redacted(ready) \in Text
    BY <1>4, <1>6, RedactedHides DEF Hides
  <2> QED BY <1>4, <2>1, ConcatProperties DEF Text
<1>9. Apart(more) => ~Discloses(out)
  <2>1. ASSUME Apart(more) PROVE ~Discloses(out)
    <3> HIDE DEF more, buffer, ready, cut
    <3> QED BY <1>3, <1>4, <1>5, <2>1, StepHides
  <2> QED BY <2>1
<1>10. ~final => Along(more, rest, out)
  <2> SUFFICES ASSUME final = FALSE PROVE Along(more, rest, out)
    BY final \in BOOLEAN
  <2>1. Read(printed[s], pending[s], data, buffer, more, ready, Cut(buffer, FALSE))
    BY <1>3
  <2> HIDE DEF more, buffer, ready
  <2> QED BY <1>4, <1>5, <2>1, StepGoesAlong
<1> HIDE DEF more, buffer, ready, rest, cut, out
<1>11. LogBase'
  <2>1. Ordered' /\ Keep' = Keep
    BY <1>1, <1>4, SecretsStay
  <2>2. /\ pending' \in [Streams -> Text] /\ shown' \in [Streams -> Text]
        /\ printed' \in [Streams -> Text]
    BY <1>1, <1>6, <1>7, <1>8 DEF LogBase
  <2>3. \A t \in Streams : Len(pending'[t]) <= Keep * (1 + Len(secrets))
    BY <1>1, <1>7 DEF LogBase
  <2> QED BY <1>1, <2>1, <2>2, <2>3 DEF LogBase
<1>12. LogClean'
  <2> SUFFICES ASSUME NEW t \in Streams PROVE (Apart(printed[t]) => ~Discloses(shown[t]))'
    BY DEF LogClean
  <2>1. (Apart(printed'[t]) => ~Discloses(shown'[t]))
    BY <1>1, <1>9 DEF LogClean, LogBase
  <2> QED BY <1>1, <2>1, SecretsStay
<1>13. LogAlong'
  <2> SUFFICES ASSUME NEW t \in open' PROVE Along(printed[t], pending[t], shown[t])'
    BY DEF LogAlong
  <2>1. t \in open /\ t \in Streams /\ (t = s => ~final)
    OBVIOUS
  <2>2. Along(printed'[t], pending'[t], shown'[t])
    BY <1>1, <1>10, <2>1 DEF LogAlong, LogBase
  <2> QED BY <1>1, <2>2, SecretsStay
<1> QED BY <1>11, <1>12, <1>13

(* The log is closed: its streams' tails are dropped.                      *)
LEMMA CloseKeeps ==
    ASSUME LogBase, LogClean, Close
    PROVE  LogBase' /\ LogClean' /\ secrets' = secrets
<1>1. /\ pending' = [s \in Streams |-> <<>>] /\ UNCHANGED <<secrets, shown, printed>>
  BY DEF Close
<1>2. <<>> \in Text /\ Len(<<>>) = 0
  BY EmptySeq DEF Text
<1>3. Ordered' /\ Keep' = Keep /\ Ordered
  BY <1>1, SecretsStay DEF LogBase
<1>4. Keep \in Nat /\ Len(secrets) \in Nat
  BY <1>3, KeepIs DEF Ordered, Hidden
<1>5. Keep * (1 + Len(secrets)) \in Nat
  BY <1>4
<1>6. LogBase'
  BY <1>1, <1>2, <1>3, <1>5 DEF LogBase
<1>7. LogClean'
  BY <1>1, SecretsStay DEF LogClean
<1> QED BY <1>1, <1>6, <1>7

(* Nothing of the log changes.                                             *)
LEMMA LogStays ==
    ASSUME LogBase, LogClean, UNCHANGED logVars
    PROVE  LogBase' /\ LogClean' /\ (LogAlong /\ open' = open => LogAlong') /\ secrets' = secrets
<1>1. UNCHANGED <<secrets, pending, shown, printed>>
  BY DEF logVars
<1>2. LogBase'
  <2>1. (Ordered' <=> Ordered) /\ Keep' = Keep
    BY <1>1, SecretsStay
  <2> QED BY <1>1, <2>1 DEF LogBase
<1>3. LogClean'
  BY <1>1, SecretsStay DEF LogClean
<1>4. LogAlong /\ open' = open => LogAlong'
  BY <1>1, SecretsStay DEF LogAlong
<1> QED BY <1>1, <1>2, <1>3, <1>4

(* A run that ends closes its log.                                         *)
LEMMA EndsKeepsLog ==
    ASSUME LogInv, NEW r, Ends(r), open' \subseteq open, kept' = kept
    PROVE  LogInv'
<1>1. Close /\ stage' = "done"
  BY DEF Ends
<1>2. LogBase' /\ LogClean' /\ secrets' = secrets
  BY <1>1, CloseKeeps DEF LogInv
<1>3. kept' # None => ~Discloses(kept)'
  BY <1>2, SecretsStay DEF LogInv
<1> QED BY <1>1, <1>2, <1>3 DEF LogInv

(* The log is left alone, and the process goes on or leaves what it leaves.*)
LEMMA NoLogKeeps ==
    ASSUME LogInv, UNCHANGED <<logVars, open, kept>>,
           stage' \in {"submitted", "running"} => stage \in {"submitted", "running"},
           stage' = "exited" => raw'.text \in Text
    PROVE  LogInv'
<1>1. LogBase' /\ LogClean' /\ (LogAlong => LogAlong') /\ secrets' = secrets
  BY LogStays DEF LogInv
<1>2. kept' # None => ~Discloses(kept)'
  BY <1>1, SecretsStay DEF LogInv
<1> QED BY <1>1, <1>2 DEF LogInv

(* A chunk or the end of a stream (observer.output).                       *)
LEMMA OutputKeepsLog ==
    ASSUME LogInv, NEW s \in open, NEW data \in Text, NEW final \in BOOLEAN, Output(s, data, final),
           open' = IF final THEN open \ {s} ELSE open
    PROVE  LogInv'
<1>1. stage = "running" /\ kept' = kept
  BY DEF Output
<1>2. CASE Overflows(s, data, final)
  <2>1. Ends(Failed(run, "OUTPUT_LIMIT", TRUE))
    BY <1>2 DEF Output
  <2> QED BY <1>1, <2>1, EndsKeepsLog
<1>3. CASE ~Overflows(s, data, final)
  <2>1. Write(s, data, final) /\ stage' = stage
    BY <1>3 DEF Output
  <2>2. LogBase' /\ LogClean' /\ LogAlong'
    BY <1>1, <1>3, <2>1, WriteKeeps DEF LogInv
  <2>3. secrets' = secrets
    BY <2>1 DEF Write
  <2>4. kept' # None => ~Discloses(kept)'
    BY <1>1, <2>3, SecretsStay DEF LogInv
  <2> QED BY <1>1, <2>1, <2>2, <2>4 DEF LogInv
<1> QED BY <1>2, <1>3

(* The text of the evidence is redacted before it is kept (save_evidence). *)
LEMMA JudgesKeepsLog == LogInv /\ Judges => LogInv'
<1> SUFFICES ASSUME LogInv, Judges PROVE LogInv'
  OBVIOUS
<1>1. Close /\ stage' = "done" /\ open' = open /\ raw.text \in Text
  BY DEF Judges, Ends, LogInv
<1>2. LogBase' /\ LogClean' /\ secrets' = secrets
  BY <1>1, CloseKeeps DEF LogInv
<1>3. kept' = Redacted(raw.text) \/ kept' = kept
  BY DEF Judges
<1>4. ~Discloses(Redacted(raw.text))
  BY <1>1, RedactedHides DEF LogInv, LogBase, Ordered, Discloses
<1>5. kept' # None => ~Discloses(kept')
  BY <1>3, <1>4 DEF LogInv
<1>6. kept' # None => ~Discloses(kept)'
  BY <1>2, <1>5, SecretsStay
<1> QED BY <1>1, <1>2, <1>6 DEF LogInv

(* A log begins empty (logs.py, RedactedLog.__init__).                     *)
LEMMA LogInitInv == WorkflowInit => LogInv
<1> SUFFICES ASSUME WorkflowInit PROVE LogInv
  OBVIOUS
<1>1. PICK s \in Scenarios : LogInit(s.secrets) /\ stage = "submitted" /\ open = Streams /\ kept = None
  BY DEF WorkflowInit
<1>2. s.secrets \in SUBSET Word /\ IsFiniteSet(s.secrets)
  BY WorkflowAssumption DEF Word
<1>3. LogBase /\ LogClean /\ LogAlong
  BY <1>1, <1>2, LogInitIs
<1> QED BY <1>1, <1>3 DEF LogInv

(* The invariant of the log is inductive, with that of the run             *)
(* (supervisor.py, _execute, and logs.py).                                 *)
LEMMA LogNextInv == LogInv /\ WorkInv /\ [WorkflowNext]_workflowVars => LogInv'
<1> SUFFICES ASSUME LogInv, WorkInv, [WorkflowNext]_workflowVars PROVE LogInv'
  OBVIOUS
<1>1. CASE Change
  BY <1>1, NoLogKeeps DEF Change, workVars
<1>2. CASE Starts
  <2>1. CASE Allowed(request, standing)
    BY <1>2, <2>1, NoLogKeeps DEF Starts
  <2>2. CASE ~Allowed(request, standing)
    BY <1>2, <2>2, EndsKeepsLog DEF Starts
  <2> QED BY <2>1, <2>2
<1>3. CASE Prints
  <2>1. PICK s \in open, n \in 1..Min({MaxChunk, unprinted}) : \E data \in [1..n -> Characters] :
           Output(s, data, FALSE) /\ open' = open
    BY <1>3 DEF Prints
  <2>2. PICK data \in [1..n -> Characters] : Output(s, data, FALSE)
    BY <2>1
  <2>3. n \in Nat
    OBVIOUS
  <2>4. data \in Seq(Characters)
    BY <2>3, ListIsSequence
  <2>5. data \in Text
    BY <2>4 DEF Text
  <2> QED BY <2>1, <2>2, <2>5, OutputKeepsLog
<1>4. CASE StreamEnds
  <2>1. PICK s \in open : Output(s, <<>>, TRUE) /\ open' = open \ {s}
    BY <1>4 DEF StreamEnds
  <2>2. <<>> \in Text
    BY EmptySeq DEF Text
  <2> QED BY <2>1, <2>2, OutputKeepsLog
<1>5. ASSUME NEW e, NEW text \in Text, NEW exit, Leaves(e, text, exit) PROVE LogInv'
  <2>1. raw'.text = text /\ stage' = "exited" /\ UNCHANGED <<logVars, open, kept>>
    BY <1>5 DEF Leaves
  <2> QED BY <2>1, NoLogKeeps
<1>6. CASE Reports
  <2>1. program.leaves \in DOMAIN Leavings
    BY DEF WorkInv, Fixed
  <2>2. PICK r \in Leavings[program.leaves] : Leaves(r.evidence, r.text, r.exit)
    BY <1>6 DEF Reports
  <2>3. r.text \in Text
    <3>1. r \in [evidence : EvidenceType, text : Seq(Characters), exit : Nat]
      BY <2>1, <2>2, WorkflowAssumption
    <3> QED BY <3>1 DEF Text
  <2> QED BY <1>5, <2>2, <2>3
<1>7. <<>> \in Text
  BY EmptySeq DEF Text
<1>8. CASE Monitors
  <2>1. UNCHANGED logVars /\ (UNCHANGED workVars \/ Leaves(MonitorEvidence, <<>>, 0))
    BY <1>8 DEF Monitors
  <2> QED BY <1>5, <1>7, <1>8, <2>1, NoLogKeeps DEF workVars, Monitors
<1>9. CASE Replays
  <2>1. UNCHANGED logVars /\ (UNCHANGED workVars \/ Leaves(ReplayEvidence, <<>>, 0))
    BY <1>9 DEF Replays
  <2> QED BY <1>5, <1>7, <1>9, <2>1, NoLogKeeps DEF workVars, Replays
<1>10. CASE Stops
  BY <1>10, EndsKeepsLog DEF Stops
<1>11. CASE Judges
  BY <1>11, JudgesKeepsLog
<1>12. CASE UNCHANGED workflowVars
  BY <1>12, NoLogKeeps DEF workflowVars, workVars, LogInv
<1> QED BY <1>1, <1>2, <1>3, <1>4, <1>6, <1>8, <1>9, <1>10, <1>11, <1>12 DEF WorkflowNext

(* It holds in every reachable state (logs.py, RedactedLog; supervisor.py, *)
(* clean_evidence).                                                        *)
THEOREM LogInvariant == WorkflowSpec => []LogInv
<1>1. WorkflowInit => LogInv
  BY LogInitInv
<1>2. LogInv /\ WorkInv /\ [WorkflowNext]_workflowVars => LogInv'
  BY LogNextInv
<1> QED BY <1>1, <1>2, WorkInvariant, PTL DEF WorkflowSpec

(* No known secret can be read in the log or in what is kept of a result,  *)
(* however the output falls into chunks, where no secret begins within     *)
(* another and ends after it (logs.py, RedactedLog.write and close;        *)
(* supervisor.py, clean_evidence).                                         *)
THEOREM SecretsHidden == WorkflowSpec => []SecretsStayHidden
<1>1. LogInv => SecretsStayHidden
  <2> SUFFICES ASSUME LogInv PROVE SecretsStayHidden
    OBVIOUS
  <2>1. Hidden /\ Range(secrets) = {secrets[x] : x \in 1..Len(secrets)}
    <3>1. Hidden
      BY DEF LogInv, LogBase, Ordered
    <3> QED BY <3>1 DEF Range, Hidden
  <2>2. ASSUME NEW x \in 1..Len(secrets), NEW s \in Streams, Separate(printed[s])
        PROVE  ~Holds(shown[s], secrets[x])
    <3>1. Apart(printed[s])
      BY <2>1, <2>2, SeparateIs DEF LogInv, LogBase
    <3> QED BY <3>1 DEF LogInv, LogClean, Discloses
  <2>3. ASSUME NEW x \in 1..Len(secrets), kept # None PROVE ~Holds(kept, secrets[x])
    BY <2>3 DEF LogInv, Discloses
  <2> QED BY <2>1, <2>2, <2>3 DEF SecretsStayHidden
<1> QED BY <1>1, LogInvariant, PTL

-----------------------------------------------------------------------------
(* The limits of the two workflows, and the types of the whole.            *)

\* no more attempts are noted than were started, and no more started than asked for
Counted ==
    /\ rep.number <= MaxAttempts /\ Len(rep.attempts) <= rep.number
    /\ rep.pc \in {"load", "describe"} => rep.attempts = <<>>
    /\ rep.pc \in {"attempt", "running"} => Len(rep.attempts) < rep.number

(* Noting an attempt makes one more of them (service.py, run).             *)
LEMMA AttemptedCounts ==
    ASSUME rep \in Rep, NEW what \in Whats
    PROVE  Len(Attempted(what).attempts) = Len(rep.attempts) + 1
<1> DEFINE one == [number |-> rep.number, finding |-> what]
<1>1. one \in [number : Nat, finding : Whats] /\ rep.attempts \in Seq([number : Nat, finding : Whats])
  BY DEF Rep
<1>2. Attempted(what).attempts = Append(rep.attempts, one)
  BY DEF Attempted, Rep
<1> HIDE DEF one
<1> QED BY <1>1, <1>2

(* An experiment ends with as many attempts as it has noted, and goes on   *)
(* to a next one only below the limit (service.py, run).                   *)
LEMMA CountedKeeps ==
    ReplayInv /\ Counted /\ (ReplayNext \/ UNCHANGED replayVars) => Counted'
<1> SUFFICES ASSUME ReplayInv, Counted, ReplayNext \/ UNCHANGED replayVars PROVE Counted'
  OBVIOUS
<1> DEFINE n == Len(rep.attempts)
<1>1. rep \in Rep /\ rep.number \in Nat /\ n \in Nat /\ MaxAttempts \in Nat \ {0} /\ left \in Int
  BY ReplayAssumption DEF ReplayInv, ReplayBase, Rep
<1>2. ASSUME NEW r \in Rep, NEW f, rep' = Found(r, f), r.number = rep.number,
             Len(r.attempts) <= rep.number
      PROVE  Counted'
  <2>1. rep'.pc = "done" /\ rep'.number = r.number /\ rep'.attempts = r.attempts
    BY <1>2 DEF Found, Rep
  <2> QED BY <1>2, <2>1 DEF Counted
<1>3. CASE Load
  <2>1. CASE rep' = Found(rep, "blocked")
    BY <1>1, <1>2, <2>1 DEF Counted
  <2>2. CASE rep' = [rep EXCEPT !.pc = "describe"]
    <3>1. rep'.pc = "describe" /\ rep'.number = rep.number /\ rep'.attempts = rep.attempts
      BY <1>1, <2>2 DEF Rep
    <3>2. rep.pc = "load"
      BY <1>3 DEF Load
    <3> QED BY <3>1, <3>2 DEF Counted
  <2> QED BY <1>3, <2>1, <2>2 DEF Load, Goes
<1>4. CASE Describe
  <2>1. CASE rep' = Found(rep, "blocked") \/ rep' = Found(rep, "inconclusive")
    BY <1>1, <1>2, <2>1 DEF Counted
  <2>2. CASE rep' = [rep EXCEPT !.pc = "attempt", !.number = 1]
    <3>1. rep'.pc = "attempt" /\ rep'.number = 1 /\ rep'.attempts = rep.attempts
      BY <1>1, <2>2 DEF Rep
    <3>2. n = 0
      BY <1>1, <1>4 DEF Counted, Describe
    <3> QED BY <1>1, <3>1, <3>2 DEF Counted
  <2> QED BY <1>4, <2>1, <2>2 DEF Describe, Goes
<1>5. CASE StartAttempt
  <2>1. CASE rep' = Found(rep, "inconclusive")
    BY <1>1, <1>2, <2>1 DEF Counted
  <2>2. CASE rep' = [rep EXCEPT !.pc = "running"]
    <3>1. rep'.pc = "running" /\ rep'.number = rep.number /\ rep'.attempts = rep.attempts
      BY <1>1, <2>2 DEF Rep
    <3> QED BY <1>5, <3>1 DEF Counted, StartAttempt
  <2> QED BY <1>5, <2>1, <2>2 DEF StartAttempt, Goes
<1>6. CASE WorkerIsLost
  <2>1. rep' = Found(Attempted("unknown"), "inconclusive") /\ n < rep.number
    BY <1>6 DEF WorkerIsLost, Goes, Counted
  <2>2. /\ Attempted("unknown") \in Rep /\ Attempted("unknown").number = rep.number
        /\ Len(Attempted("unknown").attempts) = n + 1
    BY <1>1, AttemptedIs, AttemptedCounts DEF Whats
  <2>3. Len(Attempted("unknown").attempts) <= rep.number
    BY <1>1, <2>1, <2>2
  <2> QED BY <1>2, <2>1, <2>2, <2>3
<1>7. CASE Observed
  <2> DEFINE what == Shows(worker.says)
             q == Attempted(what)
  <2>1. n < rep.number /\ rep.pc = "running"
    BY <1>7 DEF Observed, Counted
  <2>2. what \in Whats
    BY <1>7 DEF Shows, Whats
  <2>3. rep' = CASE what = "target_failure" -> Found(q, "reproduced")
                [] what \in {"unknown", "incomparable", "different_failure"} -> Found(q, "inconclusive")
                [] what = "clean" /\ rep.number < MaxAttempts ->
                     [q EXCEPT !.pc = "attempt", !.number = @ + 1]
                [] OTHER -> Found(q, "not_reproduced")
    BY <1>7 DEF Observed, Goes
  <2> HIDE DEF what
  <2>4. q \in Rep /\ q.number = rep.number /\ Len(q.attempts) = n + 1
    BY <1>1, <2>2, AttemptedIs, AttemptedCounts
  <2> HIDE DEF q
  <2>5. Len(q.attempts) <= rep.number
    BY <1>1, <2>1, <2>4
  <2>6. CASE rep' = [q EXCEPT !.pc = "attempt", !.number = @ + 1] /\ rep.number < MaxAttempts
    <3>1. rep'.pc = "attempt" /\ rep'.number = rep.number + 1 /\ rep'.attempts = q.attempts
      BY <2>4, <2>6 DEF Rep
    <3>2. rep.number + 1 <= MaxAttempts /\ n + 1 < rep.number + 1
      BY <1>1, <2>1, <2>6
    <3> QED BY <1>1, <2>4, <3>1, <3>2 DEF Counted
  <2>7. \/ \E f \in Findings : rep' = Found(q, f)
        \/ rep' = [q EXCEPT !.pc = "attempt", !.number = @ + 1] /\ rep.number < MaxAttempts
    BY <2>2, <2>3 DEF Findings, Whats
  <2> QED BY <1>2, <2>4, <2>5, <2>6, <2>7
<1>8. CASE WorkerRuns \/ TimePasses \/ Edit \/ UNCHANGED replayVars
  BY <1>8 DEF Counted, WorkerRuns, TimePasses, Edit, replayVars
<1> QED BY <1>3, <1>4, <1>5, <1>6, <1>7, <1>8 DEF ReplayNext

\* where the monitor stands and what it has of its window
MonInv ==
    /\ asked \in Deployments /\ clock \in Nat /\ jumped \in Int
    /\ DOMAIN mon = DOMAIN Unmonitored
    /\ mon.epoch \in Int /\ mon.began \in Int /\ mon.began <= clock
    /\ mon.pc = "rolling" => mon.reply.at \in Int
    /\ mon.pc \in {"status", "observed", "read"} => mon.until >= mon.epoch
    /\ mon.pc = "read" => mon.pages < MaxPages

(* The monitor's record has all its fields (service.py, Monitor).          *)
LEMMA FieldsAre ==
    {"pc", "acknowledged", "started", "epoch", "began", "elapsed", "until", "wake", "reply",
     "events", "cursor", "pages", "mark", "before", "outcome", "reason"} = DOMAIN Unmonitored
BY DEF Unmonitored

(* An end, whatever it says, is within the limits (service.py, run).       *)
LEMMA GivenUpKeeps ==
    ASSUME MonInv, NEW reason, Step(GivenUp(reason))
    PROVE  MonInv'
<1>1. mon' = GivenUp(reason) /\ UNCHANGED <<asked, clock, jumped>>
  BY DEF Step
<1>2. /\ DOMAIN mon' = DOMAIN Unmonitored /\ mon'.pc = "done" /\ mon'.epoch = 0 /\ mon'.began = 0
  BY <1>1 DEF GivenUp, Unmonitored
<1> QED BY <1>1, <1>2 DEF MonInv

(* So is a conclusion.                                                     *)
LEMMA ConcludedKeeps ==
    ASSUME MonInv, NEW outcome, NEW reason, Step(Concluded(outcome, reason))
    PROVE  MonInv'
<1>1. mon' = Concluded(outcome, reason) /\ UNCHANGED <<asked, clock, jumped>>
  BY DEF Step
<1>2. /\ DOMAIN mon' = DOMAIN mon /\ mon'.pc = "done" /\ mon'.epoch = mon.epoch
      /\ mon'.began = mon.began
  BY <1>1, FieldsAre DEF Concluded, MonInv
<1> QED BY <1>1, <1>2 DEF MonInv

(* An answer is kept with its time, or ends the monitor (service.py,       *)
(* http.py, LocalHTTP).                                                    *)
LEMMA AnswerKeeps ==
    ASSUME MonInv, NEW pc, NEW next, Answer(pc, next),
           <<pc, next>> \in {<<"rollout", "rolling">>, <<"status", "observed">>}
    PROVE  MonInv'
<1>1. CASE Unavailable
  BY <1>1, GivenUpKeeps DEF Unavailable
<1>2. CASE Step([mon EXCEPT !.pc = next, !.reply = [at |-> Source, replicas |-> Status]])
  <2> DEFINE reply == [at |-> Source, replicas |-> Status]
  <2>1. reply.at \in Int
    BY DEF Source, MonInv
  <2> HIDE DEF reply
  <2>2. mon' = [mon EXCEPT !.pc = next, !.reply = reply] /\ UNCHANGED <<asked, clock, jumped>>
    BY <1>2 DEF Step, reply
  <2>3. /\ DOMAIN mon' = DOMAIN mon /\ mon'.pc = next /\ mon'.reply = reply
        /\ mon'.epoch = mon.epoch /\ mon'.began = mon.began /\ mon'.until = mon.until
    BY <2>2, FieldsAre DEF MonInv
  <2>4. mon.pc = pc
    BY DEF Answer
  <2> QED BY <2>1, <2>2, <2>3, <2>4 DEF MonInv
<1> QED BY <1>1, <1>2 DEF Answer

(* The window that is observed begins when the rollout is seen complete,   *)
(* and its end is not before its beginning (service.py, run).              *)
LEMMA ObserveKeeps ==
    ASSUME MonInv, Observe
    PROVE  MonInv'
<1> DEFINE elapsed == clock - mon.began
           least == Min({elapsed, asked.window})
           until == mon.epoch + least
<1>1. elapsed \in Nat /\ asked.window \in Nat
  BY MonitorAssumption DEF MonInv
<1>2. least \in Nat
  <2>1. {elapsed, asked.window} \in SUBSET Nat /\ {elapsed, asked.window} # {}
    BY <1>1
  <2> QED BY <2>1, LeastIsIn
<1>3. mon' = [mon EXCEPT !.pc = "status", !.elapsed = elapsed, !.wake = 0, !.until = until]
      /\ UNCHANGED <<asked, clock, jumped>>
  BY DEF Observe, Step
<1> HIDE DEF least
<1>4. until >= mon.epoch /\ mon.epoch \in Int
  BY <1>2 DEF MonInv
<1> HIDE DEF elapsed, until
<1>5. /\ DOMAIN mon' = DOMAIN mon /\ mon'.pc = "status" /\ mon'.until = until
      /\ mon'.epoch = mon.epoch /\ mon'.began = mon.began
  BY <1>3, FieldsAre DEF MonInv
<1> QED BY <1>3, <1>4, <1>5 DEF MonInv

(* The rollout is judged (service.py, run).                                *)
LEMMA RolloutKeeps ==
    ASSUME MonInv, JudgeRollout
    PROVE  MonInv'
<1>1. mon.pc = "rolling" /\ UNCHANGED <<asked, clock, jumped>>
  BY DEF JudgeRollout, Step
<1>2. CASE Step(Concluded("fail", "rollout_timeout_or_wrong_version"))
  BY <1>2, ConcludedKeeps
<1>3. CASE mon' = [mon EXCEPT !.pc = "observe", !.epoch = mon.reply.at, !.began = clock,
                              !.reply = NoReply]
  <2>1. /\ DOMAIN mon' = DOMAIN mon /\ mon'.pc = "observe" /\ mon'.epoch = mon.reply.at
        /\ mon'.began = clock
    BY <1>3, FieldsAre DEF MonInv
  <2> QED BY <1>1, <2>1 DEF MonInv
<1>4. ASSUME NEW wake, mon' = [mon EXCEPT !.pc = "rollout", !.reply = NoReply, !.wake = wake]
      PROVE  MonInv'
  <2>1. /\ DOMAIN mon' = DOMAIN mon /\ mon'.pc = "rollout" /\ mon'.epoch = mon.epoch
        /\ mon'.began = mon.began
    BY <1>4, FieldsAre DEF MonInv
  <2> QED BY <1>1, <2>1 DEF MonInv
<1>5. \/ Step(Concluded("fail", "rollout_timeout_or_wrong_version"))
      \/ mon' = [mon EXCEPT !.pc = "observe", !.epoch = mon.reply.at, !.began = clock,
                            !.reply = NoReply]
      \/ \E wake : mon' = [mon EXCEPT !.pc = "rollout", !.reply = NoReply, !.wake = wake]
  <2> DEFINE wake == clock + Min({asked.poll, asked.deadline - (clock - mon.started)})
             again == [mon EXCEPT !.pc = "rollout", !.reply = NoReply, !.wake = wake]
  <2>1. Step(CASE clock - mon.started > asked.deadline ->
                    Concluded("fail", "rollout_timeout_or_wrong_version")
               [] clock - mon.started <= asked.deadline /\ AllReady(mon.reply.replicas) ->
                    [mon EXCEPT !.pc = "observe", !.epoch = mon.reply.at, !.began = clock,
                                !.reply = NoReply]
               [] clock - mon.started = asked.deadline /\ ~AllReady(mon.reply.replicas) ->
                    Concluded("fail", "rollout_timeout_or_wrong_version")
               [] OTHER -> again)
    BY Zenon DEF JudgeRollout
  <2>2. \/ Step(Concluded("fail", "rollout_timeout_or_wrong_version"))
        \/ Step([mon EXCEPT !.pc = "observe", !.epoch = mon.reply.at, !.began = clock,
                            !.reply = NoReply])
        \/ Step(again)
    <3> HIDE DEF again
    <3> QED BY <2>1
  <2> QED BY <2>2 DEF Step
<1> QED BY <1>2, <1>3, <1>4, <1>5

(* A status is judged, and the scan of the logs begins at its first page.  *)
LEMMA StatusKeeps ==
    ASSUME MonInv, JudgeStatus
    PROVE  MonInv'
<1>1. mon.pc = "observed" /\ UNCHANGED <<asked, clock, jumped>>
  BY DEF JudgeStatus, Step
<1>2. CASE Step(Concluded("fail", "version_or_readiness_regressed"))
  BY <1>2, ConcludedKeeps
<1>3. CASE Step(GivenUp("unavailable"))
  BY <1>3, GivenUpKeeps
<1>4. CASE mon' = [mon EXCEPT !.pc = "read", !.reply = NoReply, !.events = <<>>,
                              !.cursor = 0, !.pages = 0, !.mark = None]
  <2>1. /\ DOMAIN mon' = DOMAIN mon /\ mon'.pc = "read" /\ mon'.epoch = mon.epoch
        /\ mon'.began = mon.began /\ mon'.until = mon.until /\ mon'.pages = 0
    BY <1>4, FieldsAre DEF MonInv
  <2>2. 0 < MaxPages
    BY MonitorAssumption
  <2> QED BY <1>1, <2>1, <2>2 DEF MonInv
<1> QED BY <1>2, <1>3, <1>4 DEF JudgeStatus, Step

(* A page is the last, or there is room for another (service.py,           *)
(* _interval).                                                             *)
LEMMA ReadKeeps ==
    ASSUME MonInv, ReadLogs
    PROVE  MonInv'
<1> DEFINE page == Page(mon.epoch, mon.until, mon.cursor)
           events == mon.events \o page.events
<1>1. mon.pc = "read"
  BY DEF ReadLogs
<1>2. CASE Unavailable
  BY <1>2, GivenUpKeeps DEF Unavailable
<1>3. CASE /\ page.next # None => mon.pages + 1 < MaxPages
           /\ Step([mon EXCEPT !.events = events, !.mark = page.through, !.pages = @ + 1,
                               !.pc = IF page.next = None THEN "judge" ELSE "read",
                               !.cursor = IF page.next = None THEN @ ELSE page.next])
  <2> HIDE DEF events, page
  <2>1. mon' = [mon EXCEPT !.events = events, !.mark = page.through, !.pages = @ + 1,
                           !.pc = IF page.next = None THEN "judge" ELSE "read",
                           !.cursor = IF page.next = None THEN @ ELSE page.next]
        /\ UNCHANGED <<asked, clock, jumped>>
    BY <1>3 DEF Step
  <2>2. /\ DOMAIN mon' = DOMAIN mon /\ mon'.pages = mon.pages + 1
        /\ mon'.pc = IF page.next = None THEN "judge" ELSE "read"
        /\ mon'.epoch = mon.epoch /\ mon'.began = mon.began /\ mon'.until = mon.until
    BY <2>1, FieldsAre DEF MonInv
  <2> QED BY <1>1, <1>3, <2>1, <2>2 DEF MonInv
<1> QED BY <1>2, <1>3 DEF ReadLogs

(* What was scanned is judged: an end, or another observation.             *)
LEMMA WindowKeeps ==
    ASSUME MonInv, JudgeWindow
    PROVE  MonInv'
<1> DEFINE again(wake) == [mon EXCEPT !.pc = "observe", !.before = mon.mark,
                                      !.events = <<>>, !.mark = None, !.cursor = 0, !.pages = 0,
                                      !.wake = wake]
<1>1. \/ \E reason : Step(GivenUp(reason))
      \/ \E outcome, reason : Step(Concluded(outcome, reason))
      \/ \E wake : Step(again(wake))
  BY DEF JudgeWindow
<1>2. ASSUME NEW wake, Step(again(wake)) PROVE MonInv'
  <2>1. mon' = again(wake) /\ UNCHANGED <<asked, clock, jumped>>
    BY <1>2 DEF Step
  <2>2. /\ DOMAIN mon' = DOMAIN mon /\ mon'.pc = "observe" /\ mon'.epoch = mon.epoch
        /\ mon'.began = mon.began
    BY <2>1, FieldsAre DEF MonInv
  <2> QED BY <2>1, <2>2 DEF MonInv
<1> QED BY <1>1, <1>2, GivenUpKeeps, ConcludedKeeps

(* Every step of the monitor, and of its services' clock, keeps the limits.*)
LEMMA MonNextInv == MonInv /\ (MonitorNext \/ UNCHANGED monitorVars) => MonInv'
<1> SUFFICES ASSUME MonInv, MonitorNext \/ UNCHANGED monitorVars PROVE MonInv'
  OBVIOUS
<1>1. CASE Deploy
  <2>1. CASE Step(GivenUp("unavailable"))
    BY <2>1, GivenUpKeeps
  <2>2. CASE Step([mon EXCEPT !.pc = "rollout", !.acknowledged = TRUE])
    <3>1. mon' = [mon EXCEPT !.pc = "rollout", !.acknowledged = TRUE]
          /\ UNCHANGED <<asked, clock, jumped>>
      BY <2>2 DEF Step
    <3>2. /\ DOMAIN mon' = DOMAIN mon /\ mon'.pc = "rollout" /\ mon'.epoch = mon.epoch
          /\ mon'.began = mon.began
      BY <3>1, FieldsAre DEF MonInv
    <3> QED BY <3>1, <3>2 DEF MonInv
  <2> QED BY <1>1, <2>1, <2>2 DEF Deploy, Unavailable
<1>2. CASE AwaitRollout \/ AwaitStatus
  BY <1>2, AnswerKeeps DEF AwaitRollout, AwaitStatus
<1>3. CASE Tick
  BY <1>3 DEF Tick, MonInv
<1>4. CASE Jump
  <2>1. jumped' \in Int /\ UNCHANGED <<asked, clock, mon>>
    BY <1>4, MonitorAssumption DEF Jump
  <2> QED BY <2>1 DEF MonInv
<1>5. CASE UNCHANGED monitorVars
  BY <1>5 DEF monitorVars, MonInv
<1> QED BY <1>1, <1>2, <1>3, <1>4, <1>5, ObserveKeeps, RolloutKeeps, StatusKeeps, ReadKeeps,
           WindowKeeps DEF MonitorNext

(* At first nothing is requested and no attempt is made.                   *)
LEMMA LimitsInitInv == WorkflowInit => MonInv /\ Counted
<1> SUFFICES ASSUME WorkflowInit PROVE MonInv /\ Counted
  OBVIOUS
<1>1. MonitorInit /\ ReplayInit
  BY DEF WorkflowInit
<1>2. /\ DOMAIN mon = DOMAIN Unmonitored /\ mon.pc = "deploy" /\ mon.epoch = 0 /\ mon.began = 0
  BY <1>1 DEF MonitorInit, Unmonitored
<1>3. asked \in Deployments /\ clock = 1 /\ jumped = 0
  BY <1>1 DEF MonitorInit
<1>4. MonInv
  BY <1>2, <1>3 DEF MonInv
<1>5. Counted
  BY <1>1, ReplayAssumption DEF ReplayInit, Unstarted, Counted
<1> QED BY <1>4, <1>5

(* Every step of a run is a step of the workflow that it runs, or of none. *)
LEMMA LimitsNextInv ==
    MonInv /\ Counted /\ ReplayInv /\ [WorkflowNext]_workflowVars => (MonInv /\ Counted)'
<1> SUFFICES ASSUME MonInv, Counted, ReplayInv, [WorkflowNext]_workflowVars
             PROVE  (MonInv /\ Counted)'
  OBVIOUS
<1>1. ReplayNext \/ UNCHANGED replayVars
  BY DEF WorkflowNext, workflowVars, Change, Starts, Prints, StreamEnds, Output, Reports, Monitors,
         Replays, Stops, Judges, NoScenario
<1>2. MonitorNext \/ UNCHANGED monitorVars
  BY DEF WorkflowNext, workflowVars, Change, Starts, Prints, StreamEnds, Output, Reports, Monitors,
         Replays, Stops, Judges, NoScenario
<1> QED BY <1>1, <1>2, CountedKeeps, MonNextInv

(* What every state of a run is: its record is one that can be built, with *)
(* an end if and only if it is over; its log keeps back no more than the   *)
(* secrets are worth, whatever is printed; and neither workflow leaves the *)
(* limits of its inputs (domain.py, Run; logs.py; the two service.py).     *)
THEOREM WorkflowTypesHold == WorkflowSpec => []WorkflowTypes
<1>1. WorkflowSpec => [](MonInv /\ Counted)
  <2>1. WorkflowInit => MonInv /\ Counted
    BY LimitsInitInv
  <2>2. MonInv /\ Counted /\ ReplayInv /\ [WorkflowNext]_workflowVars => (MonInv /\ Counted)'
    BY LimitsNextInv
  <2> QED BY <2>1, <2>2, WorkInvariant, PTL DEF WorkflowSpec
<1>2. WorkInv /\ ReplayInv /\ LogInv /\ MonInv /\ Counted => WorkflowTypes
  <2> SUFFICES ASSUME WorkInv, ReplayInv, LogInv, MonInv, Counted PROVE WorkflowTypes
    OBVIOUS
  <2>1. Consistent(run) /\ run.effects \in Effects /\ (stage = "done" <=> run.state # "running")
    <3>1. CASE stage = "done"
      BY <3>1 DEF WorkInv, Ended
    <3>2. CASE stage # "done"
      <4>1. run \in {Started("unknown"), Started("none")}
        BY <3>2 DEF WorkInv, Begun
      <4> QED BY <3>2, <4>1 DEF Started, Consistent, Effects
    <3> QED BY <3>1, <3>2
  <2>2. secrets \in Sorted(Range(secrets)) /\ \A s \in Streams : Len(pending[s]) <= Keep * (1 + Len(secrets))
    BY DEF LogInv, LogBase, Ordered
  <2>3. mon.pc = "read" => mon.until >= mon.epoch /\ mon.pages < MaxPages
    BY DEF MonInv
  <2>4. Len(rep.attempts) <= MaxAttempts /\ rep.number <= MaxAttempts
    <3>1. rep.number \in Nat /\ Len(rep.attempts) \in Nat /\ MaxAttempts \in Nat
      BY ReplayAssumption DEF ReplayInv, ReplayBase, Rep
    <3> QED BY <3>1 DEF Counted
  <2>5. stage \in {"submitted", "running", "exited", "done"}
    BY DEF WorkInv
  <2> QED BY <2>1, <2>2, <2>3, <2>4, <2>5 DEF WorkflowTypes
<1> QED BY <1>1, <1>2, WorkInvariant, LogInvariant, PTL
-----------------------------------------------------------------------------
(* What the services of deploy-monitor's lab say.                          *)

\* what has a smaller number
Before(S, e) == {d \in S : d.sequence < e.sequence}

\* what there is, in the order of the numbers
Listing(S) ==
    [n \in 1..Cardinality(S) |-> CHOOSE e \in S : Cardinality(Before(S, e)) = n - 1]

(* A finite set whose elements have numbers of their own is listed by them *)
(* (fixtures.py, log_page: events.sort).                                   *)
LEMMA RankedInOrder ==
    ASSUME NEW S, IsFiniteSet(S), \A e \in S : e.sequence \in Int,
           \A d, e \in S : d.sequence = e.sequence => d = e
    PROVE  LET L == Listing(S)
           IN  L \in Seq(S) /\ Range(L) = S /\ Len(L) = Cardinality(S)
<1> DEFINE size == Cardinality(S)
           rank == [e \in S |-> Cardinality(Before(S, e)) + 1]
           L == [n \in 1..size |-> CHOOSE e \in S : Cardinality(Before(S, e)) = n - 1]
<1>1. size \in Nat
  BY FS_CardinalityType
<1>2. ASSUME NEW e \in S PROVE rank[e] \in 1..size /\ Cardinality(Before(S, e)) \in Nat
  <2>1. Before(S, e) \in SUBSET S /\ Before(S, e) # S
    BY DEF Before
  <2>2. IsFiniteSet(Before(S, e)) /\ Cardinality(Before(S, e)) <= size
        /\ Cardinality(Before(S, e)) # size
    BY <2>1, FS_Subset
  <2>3. Cardinality(Before(S, e)) \in Nat
    BY <2>2, FS_CardinalityType
  <2> QED BY <1>1, <2>2, <2>3
<1>3. ASSUME NEW d \in S, NEW e \in S, d.sequence < e.sequence PROVE rank[d] # rank[e]
  <2>1. Before(S, d) \subseteq Before(S, e) /\ d \in Before(S, e) /\ d \notin Before(S, d)
    BY <1>3 DEF Before
  <2>2. IsFiniteSet(Before(S, e))
    BY FS_Subset DEF Before
  <2>3. Cardinality(Before(S, d)) # Cardinality(Before(S, e))
    BY <2>1, <2>2, FS_Subset
  <2> QED BY <1>2, <2>3
<1>4. rank \in Injection(S, 1..size)
  <2>1. rank \in [S -> 1..size]
    BY <1>2
  <2>2. ASSUME NEW d \in S, NEW e \in S, rank[d] = rank[e] PROVE d = e
    <3>1. ~(d.sequence < e.sequence) /\ ~(e.sequence < d.sequence)
      BY <1>3, <2>2
    <3> QED BY <3>1
  <2> HIDE DEF rank
  <2> QED BY <2>1, <2>2 DEF Injection, IsInjective
<1>5. rank \in Surjection(S, 1..size)
  <2>1. IsFiniteSet(1..size) /\ Cardinality(1..size) = size
    BY <1>1, FS_Interval
  <2> HIDE DEF rank
  <2> QED BY <1>4, <2>1, FS_Injection
<1>6. ASSUME NEW n \in 1..size
      PROVE  L[n] \in S /\ Cardinality(Before(S, L[n])) = n - 1
  <2>1. PICK e \in S : rank[e] = n
    <3> HIDE DEF rank
    <3> QED BY <1>5 DEF Surjection
  <2>2. Cardinality(Before(S, e)) = n - 1
    BY <1>2, <2>1
  <2> QED BY <2>2
<1>7. ASSUME NEW e \in S PROVE \E n \in 1..size : L[n] = e
  <2> DEFINE n == rank[e]
  <2>1. n \in 1..size
    BY <1>2
  <2>2. L[n] \in S /\ rank[L[n]] = n
    <3>1. L[n] \in S /\ Cardinality(Before(S, L[n])) = n - 1
      BY <1>6, <2>1
    <3> HIDE DEF n, L
    <3> QED BY <2>1, <3>1
  <2> HIDE DEF L
  <2>3. L[n] = e
    BY <1>4, <2>2 DEF Injection, IsInjective
  <2> QED BY <2>1, <2>3
<1>8. DOMAIN L = 1..size
  OBVIOUS
<1> HIDE DEF L
<1>9. L \in Seq(S) /\ Len(L) = size
  <2>1. L \in [1..size -> S]
    <3>1. L = [n \in 1..size |-> L[n]]
      BY DEF L
    <3> QED BY <3>1, <1>6
  <2> QED BY <1>1, <2>1
<1>10. Range(L) = S
  BY <1>6, <1>7, <1>8 DEF Range
<1> QED BY <1>9, <1>10 DEF L, Listing

\* all that happened in an interval
Happened(start, end) == Heartbeats(start, end) \cup Errors(start, end)

\* when a deployment was accepted, and under which plan
Stored == store.accepted \in Int /\ plan \in Faults

(* The heartbeats and the error of an interval have numbers of their own   *)
(* (fixtures.py, log_page: sequence).                                      *)
LEMMA HappenedIs ==
    ASSUME Stored, NEW start \in Int, NEW end \in Int
    PROVE  /\ IsFiniteSet(Happened(start, end)) /\ IsFiniteSet(Heartbeats(start, end))
           /\ \A e \in Happened(start, end) : e.sequence \in Int
           /\ \A d, e \in Happened(start, end) : d.sequence = e.sequence => d = e
<1> DEFINE ticks == {n \in 0..end : start <= store.accepted + 2 * n /\ store.accepted + 2 * n <= end}
           beating == {j \in 1..Replicas : ~(plan.fault = "lost_heartbeats" /\ j = Replicas)}
           beat(tick, i) == [sequence |-> 4 * tick + i - 1, at |-> store.accepted + 2 * tick, replica |-> i,
                             version |-> IF plan.fault = "event_version" THEN "old" ELSE store.version,
                             level |-> "heartbeat"]
           half == (plan.rollout + plan.after) \div 2
           error == [sequence |-> 4 * half + 3, at |-> ErrorAt,
                     replica |-> 1, version |-> store.version, level |-> "error"]
<1>1. Replicas \in 1..3 /\ half \in Nat
  BY MonitorAssumption DEF Stored
<1>2. Heartbeats(start, end) = {beat(tick, i) : tick \in ticks, i \in beating}
  BY DEF Heartbeats
<1>3. Errors(start, end) \subseteq {error}
  BY DEF Errors
<1>4. ticks \subseteq Nat /\ beating \subseteq 1..3
  BY <1>1
<1>5. IsFiniteSet(ticks \X beating)
  <2>1. IsFiniteSet(0..end) /\ IsFiniteSet(1..Replicas)
    BY <1>1, FS_Interval
  <2>2. ticks \in SUBSET (0..end) /\ beating \in SUBSET (1..Replicas)
    OBVIOUS
  <2>3. IsFiniteSet(ticks) /\ IsFiniteSet(beating)
    <3> HIDE DEF ticks, beating
    <3> QED BY <2>1, <2>2, FS_Subset
  <2> HIDE DEF ticks, beating
  <2> QED BY <2>3, FS_Product
<1> HIDE DEF ticks, beating
<1>6. IsFiniteSet(Heartbeats(start, end))
  <2> DEFINE all == [p \in ticks \X beating |-> beat(p[1], p[2])]
  <2>1. all \in Surjection(ticks \X beating, Heartbeats(start, end))
    <3> HIDE DEF beat
    <3>1. \A p \in ticks \X beating : all[p] \in Heartbeats(start, end)
      BY <1>2
    <3>2. \A e \in Heartbeats(start, end) : \E p \in ticks \X beating : all[p] = e
      <4> SUFFICES ASSUME NEW e \in Heartbeats(start, end)
                   PROVE  \E p \in ticks \X beating : all[p] = e
        OBVIOUS
      <4>1. PICK tick \in ticks, i \in beating : e = beat(tick, i)
        BY <1>2
      <4>2. <<tick, i>> \in ticks \X beating /\ all[<<tick, i>>] = e
        BY <4>1
      <4> QED BY <4>2
    <3> QED BY <3>1, <3>2 DEF Surjection
  <2> HIDE DEF all
  <2> QED BY <1>5, <2>1, FS_Surjection
<1>7. IsFiniteSet(Happened(start, end))
  <2>1. IsFiniteSet({error})
    BY FS_Singleton
  <2> HIDE DEF error
  <2>2. IsFiniteSet(Errors(start, end))
    BY <1>3, <2>1, FS_Subset
  <2> QED BY <1>6, <2>2, FS_Union DEF Happened
<1>8. ASSUME NEW tick \in Nat, NEW i \in 1..3
      PROVE  beat(tick, i).sequence = 4 * tick + i - 1
  OBVIOUS
<1>9. error.sequence = 4 * half + 3
  OBVIOUS
<1> HIDE DEF beat, error, half
<1>10. ASSUME NEW e \in Happened(start, end)
       PROVE  \/ \E tick \in Nat, i \in 1..3 : e = beat(tick, i) /\ e.sequence = 4 * tick + i - 1
              \/ e = error /\ e.sequence = 4 * half + 3
  BY <1>2, <1>3, <1>4, <1>8, <1>9 DEF Happened
<1>11. ASSUME NEW d \in Happened(start, end), NEW e \in Happened(start, end), d.sequence = e.sequence
       PROVE  d = e
  <2>1. CASE d = error /\ e = error
    BY <2>1
  <2>2. ASSUME NEW tick \in Nat, NEW i \in 1..3, 4 * tick + i - 1 = 4 * half + 3 PROVE FALSE
    BY <1>1, <2>2
  <2>3. ASSUME NEW t \in Nat, NEW i \in 1..3, NEW u \in Nat, NEW j \in 1..3,
               4 * t + i - 1 = 4 * u + j - 1
        PROVE  t = u /\ i = j
    BY <2>3
  <2> QED BY <1>10, <1>11, <2>1, <2>2, <2>3
<1>12. \A e \in Happened(start, end) : e.sequence \in Int
  BY <1>1, <1>10
<1> QED BY <1>6, <1>7, <1>11, <1>12

(* A service that has them lists all events of an interval, and one that   *)
(* is behind lists none (fixtures.py, log_page).                           *)
LEMMA LoggedIs ==
    ASSUME Stored, NEW start \in Int, NEW end \in Int
    PROVE  LET L == Logged(start, end)
               S == Happened(start, end)
           IN  /\ ~Missing(end) => L = Listing(S) /\ L \in Seq(S) /\ Range(L) = S /\ Len(L) = Cardinality(S)
               /\ Missing(end) => L = <<>>
<1>1. CASE Missing(end)
  <2>1. Cardinality({}) = 0
    BY FS_EmptySet
  <2>2. Logged(start, end) = [n \in 1..0 |->
            CHOOSE e \in {} : Cardinality({d \in {} : d.sequence < e.sequence}) = n - 1]
    BY <1>1, <2>1 DEF Logged
  <2>3. 1..0 = {}
    OBVIOUS
  <2> QED BY <1>1, <2>2, <2>3
<1>2. CASE ~Missing(end)
  <2> DEFINE S == Happened(start, end)
  <2>1. Logged(start, end) = Listing(S)
    BY <1>2 DEF Logged, Happened, Before, Listing
  <2>2. Listing(S) \in Seq(S) /\ Range(Listing(S)) = S /\ Len(Listing(S)) = Cardinality(S)
    <3>1. /\ IsFiniteSet(S) /\ \A e \in S : e.sequence \in Int
          /\ \A d, e \in S : d.sequence = e.sequence => d = e
      BY HappenedIs
    <3> HIDE DEF S
    <3> QED BY <3>1, RankedInOrder
  <2> QED BY <1>2, <2>1, <2>2
<1> QED BY <1>1, <1>2

(* A part of a list (a page).                                              *)
LEMMA PartOf ==
    ASSUME NEW S, NEW L \in Seq(S), NEW a \in Nat, NEW b \in Nat, b <= Len(L)
    PROVE  /\ SubSeq(L, a + 1, b) \in Seq(S)
           /\ Range(SubSeq(L, a + 1, b)) = {L[n] : n \in a + 1..b}
<1> DEFINE part == SubSeq(L, a + 1, b)
           k == IF a + 1 <= b THEN b - a ELSE 0
<1>1. part = [i \in 1..k |-> L[a + i]]
  BY DEF part
<1>2. \A i \in 1..k : a + i \in 1..Len(L) /\ L[a + i] \in S
  OBVIOUS
<1>3. k \in Nat
  OBVIOUS
<1>4. \A n \in a + 1..b : n - a \in 1..k /\ a + (n - a) = n
  OBVIOUS
<1>5. \A i \in 1..k : a + i \in a + 1..b
  OBVIOUS
<1> HIDE DEF part, k
<1>6. part \in Seq(S)
  BY <1>1, <1>2, <1>3
<1>7. Range(part) = {L[n] : n \in a + 1..b}
  <2>1. DOMAIN part = 1..k /\ \A i \in 1..k : part[i] = L[a + i]
    BY <1>1
  <2>2. ASSUME NEW n \in a + 1..b PROVE L[n] \in Range(part)
    <3>1. n - a \in 1..k /\ part[n - a] = L[n]
      BY <1>4, <2>1
    <3> QED BY <2>1, <3>1 DEF Range
  <2>3. ASSUME NEW x \in Range(part) PROVE x \in {L[n] : n \in a + 1..b}
    BY <1>5, <2>1 DEF Range
  <2> QED BY <2>2, <2>3
<1> QED BY <1>6, <1>7 DEF part

(* Two lists put together (what was read, and a page).                     *)
LEMMA BothOf ==
    ASSUME NEW S, NEW s \in Seq(S), NEW t \in Seq(S)
    PROVE  s \o t \in Seq(S) /\ Range(s \o t) = Range(s) \cup Range(t)
<1>1. /\ s \o t \in Seq(S) /\ DOMAIN (s \o t) = 1..Len(s) + Len(t)
      /\ DOMAIN s = 1..Len(s) /\ DOMAIN t = 1..Len(t) /\ Len(s) \in Nat /\ Len(t) \in Nat
  OBVIOUS
<1>2. \A i \in 1..Len(s) : (s \o t)[i] = s[i]
  OBVIOUS
<1>3. \A i \in 1..Len(t) : (s \o t)[Len(s) + i] = t[i]
  OBVIOUS
<1>4. \A i \in 1..Len(s) + Len(t) : i \in 1..Len(s) \/ i - Len(s) \in 1..Len(t)
  BY <1>1
<1>5. ASSUME NEW x \in Range(s) \cup Range(t) PROVE x \in Range(s \o t)
  <2>1. CASE x \in Range(s)
    BY <1>1, <1>2, <2>1 DEF Range
  <2>2. CASE x \in Range(t)
    <3>1. PICK i \in 1..Len(t) : x = t[i]
      BY <1>1, <2>2 DEF Range
    <3>2. Len(s) + i \in 1..Len(s) + Len(t)
      BY <1>1
    <3> QED BY <1>1, <1>3, <3>1, <3>2 DEF Range
  <2> QED BY <1>5, <2>1, <2>2
<1>6. ASSUME NEW x \in Range(s \o t) PROVE x \in Range(s) \cup Range(t)
  <2>1. PICK i \in 1..Len(s) + Len(t) : x = (s \o t)[i]
    BY <1>1, <1>6 DEF Range
  <2>2. CASE i \in 1..Len(s)
    BY <1>1, <1>2, <2>1, <2>2 DEF Range
  <2>3. CASE i - Len(s) \in 1..Len(t)
    <3>1. (s \o t)[Len(s) + (i - Len(s))] = t[i - Len(s)] /\ Len(s) + (i - Len(s)) = i
      BY <1>1, <1>3, <2>3
    <3> QED BY <1>1, <2>1, <2>3, <3>1 DEF Range
  <2> QED BY <1>4, <2>2, <2>3
<1> QED BY <1>1, <1>5, <1>6

-----------------------------------------------------------------------------
(* deploy-monitor: what it knows at each stage.                            *)

\* the stages at which the rollout has been seen, and at which the window is timed
Watching == mon.pc \in {"observe", "status", "observed", "read", "judge"}
Timing == mon.pc \in {"status", "observed", "read", "judge"}

\* the status at a time of the services' clock
StatusAt(t) ==
    LET drifted == plan.fault = "drift" /\ t >= store.accepted + plan.after
        replica(i) == [version |-> IF drifted \/ (i = 1 /\ plan.fault = "wrong_version")
                                   THEN "old" ELSE store.version,
                       ready |-> t >= store.accepted + plan.rollout]
    IN  [i \in 1..(IF plan.fault = "missing_replica" THEN Replicas - 1 ELSE Replicas) |-> replica(i)]

\* until it ends it has said nothing, and from the acknowledgement on the deployment is there
Known ==
    /\ plan \in Faults /\ mon.acknowledged \in BOOLEAN
    /\ mon.pc # "done" => mon.outcome = None /\ mon.reason = None
    /\ store # None => store.accepted \in Int
    /\ mon.pc \notin {"deploy", "done"} =>
          mon.acknowledged /\ store.version = asked.version /\ store.accepted \in Int

\* a status that has come is of a time that is past
Replied ==
    mon.pc \in {"rolling", "observed"} =>
        /\ mon.reply.at \in Int /\ mon.reply.replicas = StatusAt(mon.reply.at)
        /\ jumped = 0 => mon.reply.at <= clock
        /\ jumped >= 0 => mon.reply.at <= Source

\* the window begins when all replicas are ready
RolledOut ==
    Watching =>
        /\ plan.fault \notin {"wrong_version", "missing_replica"}
        /\ mon.epoch >= store.accepted + plan.rollout
        /\ jumped = 0 => mon.epoch <= mon.began
        /\ jumped >= 0 => mon.epoch <= Source

\* how much of the window has passed, and that a status is of its end
Timed ==
    /\ Timing =>
          /\ mon.elapsed \in Nat /\ mon.began + mon.elapsed <= clock
          /\ mon.until \in mon.epoch..WindowEnd
          /\ mon.elapsed >= asked.window => mon.until = WindowEnd
          /\ mon.elapsed > 0 => mon.until > mon.epoch
    /\ mon.pc = "observed" =>
          /\ jumped = 0 => mon.reply.at >= mon.began + mon.elapsed
          /\ jumped >= 0 => mon.reply.at >= mon.epoch

\* by how much the clocks may be apart
Slack == IF jumped = 0 THEN 0 ELSE MaxSkew

\* a status that was judged was of the version asked for
Steady ==
    mon.pc \in {"read", "judge"} /\ plan.fault = "drift" =>
        store.accepted + plan.after > mon.epoch + mon.elapsed - Slack

\* faults that a scan does not get past
Silent == {"missing_logs", "stale_logs"}
Unsound == {"gap", "cursor_loop", "unavailable", "malformed"}
\* what happened in the interval
Events == Happened(mon.epoch, mon.until)

\* what has been read is the first so many events of the interval
Scanned ==
    mon.pc = "read" =>
        /\ mon.cursor \in Nat /\ mon.events \in Seq(Events)
        /\ mon.cursor = 0 => mon.events = <<>> /\ mon.mark = None
        /\ mon.cursor > 0 =>
              /\ mon.mark = mon.until /\ mon.cursor < Cardinality(Events)
              /\ plan.fault \notin Silent \cup Unsound \cup {"duplicate"}
              /\ Range(mon.events) = {Listing(Events)[n] : n \in 1..mon.cursor}

\* a scan that reached the end of an interval has all that happened in it
Gathered ==
    mon.pc = "judge" =>
        /\ mon.events \in Seq(Events) /\ mon.mark \in Int /\ plan.fault \notin Unsound
        /\ mon.mark >= mon.until /\ mon.until > mon.epoch =>
              /\ plan.fault \notin Silent
              /\ plan.fault = "snapshot_changed" => Cardinality(Events) <= PageSize
              /\ plan.fault = "duplicate" => mon.events = <<>>
              /\ plan.fault # "duplicate" => Range(mon.events) = Events

\* what has happened if it says so
Backs(outcome, reason) ==
    /\ outcome = "pass" =>
          /\ store.version = asked.version
          /\ clock - mon.began >= asked.window
          /\ \/ plan.fault \in {"healthy", "late_error", "boundary_error", "drift"}
             \/ /\ plan.fault = "snapshot_changed"
                /\ Cardinality(Heartbeats(mon.epoch, WindowEnd)) <= PageSize
          /\ Erring => ErrorAt \notin mon.epoch..WindowEnd
          /\ plan.fault = "drift" => store.accepted + plan.after > WindowEnd - Slack
    /\ reason = "error_in_observation_window" => Erring /\ ErrorAt \in mon.epoch..WindowEnd
    /\ reason = "version_changed_in_log_history" => plan.fault = "event_version"
    /\ reason = "version_or_readiness_regressed" => plan.fault = "drift" \/ jumped < 0

\* what it says in the end
Told ==
    /\ mon.pc = "done" => mon.outcome \in {"pass", "fail", "inconclusive"}
    /\ mon.outcome \in {"pass", "fail"} => mon.acknowledged
    /\ Backs(mon.outcome, mon.reason)

\* the invariant of the monitor
SayInv == Known /\ Replied /\ RolledOut /\ Timed /\ Steady /\ Scanned /\ Gathered /\ Told

(* The lesser of two numbers (min, in the waits and the pages).            *)
LEMMA MinOfTwo ==
    ASSUME NEW a \in Nat, NEW b \in Nat
    PROVE  Min({a, b}) = IF a <= b THEN a ELSE b
<1>1. {a, b} \in SUBSET Nat /\ {a, b} # {}
  OBVIOUS
<1>2. Min({a, b}) \in {a, b} /\ Min({a, b}) <= a /\ Min({a, b}) <= b
  BY <1>1, LeastIsIn
<1> QED BY <1>2

(* A plan and what was asked are what the model lets them be.              *)
LEMMA Inputs ==
    ASSUME MonInv, Known
    PROVE  /\ asked.version # "old" /\ asked.window \in Nat \ {0} /\ asked.grace \in Nat
           /\ plan.fault \in FaultNames /\ plan.rollout \in Nat /\ plan.after \in Nat
           /\ plan.delay \in Nat
           /\ clock \in Nat /\ jumped \in Int /\ Source \in Int
           /\ mon.epoch \in Int /\ mon.began \in Int /\ mon.began <= clock
           /\ None \notin Int /\ WindowEnd \in Int
<1>1. /\ asked \in [version : STRING \ {"old"}, window : Nat \ {0}, deadline : Nat \ {0},
                    grace : Nat, poll : Nat \ {0}]
      /\ plan \in [fault : FaultNames, rollout : Nat, after : Nat, delay : Nat, moves : BOOLEAN]
  BY MonitorAssumption DEF MonInv, Known
<1>2. clock \in Nat /\ jumped \in Int /\ mon.epoch \in Int /\ mon.began \in Int /\ mon.began <= clock
  BY DEF MonInv
<1>3. asked.window \in Nat
  BY <1>1
<1> QED BY <1>1, <1>2, <1>3, MonitorAssumption DEF Source, WindowEnd

(* None is nothing that the monitor says.                                  *)
LEMMA SaidNothing ==
    None \notin {"pass", "fail", "inconclusive", "error_in_observation_window",
                "version_changed_in_log_history", "version_or_readiness_regressed"}
BY MonitorAssumption DEF Outcomes, Reasons

(* While it waits, only time passes (Clock).                               *)
LEMMA TimeTells ==
    ASSUME MonInv, SayInv, Tick \/ Jump
    PROVE  SayInv'
<1>1. /\ UNCHANGED <<asked, plan, store, mon>> /\ mon.pc # "done"
      /\ clock' \in Nat /\ clock' >= clock /\ clock \in Nat /\ jumped \in Int /\ jumped' \in Int
      /\ jumped' # jumped => jumped = 0 /\ clock' = clock
  <2>1. clock \in Nat /\ jumped \in Int
    BY DEF MonInv
  <2>2. CASE Tick
    BY <2>1, <2>2 DEF Tick
  <2>3. CASE Jump
    <3>1. jumped' \in Jumps /\ Jumps \subseteq Int /\ jumped = 0
      BY <2>3, MonitorAssumption DEF Jump
    <3> QED BY <2>1, <2>3, <3>1 DEF Jump
  <2> QED BY <2>2, <2>3
<1>2. /\ jumped' = 0 => jumped = 0
      /\ jumped' >= 0 => jumped >= 0 /\ Source' >= Source
      /\ Source \in Int /\ Source' \in Int
  <2>1. CASE jumped' = jumped
    <3>1. Source \in Int /\ Source' \in Int
      BY <1>1 DEF Source
    <3>2. Source' >= Source
      <4> DEFINE a == clock
                 b == clock'
                 c == jumped
      <4>1. a \in Int /\ b \in Int /\ c \in Int /\ b >= a
        BY <1>1
      <4>2. Source = a + c /\ Source' = b + c
        BY <2>1 DEF Source
      <4> HIDE DEF a, b, c
      <4>3. b + c >= a + c
        BY <4>1
      <4> QED BY <4>2, <4>3
    <3>3. jumped' = 0 => jumped = 0
      BY <2>1
    <3> QED BY <1>1, <2>1, <3>1, <3>2, <3>3
  <2>2. CASE jumped = 0 /\ clock' = clock /\ jumped' # jumped
    <3> DEFINE a == clock
               b == jumped'
    <3>1. a \in Int /\ b \in Int /\ Source = a + 0 /\ Source' = a + b
      BY <1>1, <2>2 DEF Source
    <3> HIDE DEF a, b
    <3>2. b >= 0 => a + b >= a + 0
      BY <3>1
    <3>3. (b >= 0 => Source' >= Source) /\ Source \in Int /\ Source' \in Int
      BY <3>1, <3>2
    <3>4. jumped >= 0
      BY <2>2
    <3> QED BY Zenon, <2>2, <3>3, <3>4 DEF b
  <2> QED BY <1>1, <2>1, <2>2
<1>3. Known'
  BY <1>1 DEF SayInv, Known
<1>4. Replied'
  <2>1. mon.reply.replicas = StatusAt(mon.reply.at) => (mon.reply.replicas = StatusAt(mon.reply.at))'
    BY <1>1 DEF StatusAt
  <2> QED BY <1>1, <1>2, <2>1 DEF SayInv, Replied
<1>5. RolledOut'
  <2>1. mon.epoch \in Int
    BY DEF MonInv
  <2> QED BY <1>1, <1>2, <2>1 DEF SayInv, RolledOut, Watching
<1>6. WindowEnd' = WindowEnd /\ Events' = Events /\ (Watching' <=> Watching) /\ (Timing' <=> Timing)
  BY <1>1 DEF WindowEnd, Events, Happened, Heartbeats, Errors, Erring, ErrorAt, Watching, Timing
<1>7. Timed'
  <2>1. mon.began \in Int /\ (Timing => mon.elapsed \in Nat)
    BY DEF MonInv, SayInv, Timed
  <2>2. Timing => mon.began + mon.elapsed <= clock'
    BY <1>1, <2>1 DEF SayInv, Timed
  <2> QED BY <1>1, <1>2, <1>6, <2>2 DEF SayInv, Timed
<1>8. Steady'
  <2>1. Slack \in Int /\ Slack' \in Int /\ Slack' >= Slack
    BY <1>2 DEF Slack, MaxSkew
  <2>2. mon.pc \in {"read", "judge"} =>
          mon.epoch + mon.elapsed \in Int /\ store.accepted + plan.after \in Int
    BY Inputs DEF SayInv, Known, Timed, Timing
  <2> DEFINE far == mon.epoch + mon.elapsed
             near == store.accepted + plan.after
  <2>3. mon.pc \in {"read", "judge"} /\ plan.fault = "drift" =>
          /\ far \in Int /\ near \in Int /\ mon.elapsed \in Int /\ mon.epoch \in Int
          /\ near > far - Slack
    <3>1. mon.pc \in {"read", "judge"} /\ plan.fault = "drift" =>
            near > mon.epoch + (mon.elapsed - Slack)
      BY Zenon DEF SayInv, Steady
    <3>2. mon.pc \in {"read", "judge"} =>
            /\ mon.elapsed \in Int /\ mon.epoch \in Int
            /\ mon.epoch + (mon.elapsed - Slack) = far - Slack
      BY <2>1, Inputs DEF SayInv, Timed, Timing
    <3> QED BY <2>2, <3>1, <3>2
  <2>4. far' = far /\ near' = near
    BY <1>1
  <2> HIDE DEF far, near
  <2>5. mon.pc \in {"read", "judge"} /\ plan.fault = "drift" => near' > far' - Slack'
    BY <2>1, <2>3, <2>4
  <2>6. mon' = mon /\ plan' = plan
    BY <1>1
  <2>7. mon.pc \in {"read", "judge"} /\ plan.fault = "drift" =>
          far - Slack' = mon.epoch + (mon.elapsed - Slack')
    BY <2>1, <2>3 DEF far
  <2>8. mon.pc \in {"read", "judge"} /\ plan.fault = "drift" =>
          near' > mon'.epoch + (mon'.elapsed - Slack')
    BY <2>4, <2>5, <2>6, <2>7
  <2> QED BY Zenon, <2>6, <2>8 DEF Steady, near
<1>9. Scanned' /\ Gathered'
  BY <1>1, <1>6 DEF SayInv, Scanned, Gathered
<1>10. Told'
  <2>1. mon'.outcome = None /\ mon'.reason = None /\ mon'.pc # "done"
    BY <1>1, <1>3 DEF Known
  <2> QED BY <2>1, SaidNothing DEF Told, Backs
<1> QED BY <1>3, <1>4, <1>5, <1>7, <1>8, <1>9, <1>10 DEF SayInv

(* Giving up says nothing of the deployment (service.py, run).             *)
LEMMA GivenUpTells ==
    ASSUME MonInv, SayInv, NEW reason \in {"unavailable", "log_coverage_not_proven"},
           mon' = GivenUp(reason), UNCHANGED <<asked, plan, clock, jumped>>,
           store' # None => store'.accepted \in Int
    PROVE  SayInv'
<1>1. /\ mon'.pc = "done" /\ mon'.acknowledged = mon.acknowledged
      /\ mon'.outcome = "inconclusive" /\ mon'.reason = reason
  BY DEF GivenUp, Unmonitored
<1>2. Known'
  BY <1>1 DEF SayInv, Known
<1>3. Replied' /\ RolledOut' /\ Timed' /\ Steady' /\ Scanned' /\ Gathered'
  BY <1>1 DEF Replied, RolledOut, Watching, Timed, Timing, Steady, Scanned, Gathered
<1>4. Told'
  BY <1>1 DEF Told, Backs
<1> QED BY <1>2, <1>3, <1>4 DEF SayInv

(* A conclusion is backed by what has happened (service.py, run).          *)
LEMMA ConcludedTells ==
    ASSUME MonInv, SayInv, mon.pc \notin {"deploy", "done"}, NEW outcome \in {"pass", "fail"}, NEW reason,
           mon' = Concluded(outcome, reason), UNCHANGED <<asked, plan, store, clock, jumped>>,
           Backs(outcome, reason)
    PROVE  SayInv'
<1>1. /\ mon'.pc = "done" /\ mon'.acknowledged = mon.acknowledged
      /\ mon'.outcome = outcome /\ mon'.reason = reason
      /\ mon'.epoch = mon.epoch /\ mon'.began = mon.began
  BY FieldsAre DEF Concluded, MonInv
<1>2. mon.acknowledged = TRUE
  BY DEF SayInv, Known
<1>3. Known'
  BY <1>1 DEF SayInv, Known
<1>4. Replied' /\ RolledOut' /\ Timed' /\ Steady' /\ Scanned' /\ Gathered'
  BY <1>1 DEF Replied, RolledOut, Watching, Timed, Timing, Steady, Scanned, Gathered
<1>5. Backs(outcome, reason)'
  BY <1>1 DEF Backs, WindowEnd, Heartbeats, Erring, ErrorAt, Slack
<1>6. Told'
  BY <1>1, <1>2, <1>5 DEF Told
<1> QED BY <1>3, <1>4, <1>6 DEF SayInv

(* A deployment that is acknowledged is there, as it was asked for         *)
(* (Store.deploy).                                                         *)
LEMMA DeployTells ==
    ASSUME MonInv, SayInv, Deploy
    PROVE  SayInv'
<1>1. /\ mon.pc = "deploy" /\ UNCHANGED <<asked, plan, clock, jumped>>
      /\ store' = store \/ store' = Deployed
  BY DEF Deploy, Unavailable, Step
<1>2. Deployed.accepted \in Int /\ (store # None => store.accepted \in Int)
  BY Inputs DEF Deployed, SayInv, Known
<1>3. CASE mon' = GivenUp("unavailable")
  BY <1>1, <1>2, <1>3, GivenUpTells
<1>4. CASE /\ Deployed.version = asked.version /\ store' = Deployed
           /\ mon' = [mon EXCEPT !.pc = "rollout", !.acknowledged = TRUE]
  <2>1. /\ mon'.pc = "rollout" /\ mon'.acknowledged = TRUE
        /\ mon'.outcome = mon.outcome /\ mon'.reason = mon.reason
    BY <1>4, FieldsAre DEF MonInv
  <2>2. mon'.outcome = None /\ mon'.reason = None
    BY <1>1, <2>1 DEF SayInv, Known
  <2>3. store'.version = asked.version /\ store'.accepted \in Int
    BY <1>2, <1>4
  <2>4. Known'
    BY <1>1, <2>1, <2>2, <2>3 DEF SayInv, Known
  <2>5. Replied' /\ RolledOut' /\ Timed' /\ Steady' /\ Scanned' /\ Gathered'
    BY <2>1 DEF Replied, RolledOut, Watching, Timed, Timing, Steady, Scanned, Gathered
  <2>6. Told'
    BY <2>1, <2>2, SaidNothing DEF Told, Backs
  <2> QED BY <2>4, <2>5, <2>6 DEF SayInv
<1> QED BY <1>3, <1>4 DEF Deploy, Unavailable, Step

(* An answer is a status of the moment it is given (fixtures.py, status).  *)
LEMMA AnswerTells ==
    ASSUME MonInv, SayInv, NEW pc, NEW next, Answer(pc, next),
           <<pc, next>> \in {<<"rollout", "rolling">>, <<"status", "observed">>}
    PROVE  SayInv'
<1>1. /\ mon.pc = pc /\ UNCHANGED <<asked, plan, store, clock, jumped>>
      /\ pc \in {"rollout", "status"}
  BY DEF Answer, Unavailable, Step
<1>2. store.accepted \in Int
  BY <1>1 DEF SayInv, Known
<1>3. CASE mon' = GivenUp("unavailable")
  BY <1>1, <1>2, <1>3, GivenUpTells
<1>4. CASE mon' = [mon EXCEPT !.pc = next, !.reply = [at |-> Source, replicas |-> Status]]
  <2> DEFINE reply == [at |-> Source, replicas |-> Status]
  <2>1. reply.at = Source /\ reply.replicas = StatusAt(Source)
    BY DEF Status, StatusAt
  <2>2. mon' = [mon EXCEPT !.pc = next, !.reply = reply]
    BY <1>4
  <2> HIDE DEF reply
  <2>3. /\ mon'.pc = next /\ mon'.reply = reply
        /\ mon'.epoch = mon.epoch /\ mon'.began = mon.began /\ mon'.until = mon.until
        /\ mon'.elapsed = mon.elapsed /\ mon'.acknowledged = mon.acknowledged
        /\ mon'.outcome = mon.outcome /\ mon'.reason = mon.reason
    BY <2>2, FieldsAre DEF MonInv
  <2>4. Source \in Int /\ clock \in Nat /\ mon.began \in Int /\ Source = clock + jumped
    BY Inputs DEF SayInv, Source
  <2>5. /\ mon'.outcome = None /\ mon'.reason = None /\ mon.acknowledged
        /\ store.version = asked.version
    BY <1>1, <2>3 DEF SayInv, Known
  <2>6. Known'
    BY <1>1, <1>2, <2>3, <2>5 DEF SayInv, Known
  <2>7. Replied'
    <3>1. StatusAt(Source)' = StatusAt(Source) /\ Source' = Source
      BY <1>1 DEF StatusAt, Source
    <3>2. jumped = 0 => Source <= clock
      BY <2>4
    <3> QED BY <1>1, <2>1, <2>3, <2>4, <3>1, <3>2 DEF Replied
  <2>8. WindowEnd' = WindowEnd
    BY <1>1, <2>3 DEF WindowEnd
  <2>9. RolledOut' /\ Timed'
    <3>1. CASE pc = "rollout"
      BY <1>1, <2>3, <3>1 DEF RolledOut, Watching, Timed, Timing
    <3>2. CASE pc = "status"
      <4>1. mon.pc = "status" /\ mon'.pc = "observed" /\ Source' = Source
        BY <1>1, <2>3, <3>2 DEF Source
      <4>2. RolledOut'
        BY <1>1, <2>3, <4>1 DEF SayInv, RolledOut, Watching
      <4>3. jumped = 0 => Source >= mon.began + mon.elapsed
        BY <2>4, <4>1 DEF SayInv, Timed, Timing
      <4>4. jumped >= 0 => Source >= mon.epoch
        BY <4>1, Inputs DEF SayInv, RolledOut, Watching
      <4> QED BY <1>1, <2>1, <2>3, <2>8, <4>1, <4>2, <4>3, <4>4 DEF SayInv, Timed, Timing
    <3> QED BY <1>1, <3>1, <3>2
  <2>10. Steady' /\ Scanned' /\ Gathered'
    BY <1>1, <2>3 DEF Steady, Scanned, Gathered
  <2>11. Told'
    BY <1>1, <2>3, <2>5, SaidNothing DEF Told, Backs
  <2> QED BY <2>6, <2>7, <2>9, <2>10, <2>11 DEF SayInv
<1> QED BY <1>1, <1>3, <1>4 DEF Answer, Unavailable, Step

(* When all replicas are ready, and when they are not (fixtures.py,        *)
(* status).                                                                *)
LEMMA AllReadyIs ==
    ASSUME MonInv, Known, store.version = asked.version, store.accepted \in Int, NEW t \in Int
    PROVE  AllReady(StatusAt(t)) <=>
              /\ plan.fault \notin {"wrong_version", "missing_replica"}
              /\ t >= store.accepted + plan.rollout
              /\ ~(plan.fault = "drift" /\ t >= store.accepted + plan.after)
<1> DEFINE drifted == plan.fault = "drift" /\ t >= store.accepted + plan.after
           n == IF plan.fault = "missing_replica" THEN Replicas - 1 ELSE Replicas
           version(i) == IF drifted \/ (i = 1 /\ plan.fault = "wrong_version") THEN "old" ELSE store.version
           ready == t >= store.accepted + plan.rollout
           S == StatusAt(t)
<1>1. Replicas \in 1..3 /\ n \in Nat /\ asked.version # "old"
  BY MonitorAssumption, Inputs
<1>2. S = [i \in 1..n |-> [version |-> version(i), ready |-> ready]]
  BY DEF StatusAt
<1>3. DOMAIN S = 1..n /\ Len(S) = n /\ \A i \in 1..n : S[i].version = version(i) /\ S[i].ready = ready
  <2> HIDE DEF n, version, ready, S
  <2>1. DOMAIN S = 1..n /\ \A i \in 1..n : S[i].version = version(i) /\ S[i].ready = ready
    BY <1>2
  <2>2. Len(S) = n
    BY <1>1, <2>1
  <2> QED BY <2>1, <2>2
<1> HIDE DEF S
<1>4. AllReady(S) <=> n = Replicas /\ \A i \in 1..n : version(i) = asked.version /\ ready
  <2> HIDE DEF n, version, ready
  <2> QED BY <1>3 DEF AllReady
<1>5. n = Replicas <=> plan.fault # "missing_replica"
  BY <1>1
<1>6. ASSUME n = Replicas
      PROVE  /\ 1 \in 1..n
             /\ (\A i \in 1..n : version(i) = asked.version) <=> ~drifted /\ plan.fault # "wrong_version"
  <2>1. 1 \in 1..n
    BY <1>1, <1>6
  <2> HIDE DEF drifted, n
  <2> QED BY <1>1, <2>1
<1> HIDE DEF n, version, ready, drifted
<1>7. AllReady(S) <=> n = Replicas /\ ready /\ \A i \in 1..n : version(i) = asked.version
  BY <1>4, <1>6
<1> QED BY <1>5, <1>6, <1>7 DEF ready, drifted, S

(* The window begins when every replica is seen ready (service.py,         *)
(* run).                                                                   *)
LEMMA RolloutTells ==
    ASSUME MonInv, SayInv, JudgeRollout
    PROVE  SayInv'
<1> DEFINE wake == clock + Min({asked.poll, asked.deadline - (clock - mon.started)})
           again == [mon EXCEPT !.pc = "rollout", !.reply = NoReply, !.wake = wake]
           begins == [mon EXCEPT !.pc = "observe", !.epoch = mon.reply.at, !.began = clock,
                                 !.reply = NoReply]
<1>1. mon.pc = "rolling" /\ UNCHANGED <<asked, plan, store, clock, jumped>>
  BY DEF JudgeRollout, Step
<1>2. /\ store.accepted \in Int /\ store.version = asked.version /\ mon.acknowledged
      /\ mon.outcome = None /\ mon.reason = None
      /\ mon.reply.at \in Int /\ mon.reply.replicas = StatusAt(mon.reply.at)
  BY <1>1 DEF SayInv, Known, Replied
<1>3. \/ mon' = Concluded("fail", "rollout_timeout_or_wrong_version")
      \/ mon' = begins /\ AllReady(mon.reply.replicas)
      \/ mon' = again
  <2>1. Step(CASE clock - mon.started > asked.deadline ->
                    Concluded("fail", "rollout_timeout_or_wrong_version")
               [] clock - mon.started <= asked.deadline /\ AllReady(mon.reply.replicas) -> begins
               [] clock - mon.started = asked.deadline /\ ~AllReady(mon.reply.replicas) ->
                    Concluded("fail", "rollout_timeout_or_wrong_version")
               [] OTHER -> again)
    BY Zenon DEF JudgeRollout
  <2> HIDE DEF again, begins
  <2> QED BY <2>1 DEF Step
<1>4. CASE mon' = Concluded("fail", "rollout_timeout_or_wrong_version")
  <2>1. Backs("fail", "rollout_timeout_or_wrong_version")
    BY DEF Backs
  <2> QED BY <1>1, <1>4, <2>1, ConcludedTells
<1>5. CASE mon' = again
  <2>1. /\ mon'.pc = "rollout" /\ mon'.acknowledged = mon.acknowledged
        /\ mon'.outcome = mon.outcome /\ mon'.reason = mon.reason
    BY <1>5, FieldsAre DEF MonInv
  <2>2. Known'
    BY <1>1, <1>2, <2>1 DEF SayInv, Known
  <2>3. Replied' /\ RolledOut' /\ Timed' /\ Steady' /\ Scanned' /\ Gathered'
    BY <2>1 DEF Replied, RolledOut, Watching, Timed, Timing, Steady, Scanned, Gathered
  <2>4. Told'
    BY <1>2, <2>1, SaidNothing DEF Told, Backs
  <2> QED BY <2>2, <2>3, <2>4 DEF SayInv
<1>6. CASE mon' = begins /\ AllReady(mon.reply.replicas)
  <2>1. /\ mon'.pc = "observe" /\ mon'.acknowledged = mon.acknowledged
        /\ mon'.outcome = mon.outcome /\ mon'.reason = mon.reason
        /\ mon'.epoch = mon.reply.at /\ mon'.began = clock
    BY <1>6, FieldsAre DEF MonInv
  <2>2. Known'
    BY <1>1, <1>2, <2>1 DEF SayInv, Known
  <2>3. /\ plan.fault \notin {"wrong_version", "missing_replica"}
        /\ mon.reply.at >= store.accepted + plan.rollout
    BY <1>2, <1>6, AllReadyIs DEF SayInv
  <2>4. RolledOut'
    <3>1. Source' = Source
      BY <1>1 DEF Source
    <3>2. /\ jumped = 0 => mon.reply.at <= clock
          /\ jumped >= 0 => mon.reply.at <= Source
      BY <1>1 DEF SayInv, Replied
    <3> QED BY <1>1, <2>1, <2>3, <3>1, <3>2 DEF RolledOut
  <2>5. Replied' /\ Timed' /\ Steady' /\ Scanned' /\ Gathered'
    BY <2>1 DEF Replied, Timed, Timing, Steady, Scanned, Gathered
  <2>6. Told'
    BY <1>2, <2>1, SaidNothing DEF Told, Backs
  <2> QED BY <2>2, <2>4, <2>5, <2>6 DEF SayInv
<1> QED BY <1>3, <1>4, <1>5, <1>6

(* An observation is of what has passed of the window (service.py, run).   *)
LEMMA ObserveTells ==
    ASSUME MonInv, SayInv, Observe
    PROVE  SayInv'
<1> DEFINE elapsed == clock - mon.began
           least == Min({elapsed, asked.window})
           until == mon.epoch + least
<1>1. /\ mon.pc = "observe" /\ UNCHANGED <<asked, plan, store, clock, jumped>>
      /\ mon' = [mon EXCEPT !.pc = "status", !.elapsed = elapsed, !.wake = 0, !.until = until]
  BY DEF Observe, Step
<1>2. /\ elapsed \in Nat /\ asked.window \in Nat \ {0} /\ mon.epoch \in Int /\ mon.began \in Int
      /\ clock \in Nat
  BY Inputs DEF SayInv
<1>3. least = IF elapsed <= asked.window THEN elapsed ELSE asked.window
  BY <1>2, MinOfTwo
<1>4. /\ until \in mon.epoch..WindowEnd
      /\ elapsed >= asked.window => until = WindowEnd
      /\ elapsed > 0 => until > mon.epoch
  BY <1>2, <1>3 DEF WindowEnd
<1>5. mon.began + elapsed <= clock
  BY <1>2
<1> HIDE DEF elapsed, until
<1>6. /\ mon'.pc = "status" /\ mon'.acknowledged = mon.acknowledged
      /\ mon'.outcome = mon.outcome /\ mon'.reason = mon.reason
      /\ mon'.epoch = mon.epoch /\ mon'.began = mon.began
      /\ mon'.elapsed = elapsed /\ mon'.until = until
  BY <1>1, FieldsAre DEF MonInv
<1>7. Known'
  BY <1>1, <1>6 DEF SayInv, Known
<1>8. RolledOut'
  BY <1>1, <1>6 DEF SayInv, RolledOut, Watching, Source
<1>9. Timed'
  <2>1. WindowEnd' = WindowEnd
    BY <1>1, <1>6 DEF WindowEnd
  <2> QED BY <1>1, <1>2, <1>4, <1>5, <1>6, <2>1 DEF Timed
<1>10. Replied' /\ Steady' /\ Scanned' /\ Gathered'
  BY <1>6 DEF Replied, Steady, Scanned, Gathered
<1>11. Told'
  <2>1. mon'.outcome = None /\ mon'.reason = None
    BY <1>1, <1>6 DEF SayInv, Known
  <2> QED BY <1>6, <2>1, SaidNothing DEF Told, Backs
<1> QED BY <1>7, <1>8, <1>9, <1>10, <1>11 DEF SayInv

(* A status of the window's end so far is of the version asked for, or the *)
(* version or the readiness has changed (service.py, run).                 *)
LEMMA StatusTells ==
    ASSUME MonInv, SayInv, JudgeStatus
    PROVE  SayInv'
<1> DEFINE skew == mon.reply.at - mon.epoch - mon.elapsed
           next == [mon EXCEPT !.pc = "read", !.reply = NoReply, !.events = <<>>,
                               !.cursor = 0, !.pages = 0, !.mark = None]
<1>1. mon.pc = "observed" /\ UNCHANGED <<asked, plan, store, clock, jumped>>
  BY DEF JudgeStatus, Step
<1>2. /\ store.accepted \in Int /\ store.version = asked.version /\ mon.acknowledged
      /\ mon.outcome = None /\ mon.reason = None
      /\ mon.reply.at \in Int /\ mon.reply.replicas = StatusAt(mon.reply.at)
      /\ mon.elapsed \in Nat /\ mon.epoch \in Int /\ mon.began \in Int /\ jumped \in Int
      /\ plan.rollout \in Nat /\ plan.after \in Nat
  BY <1>1, Inputs DEF SayInv, Known, Replied, Timed, Timing
<1>3. \/ mon' = GivenUp("unavailable")
      \/ mon' = Concluded("fail", "version_or_readiness_regressed") /\ ~AllReady(mon.reply.replicas)
      \/ mon' = next /\ AllReady(mon.reply.replicas) /\ ~(-skew > MaxSkew)
  <2>1. Step(CASE skew > MaxSkew \/ -skew > MaxSkew -> GivenUp("unavailable")
               [] skew \in -MaxSkew..MaxSkew /\ ~AllReady(mon.reply.replicas) ->
                        Concluded("fail", "version_or_readiness_regressed")
               [] OTHER -> next)
    BY Zenon DEF JudgeStatus
  <2>2. skew \in Int /\ MaxSkew \in Int
    BY <1>2 DEF MaxSkew
  <2> HIDE DEF next, skew
  <2>3. skew \in -MaxSkew..MaxSkew <=> ~(skew > MaxSkew \/ -skew > MaxSkew)
    BY <2>2
  <2> QED BY <2>1, <2>3 DEF Step
<1>4. CASE mon' = GivenUp("unavailable")
  BY <1>1, <1>2, <1>4, GivenUpTells
<1>5. CASE mon' = Concluded("fail", "version_or_readiness_regressed") /\ ~AllReady(mon.reply.replicas)
  <2>1. \/ plan.fault = "drift"
        \/ ~(mon.reply.at >= store.accepted + plan.rollout)
    BY <1>1, <1>2, <1>5, AllReadyIs DEF SayInv, RolledOut, Watching
  <2>2. jumped >= 0 => mon.reply.at >= store.accepted + plan.rollout
    BY <1>1, <1>2 DEF SayInv, RolledOut, Watching, Timed
  <2>3. Backs("fail", "version_or_readiness_regressed")
    BY <1>2, <2>1, <2>2 DEF Backs
  <2> QED BY <1>1, <1>5, <2>3, ConcludedTells
<1>6. CASE mon' = next /\ AllReady(mon.reply.replicas) /\ ~(-skew > MaxSkew)
  <2>1. /\ mon'.pc = "read" /\ mon'.acknowledged = mon.acknowledged
        /\ mon'.outcome = mon.outcome /\ mon'.reason = mon.reason
        /\ mon'.epoch = mon.epoch /\ mon'.began = mon.began
        /\ mon'.elapsed = mon.elapsed /\ mon'.until = mon.until
        /\ mon'.events = <<>> /\ mon'.cursor = 0 /\ mon'.mark = None
    BY <1>6, FieldsAre DEF MonInv
  <2>2. Known'
    BY <1>1, <1>2, <2>1 DEF SayInv, Known
  <2>3. RolledOut'
    BY <1>1, <2>1 DEF SayInv, RolledOut, Watching, Source
  <2>4. WindowEnd' = WindowEnd
    BY <1>1, <2>1 DEF WindowEnd
  <2>5. Timed'
    BY <1>1, <2>1, <2>4 DEF SayInv, Timed, Timing
  <2>6. Steady'
    <3>1. plan.fault = "drift" => mon.reply.at < store.accepted + plan.after
      BY <1>2, <1>6, AllReadyIs DEF SayInv
    <3>2. mon.reply.at >= mon.epoch + mon.elapsed - Slack
      <4>1. CASE jumped = 0
        BY <1>1, <1>2, <4>1 DEF SayInv, RolledOut, Watching, Timed, Slack
      <4>2. CASE jumped # 0
        BY <1>2, <1>6, <4>2 DEF Slack, MaxSkew
      <4> QED BY <4>1, <4>2
    <3>3. Slack' = Slack /\ Slack \in Int
      BY <1>1 DEF Slack, MaxSkew
    <3>4. plan.fault = "drift" => store.accepted + plan.after > mon.epoch + mon.elapsed - Slack
      <4> DEFINE near == store.accepted + plan.after
                 far == mon.epoch + mon.elapsed - Slack
      <4>1. near \in Int /\ far \in Int
        BY <1>2, <3>3
      <4> HIDE DEF near, far
      <4>2. plan.fault = "drift" => mon.reply.at < near
        BY <3>1 DEF near
      <4>3. mon.reply.at >= far
        BY Zenon, <3>2 DEF far
      <4>4. plan.fault = "drift" => near > far
        BY <1>2, <4>1, <4>2, <4>3
      <4> QED BY Zenon, <4>4 DEF near, far
    <3> QED BY <1>1, <2>1, <3>3, <3>4 DEF Steady
  <2>7. Scanned'
    <3>1. <<>> \in Seq(Events')
      OBVIOUS
    <3> QED BY <2>1, <3>1 DEF Scanned
  <2>8. Replied' /\ Gathered'
    BY <2>1 DEF Replied, Gathered
  <2>9. Told'
    BY <1>2, <2>1, SaidNothing DEF Told, Backs
  <2> QED BY <2>2, <2>3, <2>5, <2>6, <2>7, <2>8, <2>9 DEF SayInv
<1> QED BY <1>3, <1>4, <1>5, <1>6

(* A page goes on where the last one ended, and the last one ends with all *)
(* that happened, or without having reached the end (service.py,           *)
(* _interval).                                                             *)
LEMMA ReadTells ==
    ASSUME MonInv, SayInv, ReadLogs
    PROVE  SayInv'
<1> DEFINE page == Page(mon.epoch, mon.until, mon.cursor)
           events == mon.events \o page.events
           L == Logged(mon.epoch, mon.until)
           last == Min({mon.cursor + PageSize, Len(L)})
           next == [mon EXCEPT !.events = events, !.mark = page.through, !.pages = @ + 1,
                               !.pc = IF page.next = None THEN "judge" ELSE "read",
                               !.cursor = IF page.next = None THEN @ ELSE page.next]
<1>1. mon.pc = "read" /\ UNCHANGED <<asked, plan, store, clock, jumped>>
  BY DEF ReadLogs, Unavailable, Step
<1>2. /\ store.accepted \in Int /\ store.version = asked.version /\ mon.acknowledged
      /\ mon.outcome = None /\ mon.reason = None /\ Stored
      /\ mon.epoch \in Int /\ mon.until \in Int /\ None \notin Int /\ plan.fault \in FaultNames
  BY <1>1, Inputs DEF SayInv, Known, Timed, Timing, Stored
<1>3. CASE mon' = GivenUp("unavailable")
  BY <1>1, <1>2, <1>3, GivenUpTells
<1>4. CASE /\ ~page.gap /\ mon.mark \in {None, page.through} /\ Ascending(events)
           /\ page.next # None => page.next > mon.cursor
           /\ plan.fault \notin {"unavailable", "malformed"}
           /\ mon' = next
  <2>1. /\ mon.cursor \in Nat /\ mon.events \in Seq(Events)
        /\ mon.cursor = 0 => mon.events = <<>> /\ mon.mark = None
        /\ mon.cursor > 0 =>
              /\ mon.mark = mon.until /\ mon.cursor < Cardinality(Events)
              /\ plan.fault \notin Silent \cup Unsound \cup {"duplicate"}
              /\ Range(mon.events) = {Listing(Events)[n] : n \in 1..mon.cursor}
    BY <1>1 DEF SayInv, Scanned
  <2>2. /\ ~Missing(mon.until) => /\ L = Listing(Events) /\ L \in Seq(Events) /\ Range(L) = Events
                                  /\ Len(L) = Cardinality(Events)
        /\ Missing(mon.until) => L = <<>>
    BY <1>2, LoggedIs DEF Events
  <2>3. L \in Seq(Events) /\ Len(L) \in Nat /\ PageSize \in Nat \ {0}
    <3> HIDE DEF L
    <3>1. L \in Seq(Events)
      BY <2>2, EmptySeq
    <3> QED BY <3>1, MonitorAssumption
  <2>4. last = IF mon.cursor + PageSize <= Len(L) THEN mon.cursor + PageSize ELSE Len(L)
    BY <2>1, <2>3, MinOfTwo
  <2>5. /\ page.gap = (plan.fault = "gap")
        /\ page.through = IF Missing(mon.until) THEN mon.epoch
                          ELSE IF plan.fault = "snapshot_changed" /\ mon.cursor > 0
                               THEN mon.until + 1 ELSE mon.until
        /\ page.events = IF plan.fault = "duplicate" /\ last > mon.cursor
                         THEN <<L[mon.cursor + 1], L[mon.cursor + 1]>>
                         ELSE SubSeq(L, mon.cursor + 1, last)
        /\ page.next = CASE plan.fault = "cursor_loop" -> mon.cursor
                         [] plan.fault # "cursor_loop" /\ last < Len(L) -> last
                         [] OTHER -> None
    <3> HIDE DEF L
    <3> QED BY DEF Page, L
  <2>6. /\ mon'.pc = IF page.next = None THEN "judge" ELSE "read"
        /\ mon'.cursor = IF page.next = None THEN mon.cursor ELSE page.next
        /\ mon'.events = events /\ mon'.mark = page.through
        /\ mon'.acknowledged = mon.acknowledged
        /\ mon'.outcome = mon.outcome /\ mon'.reason = mon.reason
        /\ mon'.epoch = mon.epoch /\ mon'.began = mon.began
        /\ mon'.elapsed = mon.elapsed /\ mon'.until = mon.until
    <3> HIDE DEF page, events
    <3> QED BY <1>4, FieldsAre DEF MonInv
  <2> HIDE DEF page, last, L
  <2>7. plan.fault # "gap" /\ plan.fault # "cursor_loop"
    <3>1. plan.fault # "gap"
      BY <1>4, <2>5
    <3>2. ASSUME plan.fault = "cursor_loop" PROVE FALSE
      <4>1. page.next = mon.cursor
        BY <2>5, <3>2
      <4>2. mon.cursor > mon.cursor
        BY <1>2, <1>4, <2>1, <4>1
      <4> QED BY <2>1, <4>2
    <3> QED BY <3>1, <3>2
  <2>8. plan.fault \notin Unsound
    BY <1>4, <2>7 DEF Unsound
  <2>9. ~(plan.fault = "duplicate" /\ last > mon.cursor)
    <3> SUFFICES ASSUME plan.fault = "duplicate", last > mon.cursor PROVE FALSE
      OBVIOUS
    <3> DEFINE x == L[mon.cursor + 1]
               k == Len(mon.events)
    <3>1. mon.cursor + 1 \in 1..Len(L)
      BY <2>1, <2>3, <2>4
    <3>2. x \in Events
      BY <2>3, <3>1
    <3>3. x.sequence \in Int
      BY <1>2, <3>2, HappenedIs DEF Events
    <3>4. page.events = <<x, x>>
      BY <2>5
    <3> HIDE DEF x
    <3>5. <<x, x>> \in Seq(Events) /\ Len(<<x, x>>) = 2
      BY <3>2
    <3>6. /\ k \in Nat /\ DOMAIN events = 1..k + 2
          /\ events[k + 1] = x /\ events[k + 2] = x
      BY <2>1, <3>4, <3>5
    <3> HIDE DEF k, events
    <3>7. x.sequence < x.sequence
      <4>1. k + 1 \in DOMAIN events /\ k + 2 \in DOMAIN events /\ k + 1 < k + 2
        BY <3>6
      <4>2. events[k + 1].sequence < events[k + 2].sequence
        BY <1>4, <4>1 DEF Ascending
      <4> QED BY <3>6, <4>2
    <3> QED BY <3>3, <3>7
  <2>10. page.events = SubSeq(L, mon.cursor + 1, last) /\ last \in Nat /\ last <= Len(L)
    <3>1. page.events = SubSeq(L, mon.cursor + 1, last)
      BY <2>5, <2>9
    <3>2. last \in Nat /\ last <= Len(L)
      BY <2>1, <2>3, <2>4
    <3> QED BY <3>1, <3>2
  <2>11. /\ page.events \in Seq(Events)
         /\ Range(page.events) = {L[n] : n \in mon.cursor + 1..last}
    <3>1. /\ SubSeq(L, mon.cursor + 1, last) \in Seq(Events)
          /\ Range(SubSeq(L, mon.cursor + 1, last)) = {L[n] : n \in mon.cursor + 1..last}
      <4> DEFINE a == mon.cursor
      <4>1. a \in Nat /\ last \in Nat /\ last <= Len(L) /\ L \in Seq(Events)
        BY <2>1, <2>3, <2>10
      <4> HIDE DEF a
      <4>2. /\ SubSeq(L, a + 1, last) \in Seq(Events)
            /\ Range(SubSeq(L, a + 1, last)) = {L[n] : n \in a + 1..last}
        BY <4>1, PartOf
      <4> QED BY <4>2 DEF a
    <3> QED BY <2>10, <3>1
  <2>12. events \in Seq(Events) /\ Range(events) = Range(mon.events) \cup Range(page.events)
    BY <2>1, <2>11, BothOf
  <2> HIDE DEF events
  <2>13. Events' = Events /\ WindowEnd' = WindowEnd
    BY <1>1, <2>6 DEF Events, Happened, Heartbeats, Errors, Erring, ErrorAt, WindowEnd
  <2>14. page.next = IF last < Len(L) THEN last ELSE None
    BY <2>5, <2>7
  <2>15. Scanned' /\ Gathered'
    <3>1. CASE Missing(mon.until)
      <4>1. Len(L) = 0 /\ last = 0
        BY <2>1, <2>2, <2>3, <2>4, <3>1
      <4>2. page.next = None /\ page.through = mon.epoch
        BY <2>5, <2>14, <3>1, <4>1
      <4>3. Scanned'
        BY <2>6, <4>2 DEF Scanned
      <4>4. mon'.mark = mon.epoch /\ ~(mon.epoch >= mon.until /\ mon.until > mon.epoch)
        BY <1>2, <2>6, <4>2
      <4> QED BY <1>1, <1>2, <2>6, <2>8, <2>12, <2>13, <4>3, <4>4 DEF Gathered
    <3>2. CASE ~Missing(mon.until)
      <4>1. plan.fault \notin Silent
        BY <3>2 DEF Missing, Silent
      <4>2. page.through = mon.until /\ (plan.fault = "snapshot_changed" => mon.cursor = 0)
        <5>1. CASE mon.cursor = 0
          BY <2>5, <3>2, <5>1
        <5>2. CASE mon.cursor # 0
          <6>1. mon.mark = mon.until /\ page.through = mon.until
            BY <1>2, <1>4, <2>1, <5>2
          <6>2. mon.until + 1 # mon.until
            BY <1>2
          <6> QED BY <2>1, <2>5, <3>2, <5>2, <6>1, <6>2
        <5> QED BY <5>1, <5>2
      <4>3. /\ L = Listing(Events) /\ Range(L) = Events /\ Len(L) = Cardinality(Events)
        BY <2>2, <3>2
      <4>4. Range(mon.events) = {L[n] : n \in 1..mon.cursor}
        <5>1. CASE mon.cursor = 0
          <6>1. mon.events = <<>> /\ 1..mon.cursor = {}
            BY <2>1, <5>1
          <6> QED BY <6>1 DEF Range
        <5>2. CASE mon.cursor > 0
          BY <2>1, <4>3, <5>2
        <5> QED BY <2>1, <5>1, <5>2
      <4>5. mon.cursor <= last
        BY <2>1, <2>3, <2>4, <4>3
      <4>6. Range(events) = {L[n] : n \in 1..last}
        <5>1. 1..last = (1..mon.cursor) \cup (mon.cursor + 1..last)
          BY <2>1, <2>10, <4>5
        <5> QED BY <2>11, <2>12, <4>4, <5>1
      <4>7. CASE last < Len(L)
        <5>1. page.next = last /\ last # None /\ last > 0 /\ last > mon.cursor
          BY <1>2, <2>1, <2>3, <2>4, <2>10, <2>14, <4>7
        <5>2. plan.fault # "duplicate"
          BY <2>9, <5>1
        <5>3. mon'.pc = "read" /\ mon'.cursor = last
          BY <2>6, <5>1
        <5>4. Scanned'
          BY <1>1, <2>6, <2>8, <2>10, <2>12, <2>13, <4>1, <4>2, <4>3, <4>6, <4>7, <5>1, <5>2, <5>3
             DEF Scanned
        <5> QED BY <5>3, <5>4 DEF Gathered
      <4>8. CASE ~(last < Len(L))
        <5>1. page.next = None /\ last = Len(L)
          BY <2>3, <2>10, <2>14, <4>8
        <5>2. mon'.pc = "judge"
          BY <2>6, <5>1
        <5>3. Range(events) = Events
          <6>1. DOMAIN L = 1..Len(L)
            BY <2>3
          <6> QED BY <4>3, <4>6, <5>1, <6>1 DEF Range
        <5>4. plan.fault = "duplicate" => events = <<>>
          <6> SUFFICES ASSUME plan.fault = "duplicate" PROVE events = <<>>
            OBVIOUS
          <6>1. mon.cursor = 0 /\ ~(last > mon.cursor)
            BY <2>1, <2>9
          <6>2. 1..last = {}
            BY <2>10, <6>1
          <6>3. Range(events) = {}
            BY <4>6, <6>2
          <6>4. DOMAIN events = 1..Len(events) /\ Len(events) \in Nat
            BY <2>12
          <6>5. DOMAIN events = {}
            BY <6>3 DEF Range
          <6>6. Len(events) = 0
            BY <6>4, <6>5
          <6> QED BY <2>12, <6>6, EmptySeq
        <5>5. plan.fault = "snapshot_changed" => Cardinality(Events) <= PageSize
          BY <2>3, <2>4, <4>2, <4>3, <5>1
        <5>6. Gathered'
          BY <1>1, <1>2, <2>6, <2>8, <2>12, <2>13, <4>1, <4>2, <5>2, <5>3, <5>4, <5>5 DEF Gathered
        <5> QED BY <5>2, <5>6 DEF Scanned
      <4> QED BY <4>7, <4>8
    <3> QED BY <3>1, <3>2
  <2>16. mon'.pc \in {"read", "judge"}
    BY <2>6
  <2>17. Known'
    BY <1>1, <1>2, <2>6, <2>16 DEF SayInv, Known
  <2>18. RolledOut'
    BY <1>1, <2>6, <2>16 DEF SayInv, RolledOut, Watching, Source
  <2>19. Timed'
    BY <1>1, <2>6, <2>13, <2>16 DEF SayInv, Timed, Timing
  <2>20. Steady'
    <3>1. Slack' = Slack
      BY <1>1 DEF Slack
    <3> QED BY <1>1, <2>6, <3>1 DEF SayInv, Steady
  <2>21. Replied'
    BY <2>16 DEF Replied
  <2>22. Told'
    BY <1>2, <2>6, <2>16, SaidNothing DEF Told, Backs
  <2> QED BY <2>15, <2>17, <2>18, <2>19, <2>20, <2>21, <2>22 DEF SayInv
<1> QED BY <1>3, <1>4 DEF ReadLogs, Unavailable, Step

\* how far an earlier scan had got
Marked == mon.before \in Int

(* Every heartbeat is of the version that is deployed, or of the one that  *)
(* faulty logs name; an error is of the version deployed.                  *)
LEMMA EventsAre ==
    ASSUME MonInv, Known, store.accepted \in Int, NEW start \in Int, NEW end \in Int,
           NEW e \in Happened(start, end)
    PROVE  /\ e.level = "error" => Erring /\ ErrorAt \in start..end
           /\ e.version = IF e.level = "heartbeat" /\ plan.fault = "event_version"
                          THEN "old" ELSE store.version
           /\ e.level = "heartbeat" /\ e.replica = Replicas => plan.fault # "lost_heartbeats"
<1>1. CASE e \in Heartbeats(start, end)
  <2>1. PICK tick \in Nat, i \in {j \in 1..Replicas : ~(plan.fault = "lost_heartbeats" /\ j = Replicas)} :
          e = [sequence |-> 4 * tick + i - 1, at |-> store.accepted + 2 * tick, replica |-> i,
               version |-> IF plan.fault = "event_version" THEN "old" ELSE store.version,
               level |-> "heartbeat"]
    BY <1>1 DEF Heartbeats
  <2>2. /\ e.level = "heartbeat" /\ e.replica = i
        /\ e.version = IF plan.fault = "event_version" THEN "old" ELSE store.version
    BY <2>1
  <2> QED BY <2>1, <2>2
<1>2. CASE e \in Errors(start, end)
  <2>1. /\ e.level = "error" /\ e.version = store.version
        /\ Erring /\ start <= ErrorAt /\ ErrorAt <= end
    BY <1>2 DEF Errors
  <2>2. ErrorAt \in Int
    BY Inputs DEF ErrorAt
  <2> QED BY <2>1, <2>2
<1> QED BY <1>1, <1>2 DEF Happened

(* An error that happened in an interval is one of its events.             *)
LEMMA ErrorShows ==
    ASSUME NEW start, NEW end, Erring, start <= ErrorAt, ErrorAt <= end
    PROVE  \E e \in Happened(start, end) : e.level = "error"
<1> DEFINE e == [sequence |-> 4 * ((plan.rollout + plan.after) \div 2) + 3, at |-> ErrorAt,
                 replica |-> 1, version |-> store.version, level |-> "error"]
<1>1. e \in Errors(start, end)
  BY DEF Errors
<1>2. e.level = "error"
  OBVIOUS
<1> HIDE DEF e
<1> QED BY <1>1, <1>2 DEF Happened

(* What a scan shows of an interval is judged (service.py, run).           *)
LEMMA WindowTells ==
    ASSUME MonInv, SayInv, Marked, JudgeWindow
    PROVE  SayInv'
<1> DEFINE again(wake) == [mon EXCEPT !.pc = "observe", !.before = mon.mark,
                                      !.events = <<>>, !.mark = None, !.cursor = 0, !.pages = 0,
                                      !.wake = wake]
           errs == \E i \in DOMAIN mon.events : mon.events[i].level = "error"
           other == \E i \in DOMAIN mon.events : mon.events[i].version # asked.version
           more == asked.window + asked.grace - mon.elapsed
           wakes == clock + Min({asked.poll, more})
           passed == "version_and_complete_error_free_window_verified"
<1>1. mon.pc = "judge" /\ UNCHANGED <<asked, plan, store, clock, jumped>>
  BY DEF JudgeWindow, Step
<1>2. /\ store.accepted \in Int /\ store.version = asked.version /\ mon.acknowledged
      /\ mon.outcome = None /\ mon.reason = None /\ Known
      /\ mon.epoch \in Int /\ mon.until \in mon.epoch..WindowEnd /\ plan.fault \in FaultNames
      /\ asked.version # "old" /\ asked.window \in Nat \ {0} /\ WindowEnd \in Int
      /\ mon.elapsed \in Nat /\ mon.began \in Int /\ clock \in Nat
      /\ mon.began + mon.elapsed <= clock
  BY <1>1, Inputs DEF SayInv, Known, Timed, Timing
<1>3. /\ mon.events \in Seq(Events) /\ mon.mark \in Int /\ plan.fault \notin Unsound
      /\ mon.mark >= mon.until /\ mon.until > mon.epoch =>
            /\ plan.fault \notin Silent
            /\ plan.fault = "snapshot_changed" => Cardinality(Events) <= PageSize
            /\ plan.fault = "duplicate" => mon.events = <<>>
            /\ plan.fault # "duplicate" => Range(mon.events) = Events
  BY <1>1 DEF SayInv, Gathered
<1>4. \/ mon' = GivenUp("unavailable")
      \/ mon' = GivenUp("log_coverage_not_proven")
      \/ mon' = Concluded("fail", "error_in_observation_window") /\ errs
      \/ mon' = Concluded("fail", "version_changed_in_log_history") /\ other
      \/ mon' = Concluded("pass", passed) /\ ~errs /\ ~other /\ Passes
      \/ mon' = again(wakes)
  <2>1. Step(CASE mon.mark < mon.before -> GivenUp("unavailable")
               [] mon.mark >= mon.before /\ errs -> Concluded("fail", "error_in_observation_window")
               [] OTHER ->
                    CASE other -> Concluded("fail", "version_changed_in_log_history")
                      [] ~other /\ Passes -> Concluded("pass", passed)
                      [] OTHER -> IF more <= 0 THEN GivenUp("log_coverage_not_proven")
                                               ELSE again(wakes))
    BY DEF JudgeWindow
  <2>2. mon.mark < mon.before \/ mon.mark >= mon.before
    BY <1>3 DEF Marked
  <2> HIDE DEF errs, other, again, more, wakes, passed
  <2> QED BY <2>1, <2>2 DEF Step
<1>5. \A i \in DOMAIN mon.events : mon.events[i] \in Events
  BY <1>3
<1>6. CASE mon' = GivenUp("unavailable") \/ mon' = GivenUp("log_coverage_not_proven")
  BY <1>1, <1>2, <1>6, GivenUpTells
<1>7. CASE mon' = Concluded("fail", "error_in_observation_window") /\ errs
  <2>1. PICK e \in Events : e.level = "error"
    BY <1>5, <1>7
  <2>2. Erring /\ ErrorAt \in mon.epoch..mon.until
    BY <1>2, <2>1, EventsAre DEF Events
  <2>3. Backs("fail", "error_in_observation_window")
    BY <1>2, <2>2 DEF Backs
  <2> QED BY <1>1, <1>7, <2>3, ConcludedTells
<1>8. CASE mon' = Concluded("fail", "version_changed_in_log_history") /\ other
  <2>1. PICK e \in Events : e.version # asked.version
    BY <1>5, <1>8
  <2>2. plan.fault = "event_version"
    BY <1>2, <2>1, EventsAre DEF Events
  <2>3. Backs("fail", "version_changed_in_log_history")
    BY <2>2 DEF Backs
  <2> QED BY <1>1, <1>8, <2>3, ConcludedTells
<1>9. CASE mon' = Concluded("pass", passed) /\ ~errs /\ ~other /\ Passes
  <2>1. mon.elapsed >= asked.window /\ mon.mark >= mon.until /\ Covered(mon.events)
    BY <1>9 DEF Passes, Complete
  <2>2. mon.until = WindowEnd /\ mon.until > mon.epoch
    BY <1>1, <1>2, <2>1 DEF SayInv, Timed, Timing
  <2>3. Replicas \in 1..3
    BY MonitorAssumption
  <2>4. PICK e \in Range(mon.events) : e.replica = Replicas /\ e.level = "heartbeat"
    <3>1. \A i \in 1..Replicas :
            {e.at : e \in {e \in Range(mon.events) : e.replica = i /\ e.level = "heartbeat"}} # {}
      BY <2>1 DEF Covered
    <3>2. Replicas \in 1..Replicas
      BY <2>3
    <3> QED BY <3>1, <3>2
  <2>5. plan.fault # "duplicate"
    <3>1. mon.events # <<>>
      BY <2>4 DEF Range
    <3> QED BY <1>3, <2>1, <2>2, <3>1
  <2>6. /\ Range(mon.events) = Events /\ plan.fault \notin Silent
        /\ plan.fault = "snapshot_changed" => Cardinality(Events) <= PageSize
    BY <1>3, <2>1, <2>2, <2>5
  <2>7. e.version = asked.version
    BY <1>9, <2>4 DEF Range
  <2>8. plan.fault # "lost_heartbeats" /\ plan.fault # "event_version"
    <3>1. e \in Happened(mon.epoch, mon.until)
      BY <2>4, <2>6 DEF Events
    <3> QED BY <1>2, <2>4, <2>7, <3>1, EventsAre
  <2>9. Erring => ErrorAt \notin mon.epoch..WindowEnd
    <3> SUFFICES ASSUME Erring, ErrorAt \in mon.epoch..WindowEnd PROVE FALSE
      OBVIOUS
    <3>1. mon.epoch <= ErrorAt /\ ErrorAt <= mon.until
      BY <2>2
    <3>2. \E d \in Events : d.level = "error"
      BY <3>1, ErrorShows DEF Events
    <3>3. \E i \in DOMAIN mon.events : mon.events[i].level = "error"
      BY <2>6, <3>2 DEF Range
    <3> QED BY <1>9, <3>3
  <2>10. plan.fault = "snapshot_changed" => Cardinality(Heartbeats(mon.epoch, WindowEnd)) <= PageSize
    <3> SUFFICES ASSUME plan.fault = "snapshot_changed"
                 PROVE  Cardinality(Heartbeats(mon.epoch, WindowEnd)) <= PageSize
      OBVIOUS
    <3>1. Errors(mon.epoch, WindowEnd) = {}
      BY DEF Errors, Erring
    <3>2. Events = Heartbeats(mon.epoch, WindowEnd)
      BY <2>2, <3>1 DEF Events, Happened
    <3> QED BY <2>6, <3>2
  <2>11. plan.fault \in {"healthy", "late_error", "boundary_error", "drift", "snapshot_changed"}
    <3>1. plan.fault \notin {"wrong_version", "missing_replica"}
      BY <1>1 DEF SayInv, RolledOut, Watching
    <3> QED BY <1>2, <1>3, <2>5, <2>6, <2>8, <3>1 DEF FaultNames, Unsound, Silent
  <2>12. plan.fault = "drift" => store.accepted + plan.after > WindowEnd - Slack
    <3> SUFFICES ASSUME plan.fault = "drift" PROVE store.accepted + plan.after > WindowEnd - Slack
      OBVIOUS
    <3> DEFINE near == store.accepted + plan.after
               w == asked.window
               t == mon.elapsed
    <3>1. near > mon.epoch + t - Slack
      BY Zenon, <1>1 DEF SayInv, Steady
    <3>2. /\ near \in Int /\ t \in Int /\ w \in Int /\ t >= w /\ Slack \in Int
          /\ WindowEnd = mon.epoch + w
      BY <1>2, <2>1, Inputs DEF Slack, MaxSkew, WindowEnd
    <3> HIDE DEF near, t, w
    <3>3. near > WindowEnd - Slack
      BY <1>2, <3>1, <3>2
    <3> QED BY Zenon, <3>3 DEF near
  <2>13. clock - mon.began >= asked.window
    BY <1>2, <2>1
  <2>14. Backs("pass", passed)
    BY <1>2, <2>9, <2>10, <2>11, <2>12, <2>13 DEF Backs
  <2> QED BY <1>1, <1>9, <2>14, ConcludedTells
<1>10. CASE mon' = again(wakes)
  <2> HIDE DEF wakes
  <2>1. /\ mon'.pc = "observe" /\ mon'.acknowledged = mon.acknowledged
        /\ mon'.outcome = mon.outcome /\ mon'.reason = mon.reason
        /\ mon'.epoch = mon.epoch /\ mon'.began = mon.began
    BY <1>10, FieldsAre DEF MonInv
  <2>2. Known'
    BY <1>1, <1>2, <2>1 DEF Known
  <2>3. RolledOut'
    BY <1>1, <2>1 DEF SayInv, RolledOut, Watching, Source
  <2>4. Replied' /\ Timed' /\ Steady' /\ Scanned' /\ Gathered'
    BY <2>1 DEF Replied, Timed, Timing, Steady, Scanned, Gathered
  <2>5. Told'
    BY <1>2, <2>1, SaidNothing DEF Told, Backs
  <2> QED BY <2>2, <2>3, <2>4, <2>5 DEF SayInv
<1> QED BY <1>4, <1>6, <1>7, <1>8, <1>9, <1>10

(* Every step of the monitor keeps what it says true (service.py).         *)
LEMMA SayNextInv ==
    MonInv /\ SayInv /\ Marked /\ (MonitorNext \/ UNCHANGED monitorVars) => SayInv' /\ Marked'
<1> SUFFICES ASSUME MonInv, SayInv, Marked, MonitorNext \/ UNCHANGED monitorVars
             PROVE  SayInv' /\ Marked'
  OBVIOUS
<1>1. CASE UNCHANGED monitorVars
  <2>1. UNCHANGED <<asked, plan, store, clock, jumped, mon>>
    BY <1>1 DEF monitorVars
  <2>2. /\ (Source' = Source) /\ (WindowEnd' = WindowEnd) /\ (Events' = Events) /\ (Slack' = Slack)
        /\ (Watching' <=> Watching) /\ (Timing' <=> Timing) /\ (Erring' <=> Erring)
    BY <2>1 DEF Source, WindowEnd, Events, Happened, Heartbeats, Errors, Erring, ErrorAt, Slack,
             Watching, Timing
  <2>3. Known' /\ RolledOut' /\ Timed' /\ Steady' /\ Scanned' /\ Gathered' /\ Marked'
    BY <2>1, <2>2 DEF SayInv, Known, RolledOut, Timed, Steady, Scanned, Gathered, Marked
  <2>4. Replied'
    <3>1. StatusAt(mon.reply.at)' = StatusAt(mon.reply.at)
      BY <2>1 DEF StatusAt
    <3> QED BY <2>1, <2>2, <3>1 DEF SayInv, Replied
  <2>5. Told'
    <3>1. Backs(mon.outcome, mon.reason)' <=> Backs(mon.outcome, mon.reason)
      BY <2>1, <2>2 DEF Backs, Heartbeats, ErrorAt
    <3> QED BY <2>1, <3>1 DEF SayInv, Told
  <2> QED BY <2>3, <2>4, <2>5 DEF SayInv
<1>2. CASE MonitorNext
  <2>1. SayInv'
    BY <1>2, DeployTells, AnswerTells, RolloutTells, ObserveTells, StatusTells, ReadTells, WindowTells,
       TimeTells DEF MonitorNext, AwaitRollout, AwaitStatus
  <2>2. Marked'
    <3>1. ASSUME NEW reason, mon' = GivenUp(reason) PROVE Marked'
      <4>1. mon'.before = 0
        BY <3>1 DEF GivenUp, Unmonitored
      <4> QED BY <4>1 DEF Marked
    <3>2. ASSUME NEW outcome, NEW reason, mon' = Concluded(outcome, reason) PROVE Marked'
      <4>1. mon'.before = mon.before
        BY <3>2, FieldsAre DEF Concluded, MonInv
      <4> QED BY <4>1 DEF Marked
    <3>3. CASE Deploy
      <4>1. CASE mon' = [mon EXCEPT !.pc = "rollout", !.acknowledged = TRUE]
        BY <4>1, FieldsAre DEF MonInv, Marked
      <4> QED BY <3>1, <3>3, <4>1 DEF Deploy, Unavailable, Step
    <3>4. CASE AwaitRollout \/ AwaitStatus
      <4> DEFINE reply == [at |-> Source, replicas |-> Status]
      <4>1. PICK next : mon' = [mon EXCEPT !.pc = next, !.reply = reply] \/ mon' = GivenUp("unavailable")
        BY <3>4 DEF AwaitRollout, AwaitStatus, Answer, Unavailable, Step
      <4> HIDE DEF reply
      <4>2. CASE mon' = [mon EXCEPT !.pc = next, !.reply = reply]
        BY <4>2, FieldsAre DEF MonInv, Marked
      <4> QED BY <3>1, <4>1, <4>2
    <3>5. CASE JudgeRollout
      <4> DEFINE wake == clock + Min({asked.poll, asked.deadline - (clock - mon.started)})
                 again == [mon EXCEPT !.pc = "rollout", !.reply = NoReply, !.wake = wake]
                 begins == [mon EXCEPT !.pc = "observe", !.epoch = mon.reply.at, !.began = clock,
                                       !.reply = NoReply]
      <4>1. Step(CASE clock - mon.started > asked.deadline ->
                        Concluded("fail", "rollout_timeout_or_wrong_version")
                   [] clock - mon.started <= asked.deadline /\ AllReady(mon.reply.replicas) -> begins
                   [] clock - mon.started = asked.deadline /\ ~AllReady(mon.reply.replicas) ->
                        Concluded("fail", "rollout_timeout_or_wrong_version")
                   [] OTHER -> again)
        BY Zenon, <3>5 DEF JudgeRollout
      <4>2. again.before = mon.before /\ begins.before = mon.before
        BY FieldsAre DEF MonInv
      <4> HIDE DEF again, begins
      <4>3. \/ mon' = Concluded("fail", "rollout_timeout_or_wrong_version")
            \/ mon' = again \/ mon' = begins
        BY <4>1 DEF Step
      <4> QED BY <3>2, <4>2, <4>3 DEF Marked
    <3>6. CASE Observe
      <4>1. PICK elapsed, until : mon' = [mon EXCEPT !.pc = "status", !.elapsed = elapsed, !.wake = 0,
                                                     !.until = until]
        BY <3>6 DEF Observe, Step
      <4> QED BY <4>1, FieldsAre DEF MonInv, Marked
    <3>7. CASE JudgeStatus
      <4>1. CASE mon' = [mon EXCEPT !.pc = "read", !.reply = NoReply, !.events = <<>>,
                                    !.cursor = 0, !.pages = 0, !.mark = None]
        BY <4>1, FieldsAre DEF MonInv, Marked
      <4> QED BY <3>1, <3>2, <3>7, <4>1 DEF JudgeStatus, Step
    <3>8. CASE ReadLogs
      <4> DEFINE page == Page(mon.epoch, mon.until, mon.cursor)
                 events == mon.events \o page.events
      <4>1. CASE Unavailable
        BY <3>1, <4>1 DEF Unavailable, Step
      <4>2. CASE Step([mon EXCEPT !.events = events, !.mark = page.through, !.pages = @ + 1,
                                  !.pc = IF page.next = None THEN "judge" ELSE "read",
                                  !.cursor = IF page.next = None THEN @ ELSE page.next])
        <5> HIDE DEF page, events
        <5>1. mon'.before = mon.before
          BY <4>2, FieldsAre DEF MonInv, Step
        <5> QED BY <5>1 DEF Marked
      <4> QED BY <3>8, <4>1, <4>2 DEF ReadLogs
    <3>9. CASE JudgeWindow
      <4> DEFINE again(wake) == [mon EXCEPT !.pc = "observe", !.before = mon.mark,
                                            !.events = <<>>, !.mark = None, !.cursor = 0, !.pages = 0,
                                            !.wake = wake]
      <4>1. \/ \E reason : Step(GivenUp(reason))
            \/ \E outcome, reason : Step(Concluded(outcome, reason))
            \/ \E wake : Step(again(wake))
        BY <3>9 DEF JudgeWindow
      <4>2. ASSUME NEW wake, mon' = again(wake) PROVE Marked'
        <5>1. mon'.before = mon.mark
          BY <4>2, FieldsAre DEF MonInv
        <5>2. mon.mark \in Int
          BY <3>9 DEF JudgeWindow, SayInv, Gathered
        <5> QED BY <5>1, <5>2 DEF Marked
      <4> HIDE DEF again
      <4> QED BY <3>1, <3>2, <4>1, <4>2 DEF Step
    <3>10. CASE Tick \/ Jump
      BY <3>10 DEF Tick, Jump, Marked
    <3> QED BY <1>2, <3>3, <3>4, <3>5, <3>6, <3>7, <3>8, <3>9, <3>10 DEF MonitorNext
  <2> QED BY <2>1, <2>2
<1> QED BY <1>1, <1>2

(* At first nothing has been asked of the services (service.py, run).      *)
LEMMA SayInitInv == WorkflowInit => SayInv /\ Marked
<1> SUFFICES ASSUME WorkflowInit PROVE SayInv /\ Marked
  OBVIOUS
<1>1. MonitorInit
  BY DEF WorkflowInit
<1>2. /\ mon.pc = "deploy" /\ mon.acknowledged = FALSE /\ mon.outcome = None /\ mon.reason = None
      /\ mon.before = 0
  BY <1>1 DEF MonitorInit, Unmonitored
<1>3. store # None => store.accepted \in Int
  BY <1>1 DEF MonitorInit
<1>4. Known
  BY <1>1, <1>2, <1>3 DEF Known, MonitorInit
<1>5. Replied /\ RolledOut /\ Timed /\ Steady /\ Scanned /\ Gathered
  BY <1>2 DEF Replied, RolledOut, Watching, Timed, Timing, Steady, Scanned, Gathered
<1>6. Told
  BY <1>2, SaidNothing DEF Told, Backs
<1> QED BY <1>2, <1>4, <1>5, <1>6 DEF SayInv, Marked

-----------------------------------------------------------------------------
(* What a run says of a deployment.                                        *)

\* deploy-monitor runs
IsMonitor == program.kind = "monitor"

\* what the monitor said is what the run says
Reported ==
    /\ IsMonitor => program.required = Shipped("monitor")
    /\ IsMonitor /\ stage = "exited" =>
          mon.pc = "done" /\ raw.evidence = MonitorEvidence /\ raw.exit = 0
    /\ IsMonitor /\ stage = "done" =>
          /\ raw # None => run.state = "completed"
          /\ run.state = "completed" =>
                run.outcome = mon.outcome /\ (run.effects = "unknown" <=> ~mon.acknowledged)

(* The evidence of deploy-monitor is always accepted (entrypoint.py): a    *)
(* pass or a failure is of a deployment that was acknowledged.             *)
LEMMA MonitorIsAccepted ==
    ASSUME mon.outcome \in {"pass", "fail", "inconclusive"}, mon.acknowledged \in BOOLEAN,
           mon.outcome \in {"pass", "fail"} => mon.acknowledged
    PROVE  Verdict(MonitorEvidence, Shipped("monitor"), 0) = "accepted"
<1> DEFINE name == "deployment_window"
           outcome == mon.outcome
           e == MonitorEvidence
           required == Shipped("monitor")
<1>1. /\ e.mine = TRUE /\ e.fits = TRUE /\ e.outcome = outcome
      /\ e.effects = IF mon.acknowledged THEN "completed" ELSE "unknown"
      /\ e.checks = << [name |-> name, status |-> IF outcome = "inconclusive" THEN "skip" ELSE outcome] >>
  BY DEF MonitorEvidence
<1>2. required = <<name>>
  BY DEF Shipped
<1> HIDE DEF e, required
<1>3. /\ DOMAIN e.checks = {1} /\ e.checks[1].name = name
      /\ e.checks[1].status = IF outcome = "inconclusive" THEN "skip" ELSE outcome
  BY <1>1
<1>4. Injective(Names(e.checks))
  BY <1>3 DEF Injective, Names
<1>5. WithStatus(e.checks, "fail") = IF outcome = "fail" THEN {1} ELSE {}
  BY <1>3 DEF WithStatus
<1>6. outcome = "pass" => ProvenPass(e, required, 0)
  <2> SUFFICES ASSUME outcome = "pass" PROVE ProvenPass(e, required, 0)
    OBVIOUS
  <2>1. 1 \in WithStatus(e.checks, "pass")
    BY <1>3 DEF WithStatus
  <2>2. DOMAIN required = {1} /\ required[1] = name
    BY <1>2
  <2>3. \A i \in DOMAIN required : Proves(e.checks, required[i])
    BY <1>3, <2>1, <2>2 DEF Proves
  <2> QED BY <1>1, <1>5, <2>3 DEF ProvenPass
<1>7. outcome = "fail" => ProvenFailure(e)
  BY <1>5 DEF ProvenFailure
<1>8. Verdict(e, required, 0) = "accepted"
  BY <1>1, <1>4, <1>6, <1>7 DEF Verdict
<1> QED BY <1>8 DEF e, required

(* A run reports what its monitor said (supervisor.py, _execute).          *)
LEMMA ReportedKeeps ==
    WorkInv /\ SayInv /\ Reported /\ [WorkflowNext]_workflowVars => Reported'
<1> SUFFICES ASSUME WorkInv, SayInv, Reported, [WorkflowNext]_workflowVars PROVE Reported'
  OBVIOUS
<1>1. ASSUME ~IsMonitor, UNCHANGED program PROVE Reported'
  BY <1>1 DEF Reported, IsMonitor
<1>2. ASSUME UNCHANGED program, stage' \in {"submitted", "running"} PROVE Reported'
  BY <1>2 DEF Reported, IsMonitor
<1>3. ASSUME UNCHANGED program, stage' = "done", raw' = None, run'.state # "completed" PROVE Reported'
  BY <1>3 DEF Reported, IsMonitor
<1>4. ASSUME stage # "done", NEW error, NEW launched \in BOOLEAN
      PROVE  Failed(run, error, launched).state # "completed"
  <2>1. Begun
    BY <1>4 DEF WorkInv
  <2> QED BY <2>1, FailedIs
<1>5. CASE Change
  BY <1>2, <1>5 DEF Change, workVars
<1>6. CASE Starts
  <2>1. UNCHANGED <<program, raw>> /\ raw = None /\ stage = "submitted"
    BY <1>6 DEF Starts, Same, WorkInv
  <2>2. \/ stage' = "running"
        \/ stage' = "done" /\ \E error : run' = Failed(run, error, FALSE)
    BY <1>6 DEF Starts, Ends
  <2> QED BY <1>2, <1>3, <1>4, <2>1, <2>2
<1>7. ASSUME NEW stream, NEW data, NEW final, Output(stream, data, final) PROVE Reported'
  <2>1. UNCHANGED <<program, raw>> /\ raw = None /\ stage = "running"
    BY <1>7 DEF Output, Same, WorkInv
  <2>2. \/ stage' = stage
        \/ stage' = "done" /\ run' = Failed(run, "OUTPUT_LIMIT", TRUE)
    BY <1>7 DEF Output, Ends
  <2> QED BY <1>2, <1>3, <1>4, <2>1, <2>2
<1>8. CASE Prints \/ StreamEnds
  BY <1>7, <1>8 DEF Prints, StreamEnds
<1>9. CASE Reports
  BY <1>1, <1>9 DEF Reports, Leaves, Same, IsMonitor
<1>10. CASE Monitors
  <2>1. CASE UNCHANGED workVars
    BY <1>2, <1>10, <2>1 DEF Monitors, workVars
  <2>2. CASE mon.pc = "done" /\ Leaves(MonitorEvidence, <<>>, 0) /\ UNCHANGED monitorVars
    <3>1. /\ UNCHANGED program /\ stage' = "exited" /\ mon' = mon
          /\ raw' = [evidence |-> MonitorEvidence, text |-> <<>>, exit |-> 0]
      BY <2>2 DEF Leaves, Same, monitorVars
    <3>2. MonitorEvidence' = MonitorEvidence
      BY <3>1 DEF MonitorEvidence
    <3> QED BY <2>2, <3>1, <3>2 DEF Reported, IsMonitor
  <2> QED BY <1>10, <2>1, <2>2 DEF Monitors
<1>11. CASE Replays
  BY <1>1, <1>11 DEF Replays, Leaves, Same, workVars, IsMonitor
<1>12. CASE Stops
  <2>1. /\ UNCHANGED <<program, raw>> /\ raw = None /\ stage = "running" /\ stage' = "done"
        /\ \E error : run' = Failed(run, error, TRUE)
    BY <1>12 DEF Stops, Ends, Same, WorkInv
  <2> QED BY <1>3, <1>4, <2>1
<1>13. CASE Judges
  <2>1. /\ stage = "exited" /\ stage' = "done" /\ UNCHANGED <<program, mon>>
        /\ run' = Finished(run, raw.evidence, program.required, raw.exit) /\ Begun
    BY <1>13 DEF Judges, Ends, Same, NoScenario, monitorVars, WorkInv
  <2>2. CASE ~IsMonitor
    BY <1>1, <2>1, <2>2
  <2>3. CASE IsMonitor
    <3>1. /\ mon.pc = "done" /\ raw.evidence = MonitorEvidence /\ raw.exit = 0
          /\ program.required = Shipped("monitor")
      BY <2>1, <2>3 DEF Reported
    <3>2. /\ mon.outcome \in {"pass", "fail", "inconclusive"} /\ mon.acknowledged \in BOOLEAN
          /\ mon.outcome \in {"pass", "fail"} => mon.acknowledged
      BY <3>1 DEF SayInv, Told, Known
    <3>3. run' = Completed(run, MonitorEvidence, program.required)
      <4> DEFINE e == MonitorEvidence
      <4>1. Verdict(e, program.required, 0) = "accepted"
        BY <3>1, <3>2, MonitorIsAccepted
      <4>2. run' = Finished(run, e, program.required, 0)
        BY <2>1, <3>1
      <4>3. Judgeable(e) /\ program.required \in Seq(CheckNames) /\ Injective(program.required)
        BY MonitorIsJudgeable DEF WorkInv, Fixed
      <4> HIDE DEF e
      <4>4. run' = Completed(run, e, program.required)
        BY <2>1, <4>1, <4>2, <4>3, AcceptedIsConsistent DEF Begun
      <4> QED BY <4>4 DEF e
    <3>4. /\ run'.state = "completed" /\ run'.outcome = MonitorEvidence.outcome
          /\ run'.effects = MonitorEvidence.effects
      BY <2>1, <3>3 DEF Completed, Begun, Started
    <3>5. /\ MonitorEvidence.outcome = mon.outcome
          /\ MonitorEvidence.effects = IF mon.acknowledged THEN "completed" ELSE "unknown"
      BY DEF MonitorEvidence
    <3> QED BY <2>1, <3>1, <3>2, <3>4, <3>5 DEF Reported, IsMonitor
  <2> QED BY <2>2, <2>3
<1>14. CASE UNCHANGED workflowVars
  <2>1. UNCHANGED <<program, stage, raw, run, mon>>
    BY <1>14 DEF workflowVars, workVars, monitorVars
  <2> QED BY <2>1 DEF Reported, IsMonitor, MonitorEvidence
<1> QED BY <1>5, <1>6, <1>8, <1>9, <1>10, <1>11, <1>12, <1>13, <1>14 DEF WorkflowNext

(* What deploy-monitor says of a deployment is so, for every deployment    *)
(* asked for, fault of the services, time its requests take and setting of *)
(* the services' clock, and its run reports just that (service.py,         *)
(* entrypoint.py, supervisor.py).                                          *)
THEOREM MonitorSays == WorkflowSpec => []MonitorSaysWhatHappened
<1>1. WorkflowInit => SayInv /\ Marked /\ MonInv /\ Reported
  <2> SUFFICES ASSUME WorkflowInit PROVE SayInv /\ Marked /\ MonInv /\ Reported
    OBVIOUS
  <2>1. PICK s \in Scenarios : program = s.program /\ stage = "submitted"
    BY DEF WorkflowInit
  <2>2. Reported
    BY <2>1, WorkflowAssumption DEF Reported, IsMonitor
  <2> QED BY <2>2, SayInitInv, LimitsInitInv
<1>2. WorkInv /\ ReplayInv /\ SayInv /\ Marked /\ MonInv /\ Reported /\ [WorkflowNext]_workflowVars
         => (SayInv /\ Marked /\ MonInv /\ Reported)'
  <2> SUFFICES ASSUME WorkInv, ReplayInv, SayInv, Marked, MonInv, Reported, [WorkflowNext]_workflowVars
               PROVE  (SayInv /\ Marked /\ MonInv /\ Reported)'
    OBVIOUS
  <2>1. MonitorNext \/ UNCHANGED monitorVars
    BY DEF WorkflowNext, workflowVars, Change, Starts, Prints, StreamEnds, Output, Reports, Monitors,
           Replays, Stops, Judges, NoScenario
  <2> QED BY <2>1, SayNextInv, MonNextInv, ReportedKeeps
<1>3. WorkflowSpec => [](SayInv /\ Marked /\ MonInv /\ Reported)
  BY <1>1, <1>2, WorkInvariant, PTL DEF WorkflowSpec
<1>4. WorkInv /\ SayInv /\ Reported => MonitorSaysWhatHappened
  <2> SUFFICES ASSUME WorkInv, SayInv, Reported PROVE MonitorSaysWhatHappened
    OBVIOUS
  <2>1. Backs(mon.outcome, mon.reason) /\ (mon.outcome = "pass" => mon.acknowledged)
    BY DEF SayInv, Told
  <2>2. stage # "done" => run.state # "completed"
    <3> SUFFICES ASSUME stage # "done" PROVE run.state # "completed"
      OBVIOUS
    <3> QED BY DEF WorkInv, Begun, Started
  <2>3. IsMonitor /\ run.state = "completed" =>
          run.outcome = mon.outcome /\ (run.effects = "unknown" <=> ~mon.acknowledged)
    BY <2>2 DEF Reported
  <2>4. IsMonitor /\ raw # None /\ stage = "done" => run.state = "completed"
    BY DEF Reported
  <2> QED BY <2>1, <2>3, <2>4 DEF MonitorSaysWhatHappened, Backs, IsMonitor, Slack
<1> QED BY <1>3, <1>4, WorkInvariant, PTL
=============================================================================

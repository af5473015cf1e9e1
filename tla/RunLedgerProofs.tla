---------------------------- MODULE RunLedgerProofs ----------------------------
(***************************************************************************)
(* What the transactions of the ledger keep true for any runs, keys,       *)
(* requests, owners and lease, whoever calls them and in whatever order.   *)
(***************************************************************************)
EXTENDS RunLedger, TLAPS

(* A run id is never created twice, because its row remembers it and, once *)
(* the row is gone, the id generator does: without this a new row could    *)
(* inherit the lock of an old one.                                         *)
RowsAreAsked == \A r \in Runs : Exists(r) => asked[r] # "fresh"

LedgerInv ==
    /\ LedgerTypeOK
    /\ RowsAreAsked
    /\ OpenRunsHoldTheirKey
    /\ LocksHaveRows
    /\ PendingMeansDecided
    /\ OneRunPerRequest

LEMMA NoRowIsRow == NoRow \in Row
  BY LeaseAssumption DEF NoRow, Row, Effects, Ages

LEMMA ZeroIsAge == 0 \in Ages
  BY LeaseAssumption DEF Ages

LEMMA OlderIsAge == ASSUME NEW age \in Ages PROVE Older(age) \in Ages
  BY LeaseAssumption DEF Older, Ages

LEMMA WithoutLocksType ==
    ASSUME LedgerTypeOK, NEW r \in Runs
    PROVE  /\ WithoutLocksOf(r) \in [Keys -> Runs \cup {None}]
           /\ \A k \in Keys : WithoutLocksOf(r)[k] =
                                IF locks[k] = r THEN None ELSE locks[k]
  BY DEF LedgerTypeOK, WithoutLocksOf

LEMMA FinishKeepsTypes ==
    ASSUME LedgerTypeOK, NEW r \in Runs, NEW owner \in Owners \cup {None},
           NEW verdict \in Decided, NEW effects \in Effects,
           Finish(r, owner, verdict, effects)
    PROVE  LedgerTypeOK'
  <1>1. [rows[r] EXCEPT !.verdict = verdict, !.effects = effects, !.owner = None,
                        !.pending = TRUE, !.age = 0] \in Row
    <2>1. rows[r] \in Row
      BY DEF LedgerTypeOK
    <2> QED BY <2>1, ZeroIsAge DEF Row
  <1> QED BY <1>1 DEF LedgerTypeOK, Finish

LEMMA LedgerInitInv == LedgerInit => LedgerInv
  <1> SUFFICES ASSUME LedgerInit PROVE LedgerInv
    OBVIOUS
  <1>1. LedgerTypeOK
    BY NoRowIsRow DEF LedgerInit, LedgerTypeOK
  <1>2. \A r \in Runs : rows[r] = NoRow
    BY DEF LedgerInit
  <1> QED
    BY <1>1, <1>2
    DEF LedgerInit, LedgerInv, RowsAreAsked, OpenRunsHoldTheirKey, LocksHaveRows,
        PendingMeansDecided, OneRunPerRequest, Exists, Settled, Terminal, NoRow,
        Decided

-----------------------------------------------------------------------------
LEMMA LedgerStepTypes ==
    LedgerInv /\ [LedgerNext]_ledgerVars => LedgerTypeOK'
  <1> SUFFICES ASSUME LedgerInv, [LedgerNext]_ledgerVars PROVE LedgerTypeOK'
    OBVIOUS
  <1> USE DEF LedgerInv, LedgerTypeOK
  <1>1. CASE Tick
    BY <1>1, OlderIsAge DEF Tick, Row
  <1>2. ASSUME NEW r \in Runs, CreateSome(r) PROVE LedgerTypeOK'
    <2> PICK key \in Keys \cup {None}, request \in Requests \cup {None},
             effects \in {"none", "unknown"} : Create(r, key, request, effects)
      BY <1>2 DEF CreateSome
    <2>1. [NoRow EXCEPT !.verdict = "running", !.effects = effects,
                        !.request = request] \in Row
      BY NoRowIsRow DEF Row, NoRow, Effects
    <2> QED BY <2>1 DEF Create
  <1>3. ASSUME NEW r \in Runs, Get(r) PROVE LedgerTypeOK'
    <2>1. Lost(rows[r]) \in Row
      BY DEF Lost, Row, Decided
    <2>2. UNCHANGED <<locks, asked>> /\ (rows' = rows \/ rows' = [rows EXCEPT ![r] = Lost(rows[r])])
      BY <1>3 DEF Get
    <2> QED BY <2>1, <2>2
  <1>4. ASSUME NEW r \in Runs, ClaimSome(r) PROVE LedgerTypeOK'
    <2> PICK owner \in Owners : Claim(r, owner)
      BY <1>4 DEF ClaimSome
    <2>1. [rows[r] EXCEPT !.owner = owner, !.age = 0] \in Row
      BY ZeroIsAge DEF Row
    <2> QED BY <2>1 DEF Claim
  <1>5. ASSUME NEW r \in Runs, HeartbeatSome(r) PROVE LedgerTypeOK'
    <2> PICK owner \in Owners, wait \in 0..BusyWait : Heartbeat(r, owner, wait)
      BY <1>5 DEF HeartbeatSome
    <2>1. wait \in Ages
      BY LeaseAssumption DEF Heartbeat, CanBeat, Ages, Row
    <2> QED BY <2>1 DEF Heartbeat, Row
  <1>6. ASSUME NEW r \in Runs, FinishByWorker(r) PROVE LedgerTypeOK'
    <2> PICK owner \in Owners, verdict \in {"completed", "cancelled", "failed"},
             effects \in Effects : Finish(r, owner, verdict, effects)
      BY <1>6 DEF FinishByWorker
    <2> QED BY FinishKeepsTypes DEF Decided
  <1>7. ASSUME NEW r \in Runs, FinishByLauncher(r) PROVE LedgerTypeOK'
    BY <1>7, FinishKeepsTypes DEF FinishByLauncher, Decided, Effects
  <1>8. ASSUME NEW r \in Runs, SettleSome(r) PROVE LedgerTypeOK'
    <2> DEFINE row == [rows[r] EXCEPT !.pending = FALSE]
    <2>0. row \in Row /\ rows' = [rows EXCEPT ![r] = row]
      BY <1>8 DEF SettleSome, Settle, Row
    <2> HIDE DEF row
    <2>1. rows' \in [Runs -> Row]
      BY <2>0
    <2>2. locks' = WithoutLocksOf(r) \/ locks' = locks
      BY <1>8 DEF SettleSome, Settle
    <2> QED BY <1>8, <2>1, <2>2, WithoutLocksType DEF SettleSome, Settle
  <1>9. ASSUME NEW r \in Runs, Release(r) PROVE LedgerTypeOK'
    BY <1>9, WithoutLocksType DEF Release
  <1>10. ASSUME NEW r \in Runs, Delete(r) PROVE LedgerTypeOK'
    BY <1>10, NoRowIsRow DEF Delete
  <1>11. CASE UNCHANGED ledgerVars
    BY <1>11 DEF ledgerVars
  <1> QED
    BY <1>1, <1>2, <1>3, <1>4, <1>5, <1>6, <1>7, <1>8, <1>9, <1>10, <1>11
    DEF LedgerNext

LEMMA LedgerStepInv == LedgerInv /\ [LedgerNext]_ledgerVars => LedgerInv'
  <1> SUFFICES ASSUME LedgerInv, [LedgerNext]_ledgerVars PROVE LedgerInv'
    OBVIOUS
  <1>t. LedgerTypeOK'
    BY LedgerStepTypes
  <1> DEFINE Rest == /\ RowsAreAsked /\ OpenRunsHoldTheirKey /\ LocksHaveRows
                     /\ PendingMeansDecided /\ OneRunPerRequest
  <1> USE NoneAssumption
      DEF LedgerInv, LedgerTypeOK, RowsAreAsked, OpenRunsHoldTheirKey,
          LocksHaveRows, PendingMeansDecided, OneRunPerRequest,
          Exists, Running, Terminal, Settled, Holds, HoldsAny, Decided
  <1>1. ASSUME Tick PROVE Rest'
    <2>1. \A q \in Runs : /\ rows'[q].verdict = rows[q].verdict
                           /\ rows'[q].pending = rows[q].pending
                           /\ rows'[q].owner = rows[q].owner
                           /\ rows'[q].request = rows[q].request
      BY <1>1 DEF Tick, Row
    <2>2. UNCHANGED <<locks, asked>>
      BY <1>1 DEF Tick
    <2>3. RowsAreAsked' /\ OpenRunsHoldTheirKey' /\ LocksHaveRows'
      BY <2>1, <2>2
    <2>4. PendingMeansDecided'
      BY <2>1
    <2>5. OneRunPerRequest'
      BY <2>1
    <2> QED BY <2>3, <2>4, <2>5
  <1>2. ASSUME NEW r \in Runs, CreateSome(r) PROVE Rest'
    <2> PICK key \in Keys \cup {None}, request \in Requests \cup {None},
             effects \in {"none", "unknown"} : Create(r, key, request, effects)
      BY <1>2 DEF CreateSome
    <2>1. /\ rows'[r].verdict = "running" /\ ~rows'[r].pending
          /\ rows'[r].owner = None /\ rows'[r].request = request
      BY DEF Create, NoRow
    <2>2. \A q \in Runs : q # r => rows'[q] = rows[q] /\ asked'[q] = asked[q]
      BY DEF Create
    <2>3. /\ asked[r] = "fresh" /\ asked'[r] = key
          /\ \A k \in Keys : locks'[k] = IF k = key THEN r ELSE locks[k]
      BY DEF Create
    <2>4. key \in Keys => locks[key] = None
      BY DEF Create, KeyFree
    <2>5. request # None => \A q \in Runs : rows[q].request # request
      BY DEF Create, RequestFree
    <2>6. RowsAreAsked'
      BY <2>2, <2>3
    <2>7. OpenRunsHoldTheirKey'
      BY <2>1, <2>2, <2>3, <2>4
    <2>8. LocksHaveRows'
      BY <2>1, <2>2, <2>3
    <2>9. PendingMeansDecided'
      BY <2>1, <2>2
    <2>10. OneRunPerRequest'
      BY <2>1, <2>2, <2>5
    <2> QED BY <2>6, <2>7, <2>8, <2>9, <2>10
  <1>3. ASSUME NEW r \in Runs, Get(r) PROVE Rest'
    <2>1. CASE Expired(r)
      BY <1>3, <2>1, <1>t DEF Get, Lost, Expired, Row
    <2>2. CASE ~Expired(r)
      BY <1>3, <2>2 DEF Get
    <2> QED BY <2>1, <2>2
  <1>4. ASSUME NEW r \in Runs, ClaimSome(r) PROVE Rest'
    BY <1>4 DEF ClaimSome, Claim, CanClaim, Row
  <1>5. ASSUME NEW r \in Runs, HeartbeatSome(r) PROVE Rest'
    BY <1>5 DEF HeartbeatSome, Heartbeat, CanBeat, Row
  <1>6. ASSUME NEW r \in Runs, FinishByWorker(r) PROVE Rest'
    BY <1>6 DEF FinishByWorker, Finish, CanFinish, Row
  <1>7. ASSUME NEW r \in Runs, FinishByLauncher(r) PROVE Rest'
    BY <1>7 DEF FinishByLauncher, Finish, CanFinish, Row
  <1>8. ASSUME NEW r \in Runs, SettleSome(r) PROVE Rest'
    <2>1. \/ locks' = locks
          \/ \A k \in Keys : locks'[k] = IF locks[k] = r THEN None ELSE locks[k]
      BY <1>8, WithoutLocksType DEF SettleSome, Settle
    <2>2. /\ Terminal(r) /\ asked' = asked
          /\ rows' = [rows EXCEPT ![r].pending = FALSE]
      BY <1>8 DEF SettleSome, Settle
    <2> QED BY <2>1, <2>2 DEF Row
  <1>9. ASSUME NEW r \in Runs, Release(r) PROVE Rest'
    <2>1. \A k \in Keys : locks'[k] = IF locks[k] = r THEN None ELSE locks[k]
      BY <1>9, WithoutLocksType DEF Release
    <2> QED BY <1>9, <2>1 DEF Release, Releasable
  <1>10. ASSUME NEW r \in Runs, Delete(r) PROVE Rest'
    BY <1>10 DEF Delete, Deletable, NoRow
  <1>11. CASE UNCHANGED ledgerVars
    BY <1>11 DEF ledgerVars
  <1> QED
    BY <1>t, <1>1, <1>2, <1>3, <1>4, <1>5, <1>6, <1>7, <1>8, <1>9, <1>10, <1>11
    DEF LedgerNext

LEMMA LedgerInvariant == LedgerSpec => []LedgerInv
  BY LedgerInitInv, LedgerStepInv, PTL DEF LedgerSpec

(* The tables keep their types.                                            *)
THEOREM LedgerTypes == LedgerSpec => []LedgerTypeOK
  <1>1. LedgerInv => LedgerTypeOK
    BY DEF LedgerInv
  <1> QED BY <1>1, LedgerInvariant, PTL

(* A run that is open or not yet settled holds the key it asked for, and a *)
(* taken key belongs to a run that still has its row.                      *)
THEOREM KeysAreHeld == LedgerSpec => []LocksFollowRuns
  <1>1. LedgerInv => LocksFollowRuns
    BY DEF LedgerInv, LocksFollowRuns
  <1> QED BY <1>1, LedgerInvariant, PTL

(* A request id names one run at a time.                                   *)
THEOREM RequestsAreUnique == LedgerSpec => []OneRunPerRequest
  <1>1. LedgerInv => OneRunPerRequest
    BY DEF LedgerInv
  <1> QED BY <1>1, LedgerInvariant, PTL

(* Every decided run not yet settled is found by the pending query, and a  *)
(* worker that was fenced out finds no owner to match.                     *)
THEOREM DecidedRunsArePending == LedgerSpec => []PendingMeansDecided
  <1>1. LedgerInv => PendingMeansDecided
    BY DEF LedgerInv
  <1> QED BY <1>1, LedgerInvariant, PTL

(* A decided run keeps its verdict and effects for as long as its row      *)
(* lives, and a settled run is never made pending again.                   *)
THEOREM DecisionsStay == LedgerSpec => DecisionsAreFinal
  <1> DEFINE Kept(r) == Terminal(r) /\ Exists(r)' =>
                          /\ rows'[r].verdict = rows[r].verdict
                          /\ rows'[r].effects = rows[r].effects
                          /\ rows'[r].pending => rows[r].pending
  <1>1. LedgerInv /\ [LedgerNext]_ledgerVars => [\A r \in Runs : Kept(r)]_ledgerVars
    <2> SUFFICES ASSUME LedgerInv, LedgerNext, NEW q \in Runs PROVE Kept(q)
      OBVIOUS
    <2> USE DEF LedgerInv, LedgerTypeOK, Exists, Running, Terminal, Decided
    <2>1. CASE Tick
      BY <2>1 DEF Tick, Row
    <2>2. ASSUME NEW r \in Runs, CreateSome(r) PROVE Kept(q)
      BY <2>2 DEF CreateSome, Create, RowsAreAsked
    <2>3. ASSUME NEW r \in Runs, Get(r) PROVE Kept(q)
      BY <2>3 DEF Get, Lost, Expired, Row
    <2>4. ASSUME NEW r \in Runs, ClaimSome(r) PROVE Kept(q)
      BY <2>4 DEF ClaimSome, Claim, CanClaim, Row
    <2>5. ASSUME NEW r \in Runs, HeartbeatSome(r) PROVE Kept(q)
      BY <2>5 DEF HeartbeatSome, Heartbeat, CanBeat, Row
    <2>6. ASSUME NEW r \in Runs, FinishByWorker(r) PROVE Kept(q)
      BY <2>6 DEF FinishByWorker, Finish, CanFinish, Row
    <2>7. ASSUME NEW r \in Runs, FinishByLauncher(r) PROVE Kept(q)
      BY <2>7 DEF FinishByLauncher, Finish, CanFinish, Row
    <2>8. ASSUME NEW r \in Runs, SettleSome(r) PROVE Kept(q)
      BY <2>8 DEF SettleSome, Settle, Row
    <2>9. ASSUME NEW r \in Runs, Release(r) PROVE Kept(q)
      BY <2>9 DEF Release
    <2>10. ASSUME NEW r \in Runs, Delete(r) PROVE Kept(q)
      BY <2>10 DEF Delete, NoRow
    <2> QED
      BY <2>1, <2>2, <2>3, <2>4, <2>5, <2>6, <2>7, <2>8, <2>9, <2>10 DEF LedgerNext
  <1> QED
    BY <1>1, LedgerInvariant, PTL DEF DecisionsAreFinal, LedgerSpec

(* Finalization never frees the key of a run with unresolved effects.      *)
THEOREM UnresolvedKeysStay == LedgerSpec => UnresolvedKeepsKey
  <1> DEFINE Kept(k, r) == Holds(r, k) /\ ~Holds(r, k)' =>
                             /\ Terminal(r)
                             /\ rows[r].effects \in Unresolved => Settled(r)
  <1>1. LedgerInv /\ [LedgerNext]_ledgerVars
          => [\A k \in Keys, r \in Runs : Kept(k, r)]_ledgerVars
    <2> SUFFICES ASSUME LedgerInv, LedgerNext, NEW k \in Keys, NEW q \in Runs
                 PROVE  Kept(k, q)
      OBVIOUS
    <2> USE NoneAssumption DEF LedgerInv, LedgerTypeOK, Holds
    <2>1. ASSUME NEW r \in Runs, CreateSome(r) PROVE Kept(k, q)
      <3> PICK key \in Keys \cup {None}, request \in Requests \cup {None},
               effects \in {"none", "unknown"} : Create(r, key, request, effects)
        BY <2>1 DEF CreateSome
      <3> QED BY DEF Create, KeyFree
    <2>2. ASSUME NEW r \in Runs, SettleSome(r) PROVE Kept(k, q)
      BY <2>2, WithoutLocksType DEF SettleSome, Settle, ReleasesKey
    <2>3. ASSUME NEW r \in Runs, Release(r) PROVE Kept(k, q)
      BY <2>3, WithoutLocksType DEF Release, Releasable, Settled
    <2>4. CASE UNCHANGED locks
      BY <2>4
    <2> QED
      BY <2>1, <2>2, <2>3, <2>4
      DEF LedgerNext, Tick, Get, ClaimSome, Claim, HeartbeatSome, Heartbeat,
          FinishByWorker, FinishByLauncher, Finish, Delete
  <1> QED
    BY <1>1, LedgerInvariant, PTL DEF UnresolvedKeepsKey, LedgerSpec

(* An owner is replaced by nobody, and only when its run is decided.       *)
THEOREM OwnersAreNotReplaced == LedgerSpec => OwnershipIsTakenOnce
  <1> DEFINE Kept(r) == rows[r].owner # None /\ rows'[r].owner # rows[r].owner
                          => rows'[r].owner = None /\ Terminal(r)'
  <1>1. LedgerInv /\ [LedgerNext]_ledgerVars => [\A r \in Runs : Kept(r)]_ledgerVars
    <2> SUFFICES ASSUME LedgerInv, LedgerNext, NEW q \in Runs PROVE Kept(q)
      OBVIOUS
    <2> USE NoneAssumption
        DEF LedgerInv, LedgerTypeOK, PendingMeansDecided, Exists, Running,
            Terminal, Settled, Decided
    <2>1. CASE Tick
      BY <2>1 DEF Tick, Row
    <2>2. ASSUME NEW r \in Runs, CreateSome(r) PROVE Kept(q)
      BY <2>2 DEF CreateSome, Create, RowsAreAsked, NoRow
    <2>3. ASSUME NEW r \in Runs, Get(r) PROVE Kept(q)
      BY <2>3 DEF Get, Lost, Row
    <2>4. ASSUME NEW r \in Runs, ClaimSome(r) PROVE Kept(q)
      BY <2>4 DEF ClaimSome, Claim, CanClaim, Row
    <2>5. ASSUME NEW r \in Runs, HeartbeatSome(r) PROVE Kept(q)
      BY <2>5 DEF HeartbeatSome, Heartbeat, CanBeat, Row
    <2>6. ASSUME NEW r \in Runs, FinishByWorker(r) PROVE Kept(q)
      BY <2>6 DEF FinishByWorker, Finish, CanFinish, Row
    <2>7. ASSUME NEW r \in Runs, FinishByLauncher(r) PROVE Kept(q)
      BY <2>7 DEF FinishByLauncher, Finish, CanFinish, Row
    <2>8. ASSUME NEW r \in Runs, SettleSome(r) PROVE Kept(q)
      BY <2>8 DEF SettleSome, Settle, Row
    <2>9. ASSUME NEW r \in Runs, Release(r) PROVE Kept(q)
      BY <2>9 DEF Release
    <2>10. ASSUME NEW r \in Runs, Delete(r) PROVE Kept(q)
      BY <2>10 DEF Delete, Deletable, NoRow
    <2> QED
      BY <2>1, <2>2, <2>3, <2>4, <2>5, <2>6, <2>7, <2>8, <2>9, <2>10 DEF LedgerNext
  <1> QED
    BY <1>1, LedgerInvariant, PTL DEF OwnershipIsTakenOnce, LedgerSpec
=============================================================================

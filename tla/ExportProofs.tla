---------------------------- MODULE ExportProofs ----------------------------
(***************************************************************************)
(* What the outbox of Export promises, for any runs, destinations, scopes, *)
(* delivery policy and length of time.                                     *)
(***************************************************************************)
EXTENDS Export, FiniteSetTheorems, TLAPS

(* Arithmetic of days, for the prover.                                     *)
LEMMA DayType == ASSUME NEW a \in Nat, NEW d \in Nat \ {0} PROVE a \div d \in 0..a
  <1>1. a \div d \in Nat
    BY SMTT(20)
  <1>2. a \div d <= a
    BY SMTT(20)
  <1> QED BY <1>1, <1>2

LEMMA DayGrows ==
  ASSUME NEW a \in Nat, NEW b \in Nat, NEW d \in Nat \ {0}, a <= b
  PROVE  a \div d <= b \div d
  BY SMTT(20)

LEMMA DayPasses ==
  ASSUME NEW a \in Nat, NEW b \in Nat, NEW d \in Nat \ {0}, a + d <= b
  PROVE  a \div d < b \div d
  BY SMTT(20)

-----------------------------------------------------------------------------
(* The outbox s against the requests S that have left: no number has been  *)
(* used beyond its own, and that of the pending snapshot only for it.      *)
Sendable(s, S) ==
    /\ \A m \in S : m.snap.seq <= s.seq
    /\ s.pending # None =>
        /\ s.digest # None
        /\ s.pending.snap.seq = s.seq
        /\ s.pending.snap.content.scope = s.digest.scope
        /\ \A m \in S : m.snap.seq = s.seq => m = Request(s, s.digest)

(* The dates of the outbox: the pending snapshot is of the day it was      *)
(* prepared, and not older than the last acknowledged one.                 *)
Dated(s) ==
    /\ s.pending # None =>
        /\ s.pending.created <= now
        /\ s.pending.snap.content.since = s.pending.created \div Day
    /\ s.last # None =>
        /\ s.digest # None
        /\ s.last.since <= now \div Day
        /\ s.pending # None => s.last.since <= s.pending.snap.content.since

Waiting(s, m) == s.pending # None /\ m = Request(s, s.digest)

(* The last acknowledged payload is what the receiver shows, the pending   *)
(* snapshot apart, or it is of an earlier day.                             *)
LastIsShown(s) ==
    s.last # None =>
        LET d == s.digest.to
        IN  \/ s.last.since < now \div Day
            \/ /\ receiver[d] # None
               /\ receiver[d].content = s.last \/ Waiting(s, [to |-> d, snap |-> receiver[d]])
               /\ \A m \in sent : m.to = d => m.snap.seq <= Shown(d) \/ Waiting(s, m)

ShownWasSent ==
    \A d \in Destinations :
        receiver[d] # None => [to |-> d, snap |-> receiver[d]] \in sent

OutboxInv ==
    /\ Sendable(state, sent)
    /\ Dated(state)
    /\ LastIsShown(state)

ExportInv == ExportTypeOK /\ OutboxInv /\ ShownWasSent /\ OneRequestPerSequence

-----------------------------------------------------------------------------
LEMMA ReportType ==
  ASSUME now \in Times, NEW c \in Configs
  PROVE  /\ Report(c) \in Content
         /\ Report(c).scope = c.scope
         /\ Report(c).since = now \div Day
  <1>1. ASSUME NEW status PROVE CountOf(status) \in Counts
    <2>1. {r \in Runs : runs[r] = status} \subseteq Runs
      OBVIOUS
    <2> QED BY <2>1, FS_Subset, FS_CardinalityType, ExportAssumption DEF CountOf, Counts
  <1>2. now \div Day \in Times
    BY DayType, ExportAssumption DEF Times
  <1> QED BY <1>1, <1>2, ExportAssumption DEF Report, Content

LEMMA ReconfiguredOutbox ==
  ASSUME NEW s \in State, NEW c \in Configs, Sendable(s, sent), Dated(s), LastIsShown(s)
  PROVE  /\ Reconfigured(s, c) \in State
         /\ Reconfigured(s, c).digest = c
         /\ Sendable(Reconfigured(s, c), sent)
         /\ Dated(Reconfigured(s, c))
         /\ LastIsShown(Reconfigured(s, c))
  <1>1. CASE s.digest = c
    BY <1>1 DEF Reconfigured
  <1>2. CASE s.digest # c
    <2>1. Reconfigured(s, c) = [seq |-> s.seq, digest |-> c, pending |-> None, last |-> None]
      BY <1>2 DEF Reconfigured, Unused, State
    <2> QED BY <2>1 DEF Sendable, Dated, LastIsShown, State
  <1> QED BY <1>1, <1>2

LEMMA SynchronizedOutbox ==
  ASSUME ExportTypeOK, NEW s \in State, NEW c \in Configs,
         Sendable(s, sent), Dated(s), LastIsShown(s)
  PROVE  /\ Synchronized(s, c) \in State
         /\ Synchronized(s, c).digest = c
         /\ Sendable(Synchronized(s, c), sent)
         /\ Dated(Synchronized(s, c))
         /\ LastIsShown(Synchronized(s, c))
  <1> DEFINE t == Reconfigured(s, c)
  <1>0. /\ t \in State /\ t.digest = c
        /\ Sendable(t, sent) /\ Dated(t) /\ LastIsShown(t)
    BY ReconfiguredOutbox
  <1> HIDE DEF t
  <1>1. Synchronized(s, c) = IF Expired(t) THEN [t EXCEPT !.pending = None] ELSE t
    BY DEF Synchronized, t
  <1>2. CASE ~Expired(t)
    BY <1>0, <1>1, <1>2
  <1>3. CASE Expired(t)
    <2> DEFINE u == [t EXCEPT !.pending = None]
    <2>1. /\ u \in State /\ u.pending = None
          /\ u.seq = t.seq /\ u.digest = c /\ u.last = t.last
      BY <1>0 DEF State
    <2> HIDE DEF u
    <2>2. Sendable(u, sent)
      BY <1>0, <2>1 DEF Sendable
    <2>3. Dated(u)
      BY <1>0, <2>1 DEF Dated
    <2>4. ASSUME t.last # None PROVE t.last.since < now \div Day
      <3>1. t.pending \in Pending /\ now - t.pending.created >= Retention
        BY <1>0, <1>3 DEF Expired, State
      <3>2. t.pending.created \in Nat /\ t.pending.created + Day <= now /\ now \in Nat
        BY <3>1, ExportAssumption DEF Pending, Times, ExportTypeOK
      <3>3. t.pending.created \div Day < now \div Day
        BY <3>2, DayPasses, ExportAssumption
      <3>4. t.last.since <= t.pending.created \div Day
        BY <1>0, <1>3, <2>4 DEF Dated, Expired
      <3>5. t.last.since \in Nat /\ t.pending.created \div Day \in Nat /\ now \div Day \in Nat
        BY <1>0, <2>4, <3>2, DayType, ExportAssumption DEF State, Content, Times
      <3> QED BY <3>3, <3>4, <3>5
    <2>5. LastIsShown(u)
      BY <2>1, <2>4 DEF LastIsShown
    <2> QED BY <1>1, <1>3, <2>1, <2>2, <2>3, <2>5 DEF u
  <1> QED BY <1>2, <1>3

LEMMA PreparedOutbox ==
  ASSUME ExportTypeOK, ShownWasSent, NEW s \in State, NEW c \in Configs, s.digest = c,
         Sendable(s, sent), Dated(s), LastIsShown(s), NEW automatic \in BOOLEAN
  PROVE  /\ Prepared(s, c, automatic) \in State
         /\ Prepared(s, c, automatic).digest = c
         /\ Sendable(Prepared(s, c, automatic), sent)
         /\ Dated(Prepared(s, c, automatic))
         /\ LastIsShown(Prepared(s, c, automatic))
  <1>1. CASE Coalesced(s, c, automatic)
    BY <1>1 DEF Prepared
  <1>2. CASE ~Coalesced(s, c, automatic)
    <2> DEFINE snap == [seq |-> s.seq + 1, content |-> Report(c)]
               pending == [snap |-> snap, created |-> now, attempts |-> 0, next |-> 0,
                           failure |-> None]
               u == [seq |-> s.seq + 1, digest |-> s.digest, last |-> s.last,
                     pending |-> pending]
    <2>0. Prepared(s, c, automatic) = u
      BY <1>2 DEF Prepared
    <2>1. Report(c) \in Content /\ Report(c).scope = c.scope /\ Report(c).since = now \div Day
      BY ReportType DEF ExportTypeOK
    <2>2. pending \in Pending /\ pending # None
      BY <2>1, NoValueAssumption, ExportAssumption DEF Pending, Snapshot, State, Times, ExportTypeOK
    <2> HIDE DEF pending
    <2>3. /\ u \in State /\ u.seq = s.seq + 1 /\ u.pending = pending
          /\ u.digest = c /\ u.last = s.last /\ s.seq \in Nat
      <3>1. /\ s.seq \in Nat /\ s.digest \in Configs \cup {None}
            /\ s.last \in Content \cup {None}
        BY DEF State
      <3> QED BY <2>2, <3>1 DEF State
    <2>4a. s.pending = None
      BY <1>2 DEF Coalesced
    <2>3a. /\ pending.snap = snap /\ pending.created = now
      BY DEF pending
    <2> HIDE DEF u
    <2>4. Sendable(u, sent)
      <3>1. \A m \in sent : m.snap.seq \in Nat /\ m.snap.seq <= s.seq
        BY DEF ExportTypeOK, Requests, Snapshot, Sendable
      <3> QED BY <2>1, <2>2, <2>3, <2>3a, <3>1, ExportAssumption DEF Sendable
    <2>5. Dated(u)
      BY <2>1, <2>2, <2>3, <2>3a, <2>4a DEF Dated, ExportTypeOK, Times
    <2>6. LastIsShown(u)
      BY <2>3, <2>4a DEF LastIsShown, Waiting
    <2> QED BY <2>0, <2>3, <2>4, <2>5, <2>6
  <1> QED BY <1>1, <1>2

Kinds == {"push", "retry", "automatic"}

LEMMA OutboxOutbox ==
  ASSUME ExportInv, config \in Configs, NEW kind \in Kinds
  PROVE  /\ Outbox(kind) \in State
         /\ Outbox(kind).digest = config
         /\ Sendable(Outbox(kind), sent)
         /\ Dated(Outbox(kind))
         /\ LastIsShown(Outbox(kind))
  <1>1. /\ Current \in State /\ Current.digest = config
        /\ Sendable(Current, sent) /\ Dated(Current) /\ LastIsShown(Current)
    BY SynchronizedOutbox DEF Current, ExportInv, OutboxInv, ExportTypeOK
  <1>2. (kind = "automatic") \in BOOLEAN
    OBVIOUS
  <1> QED BY <1>1, <1>2, PreparedOutbox DEF Outbox, ExportInv

LEMMA Answers ==
  ASSUME NEW kind \in Kinds
  PROVE  /\ Answer(kind) = "send" => Enabled(kind) /\ Outbox(kind).pending # None
         /\ Answer(kind) = "unchanged" => Enabled(kind) /\ Outbox(kind).pending = None
         /\ Answer(kind) = "deferred" => Outbox(kind).pending # None
         /\ Answer(kind) \in {"send", "unchanged", "deferred", "disabled", "failed"}
  BY DEF Answer, Kinds

-----------------------------------------------------------------------------
(* The initial states, and the steps, by what they change.                 *)
LEMMA ExportInitInv == ExportInit => ExportInv
  <1> SUFFICES ASSUME ExportInit PROVE ExportInv
    OBVIOUS
  <1>1. Unused \in State /\ Unused.pending = None /\ Unused.last = None
    BY DEF Unused, State
  <1>2. ExportTypeOK
    BY <1>1, ExportAssumption DEF ExportInit, ExportTypeOK, Times
  <1> QED
    BY <1>1, <1>2 DEF ExportInit, ExportInv, OutboxInv, Sendable, Dated, LastIsShown,
                      ShownWasSent, OneRequestPerSequence

(* A new outbox that fits the requests that have left.                     *)
LEMMA OutboxReplaced ==
  ASSUME ExportInv, NEW t \in State, Sendable(t, sent), Dated(t), LastIsShown(t),
         state' = t, UNCHANGED <<now, sent, receiver>>
  PROVE  OutboxInv' /\ ShownWasSent' /\ OneRequestPerSequence'
  BY DEF ExportInv, OutboxInv, Sendable, Dated, LastIsShown, Waiting, Shown, Request,
         ShownWasSent, OneRequestPerSequence

LEMMA OutboxUntouched ==
  ASSUME ExportInv, UNCHANGED <<now, state, sent, receiver>>
  PROVE  OutboxInv' /\ ShownWasSent' /\ OneRequestPerSequence'
  <1>1. state \in State /\ Sendable(state, sent) /\ Dated(state) /\ LastIsShown(state)
    BY DEF ExportInv, OutboxInv, ExportTypeOK
  <1> QED BY <1>1, OutboxReplaced

LEMMA TickInv == ASSUME ExportInv, Tick PROVE ExportInv'
  <1> USE DEF ExportInv, Tick, deliveryVars
  <1>1. ExportTypeOK'
    BY ExportAssumption DEF ExportTypeOK, Times
  <1>2. now \in Nat /\ now' = now + 1 /\ now' \in Nat
    BY DEF ExportTypeOK, Times
  <1>3. /\ now \div Day \in Nat /\ now' \div Day \in Nat
        /\ now \div Day <= now' \div Day
    BY <1>2, DayType, DayGrows, ExportAssumption
  <1>4. state.last # None => state.last.since \in Nat
    BY DEF ExportTypeOK, State, Content, Times
  <1>5. state.pending # None => state.pending.created \in Nat
    BY DEF ExportTypeOK, State, Pending, Times
  <1>6. Dated(state)'
    BY <1>2, <1>3, <1>4, <1>5 DEF OutboxInv, Dated
  <1>7. LastIsShown(state)'
    BY <1>3, <1>4 DEF OutboxInv, LastIsShown, Waiting, Shown, Request
  <1> QED
    BY <1>1, <1>6, <1>7 DEF OutboxInv, Sendable, ShownWasSent, OneRequestPerSequence, Request

LEMMA ArriveInv == ASSUME ExportInv, NEW m \in sent, Arrive(m) PROVE ExportInv'
  <1> USE DEF ExportInv, Arrive
  <1>1. m \in Requests /\ m.to \in Destinations /\ m.snap \in Snapshot
    BY DEF ExportTypeOK, Requests
  <1>2. ExportTypeOK'
    BY <1>1 DEF ExportTypeOK
  <1>3. ShownWasSent'
    <2> SUFFICES ASSUME NEW d \in Destinations, receiver'[d] # None
                 PROVE  [to |-> d, snap |-> receiver'[d]] \in sent
      BY DEF ShownWasSent
    <2>1. CASE d = m.to
      BY <1>1, <2>1 DEF ExportTypeOK, Requests
    <2>2. CASE d # m.to
      BY <1>1, <2>2 DEF ExportTypeOK, ShownWasSent
    <2> QED BY <2>1, <2>2
  <1>4. LastIsShown(state)'
    <2> DEFINE d == state.digest.to
    <2> SUFFICES ASSUME state.last # None, ~ (state.last.since < now \div Day)
                 PROVE  /\ receiver'[d] # None
                        /\ \/ receiver'[d].content = state.last
                           \/ Waiting(state, [to |-> d, snap |-> receiver'[d]])
                        /\ \A n \in sent : n.to = d => n.snap.seq <= Shown(d)' \/ Waiting(state, n)
      BY DEF LastIsShown, Waiting, Request
    <2>0. /\ receiver[d] # None
          /\ receiver[d].content = state.last \/ Waiting(state, [to |-> d, snap |-> receiver[d]])
          /\ \A n \in sent : n.to = d => n.snap.seq <= Shown(d) \/ Waiting(state, n)
      BY DEF OutboxInv, LastIsShown
    <2>1. CASE d # m.to
      <3>1. receiver'[d] = receiver[d]
        BY <1>1, <2>1 DEF ExportTypeOK
      <3> QED BY <2>0, <3>1 DEF Shown
    <2>2. CASE d = m.to
      <3>1. receiver'[d] = m.snap
        BY <1>1, <2>2 DEF ExportTypeOK
      <3>2. d \in Destinations /\ receiver[d] \in Snapshot
        BY <1>1, <2>0, <2>2 DEF ExportTypeOK
      <3>3. Shown(d) \in Nat /\ m.snap.seq \in Nat /\ Shown(d) < m.snap.seq
        BY <1>1, <2>0, <2>2, <3>2 DEF Shown, Newer, Snapshot
      <3>4. Waiting(state, m)
        BY <2>0, <2>2, <3>3
      <3>5. m = [to |-> d, snap |-> m.snap]
        BY <1>1, <2>2 DEF Requests
      <3> QED
        <4>1. m.snap # None
          BY <1>1, NoValueAssumption
        <4> QED BY <2>0, <3>1, <3>3, <3>4, <3>5, <4>1 DEF Shown, ExportTypeOK, Requests, Snapshot
    <2> QED BY <2>1, <2>2
  <1> QED
    BY <1>2, <1>3, <1>4 DEF OutboxInv, Sendable, Dated, OneRequestPerSequence, Request

(* What a watcher's end or sleep leaves of its type.                       *)
WatcherType == [Runs -> [pc: {"none", "watching", "pushing", "over"},
                         deadline: Times, wake: Times]]

LEMMA WatcherEnds ==
  ASSUME NEW r \in Runs, watcher \in WatcherType, Ends(r) PROVE watcher' \in WatcherType
  BY ExportAssumption DEF Ends, WatcherType, Times

LEMMA WatcherSleeps ==
  ASSUME NEW r \in Runs, NEW wake \in Nat, watcher \in WatcherType, now \in Times,
         SleepsUntil(r, wake)
  PROVE  watcher' \in WatcherType
  <1>1. CASE now >= watcher[r].deadline
    BY <1>1, WatcherEnds DEF SleepsUntil
  <1>2. CASE ~ (now >= watcher[r].deadline)
    <2> DEFINE next == IF wake < watcher[r].deadline THEN wake ELSE watcher[r].deadline
    <2>1. next \in Times
      BY ExportAssumption DEF WatcherType, Times
    <2>2. watcher' = [watcher EXCEPT ![r].wake = next]
      BY <1>2 DEF SleepsUntil
    <2> QED BY <2>1, <2>2 DEF WatcherType
  <1> QED BY <1>1, <1>2

LEMMA PusherEndsType ==
  ASSUME ExportTypeOK, pusher # None, PusherEnds PROVE watcher' \in WatcherType
  BY WatcherEnds DEF PusherEnds, ExportTypeOK, WatcherType

LEMMA ConfigureInv == ASSUME ExportInv, NEW c \in Configs, Configure(c) PROVE ExportInv'
  <1>1. /\ state' \in State /\ Sendable(state', sent) /\ Dated(state') /\ LastIsShown(state')
    BY SynchronizedOutbox DEF Configure, ExportInv, OutboxInv, ExportTypeOK
  <1>2. OutboxInv' /\ ShownWasSent' /\ OneRequestPerSequence'
    BY <1>1, OutboxReplaced DEF Configure
  <1>3. ExportTypeOK'
    BY <1>1 DEF ExportTypeOK, ExportInv, Configure
  <1> QED BY <1>2, <1>3 DEF ExportInv

LEMMA EditInv == ASSUME ExportInv, NEW c \in Configs \cup {Malformed}, Edit(c) PROVE ExportInv'
  <1>1. OutboxInv' /\ ShownWasSent' /\ OneRequestPerSequence'
    BY OutboxUntouched DEF Edit, deliveryVars
  <1>2. ExportTypeOK'
    BY DEF ExportTypeOK, ExportInv, Edit, deliveryVars
  <1> QED BY <1>1, <1>2 DEF ExportInv

LEMMA FreeConfig == ASSUME ExportTypeOK, Free PROVE config \in Configs /\ pusher = None
  BY DEF ExportTypeOK, Free

LEMMA StatusInv == ASSUME ExportInv, Status PROVE ExportInv'
  <1>0. config \in Configs /\ pusher = None
    BY FreeConfig DEF Status, ExportInv
  <1>1. /\ state' \in State /\ Sendable(state', sent) /\ Dated(state') /\ LastIsShown(state')
    BY <1>0, SynchronizedOutbox DEF Status, Current, ExportInv, OutboxInv, ExportTypeOK
  <1>2. OutboxInv' /\ ShownWasSent' /\ OneRequestPerSequence'
    BY <1>1, OutboxReplaced DEF Status
  <1>3. ExportTypeOK'
    BY <1>0, <1>1 DEF ExportTypeOK, ExportInv, Status
  <1> QED BY <1>2, <1>3 DEF ExportInv

LEMMA PreviewInv == ASSUME ExportInv, Preview PROVE ExportInv'
  <1>0. config \in Configs /\ pusher = None
    BY FreeConfig DEF Preview, ExportInv
  <1>1. /\ Current \in State /\ Current.digest = config
        /\ Sendable(Current, sent) /\ Dated(Current) /\ LastIsShown(Current)
    BY <1>0, SynchronizedOutbox DEF Current, ExportInv, OutboxInv, ExportTypeOK
  <1>2. /\ state' \in State /\ Sendable(state', sent) /\ Dated(state') /\ LastIsShown(state')
    BY <1>0, <1>1, PreparedOutbox DEF Preview, ExportInv
  <1>3. OutboxInv' /\ ShownWasSent' /\ OneRequestPerSequence'
    BY <1>2, OutboxReplaced DEF Preview
  <1>4. ExportTypeOK'
    BY <1>0, <1>2 DEF ExportTypeOK, ExportInv, Preview
  <1> QED BY <1>3, <1>4 DEF ExportInv

(* A push up to its request: everything but the watcher of the pusher.     *)
LEMMA BeginInv ==
  ASSUME ExportInv, NEW kind \in Kinds, NEW who \in Runs \cup {ByHand}, Begin(kind, who),
         watcher' \in WatcherType
  PROVE  ExportInv'
  <1>0. config \in Configs /\ pusher = None
    BY FreeConfig DEF Begin, ExportInv
  <1> DEFINE t == Outbox(kind)
  <1>1. t \in State /\ t.digest = config /\ Sendable(t, sent) /\ Dated(t) /\ LastIsShown(t)
    BY <1>0, OutboxOutbox
  <1>2. state' = t /\ UNCHANGED <<now, runs, config, receiver>>
    BY DEF Begin
  <1>3. CASE Answer(kind) # "send"
    <2>1. UNCHANGED <<pusher, sent>>
      BY <1>3 DEF Begin
    <2>2. OutboxInv' /\ ShownWasSent' /\ OneRequestPerSequence'
      BY <1>1, <1>2, <2>1, OutboxReplaced
    <2>3. ExportTypeOK'
      BY <1>0, <1>1, <1>2, <2>1 DEF ExportTypeOK, ExportInv, WatcherType
    <2> QED BY <2>2, <2>3 DEF ExportInv
  <1>4. CASE Answer(kind) = "send"
    <2> DEFINE m == Request(t, config)
    <2>1. pusher' = who /\ sent' = sent \cup {m}
      BY <1>2, <1>4 DEF Begin
    <2>2. t.pending # None
      BY <1>4, Answers
    <2> HIDE DEF t
    <2>3. /\ m = [to |-> config.to, snap |-> t.pending.snap]
          /\ t.pending.snap \in Snapshot /\ config.to \in Destinations
      BY <1>0, <1>1, <2>2, ExportAssumption DEF Request, State, Pending
    <2>4. m \in Requests /\ m.to = config.to /\ m.snap.seq = t.seq
      BY <1>1, <2>2, <2>3 DEF Requests, Sendable
    <2> HIDE DEF m
    <2>5. m = Request(t, t.digest)
      BY <1>1 DEF m
    <2>6. Sendable(t, sent')
      BY <1>1, <2>1, <2>4, <2>5 DEF Sendable, State
    <2>7. LastIsShown(state)'
      BY <1>1, <1>2, <2>1, <2>2, <2>5 DEF LastIsShown, Waiting, Shown, Request
    <2>8. OutboxInv'
      BY <1>1, <1>2, <2>6, <2>7 DEF OutboxInv, Sendable, Dated, Request
    <2>9. ShownWasSent'
      BY <1>2, <2>1 DEF ExportInv, ShownWasSent
    <2>10. OneRequestPerSequence'
      <3>1. \A n \in sent : n.snap.seq = m.snap.seq => n = m
        BY <1>1, <2>2, <2>4, <2>5 DEF Sendable
      <3> QED BY <2>1, <3>1 DEF ExportInv, OneRequestPerSequence
    <2>11. ExportTypeOK'
      BY <1>0, <1>1, <1>2, <2>1, <2>2, <2>4, ExportAssumption
         DEF ExportTypeOK, ExportInv, WatcherType
    <2> QED BY <2>8, <2>9, <2>10, <2>11 DEF ExportInv
  <1> QED BY <1>3, <1>4

LEMMA SucceedInv == ASSUME ExportInv, Succeed PROVE ExportInv'
  <1> USE DEF ExportInv, Succeed
  <1>0. /\ state \in State /\ state.pending \in Pending /\ state.pending # None
        /\ state.digest \in Configs /\ state.digest.to \in Destinations
        /\ state.pending.snap \in Snapshot
    BY ExportAssumption DEF ExportTypeOK, State, Pending
  <1> DEFINE t == [state EXCEPT !.pending = None, !.last = state.pending.snap.content]
             d == state.digest.to
             snap == state.pending.snap
  <1>1. /\ t \in State /\ t.seq = state.seq /\ t.pending = None
        /\ t.digest = state.digest /\ t.last = snap.content
    BY <1>0 DEF State, Snapshot
  <1> HIDE DEF t
  <1>2. receiver[d] = snap /\ receiver[d] # None
    <2>1. Shown(d) >= snap.seq /\ snap.seq \in Nat \ {0} /\ Shown(d) \in Nat
      BY <1>0 DEF Newer, InFlight, Request, Shown, ExportTypeOK, Snapshot
    <2>2. receiver[d] # None /\ receiver[d].seq = Shown(d)
      BY <2>1 DEF Shown
    <2>3. [to |-> d, snap |-> receiver[d]] \in sent
      BY <1>0, <2>2 DEF ShownWasSent
    <2>4. Shown(d) <= state.seq /\ snap.seq = state.seq
      BY <1>0, <2>2, <2>3 DEF OutboxInv, Sendable
    <2>5. [to |-> d, snap |-> receiver[d]] = Request(state, state.digest)
      BY <1>0, <2>1, <2>2, <2>3, <2>4 DEF OutboxInv, Sendable
    <2> QED BY <2>2, <2>5 DEF Request
  <1>3. Sendable(t, sent)
    BY <1>1 DEF OutboxInv, Sendable
  <1>4. Dated(t)
    <2>1. snap.content.since = state.pending.created \div Day /\ state.pending.created <= now
      BY <1>0 DEF OutboxInv, Dated
    <2>2. state.pending.created \in Nat /\ now \in Nat
      BY <1>0 DEF Pending, Times, ExportTypeOK
    <2>3. snap.content.since <= now \div Day
      BY <2>1, <2>2, DayGrows, ExportAssumption
    <2> QED BY <1>0, <1>1, <2>3, ExportAssumption DEF Dated
  <1>5. LastIsShown(t)
    <2>1. \A m \in sent : m.snap.seq <= Shown(d)
      BY <1>0, <1>2 DEF OutboxInv, Sendable, Shown
    <2> QED BY <1>1, <1>2, <2>1 DEF LastIsShown
  <1>6. OutboxInv' /\ ShownWasSent' /\ OneRequestPerSequence'
    BY <1>1, <1>3, <1>4, <1>5, OutboxReplaced DEF t
  <1>7. ExportTypeOK'
    BY <1>1, PusherEndsType DEF ExportTypeOK, WatcherType, t
  <1> QED BY <1>6, <1>7

LEMMA FailInv ==
  ASSUME ExportInv, NEW failure \in {"transient", "permanent"}, Fail(failure)
  PROVE  ExportInv'
  <1> USE DEF ExportInv, Fail
  <1>0. /\ state \in State /\ state.pending \in Pending /\ state.pending # None
        /\ now \in Times
    BY DEF ExportTypeOK, State
  <1> DEFINE old == state.pending
             attempts == IF old.attempts < MaxAttempts THEN old.attempts + 1 ELSE old.attempts
             next == now + Delay(old.attempts)
             pending == [snap |-> old.snap, created |-> old.created, failure |-> failure,
                         attempts |-> attempts, next |-> next]
             t == [state EXCEPT !.pending = pending]
  <1>1. Delay(old.attempts) \in 0..RetryMax
    BY ExportAssumption DEF Delay
  <1>2. attempts \in 0..MaxAttempts /\ next \in 0..(EndOfTime + RetryMax)
    BY <1>0, <1>1, ExportAssumption DEF Pending, Times
  <1> HIDE DEF attempts, next
  <1>3. pending \in Pending /\ pending # None
    BY <1>0, <1>2, NoValueAssumption DEF Pending
  <1>4. pending.snap = old.snap /\ pending.created = old.created
    OBVIOUS
  <1> HIDE DEF pending
  <1>5. /\ t \in State /\ t.seq = state.seq /\ t.pending = pending
        /\ t.digest = state.digest /\ t.last = state.last
    BY <1>0, <1>3 DEF State
  <1>6. state' = t
    BY DEF Failed, t, pending, attempts, next
  <1> HIDE DEF t
  <1>7. \A c : Request(t, c) = Request(state, c)
    BY <1>4, <1>5 DEF Request
  <1>8. Sendable(t, sent) /\ Dated(t) /\ LastIsShown(t)
    BY <1>0, <1>3, <1>4, <1>5, <1>7 DEF OutboxInv, Sendable, Dated, LastIsShown, Waiting
  <1>9. OutboxInv' /\ ShownWasSent' /\ OneRequestPerSequence'
    BY <1>5, <1>6, <1>8, OutboxReplaced
  <1>10. watcher' \in WatcherType
    <2>1. next \in Nat
      BY <1>2, ExportAssumption
    <2>2. CASE /\ pusher # ByHand /\ failure = "transient"
               /\ state.pending.attempts + 1 < MaxAttempts
      <3>1. pusher \in Runs /\ SleepsUntil(pusher, next)
        BY <2>2 DEF ExportTypeOK, next
      <3> QED BY <1>0, <2>1, <3>1, WatcherSleeps DEF ExportTypeOK, WatcherType
    <2>3. CASE PusherEnds
      BY <2>3, PusherEndsType
    <2> QED BY <2>2, <2>3
  <1>11. ExportTypeOK'
    BY <1>5, <1>6, <1>10 DEF ExportTypeOK, WatcherType
  <1> QED BY <1>9, <1>11

LEMMA WatcherPushesInv == ASSUME ExportInv, NEW r \in Runs, WatcherPushes(r) PROVE ExportInv'
  <1>0. config \in Configs
    BY FreeConfig DEF WatcherPushes, Begin, ExportInv
  <1>1. watcher \in WatcherType /\ now \in Times
    BY DEF ExportInv, ExportTypeOK, WatcherType
  <1>2. "automatic" \in Kinds
    BY DEF Kinds
  <1>3. watcher' \in WatcherType
    <2>1. CASE Answer("automatic") = "send"
      BY <1>1, <2>1 DEF WatcherPushes
    <2>2. CASE Answer("automatic") = "deferred"
      <3>1. Outbox("automatic").pending.next \in Nat
        BY <1>0, <1>2, <2>2, Answers, OutboxOutbox, ExportAssumption DEF State, Pending
      <3>2. SleepsUntil(r, Outbox("automatic").pending.next)
        BY <2>2 DEF WatcherPushes
      <3> QED BY <1>1, <3>1, <3>2, WatcherSleeps
    <2>3. CASE Answer("automatic") \in {"disabled", "unchanged", "failed"}
      <3>1. Ends(r)
        BY <2>3 DEF WatcherPushes
      <3> QED BY <1>1, <3>1, WatcherEnds
    <2> QED BY <1>2, <2>1, <2>2, <2>3, Answers
  <1> QED BY <1>2, <1>3, BeginInv DEF WatcherPushes

(* The steps of watchers and of runs that leave the outbox alone.          *)
LEMMA BystanderInv ==
  ASSUME ExportInv, NEW r \in Runs,
         \/ RunMoves(r) \/ Observe(r) \/ WatcherSeesEnd(r) \/ WatcherGivesUp(r)
         \/ WatcherCannotPush(r) \/ WatcherDies(r)
  PROVE  ExportInv'
  <1>0. watcher \in WatcherType /\ now \in Times
    BY DEF ExportInv, ExportTypeOK, WatcherType
  <1>1. UNCHANGED <<now, config, state, pusher, sent, receiver>>
    BY DEF RunMoves, Observe, WatcherSeesEnd, WatcherGivesUp, WatcherCannotPush, WatcherDies,
           deliveryVars
  <1>2. OutboxInv' /\ ShownWasSent' /\ OneRequestPerSequence'
    BY <1>1, OutboxUntouched
  <1>3. runs' \in [Runs -> {"none", "running", "ended", "removed"}]
    BY DEF RunMoves, Observe, WatcherSeesEnd, WatcherGivesUp, WatcherCannotPush, WatcherDies,
           ExportInv, ExportTypeOK
  <1>4. watcher' \in WatcherType
    <2>1. CASE RunMoves(r)
      BY <1>0, <2>1 DEF RunMoves, deliveryVars
    <2>2. CASE Observe(r)
      <3>1. now + WatchTime \in Times
        BY <1>0, <2>2, ExportAssumption DEF Observe, Times
      <3> QED BY <1>0, <2>2, <3>1, ExportAssumption DEF Observe, WatcherType, Times
    <2>3. CASE WatcherSeesEnd(r)
      BY <1>0, <2>3 DEF WatcherSeesEnd, WatcherType
    <2>4. CASE WatcherGivesUp(r) \/ WatcherCannotPush(r) \/ WatcherDies(r)
      <3>1. Ends(r)
        BY <2>4 DEF WatcherGivesUp, WatcherCannotPush, WatcherDies
      <3> QED BY <1>0, <3>1, WatcherEnds
    <2> QED BY <2>1, <2>2, <2>3, <2>4
  <1>5. ExportTypeOK'
    BY <1>1, <1>3, <1>4 DEF ExportInv, ExportTypeOK, WatcherType
  <1> QED BY <1>2, <1>5 DEF ExportInv

LEMMA ExportStepInv == ExportInv /\ [ExportNext]_exportVars => ExportInv'
  <1> SUFFICES ASSUME ExportInv, [ExportNext]_exportVars PROVE ExportInv'
    OBVIOUS
  <1>1. CASE Tick
    BY <1>1, TickInv
  <1>2. ASSUME NEW c \in Configs, Configure(c) PROVE ExportInv'
    BY <1>2, ConfigureInv
  <1>3. ASSUME NEW c \in Configs \cup {Malformed}, Edit(c) PROVE ExportInv'
    BY <1>3, EditInv
  <1>4. CASE Status
    BY <1>4, StatusInv
  <1>5. CASE Preview
    BY <1>5, PreviewInv
  <1>6. ASSUME NEW kind \in {"push", "retry"}, PushByHand(kind) PROVE ExportInv'
    <2>1. watcher' \in WatcherType
      BY <1>6 DEF PushByHand, ExportInv, ExportTypeOK, WatcherType
    <2> QED BY <1>6, <2>1, BeginInv DEF PushByHand, Kinds
  <1>7. CASE Succeed
    BY <1>7, SucceedInv
  <1>8. CASE PushDies
    <2>1. OutboxInv' /\ ShownWasSent' /\ OneRequestPerSequence'
      BY <1>8, OutboxUntouched DEF PushDies
    <2>2. watcher' \in WatcherType
      BY <1>8, PusherEndsType DEF PushDies, ExportInv
    <2>3. ExportTypeOK'
      BY <1>8, <2>2 DEF PushDies, ExportInv, ExportTypeOK, WatcherType
    <2> QED BY <2>1, <2>3 DEF ExportInv
  <1>9. ASSUME NEW failure \in {"transient", "permanent"}, Fail(failure) PROVE ExportInv'
    BY <1>9, FailInv
  <1>10. ASSUME NEW m \in sent, Arrive(m) PROVE ExportInv'
    BY <1>10, ArriveInv
  <1>11. ASSUME NEW r \in Runs, WatcherPushes(r) PROVE ExportInv'
    BY <1>11, WatcherPushesInv
  <1>12. ASSUME NEW r \in Runs,
                \/ RunMoves(r) \/ Observe(r) \/ WatcherSeesEnd(r) \/ WatcherGivesUp(r)
                \/ WatcherCannotPush(r) \/ WatcherDies(r)
         PROVE ExportInv'
    BY <1>12, BystanderInv
  <1>13. CASE UNCHANGED exportVars
    <2>1. OutboxInv' /\ ShownWasSent' /\ OneRequestPerSequence'
      BY <1>13, OutboxUntouched DEF exportVars, deliveryVars
    <2>2. ExportTypeOK'
      BY <1>13 DEF exportVars, deliveryVars, ExportInv, ExportTypeOK
    <2> QED BY <2>1, <2>2 DEF ExportInv
  <1> QED
    BY <1>1, <1>2, <1>3, <1>4, <1>5, <1>6, <1>7, <1>8, <1>9, <1>10, <1>11, <1>12, <1>13
       DEF ExportNext

(* The inductive invariant holds in every reachable state.                 *)
THEOREM ExportInvariant == ExportSpec => []ExportInv
  BY ExportInitInv, ExportStepInv, PTL DEF ExportSpec

-----------------------------------------------------------------------------
(* Every variable of the delivery keeps its type (export_state.py).        *)
THEOREM ExportTypes == ExportSpec => []ExportTypeOK
  <1>1. ExportInv => ExportTypeOK
    BY DEF ExportInv
  <1> QED BY <1>1, ExportInvariant, PTL

(* A number stands for one body and one destination for ever: whatever     *)
(* fails, dies, expires or is reconfigured (push, _prepare, _synchronize). *)
THEOREM BodiesAreKept == ExportSpec => []OneRequestPerSequence
  <1>1. ExportInv => OneRequestPerSequence
    BY DEF ExportInv
  <1> QED BY <1>1, ExportInvariant, PTL

(* A push never sends what its receiver would take for outdated: the       *)
(* sequence survives every reset of the outbox (_synchronize).             *)
THEOREM SequencesProceed == ExportSpec => []SequencesMoveForward
  <1>1. ExportInv => SequencesMoveForward
    <2> SUFFICES ASSUME ExportInv, pusher # None, receiver[InFlight.to] # None
                 PROVE  LET shown == receiver[InFlight.to]
                        IN  shown.seq < InFlight.snap.seq \/ shown = InFlight.snap
      BY DEF SequencesMoveForward
    <2> DEFINE d == InFlight.to
    <2>0. state \in State /\ state.pending # None /\ state.digest \in Configs
      BY DEF ExportInv, ExportTypeOK, State
    <2>1. InFlight = [to |-> state.digest.to, snap |-> state.pending.snap] /\ d \in Destinations
      BY <2>0, ExportAssumption DEF InFlight, Request
    <2>2. [to |-> d, snap |-> receiver[d]] \in sent /\ receiver[d].seq \in Nat
      BY <2>1 DEF ExportInv, ShownWasSent, ExportTypeOK, Snapshot
    <2>3. receiver[d].seq <= state.seq /\ state.pending.snap.seq = state.seq /\ state.seq \in Nat
      BY <2>0, <2>2 DEF ExportInv, OutboxInv, Sendable, State
    <2>4. CASE receiver[d].seq < state.seq
      BY <2>1, <2>3, <2>4
    <2>5. CASE receiver[d].seq = state.seq
      <3>1. [to |-> d, snap |-> receiver[d]] = InFlight
        BY <2>0, <2>2, <2>5 DEF ExportInv, OutboxInv, Sendable, InFlight
      <3> QED BY <3>1
    <2> QED BY <2>2, <2>3, <2>4, <2>5
  <1> QED BY <1>1, ExportInvariant, PTL

(* The automatic export skips a push only when the receiver shows the      *)
(* statistics of this moment: an accepted snapshot whose answer was lost   *)
(* and that expired is of an earlier day (last_payload_digest).            *)
THEOREM SkippedIsShown == ExportSpec => []UnchangedIsShown
  <1>1. ExportInv => UnchangedIsShown
    <2> SUFFICES ASSUME ExportInv, Free, Enabled("automatic"), Answer("automatic") = "unchanged"
                 PROVE  receiver[config.to] # None /\ receiver[config.to].content = Report(config)
      BY DEF UnchangedIsShown
    <2>0. config \in Configs /\ "automatic" \in Kinds
      BY FreeConfig DEF ExportInv, Kinds
    <2>1. /\ Current \in State /\ Current.digest = config
          /\ Sendable(Current, sent) /\ Dated(Current) /\ LastIsShown(Current)
      BY <2>0, SynchronizedOutbox DEF Current, ExportInv, OutboxInv, ExportTypeOK
    <2>2. Outbox("automatic").pending = None
      BY <2>0, Answers
    <2>3. Outbox("automatic") = Prepared(Current, config, TRUE)
      BY DEF Outbox
    <2>4. Coalesced(Current, config, TRUE)
      <3> SUFFICES ASSUME ~ Coalesced(Current, config, TRUE) PROVE FALSE
        OBVIOUS
      <3> DEFINE pending == [snap |-> [seq |-> Current.seq + 1, content |-> Report(config)],
                             created |-> now, attempts |-> 0, next |-> 0, failure |-> None]
      <3>1. Prepared(Current, config, TRUE).pending = pending
        BY DEF Prepared
      <3>2. Report(config) \in Content /\ Current.seq \in Nat /\ now \in Times
        BY <2>0, <2>1, ReportType DEF ExportInv, ExportTypeOK, State
      <3>3. pending \in Pending
        BY <3>2, ExportAssumption DEF Pending, Snapshot, Times
      <3> QED BY <2>2, <2>3, <3>1, <3>3, NoValueAssumption
    <2>5. Current.pending = None
      BY <2>2, <2>3, <2>4 DEF Prepared
    <2>6. Current.last = Report(config)
      BY <2>4, <2>5 DEF Coalesced
    <2>7. /\ Report(config) \in Content /\ Report(config).since = now \div Day
          /\ now \div Day \in Nat
      BY <2>0, ReportType DEF ExportInv, ExportTypeOK, Content, Times
    <2>8. Current.last # None /\ ~ (Current.last.since < now \div Day)
      BY <2>6, <2>7, NoValueAssumption
    <2> QED BY <2>1, <2>5, <2>6, <2>8 DEF LastIsShown, Waiting
  <1> QED BY <1>1, ExportInvariant, PTL

(* Nothing leaves but to the place and with the scope of the configuration *)
(* read in the same step, which is not disabled (push after _synchronize). *)
THEOREM NothingElseIsShared == ExportSpec => SentAsConfigured
  <1>1. ExportInv /\ [ExportNext]_exportVars =>
          [\A m \in sent' \ sent :
              /\ m.to = config.to /\ m.snap.content.scope = config.scope
              /\ config.mode # "disabled"]_exportVars
    <2> SUFFICES ASSUME ExportInv, [ExportNext]_exportVars, NEW m \in sent' \ sent
                 PROVE  /\ m.to = config.to /\ m.snap.content.scope = config.scope
                        /\ config.mode # "disabled"
      OBVIOUS
    <2>1. PICK kind \in Kinds, who \in Runs \cup {ByHand} : Begin(kind, who)
      <3>1. CASE \E k \in {"push", "retry"} : PushByHand(k)
        BY <3>1 DEF PushByHand, Kinds
      <3>2. CASE \E r \in Runs : WatcherPushes(r)
        BY <3>2 DEF WatcherPushes, Kinds
      <3>3. CASE UNCHANGED sent
        BY <3>3
      <3> QED
        BY <3>1, <3>2, <3>3
           DEF ExportNext, exportVars, deliveryVars, Tick, Configure, Edit, Status, Preview,
               Succeed, PushDies, Fail, Arrive, RunMoves, Observe, WatcherSeesEnd,
               WatcherGivesUp, WatcherCannotPush, WatcherDies
    <2>2. config \in Configs
      BY <2>1, FreeConfig DEF ExportInv, Begin
    <2>3. Answer(kind) = "send" /\ m = Request(Outbox(kind), config)
      BY <2>1 DEF Begin
    <2>4. Enabled(kind) /\ Outbox(kind).pending # None
      BY <2>1, <2>3, Answers
    <2>5. Outbox(kind).digest = config /\ Sendable(Outbox(kind), sent)
      BY <2>1, <2>2, OutboxOutbox
    <2> QED BY <2>3, <2>4, <2>5 DEF Sendable, Request, Enabled
  <1> QED BY <1>1, ExportInvariant, PTL DEF ExportSpec, SentAsConfigured
=============================================================================

------------------------------- MODULE Export -------------------------------
(***************************************************************************)
(* Optional delivery of statistics: the single-slot outbox of a data       *)
(* directory (ExportService over FileExportStore), the watcher processes   *)
(* started beside runs (AutomaticExport, ExportWatcher), and the receivers *)
(* they report to (external).  Every operation holds export.lock from its  *)
(* first read to its last write, the request to the receiver included, so  *)
(* all but a push are one action here; the lock dies with its holder.  The *)
(* configuration file may also be edited without the lock, and runs begin  *)
(* and end without it.  Wall clock and monotonic clock are one.  The local *)
(* dashboard, which also keeps a watcher watching, is left out.            *)
(***************************************************************************)
EXTENDS Naturals, FiniteSets

CONSTANTS
    Runs, None,
    ByHand,             \* a push, retry or preview that someone asked for
    Malformed,          \* a configuration file that does not validate
    Configs,            \* configurations that do
    Destinations, Scopes,
    Day,                \* ticks in a day
    Retention,          \* ticks a pending snapshot is kept, a day or more
    MaxAttempts, RetryInitial, RetryMax,    \* the delivery policy
    WatchTime,          \* ticks a watcher watches
    EndOfTime,          \* bound of the model: the last tick
    MaxSequence         \* bound of the model: sequences prepared by hand

ASSUME ExportAssumption ==
    /\ IsFiniteSet(Runs)
    /\ Day \in Nat \ {0} /\ Retention \in Nat /\ Day <= Retention
    /\ {MaxAttempts, RetryInitial, RetryMax} \subseteq Nat \ {0}
    /\ WatchTime \in Nat /\ EndOfTime \in Nat /\ MaxSequence \in Nat
    /\ Malformed \notin Configs /\ None \notin Configs \cup Runs
    /\ ByHand \notin Runs \cup {None}
    /\ Configs \subseteq [mode: {"disabled", "manual", "after_workflow"},
                          to: Destinations, scope: Scopes]

VARIABLES
    now,        \* the wall clock
    runs,       \* the ledger, as far as statistics count it
    config,     \* observability.yaml
    state,      \* export-state.json
    pusher,     \* whose push holds the lock and waits for the receiver
    sent,       \* history: every request handed to the sender
    receiver,   \* the latest snapshot of this source at each destination
    watcher     \* the watcher process of each run

deliveryVars == <<state, pusher, sent, receiver, watcher>>
exportVars == <<now, runs, config, deliveryVars>>

Times == 0..EndOfTime
Counts == 0..Cardinality(Runs)
Content == [since: Times, running: Counts, ended: Counts, scope: Scopes]
Snapshot == [seq: Nat \ {0}, content: Content]
Pending == [snap: Snapshot, created: Times, attempts: 0..MaxAttempts,
            next: 0..(EndOfTime + RetryMax),
            failure: {None, "transient", "permanent"}]
State == [seq: Nat, digest: Configs \cup {None},
          pending: Pending \cup {None}, last: Content \cup {None}]
Requests == [to: Destinations, snap: Snapshot]

ASSUME NoValueAssumption == None \notin Pending \cup Snapshot \cup Content

ExportTypeOK ==
    /\ now \in Times
    /\ runs \in [Runs -> {"none", "running", "ended", "removed"}]
    /\ config \in Configs \cup {Malformed}
    /\ state \in State
    /\ pusher \in Runs \cup {ByHand, None}
    /\ pusher # None => state.pending # None /\ state.digest # None
    /\ sent \subseteq Requests
    /\ receiver \in [Destinations -> Snapshot \cup {None}]
    /\ watcher \in [Runs -> [pc: {"none", "watching", "pushing", "over"},
                             deadline: Times, wake: Times]]

Unused == [seq |-> 0, digest |-> None, pending |-> None, last |-> None]

ExportInit ==
    /\ now = 0
    /\ runs = [r \in Runs |-> "none"]
    /\ config \in Configs \cup {Malformed}
    /\ state = Unused
    /\ pusher = None
    /\ sent = {}
    /\ receiver = [d \in Destinations |-> None]
    /\ watcher = [r \in Runs |-> [pc |-> "none", deadline |-> 0, wake |-> 0]]

-----------------------------------------------------------------------------
(* The report of this moment, reduced to what a configuration shares: the  *)
(* window begins at a midnight, generated_at does not count for equality.  *)
CountOf(status) == Cardinality({r \in Runs : runs[r] = status})
Report(c) ==
    [since |-> now \div Day, running |-> CountOf("running"),
     ended |-> CountOf("ended"), scope |-> c.scope]

(* _synchronize: a changed configuration clears everything but the         *)
(* sequence; a pending snapshot past its retention is dropped.             *)
\* Mutation: the outbox is not compared with the configuration.
ReconfiguredUnchecked(s, c) == [s EXCEPT !.digest = c]
\* Mutation: the digest of the last payload survives.
ReconfiguredKeepingLast(s, c) ==
    IF s.digest = c THEN s ELSE [s EXCEPT !.digest = c, !.pending = None]
\* Mutation: the sequence starts again.
ReconfiguredFromStart(s, c) ==
    IF s.digest = c THEN s ELSE [Unused EXCEPT !.digest = c]
Reconfigured(s, c) ==
    IF s.digest = c THEN s ELSE [Unused EXCEPT !.digest = c, !.seq = s.seq]

Expired(s) == s.pending # None /\ now - s.pending.created >= Retention

Synchronized(s, c) ==
    LET current == Reconfigured(s, c)
    IN IF Expired(current) THEN [current EXCEPT !.pending = None] ELSE current

Current == Synchronized(state, config)

(* _prepare, for an enabled configuration.                                 *)
Coalesced(s, c, automatic) ==
    s.pending # None \/ (automatic /\ s.last = Report(c))
Prepared(s, c, automatic) ==
    IF Coalesced(s, c, automatic)
    THEN s
    ELSE [seq |-> s.seq + 1, digest |-> s.digest, last |-> s.last,
          pending |-> [snap |-> [seq |-> s.seq + 1, content |-> Report(c)],
                       created |-> now, attempts |-> 0, next |-> 0, failure |-> None]]

-----------------------------------------------------------------------------
(* The lock is free and the configuration can be read.  An operation that  *)
(* dies or raises after its first write (an oversized or unreadable report)*)
(* leaves what Edit or Status leave.                                       *)
Free == pusher = None /\ config # Malformed

(* configure and disable: install and synchronize; status: synchronize.    *)
Configure(c) ==
    /\ pusher = None
    /\ config' = c
    /\ state' = Synchronized(state, c)
    /\ UNCHANGED <<now, runs, pusher, sent, receiver, watcher>>

(* The file is edited or replaced by hand, or a configure dies between its *)
(* two steps.                                                              *)
Edit(c) ==
    /\ config' = c
    /\ UNCHANGED <<now, runs, deliveryVars>>

Status ==
    /\ Free
    /\ state' = Current
    /\ UNCHANGED <<now, runs, config, pusher, sent, receiver, watcher>>

Preview ==
    /\ Free /\ config.mode # "disabled"
    /\ state' = Prepared(Current, config, FALSE)
    /\ state'.seq <= MaxSequence
    /\ UNCHANGED <<now, runs, config, pusher, sent, receiver, watcher>>

(* push, up to its request.  "kind" is push, retry or automatic.           *)
Enabled(kind) ==
    /\ config.mode # "disabled"
    /\ kind = "automatic" => config.mode = "after_workflow"
Outbox(kind) ==
    IF Enabled(kind) /\ ~(kind = "retry" /\ Current.pending = None)
    THEN Prepared(Current, config, kind = "automatic")
    ELSE Current
Exhausted(pending) ==
    pending.attempts >= MaxAttempts \/ pending.failure = "permanent"
Answer(kind) ==
    LET pending == Outbox(kind).pending
    IN CASE ~Enabled(kind) -> "disabled"
         [] Enabled(kind) /\ pending = None -> "unchanged"   \* or "empty"
         [] Enabled(kind) /\ pending # None /\ kind = "retry" -> "send"
         [] Enabled(kind) /\ pending # None /\ kind # "retry" ->
              IF Exhausted(pending) THEN "failed"
              ELSE IF pending.next > now THEN "deferred" ELSE "send"

Request(s, c) == [to |-> c.to, snap |-> s.pending.snap]

Begin(kind, who) ==
    /\ Free
    /\ state' = Outbox(kind)
    /\ IF Answer(kind) = "send"
       THEN pusher' = who /\ sent' = sent \cup {Request(state', config)}
       ELSE UNCHANGED <<pusher, sent>>
    /\ UNCHANGED <<now, runs, config, receiver>>

PushByHand(kind) ==
    /\ Begin(kind, ByHand)
    /\ state'.seq <= MaxSequence
    /\ UNCHANGED watcher

(* The receiver keeps the latest snapshot it has been sent.  A request     *)
(* whose answer was lost or came too late has arrived, or still does.      *)
Shown(d) == IF receiver[d] = None THEN 0 ELSE receiver[d].seq
Newer(m) == Shown(m.to) < m.snap.seq

Arrive(m) ==
    /\ Newer(m)
    /\ receiver' = [receiver EXCEPT ![m.to] = m.snap]
    /\ UNCHANGED <<now, runs, config, state, pusher, sent, watcher>>

(* What a watcher does with the answer of its push: it sleeps if told when *)
(* to try again and its deadline allows, and otherwise ends.               *)
Ends(r) == watcher' = [watcher EXCEPT ![r] = [pc |-> "over", deadline |-> 0, wake |-> 0]]
SleepsUntil(r, wake) ==
    IF now >= watcher[r].deadline
    THEN Ends(r)
    ELSE watcher' = [watcher EXCEPT ![r].wake =
                        IF wake < watcher[r].deadline THEN wake ELSE watcher[r].deadline]
PusherEnds == IF pusher = ByHand THEN UNCHANGED watcher ELSE Ends(pusher)

(* The request in flight: the outbox and its configuration do not change   *)
(* while the lock is held.                                                 *)
InFlight == Request(state, state.digest)

Succeed ==
    /\ pusher # None
    /\ ~Newer(InFlight)
    /\ state' = [state EXCEPT !.pending = None, !.last = state.pending.snap.content]
    /\ pusher' = None
    /\ PusherEnds
    /\ UNCHANGED <<now, runs, config, sent, receiver>>

(* The backoff doubles from RetryInitial up to RetryMax.                   *)
Delay(attempts) ==
    LET doubled == RetryInitial * 2^attempts
    IN IF doubled \in 0..RetryMax THEN doubled ELSE RetryMax

(* No answer in time, an error status, no connection, a missing token.  The*)
(* model counts no attempts beyond MaxAttempts.                            *)
\* Mutation: a failed snapshot is brought up to date under its old number.
FailedRefreshed(failure) ==
    LET old == state.pending
    IN [state EXCEPT !.pending =
          [snap |-> [old.snap EXCEPT !.content = Report(state.digest)],
           created |-> old.created, failure |-> failure,
           attempts |-> IF old.attempts < MaxAttempts THEN old.attempts + 1 ELSE old.attempts,
           next |-> now + Delay(old.attempts)]]
Failed(failure) ==
    LET old == state.pending
    IN [state EXCEPT !.pending =
          [snap |-> old.snap, created |-> old.created, failure |-> failure,
           attempts |-> IF old.attempts < MaxAttempts THEN old.attempts + 1 ELSE old.attempts,
           next |-> now + Delay(old.attempts)]]

Fail(failure) ==
    /\ pusher # None
    /\ state' = Failed(failure)
    /\ pusher' = None
    /\ IF pusher # ByHand /\ failure = "transient" /\ state.pending.attempts + 1 < MaxAttempts
       THEN SleepsUntil(pusher, now + Delay(state.pending.attempts))
       ELSE PusherEnds
    /\ UNCHANGED <<now, runs, config, sent, receiver>>

(* The pushing process dies at any point, and the lock with it.            *)
PushDies ==
    /\ pusher # None
    /\ pusher' = None
    /\ PusherEnds
    /\ UNCHANGED <<now, runs, config, state, sent, receiver>>

-----------------------------------------------------------------------------
(* Runs begin, end and are cleaned up.                                     *)
RunMoves(r) ==
    /\ \E step \in {<<"none", "running">>, <<"running", "ended">>, <<"ended", "removed">>} :
          runs[r] = step[1] /\ runs' = [runs EXCEPT ![r] = step[2]]
    /\ UNCHANGED <<now, config, deliveryVars>>

(* observe, once the worker of the run is launched, if the configuration   *)
(* can be read and asks for it; the caller may die before.                 *)
Observe(r) ==
    /\ runs[r] # "none" /\ watcher[r].pc = "none"
    /\ config # Malformed /\ config.mode = "after_workflow"
    /\ now + WatchTime <= EndOfTime
    /\ watcher' = [watcher EXCEPT ![r] = [pc |-> "watching", wake |-> 0,
                                          deadline |-> now + WatchTime]]
    /\ UNCHANGED <<now, runs, config, state, pusher, sent, receiver>>

(* watch, first loop: the run ended, or the watcher gives up on a deadline,*)
(* a removed run or a configuration that no longer asks for it.            *)
WatcherSeesEnd(r) ==
    /\ watcher[r].pc = "watching" /\ runs[r] = "ended" /\ config # Malformed
    /\ watcher' = [watcher EXCEPT ![r].pc = "pushing"]
    /\ UNCHANGED <<now, runs, config, state, pusher, sent, receiver>>

\* Mutation: a run that never ends is watched for ever.
WatcherGivesUpNever(r) ==
    /\ watcher[r].pc = "watching"
    /\ \/ runs[r] = "removed"
       \/ config = Malformed
       \/ /\ runs[r] = "running" /\ config # Malformed
          /\ config.mode # "after_workflow"
    /\ Ends(r)
    /\ UNCHANGED <<now, runs, config, state, pusher, sent, receiver>>
WatcherGivesUp(r) ==
    /\ watcher[r].pc = "watching"
    /\ \/ runs[r] = "running" /\ now >= watcher[r].deadline
       \/ runs[r] = "removed"
       \/ config = Malformed
       \/ /\ runs[r] = "running" /\ config # Malformed
          /\ config.mode # "after_workflow"
    /\ Ends(r)
    /\ UNCHANGED <<now, runs, config, state, pusher, sent, receiver>>

(* watch, second loop: one push, then the end or a sleep.                  *)
WatcherPushes(r) ==
    /\ watcher[r].pc = "pushing" /\ watcher[r].wake <= now
    /\ Begin("automatic", r)
    /\ CASE Answer("automatic") = "send" -> UNCHANGED watcher
         [] Answer("automatic") = "deferred" ->
              SleepsUntil(r, Outbox("automatic").pending.next)
         [] Answer("automatic") \in {"disabled", "unchanged", "failed"} -> Ends(r)

WatcherCannotPush(r) ==
    /\ watcher[r].pc = "pushing" /\ watcher[r].wake <= now
    /\ pusher = None /\ config = Malformed
    /\ Ends(r)
    /\ UNCHANGED <<now, runs, config, state, pusher, sent, receiver>>

WatcherDies(r) ==
    /\ watcher[r].pc \in {"watching", "pushing"}
    /\ pusher # r
    /\ Ends(r)
    /\ UNCHANGED <<now, runs, config, state, pusher, sent, receiver>>

Tick ==
    /\ now < EndOfTime
    /\ now' = now + 1
    /\ UNCHANGED <<runs, config, deliveryVars>>

ExportNext ==
    \/ Tick
    \/ \E c \in Configs : Configure(c)
    \/ \E c \in Configs \cup {Malformed} : Edit(c)
    \/ Status \/ Preview
    \/ \E kind \in {"push", "retry"} : PushByHand(kind)
    \/ Succeed \/ PushDies
    \/ \E failure \in {"transient", "permanent"} : Fail(failure)
    \/ \E m \in sent : Arrive(m)
    \/ \E r \in Runs : RunMoves(r) \/ Observe(r) \/ WatcherSeesEnd(r)
                       \/ WatcherGivesUp(r) \/ WatcherPushes(r)
                       \/ WatcherCannotPush(r) \/ WatcherDies(r)

ExportSpec == ExportInit /\ [][ExportNext]_exportVars

(* A request ends by its timeout if nothing else, a watcher that is not    *)
(* killed runs on and gets the lock in its turn, and time passes.  Nothing *)
(* is assumed of runs, of receivers or of the people at the keyboard.      *)
ExportFairness ==
    /\ WF_exportVars(Tick)
    /\ WF_exportVars(Fail("transient"))
    /\ \A r \in Runs :
        /\ WF_exportVars(WatcherSeesEnd(r) \/ WatcherGivesUp(r))
        /\ SF_exportVars(WatcherPushes(r) \/ WatcherCannotPush(r))

FairExportSpec == ExportSpec /\ ExportFairness

-----------------------------------------------------------------------------
(* A sequence number stands for one body sent to one place, whatever       *)
(* failed, died, expired or was reconfigured between two attempts: a       *)
(* receiver that drops what it has seen loses nothing (observability.md,   *)
(* "Retries preserve the ID and exact body").                              *)
OneRequestPerSequence ==
    \A m, n \in sent : m.snap.seq = n.snap.seq => m = n

(* What leaves goes where the configuration just read says and shares what *)
(* it says, although the outbox was filled under an earlier one            *)
(* (_synchronize before every attempt).                                    *)
SentAsConfigured ==
    [][\A m \in sent' \ sent :
          /\ m.to = config.to /\ m.snap.content.scope = config.scope
          /\ config.mode # "disabled"]_exportVars

(* A receiver never shows more than what a source is about to send it: the *)
(* sequence outlives every reset of the outbox, so that no snapshot is     *)
(* dropped as outdated and yet acknowledged.                               *)
SequencesMoveForward ==
    pusher # None =>
        LET shown == receiver[InFlight.to]
        IN shown # None => shown.seq < InFlight.snap.seq \/ shown = InFlight.snap

(* An automatic push is only skipped as unchanged when the receiver in use *)
(* shows exactly the present statistics (last_payload_digest).             *)
UnchangedIsShown ==
    Free /\ Enabled("automatic") /\ Answer("automatic") = "unchanged" =>
        /\ receiver[config.to] # None
        /\ receiver[config.to].content = Report(config)

(* Every watcher ends, though its run may not, nor the receiver ever       *)
(* answer (the deadline and the bounded attempts of watch).                *)
WatchersEnd ==
    \A r \in Runs : watcher[r].pc # "none" ~> watcher[r].pc = "over"
=============================================================================

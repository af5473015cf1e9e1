--------------------------- MODULE DeployMonitor ----------------------------
(***************************************************************************)
(* The workflow lab.deploy-monitor against the two services of its lab: a  *)
(* deployment is requested once, its replicas are awaited, and a window of *)
(* status and logs has to be complete and free of errors.  Time counts in  *)
(* half seconds, on a monotonic clock the services' clock may leave.  A    *)
(* request may fail on the way there, on the way back, and take its time.  *)
(***************************************************************************)
EXTENDS Evidence, FiniteSetsExt, SequencesExt

CONSTANTS
    Replicas,       \* how many a deployment has (3 in the lab)
    PageSize,       \* events of a log page (16)
    MaxPages,       \* pages of a scan (128)
    Deployments,    \* what may be asked for
    Faults,         \* what the services may do (Plan)
    Jumps,          \* by how much the services' clock may jump, of a plan that moves it
    MaxDelay,       \* bound of the model: ticks the requests take together
    MaxClock        \* bound of the model: the last tick

(* What may be wrong with the services (fixtures.Fault), or with what they  *)
(* answer (test_deploy_monitor.py).                                         *)
FaultNames ==
    {"healthy", "wrong_version", "missing_replica", "late_error", "boundary_error", "missing_logs",
     "stale_logs", "gap", "cursor_loop", "drift", "unavailable", "malformed",
     "lost_heartbeats", "event_version", "duplicate", "snapshot_changed"}

(* What the monitor gives as its reason (Result.reason).                    *)
Reasons ==
    {"unavailable", "rollout_timeout_or_wrong_version", "version_or_readiness_regressed",
     "error_in_observation_window", "version_changed_in_log_history", "log_coverage_not_proven",
     "version_and_complete_error_free_window_verified"}

(* Events are numbered four to a second, the last for an error; and what is *)
(* asked for is not what a faulty service says instead.                     *)
ASSUME MonitorAssumption ==
    /\ Replicas \in 1..3 /\ PageSize \in Nat \ {0} /\ MaxPages \in Nat \ {0}
    /\ Deployments \subseteq [version : STRING \ {"old"}, window : Nat \ {0}, deadline : Nat \ {0},
                              grace : Nat, poll : Nat \ {0}]
    /\ None \notin Outcomes \cup Reasons \cup Int
    /\ Faults \subseteq [fault : FaultNames, rollout : Nat, after : Nat, delay : Nat,
                        moves : BOOLEAN]
    /\ Jumps \subseteq Int /\ MaxDelay \in Nat /\ MaxClock \in Nat

MaxSkew == 4    \* 2 seconds
MaxGap == 5     \* 2.5 seconds

VARIABLES
    asked,      \* the inputs
    plan,       \* what is wrong with the services
    store,      \* the record of the deployment under this request key
    clock, jumped, delayed,
    mon         \* the monitor

monitorVars == <<asked, plan, store, clock, jumped, delayed, mon>>

Source == clock + jumped

NoReply == [at |-> 0, ready |-> {}]
Unmonitored == [pc |-> "deploy", acknowledged |-> FALSE, started |-> 0, epoch |-> 0, began |-> 0,
                elapsed |-> 0, until |-> 0, wake |-> 0, reply |-> NoReply, events |-> <<>>,
                cursor |-> 0, pages |-> 0, mark |-> None, before |-> 0, outcome |-> None,
                reason |-> None]

(* Someone may have deployed under the key before, this version or another. *)
MonitorInit ==
    /\ asked \in Deployments
    /\ plan \in Faults
    /\ clock = 1 /\ jumped = 0 /\ delayed = 0
    /\ store \in {None} \cup [version : {"v1", "v2"}, accepted : {0}]
    /\ mon = [Unmonitored EXCEPT !.started = clock]

----------------------------------------------------------------------------
(* The services: Store.deploy, fixtures.status and fixtures.log_page.       *)

Deployed == IF store = None THEN [version |-> asked.version, accepted |-> Source] ELSE store

\* for each replica the version it runs and whether it is ready; the last may be missing
Status ==
    LET drifted == plan.fault = "drift" /\ Source >= store.accepted + plan.after
        replica(i) == [version |-> IF drifted \/ (i = 1 /\ plan.fault = "wrong_version")
                                   THEN "old" ELSE store.version,
                       ready |-> Source >= store.accepted + plan.rollout]
    IN  [i \in 1..(IF plan.fault = "missing_replica" THEN Replicas - 1 ELSE Replicas) |-> replica(i)]

Erring == plan.fault \in {"late_error", "boundary_error"}
ErrorAt == store.accepted + plan.rollout + plan.after

Heartbeats(start, end) ==
    {[sequence |-> 4 * tick + i - 1, at |-> store.accepted + 2 * tick, replica |-> i,
      version |-> IF plan.fault = "event_version" THEN "old" ELSE store.version,
      level |-> "heartbeat"] :
         tick \in {n \in 0..end : start <= store.accepted + 2 * n /\ store.accepted + 2 * n <= end},
         i \in {j \in 1..Replicas : ~(plan.fault = "lost_heartbeats" /\ j = Replicas)}}

Errors(start, end) ==
    {e \in {[sequence |-> 4 * ((plan.rollout + plan.after) \div 2) + 3, at |-> ErrorAt,
             replica |-> 1, version |-> store.version, level |-> "error"]} :
         Erring /\ start <= ErrorAt /\ ErrorAt <= end}

Missing(end) == plan.fault \in {"missing_logs", "stale_logs"} \/ Source - plan.delay < end

Logged(start, end) ==
    LET events == IF Missing(end) THEN {} ELSE Heartbeats(start, end) \cup Errors(start, end)
    IN  [n \in 1..Cardinality(events) |->
            CHOOSE e \in events : Cardinality({d \in events : d.sequence < e.sequence}) = n - 1]

Page(start, end, cursor) ==
    LET events == Logged(start, end)
        last == Min({cursor + PageSize, Len(events)})
    IN  [events |-> IF plan.fault = "duplicate" /\ last > cursor
                    THEN <<events[cursor + 1], events[cursor + 1]>>
                    ELSE SubSeq(events, cursor + 1, last),
         through |-> IF Missing(end) THEN start
                     ELSE IF plan.fault = "snapshot_changed" /\ cursor > 0 THEN end + 1 ELSE end,
         gap |-> plan.fault = "gap",
         next |-> CASE plan.fault = "cursor_loop" -> cursor
                    [] plan.fault # "cursor_loop" /\ last < Len(events) -> last
                    [] OTHER -> None]

----------------------------------------------------------------------------
(* The monitor: Monitor.run, a step for every time it waits for an answer.  *)

Step(m) == mon' = m /\ UNCHANGED <<asked, plan, clock, jumped, delayed>>

Concluded(outcome, reason) ==
    [mon EXCEPT !.pc = "done", !.outcome = outcome, !.reason = reason, !.reply = NoReply,
              !.events = <<>>, !.cursor = 0, !.pages = 0, !.mark = None, !.wake = 0]

GivenUp(reason) == [Unmonitored EXCEPT !.pc = "done", !.acknowledged = mon.acknowledged,
                                       !.outcome = "inconclusive", !.reason = reason]

(* An answer that does not come, is no answer or cannot be relied on.       *)
Unavailable == Step(GivenUp("unavailable")) /\ UNCHANGED store

(* The request is stored, under a key of another version it is refused; the *)
(* acknowledgement may be lost.                                             *)
Deploy ==
    /\ mon.pc = "deploy"
    /\ \/ /\ store' = Deployed
          /\ IF Deployed.version = asked.version
             THEN \/ Step([mon EXCEPT !.pc = "rollout", !.acknowledged = TRUE])
                  \/ Step(GivenUp("unavailable"))
             ELSE Step(GivenUp("unavailable"))
       \/ Unavailable

Answer(pc, next) ==
    /\ mon.pc = pc /\ clock >= mon.wake
    /\ \/ /\ Step([mon EXCEPT !.pc = next, !.reply = [at |-> Source, replicas |-> Status]])
          /\ UNCHANGED store
       \/ Unavailable

AllReady(replicas) ==
    Len(replicas) = Replicas /\ \A i \in DOMAIN replicas :
        replicas[i].version = asked.version /\ replicas[i].ready

(* The rollout may take as long as its deadline: a replica that is ready    *)
(* past it is not, and no poll is put off beyond it.                        *)
AwaitRollout == Answer("rollout", "rolling")

JudgeRollout ==
    LET spent == clock - mon.started IN
    /\ mon.pc = "rolling" /\ UNCHANGED store
    /\ Step(CASE spent > asked.deadline -> Concluded("fail", "rollout_timeout_or_wrong_version")
              [] spent <= asked.deadline /\ AllReady(mon.reply.replicas) ->
                    [mon EXCEPT !.pc = "observe", !.epoch = mon.reply.at, !.began = clock,
                                !.reply = NoReply]
              [] spent = asked.deadline /\ ~AllReady(mon.reply.replicas) ->
                    Concluded("fail", "rollout_timeout_or_wrong_version")
              [] OTHER -> [mon EXCEPT !.pc = "rollout", !.reply = NoReply,
                              !.wake = clock + Min({asked.poll, asked.deadline - spent})])

Observe ==
    /\ mon.pc = "observe" /\ clock >= mon.wake /\ UNCHANGED store
    /\ LET elapsed == clock - mon.began IN
       Step([mon EXCEPT !.pc = "status", !.elapsed = elapsed, !.wake = 0,
                        !.until = mon.epoch + Min({elapsed, asked.window})])

AwaitStatus == Answer("status", "observed")

JudgeStatus ==
    LET skew == mon.reply.at - mon.epoch - mon.elapsed
        next == [mon EXCEPT !.pc = "read", !.reply = NoReply, !.events = <<>>,
                            !.cursor = 0, !.pages = 0, !.mark = None]
    IN  /\ mon.pc = "observed" /\ UNCHANGED store
        /\ Step(CASE skew > MaxSkew \/ -skew > MaxSkew -> GivenUp("unavailable")
                  [] skew \in -MaxSkew..MaxSkew /\ ~AllReady(mon.reply.replicas) ->
                        Concluded("fail", "version_or_readiness_regressed")
                  [] OTHER -> next)

Ascending(events) == \A i, j \in DOMAIN events : i < j => events[i].sequence < events[j].sequence
Correlated(events) == \A i \in DOMAIN events : events[i].at \in mon.epoch..mon.until

(* Every page of the scan has to be of the interval, of the same snapshot,  *)
(* in order and further on than the last.                                   *)
ReadLogs ==
    LET page == Page(mon.epoch, mon.until, mon.cursor)
        events == mon.events \o page.events
        sound == /\ ~page.gap
                 /\ mon.mark \in {None, page.through}
                 /\ Correlated(page.events) /\ Ascending(events)
                 /\ page.next # None => page.next > mon.cursor /\ mon.pages + 1 < MaxPages
    IN  /\ mon.pc = "read"
        /\ \/ /\ sound /\ plan.fault \notin {"unavailable", "malformed"} /\ UNCHANGED store
              /\ Step([mon EXCEPT !.events = events, !.mark = page.through, !.pages = @ + 1,
                                  !.pc = IF page.next = None THEN "judge" ELSE "read",
                                  !.cursor = IF page.next = None THEN @ ELSE page.next])
           \/ Unavailable

(* The heartbeats of every replica leave no gap in the interval.            *)
Covered(events) ==
    \A i \in 1..Replicas :
        LET ticks == {e.at : e \in {e \in Range(events) : e.replica = i /\ e.level = "heartbeat"}}
            marks == ticks \cup {mon.epoch, mon.until}
        IN  /\ ticks # {}
            /\ \A t \in marks \ {Max(marks)} : Min({u \in marks : u > t}) - t <= MaxGap

Complete == mon.mark >= mon.until /\ Covered(mon.events)

(* A pass needs the whole window observed and its logs complete.            *)
\* Mutation: a window that is complete so far is enough.
PassesSoFar == Complete
Passes == mon.elapsed >= asked.window /\ Complete

JudgeWindow ==
    LET has(P(_)) == \E i \in DOMAIN mon.events : P(mon.events[i])
        left == asked.window + asked.grace - mon.elapsed
    IN  /\ mon.pc = "judge" /\ UNCHANGED store
        /\ Step(CASE mon.mark < mon.before -> GivenUp("unavailable")
                  [] mon.mark >= mon.before /\ has(LAMBDA e : e.level = "error") ->
                        Concluded("fail", "error_in_observation_window")
                  [] OTHER ->
                     CASE has(LAMBDA e : e.version # asked.version) ->
                             Concluded("fail", "version_changed_in_log_history")
                       [] ~has(LAMBDA e : e.version # asked.version) /\ Passes ->
                             Concluded("pass", "version_and_complete_error_free_window_verified")
                       [] OTHER -> IF left <= 0
                                   THEN GivenUp("log_coverage_not_proven")
                                   ELSE [mon EXCEPT !.pc = "observe", !.before = mon.mark,
                                            !.events = <<>>, !.mark = None, !.cursor = 0, !.pages = 0,
                                            !.wake = clock + Min({asked.poll, left})])

(* Time passes while the monitor sleeps, and a little while it does not.    *)
Tick ==
    /\ mon.pc # "done" /\ clock < MaxClock
    /\ clock < mon.wake \/ delayed < MaxDelay
    /\ clock' = clock + 1
    /\ delayed' = IF clock < mon.wake THEN delayed ELSE delayed + 1
    /\ UNCHANGED <<asked, plan, store, jumped, mon>>

(* The services' clock is set.                                              *)
Jump ==
    /\ plan.moves /\ mon.pc # "done" /\ jumped = 0
    /\ jumped' \in {j \in Jumps : clock + j >= 0}
    /\ UNCHANGED <<asked, plan, store, clock, delayed, mon>>

MonitorNext ==
    \/ Deploy \/ AwaitRollout \/ JudgeRollout \/ Observe \/ AwaitStatus \/ JudgeStatus
    \/ ReadLogs \/ JudgeWindow \/ Tick \/ Jump

----------------------------------------------------------------------------
(* entrypoint.main: the evidence of the result.                             *)
MonitorEvidence ==
    [mine |-> TRUE, fits |-> TRUE, outcome |-> mon.outcome,
     checks |-> << [name |-> "deployment_window",
                    status |-> IF mon.outcome = "inconclusive" THEN "skip" ELSE mon.outcome] >>,
     effects |-> IF mon.acknowledged THEN "completed" ELSE "unknown"]
=============================================================================

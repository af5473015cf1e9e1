----------------------------- MODULE Estimation -----------------------------
(***************************************************************************)
(* assess: what reusing a workflow has saved, from the recorded tasks, the *)
(* ones linked as its baselines and what is declared complete of its other *)
(* costs.  Sets of observations (HostHistory) stand for the rows; the      *)
(* comparisons of visible context and the wording of issues are left out.  *)
(***************************************************************************)
EXTENDS Integers, FiniteSetsExt

CONSTANT None

Uses(tasks) == SumFunction([t \in tasks |-> t.use])
Known(tasks) == \A t \in tasks : t.complete /\ t.use # None

(* Manual tasks a reuse can be compared with.                              *)
Candidates(task, baselines) ==
    {b \in baselines :
        /\ b.purpose = "manual" /\ b.complete /\ b.verified /\ b.model # None /\ b.use # None
        /\ <<b.host, b.model, b.workload>> = <<task.host, task.model, task.workload>>}

Credit(task, baselines) ==
    IF task.verified THEN Min({b.use : b \in Candidates(task, baselines)}) ELSE 0

Of(ref, purpose, tasks) == {t \in tasks : t.ref = ref /\ t.purpose = purpose}

Comparable(ref, tasks, baselines) ==
    LET reuse == Of(ref, "reuse", tasks)
    IN reuse # {} /\ Known(reuse) /\ \A t \in reuse : Candidates(t, baselines) # {}

Operational(ref, tasks, baselines) ==
    SumFunction([t \in Of(ref, "reuse", tasks) |-> Credit(t, baselines) - t.use])

(* A cost is known when it is declared complete and every part is.         *)
Cost(ref, purpose, declared, tasks) ==
    LET costs == Of(ref, purpose, tasks)
    IN IF declared /\ Known(costs) THEN Uses(costs) ELSE None

(* estimated_net_savings                                                   *)
Net(ref, tasks, baselines, coverage) ==
    LET creation == Cost(ref, "creation", coverage.setup, tasks)
        upkeep == Cost(ref, "maintenance", coverage.upkeep, tasks)
    IN IF Comparable(ref, tasks, baselines) /\ creation # None /\ upkeep # None
       THEN Operational(ref, tasks, baselines) - creation - upkeep
       ELSE None

=============================================================================

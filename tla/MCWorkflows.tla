---------------------------- MODULE MCWorkflows -----------------------------
(* Workflows on small instances: the programs that print leave one report,  *)
(* those that report print nothing, those the world changes under do        *)
(* neither, and the two shipped workflows are what they are.                *)
EXTENDS Workflows

MCCharacters == {"a", "b"}
MCCheckNames == {"built", "tested", "deployment_window", "target_failure_absent_in_bounded_replay"}
MCFacts == {HostChecks[i][1] : i \in DOMAIN HostChecks}

Allowing(environment, validation) ==
    [environment |-> environment, manifest |-> {environment}, default |-> environment # "production",
     inputs |-> [text |-> <<>>, schema |-> TRUE, small |-> TRUE], validation |-> validation]

Fully(environment) == [granted |-> TRUE, environments |-> {environment}, facts |-> MCFacts]

Scenario(workflow, environment, validation, hidden) ==
    [program |-> workflow, request |-> Allowing(environment, validation), standing |-> Fully(environment),
     secrets |-> hidden]

Arbitrary(required, declares, prints, leaves) ==
    [kind |-> "any", required |-> required, declares |-> declares, prints |-> prints,
     leaves |-> leaves]
Bundled(kind) ==
    [Arbitrary(Shipped(kind), kind = "monitor", 0, "nothing") EXCEPT !.kind = kind]

Left(outcome, checks, effects, exit, mine, fits, text) ==
    [evidence |-> [mine |-> mine, fits |-> fits, outcome |-> outcome, checks |-> checks,
                   effects |-> effects], text |-> text, exit |-> exit]

MCChecks == UNION {[1..n -> [name : {"built", "tested"}, status : {"pass", "fail", "skip"}]] : n \in 0..2}

Words(lengths) == UNION {[1..k -> MCCharacters] : k \in lengths}

Inconclusive(text) == Left("inconclusive", <<>>, "none", 0, TRUE, TRUE, text)

Hidden == { {<<"b">>}, {<<"a", "a">>}, {<<"a", "a", "b">>}, {<<"a", "b", "a">>},
            {<<"a", "a", "b">>, <<"a", "b">>}, {<<"a", "b", "a">>, <<"b">>},
            {<<"a", "b", "b">>, <<"b", "a">>}, {<<"a", "b">>, <<"b", "b">>} }

MCLeavings ==
    [nothing |-> {Inconclusive(<<>>)},
     texts |-> {Inconclusive(t) : t \in Words(1..4)},
     results |-> {Left(o, c, e, x, TRUE, TRUE, <<>>) : o \in Outcomes, c \in MCChecks,
                                                       e \in Effects, x \in 0..2}
                 \cup {Left("pass", << [name |-> "built", status |-> "pass"] >>, "none", 0, m, ~m, <<>>) :
                           m \in BOOLEAN}]

Printing == {Scenario(Arbitrary(<<"built">>, TRUE, 5, "nothing"), "local", FALSE, S) : S \in Hidden}

Telling == {Scenario(Arbitrary(<<"built">>, TRUE, 0, "texts"), "local", FALSE, S) : S \in Hidden}

Reporting == {Scenario(Arbitrary(r, TRUE, 0, "results"), "local", FALSE, {}) :
                  r \in {<<"built">>, <<"built", "tested">>, <<"built", "built">>}}

Changing == {Scenario(Arbitrary(<<"built">>, d, 0, "nothing"), e, v, {<<"a">>}) :
                 d \in BOOLEAN, e \in {"local", "production"}, v \in BOOLEAN}

Shipping == {Scenario(Bundled("monitor"), "local", FALSE, {}),
             Scenario(Bundled("replay"), "local", FALSE, {})}

MCScenarios == Printing \cup Telling \cup Reporting \cup Changing \cup Shipping

MCDeployments == {[version |-> "v1", window |-> 6, deadline |-> 4, grace |-> 2, poll |-> 3]}

Plan(fault, rollout, after, delay, moves) ==
    [fault |-> fault, rollout |-> rollout, after |-> after, delay |-> delay, moves |-> moves]
MCFaults ==
    {Plan(f, 2, 5, 0, FALSE) : f \in {"wrong_version", "missing_replica", "missing_logs", "gap",
         "cursor_loop", "unavailable", "malformed", "lost_heartbeats", "event_version", "duplicate",
         "snapshot_changed", "stale_logs", "boundary_error"}}
    \cup {Plan("healthy", r, 5, 0, m) : r \in {0, 5}, m \in BOOLEAN}
    \cup {Plan("late_error", 2, a, d, d = 2) : a \in {3, 6, 8}, d \in {0, 2, 4}}
    \cup {Plan("drift", 0, a, 0, m) : a \in {1, 5, 9}, m \in BOOLEAN}
MCJumps == {-2, 5}

MCJobs ==
    {[snapshot |-> "complete", external |-> FALSE, drift |-> FALSE, plan |-> p] :
        p \in UNION {[1..n -> Behaviors] : n \in 1..2}}
    \cup {[snapshot |-> s, external |-> e, drift |-> d, plan |-> <<"clean">>] :
              s \in Snapshots, e \in BOOLEAN, d \in BOOLEAN}
=============================================================================

--------------------------- MODULE MCMeasurement ---------------------------
EXTENDS Measurement

Simple(kind) == Line(kind, None, 0, None, None, TRUE)
Used(kind, use) == Line(kind, None, use, None, None, TRUE)
Said(id, use, fine) == Line("message", id, use, None, "opus", fine)
Shows(r) == Line("output", None, 0, r, None, TRUE)

(* A native Codex session of two tasks, whose counter may have restarted;   *)
(* one that counts on after its task is over; a Codex exec session of one    *)
(* task, which may show a run; and a Claude session of two, whose first      *)
(* answer is written twice.                                                  *)
Native(n) == <<Simple("prompt"), Used("count", 2), Simple("finished"),
               Simple("prompt"), Used("count", n), Simple("finished")>>
Exec(r, n) == <<Simple("prompt"), Shows(r), Used("turn", n)>>
Late == <<Simple("prompt"), Used("count", 2), Simple("finished"), Used("count", 3)>>
Claude == <<Simple("prompt"), Said("one", 1, FALSE), Said("one", 2, TRUE),
            Simple("prompt"), Said("two", 1, TRUE), Used("result", 3)>>

Lines(task, file, purpose, first, last) ==
    [task |-> task, file |-> file, purpose |-> purpose, workload |-> "w", ref |-> None,
     runs |-> {}, model |-> "gpt", verified |-> FALSE, first |-> first, last |-> last]
Attested(s) == [s EXCEPT !.verified = TRUE]
For(ref, s) == [s EXCEPT !.ref = ref]
By(r, s) == [s EXCEPT !.runs = {r}]

MCRefOf == [r \in Runs |-> "ref"]
MCHostOf == [f \in Files |-> IF f = "c" THEN "claude" ELSE "codex"]

(* Two reuses that show one run; the same by hand, attested.                *)
Contested == {Lines("u", "f", "reuse", 1, None), Lines("v", "g", "reuse", 1, 3),
              Attested(Lines("w", "g", "reuse", 1, 3))}
(* A session that grows by a second task, read whole and by task.           *)
Growing == {Lines("u", "f", "manual", 1, None), By("r", Lines("w", "f", "reuse", 4, 6))}
Parted == Growing \cup {Lines("v", "f", "manual", 1, 3), Lines("w", "f", "reuse", 4, 6)}
Answers == {[Lines(t[1], "c", "manual", t[2], t[3]) EXCEPT !.model = None] :
               t \in {<<"u", 1, None>>, <<"v", 1, 3>>, <<"w", 4, 6>>, <<"w", 4, 5>>}}
(* Two baselines, a reuse, and what it took to set the workflow up.         *)
Costed == {Attested(Lines("u", "f", "manual", 1, 3)), Attested(Lines("v", "f", "manual", 4, 6)),
           Lines("w", "g", "reuse", 1, None), For("ref", Lines("x", "h", "creation", 1, 3))}

AtOnce(imports) == [imports |-> imports, by |-> Procs]
Alone(imports) == [imports |-> imports, by |-> {"hand"}]
MCPlans == {AtOnce(Contested), AtOnce(Growing), Alone(Parted), Alone(Answers), Alone(Costed)}
MCSessions == {Native(1), Native(3), Late, Exec("r", 1), Exec("r", 2), Exec(None, 1), Claude, <<>>}
MCDeclarations == {[setup |-> TRUE, upkeep |-> TRUE]}

(* The state a plan is begun in: sessions as functions of their files, and  *)
(* how much of each is written.                                             *)
Begins(p, s, w, row, time) ==
    /\ plan = p
    /\ session = [f \in Files |-> IF f \in DOMAIN s THEN s[f] ELSE <<>>]
    /\ written = [f \in Files |-> IF f \in DOMAIN w THEN w[f] ELSE 0]
    /\ run = [r \in Runs |-> row]
    /\ now = time
Ended == [state |-> "ended", proven |-> TRUE, kept |-> TRUE]

MCInit ==
    /\ \/ \E s \in {Exec("r", 1), Exec("r", 2), Exec(None, 1)} :
             Begins(AtOnce(Contested), [f |-> IF s = Exec("r", 2) THEN Exec("r", 1) ELSE s, g |-> s],
                    [f |-> 2, g |-> 2], NoRun, MaxTime)
       \/ \E s \in {Native(1), Native(3), Late}, p \in {AtOnce(Growing), Alone(Parted)} :
             Begins(p, [f |-> s], [f |-> 1], Ended, MaxTime)
       \/ Begins(Alone(Answers), [c |-> Claude], [c |-> 2], NoRun, MaxTime)
       \/ Begins(Alone(Costed), [f |-> Native(3), g |-> Exec("r", 1), h |-> Exec("r", 2)],
                 [f |-> 6, g |-> 3, h |-> 2], Ended, 0)
    /\ MeasurementInit
MCSpec == MCInit /\ [][MeasurementNext]_measurementVars
=============================================================================

------------------------------ MODULE MCExport ------------------------------
EXTENDS Export

(* Automatic export to one place, by hand to another, with more shared to  *)
(* the first, and none.                                                    *)
Choice(mode, to, scope) == [mode |-> mode, to |-> to, scope |-> scope]
Choices == {Choice("disabled", "a", "totals"), Choice("after_workflow", "a", "totals"),
            Choice("manual", "b", "totals"), Choice("manual", "a", "daily")}

(* Automatic export only, for the instance with two watchers.              *)
Automatic == {Choice("after_workflow", "a", "totals")}
=============================================================================

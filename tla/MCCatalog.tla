------------------------------ MODULE MCCatalog -----------------------------
EXTENDS Catalog, TLC

(* Two catalogues of one Git source, and the directory of a draft.         *)
GitNames == {"g", "h"}
GitSource == [n \in {"g", "h", "draft"} |-> IF n = "draft" THEN "work" ELSE "remote"]

(* A local catalogue and a draft of the same directory.                    *)
LocalSource == [n \in {"l", "draft"} |-> "work"]

(* Two versions of a workflow beside one that stays the same.              *)
PairIds == [c \in Contents |-> IF c = "c" THEN "y" ELSE "x"]
PairTrees == {[d \in Dirs |-> IF d = "e" THEN "c" ELSE v] : v \in {"a", "b"}}

(* Alone, and the directory may be empty.                                  *)
LoneIds == [c \in Contents |-> "x"]
LoneTrees == [Dirs -> Contents \cup {None}]

Alike == Permutations(Procs)
=============================================================================

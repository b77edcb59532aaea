-------------------------------- MODULE MCRoom --------------------------------
(* A piece of work and two drafts change two files.                        *)
EXTENDS Room

CONSTANTS f1, f2, w1, p1, p2

MCPaths == {f1, f2}
Edit(paths) == [path \in paths |-> "edit"]
EditAndDelete == [path \in MCPaths |-> IF path = f1 THEN "edit" ELSE "delete"]

MCChanges == [p \in {w1, p1, p2} |-> IF p = w1 THEN {Edit(MCPaths)} ELSE {EditAndDelete}]

Symmetry == Permutations({p1, p2}) \cup Permutations(Deciders) \cup Permutations(Finishers)
=============================================================================

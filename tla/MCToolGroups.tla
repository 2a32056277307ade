----------------------------- MODULE MCToolGroups -----------------------------
EXTENDS ToolGroups, TLC

CONSTANTS a, c, p, t1, t2

Groups == {a, p, c}
Tree == [g \in Groups |-> IF g = c THEN {p} ELSE {}]   \* c is p.c
FlatSets == {{a, p}, {a, c}}
NestedSet == {{p, c}}
Tasks == {t1, t2}
TaskSymmetry == Permutations(Tasks)
=============================================================================

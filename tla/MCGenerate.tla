------------------------------ MODULE MCGenerate ------------------------------
(* Two targets: t1 renders a type that the second API renames, p1 and p2.   *)
(* Where q is a path, it is what t2 renders, and its text changes.  In the *)
(* folding instance p1 and p2 differ by case only.                         *)
EXTENDS Generate

CONSTANTS t1, t2, p1, p2, q, a1, a2, x, y

Owner == [p \in Paths |-> IF p = q THEN t2 ELSE t1]
CaseSensitive == [p \in Paths |-> p]
CaseFolding == [p \in Paths |-> IF p = q THEN q ELSE p1]
Renaming == [a \in Apis |-> (Paths \cap {q}) \cup {IF a = a1 THEN p1 ELSE p2}]
Versions == [a \in Apis |-> [p \in Paths |-> IF a = a1 THEN x ELSE y]]

===============================================================================

--------------------------------- MODULE Handle ---------------------------------
(***************************************************************************)
(* What a resource that one side holds for the other promises: it may be   *)
(* lent to calls until it is closed, and it is freed once, after the last  *)
(* of them.  Every consumer's object wrapper promises this of its reference*)
(* to a native object, and the producer of a callback's implementation.    *)
(***************************************************************************)
EXTENDS Naturals

CONSTANT Calls      \* the calls it may be lent to

VARIABLES closed,   \* no call can borrow it any more
          lent,     \* the calls that have it
          frees     \* how many times it was freed

vars == <<closed, lent, frees>>

Init == closed = FALSE /\ lent = {} /\ frees = 0

Lend(c) == /\ ~closed
           /\ c \notin lent
           /\ lent' = lent \cup {c}
           /\ UNCHANGED <<closed, frees>>

Return(c) == /\ c \in lent
             /\ lent' = lent \ {c}
             /\ UNCHANGED <<closed, frees>>

Close == /\ ~closed
         /\ closed' = TRUE
         /\ UNCHANGED <<lent, frees>>

Free == /\ closed
        /\ lent = {}
        /\ frees = 0
        /\ frees' = 1
        /\ UNCHANGED <<closed, lent>>

Next == (\E c \in Calls : Lend(c) \/ Return(c)) \/ Close \/ Free

Spec == Init /\ [][Next]_vars

(* A handle that was closed is freed once the calls that have it return.   *)
Frees == (closed /\ lent = {}) ~> (frees = 1)

===============================================================================

------------------------------ MODULE IterHandle ------------------------------
(***************************************************************************)
(* The opaque handle of a lazily pulled iterator (rt/iter.rs) and the body *)
(* of its _next (iter_step, rt/call.rs).  Consumer threads call _next on   *)
(* one handle at once, and the producer's next may itself call _next on the*)
(* handle it is advancing.  The handle's lock is held for one action at a  *)
(* time, never while the producer's code runs.                             *)
(***************************************************************************)
EXTENDS Naturals

CONSTANTS Calls,   \* calls of _next
          NoCall,
          Items    \* how many items the producer has

ASSUME NoCallAssumption == NoCall \notin Calls
ASSUME ItemsAssumption == Items \in Nat

VARIABLES
  live,      \* the handle has not been destroyed
  slot,      \* IterHandle.inner is Some
  pos,       \* items the producer's iterator has yielded
  pc,        \* pc[c]: where the call is
  outer,     \* outer[c]: the call whose producer code made this one
  got,       \* got[c]: the item it pulled, or 0
  outcome,   \* outcome[c]: what it returned
  before     \* history: before[c], the calls that had returned when it began

vars == <<live, slot, pos, pc, outer, got, outcome, before>>

TypeOK ==
  /\ live \in BOOLEAN
  /\ slot \in BOOLEAN
  /\ pos \in 0..Items
  /\ pc \in [Calls -> {"new", "take", "advance", "putback", "lower", "done"}]
  /\ outer \in [Calls -> Calls \cup {NoCall}]
  /\ got \in [Calls -> 0..Items]
  /\ outcome \in [Calls -> {"none", "item", "end", "marshal", "panic"}]
  /\ before \in [Calls -> SUBSET Calls]
  /\ \A c \in Calls : pc[c] = "done" <=> outcome[c] # "none" /\ pc[c] # "putback"

Init ==
  /\ live = TRUE
  /\ slot = TRUE
  /\ pos = 0
  /\ pc = [c \in Calls |-> "new"]
  /\ outer = [c \in Calls |-> NoCall]
  /\ got = [c \in Calls |-> 0]
  /\ outcome = [c \in Calls |-> "none"]
  /\ before = [c \in Calls |-> {}]

Active(c) == pc[c] \notin {"new", "done"}

(* The producer's next of call c runs, and is not waiting for a call of its*)
(* own to return.                                                          *)
Running(c) == /\ pc[c] = "advance"
              /\ \A d \in Calls : outer[d] = c => ~Active(d)

Returns(c, o) == /\ pc' = [pc EXCEPT ![c] = "done"]
                 /\ outcome' = [outcome EXCEPT ![c] = o]

(* A consumer thread, or the producer code of call o, calls _next.         *)
Enters(c, o) ==
  /\ live
  /\ pc[c] = "new"
  /\ o # NoCall => Running(o)
  /\ outer' = [outer EXCEPT ![c] = o]
  /\ before' = [before EXCEPT ![c] = {d \in Calls : pc[d] = "done"}]

Next_(c, o) ==
  /\ Enters(c, o)
  /\ pc' = [pc EXCEPT ![c] = "take"]
  /\ UNCHANGED <<live, slot, pos, got, outcome>>

(* A defect: the item is pulled before out_item is found null.             *)
PullsThenChecks(c, o) ==
  /\ Enters(c, o)
  /\ slot
  /\ pos < Items
  /\ pos' = pos + 1
  /\ got' = [got EXCEPT ![c] = pos + 1]
  /\ Returns(c, "marshal")
  /\ UNCHANGED <<live, slot>>

(* iter_step: a null out_item fails the call before anything is pulled.    *)
NullOutItem(c, o) ==
  /\ Enters(c, o)
  /\ Returns(c, "marshal")
  /\ UNCHANGED <<live, slot, pos, got>>

(* Two defects: the iterator is left in its handle while it is advanced; a *)
(* call that finds it taken waits for it.                                  *)
AdvancesInPlace(c) ==
  /\ pc[c] = "take"
  /\ pc' = [pc EXCEPT ![c] = "advance"]
  /\ UNCHANGED <<live, slot, pos, outer, got, outcome, before>>

TakeOrWait(c) ==
  /\ pc[c] = "take"
  /\ slot
  /\ slot' = FALSE
  /\ pc' = [pc EXCEPT ![c] = "advance"]
  /\ UNCHANGED <<live, pos, outer, got, outcome, before>>

(* iter_next takes the iterator out of the handle, or fails.               *)
Take(c) ==
  /\ pc[c] = "take"
  /\ IF slot THEN /\ slot' = FALSE
                  /\ pc' = [pc EXCEPT ![c] = "advance"]
                  /\ UNCHANGED outcome
             ELSE /\ Returns(c, "marshal")
                  /\ UNCHANGED slot
  /\ UNCHANGED <<live, pos, outer, got, before>>

(* The producer's next yields an item or says it has no more.              *)
Yields(c) ==
  /\ Running(c)
  /\ pos < Items
  /\ pos' = pos + 1
  /\ got' = [got EXCEPT ![c] = pos + 1]
  /\ pc' = [pc EXCEPT ![c] = "putback"]
  /\ UNCHANGED <<live, slot, outer, outcome, before>>

Ends(c) ==
  /\ Running(c)
  /\ pc' = [pc EXCEPT ![c] = "putback"]
  /\ outcome' = [outcome EXCEPT ![c] = "end"]
  /\ UNCHANGED <<live, slot, pos, outer, got, before>>

(* It panics, before or after it moved past an item.                       *)
NextPanics(c) ==
  /\ Running(c)
  /\ \/ UNCHANGED <<pos, got>>
     \/ /\ pos < Items
        /\ pos' = pos + 1
        /\ got' = [got EXCEPT ![c] = pos + 1]
  /\ pc' = [pc EXCEPT ![c] = "putback"]
  /\ outcome' = [outcome EXCEPT ![c] = "panic"]
  /\ UNCHANGED <<live, slot, outer, before>>

(* A defect: the iterator of a panicking next is dropped with its frame.   *)
PutBackUnlessPanicked(c) ==
  /\ pc[c] = "putback"
  /\ slot' = (outcome[c] # "panic")
  /\ pc' = [pc EXCEPT ![c] = IF outcome[c] = "none" THEN "lower" ELSE "done"]
  /\ UNCHANGED <<live, pos, outer, got, outcome, before>>

(* A defect: a panicking next leaves the iterator where it was before.     *)
PutBackRewound(c) ==
  /\ pc[c] = "putback"
  /\ slot' = TRUE
  /\ pos' = IF outcome[c] = "panic" /\ got[c] # 0 THEN got[c] - 1 ELSE pos
  /\ pc' = [pc EXCEPT ![c] = IF outcome[c] = "none" THEN "lower" ELSE "done"]
  /\ UNCHANGED <<live, outer, got, outcome, before>>

(* Advancing::drop, on the way out of iter_next or of an unwinding next.   *)
PutBack(c) ==
  /\ pc[c] = "putback"
  /\ slot' = TRUE
  /\ pc' = [pc EXCEPT ![c] = IF outcome[c] = "none" THEN "lower" ELSE "done"]
  /\ UNCHANGED <<live, pos, outer, got, outcome, before>>

(* A defect: a panic of the lowering is swallowed with the item.           *)
LowersSilently(c) ==
  /\ pc[c] = "lower"
  /\ pc' = [pc EXCEPT ![c] = "done"]
  /\ UNCHANGED <<live, slot, pos, outer, got, outcome, before>>

(* iter_step lowers the item, which may panic, and writes it to out_item.  *)
Lower(c) ==
  /\ pc[c] = "lower"
  /\ \E o \in {"item", "panic"} : Returns(c, o)
  /\ UNCHANGED <<live, slot, pos, outer, got, before>>

(* _destroy, once no call is in flight (its contract).                     *)
Destroy ==
  /\ live
  /\ \A c \in Calls : ~Active(c)
  /\ live' = FALSE
  /\ UNCHANGED <<slot, pos, pc, outer, got, outcome, before>>

CallStep(c) == Take(c) \/ Yields(c) \/ Ends(c) \/ NextPanics(c) \/ PutBack(c) \/ Lower(c)

Next ==
  \/ \E c \in Calls : \/ \E o \in Calls \cup {NoCall} : Next_(c, o) \/ NullOutItem(c, o)
                      \/ CallStep(c)
  \/ Destroy

Spec == Init /\ [][Next]_vars

(* Threads run, and the producer's next returns or panics; it need not     *)
(* stop calling _next itself, but there are only so many calls.            *)
FairSpec == Spec /\ \A c \in Calls : WF_vars(CallStep(c))

-----------------------------------------------------------------------------
(* The producer's next never runs in two calls at once, re-entrant ones    *)
(* included: Iter is Send, not Sync.                                       *)
Holds(c) == pc[c] \in {"advance", "putback"}

AdvancedByOne == \A c, d \in Calls : Holds(c) /\ Holds(d) => c = d

(* No call leaves the handle without its iterator, whatever its outcome:   *)
(* the handle is busy only while some call is advancing it.                *)
BusyOnlyWhileAdvancing == slot \/ \E c \in Calls : Holds(c)

(* "A bad call never loses one": every item the producer's iterator moved  *)
(* past belongs to one call, which delivered it or reported a panic.       *)
NoItemLost ==
  \A i \in 1..pos : \E c \in Calls :
    /\ got[c] = i
    /\ \A d \in Calls \ {c} : got[d] # i
    /\ pc[c] = "done" => outcome[c] \in {"item", "panic"}

(* A call that begins after another returned gets a later item.            *)
InOrder ==
  \A d \in Calls : \A c \in before[d] :
    got[c] # 0 /\ got[d] # 0 => got[c] < got[d]

(* A _next never waits for another one, so it returns, re-entrant or not.  *)
NextReturns == \A c \in Calls : Active(c) ~> pc[c] = "done"

===============================================================================

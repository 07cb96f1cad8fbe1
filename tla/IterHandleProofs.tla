--------------------------- MODULE IterHandleProofs ---------------------------
(***************************************************************************)
(* For every set of calls of _next and every number of items: one call     *)
(* advances the iterator at a time, the handle is never left without it,   *)
(* and no item is lost, delivered twice or out of order.                   *)
(***************************************************************************)
EXTENDS IterHandle, TLAPS

(* The iterator is in its handle or with exactly one call.                 *)
OnePlace == /\ AdvancedByOne
            /\ slot => \A c \in Calls : ~Holds(c)
            /\ BusyOnlyWhileAdvancing

(* What a call has pulled follows from where it is.                        *)
Pulled(c) ==
  /\ pc[c] \in {"new", "take", "advance"} => got[c] = 0 /\ outcome[c] = "none"
  /\ pc[c] = "putback" => outcome[c] \in {"none", "end", "panic"}
  /\ pc[c] = "lower" => outcome[c] = "none"
  /\ got[c] # 0 => outcome[c] \in {"none", "item", "panic"}
  /\ pc[c] = "done" => outcome[c] # "none"
  /\ got[c] <= pos

(* Items are pulled once, and in order.                                    *)
Accounted ==
  /\ \A i \in 1..pos : \E c \in Calls : got[c] = i
  /\ \A c, d \in Calls : got[c] = got[d] /\ got[c] # 0 => c = d

Ordered == \A d \in Calls : \A c \in before[d] :
             /\ pc[c] = "done"
             /\ got[c] # 0 /\ got[d] # 0 => got[c] < got[d]

IInv == /\ TypeOK
        /\ OnePlace
        /\ \A c \in Calls : Pulled(c)
        /\ Accounted
        /\ Ordered

LEMMA IndInit == Init => IInv
  BY ItemsAssumption DEF Init, IInv, TypeOK, OnePlace, AdvancedByOne, Holds,
       BusyOnlyWhileAdvancing, Pulled, Accounted, Ordered

(* A call that begins, and a call that ends, leave the iterator where it   *)
(* is, and the items.                                                      *)
LEMMA EntersStep ==
  ASSUME IInv, NEW c \in Calls, NEW o \in Calls \cup {NoCall}, Enters(c, o),
         UNCHANGED <<live, slot, pos, got>>,
         \/ pc' = [pc EXCEPT ![c] = "take"] /\ UNCHANGED outcome
         \/ Returns(c, "marshal")
  PROVE  IInv'
<1> USE DEF IInv, Enters, Returns
<1>1. TypeOK'
  BY DEF TypeOK, Pulled
<1>2. OnePlace'
  BY DEF TypeOK, OnePlace, AdvancedByOne, Holds, BusyOnlyWhileAdvancing
<1>3. ASSUME NEW d \in Calls PROVE Pulled(d)'
  BY DEF TypeOK, Pulled
<1>4. Accounted'
  BY DEF Accounted
<1>5. Ordered'
  <2> SUFFICES ASSUME NEW d \in Calls, NEW e \in before'[d]
               PROVE  /\ pc'[e] = "done"
                      /\ got'[e] # 0 /\ got'[d] # 0 => got'[e] < got'[d]
    BY DEF Ordered
  <2>1. CASE d = c
    <3>1. pc[e] = "done" /\ e # c /\ got[c] = 0
      BY <2>1 DEF TypeOK, Pulled
    <3> QED
      BY <2>1, <3>1 DEF TypeOK
  <2>2. CASE d # c
    <3>1. e \in before[d] /\ e \in Calls /\ pc[e] = "done" /\ e # c
      BY <2>2 DEF TypeOK, Ordered
    <3> QED
      BY <2>2, <3>1 DEF TypeOK, Ordered
  <2> QED
    BY <2>1, <2>2
<1> QED
  BY <1>1, <1>2, <1>3, <1>4, <1>5

(* The producer's next, whatever it does: the call that holds the iterator *)
(* takes an item or none, and goes on to put the iterator back.            *)
LEMMA AdvanceStep ==
  ASSUME IInv, NEW c \in Calls, pc[c] = "advance",
         pc' = [pc EXCEPT ![c] = "putback"],
         UNCHANGED <<live, slot, outer, before>>,
         NEW o, outcome' = [outcome EXCEPT ![c] = o],
         \/ UNCHANGED <<pos, got>> /\ o \in {"end", "panic"}
         \/ /\ pos < Items
            /\ pos' = pos + 1
            /\ got' = [got EXCEPT ![c] = pos + 1]
            /\ o \in {"none", "panic"}
  PROVE  IInv'
<1> USE ItemsAssumption DEF IInv
<1>1. TypeOK'
  BY DEF TypeOK
<1>2. OnePlace'
  BY DEF TypeOK, OnePlace, AdvancedByOne, Holds, BusyOnlyWhileAdvancing
<1>3. ASSUME NEW d \in Calls PROVE Pulled(d)'
  BY DEF TypeOK, Pulled
<1>4. Accounted'
  <2>1. CASE UNCHANGED <<pos, got>>
    BY <2>1 DEF Accounted
  <2>2. CASE pos' = pos + 1 /\ got' = [got EXCEPT ![c] = pos + 1]
    <3>1. \A i \in 1..pos : \E d \in Calls : got[d] = i
      BY DEF Accounted
    <3>2. got[c] = 0
      BY DEF Pulled
    <3>3. ASSUME NEW i \in 1..pos' PROVE \E d \in Calls : got'[d] = i
      <4>1. CASE i = pos + 1
        BY <2>2, <4>1 DEF TypeOK
      <4>2. CASE i # pos + 1
        <5>1. i \in 1..pos
          BY <2>2, <4>2 DEF TypeOK
        <5>2. PICK d \in Calls : got[d] = i
          BY <3>1, <5>1
        <5>3. d # c
          BY <5>2, <5>1, <3>2 DEF TypeOK
        <5> QED
          BY <2>2, <5>2, <5>3 DEF TypeOK
      <4> QED
        BY <4>1, <4>2
    <3>4. ASSUME NEW d \in Calls, NEW e \in Calls, got'[d] = got'[e], got'[d] # 0
          PROVE  d = e
      <4>1. got[d] <= pos /\ got[e] <= pos
        BY DEF Pulled
      <4> QED
        BY <2>2, <3>4, <4>1 DEF TypeOK, Accounted
    <3> QED
      BY <3>3, <3>4 DEF Accounted
  <2> QED
    BY <2>1, <2>2
<1>5. Ordered'
  <2> SUFFICES ASSUME NEW d \in Calls, NEW e \in before[d]
               PROVE  /\ pc'[e] = "done"
                      /\ got'[e] # 0 /\ got'[d] # 0 => got'[e] < got'[d]
    BY DEF Ordered
  <2>1. e \in Calls /\ e # c /\ pc[e] = "done"
    BY DEF TypeOK, Ordered
  <2>2. got[e] <= pos /\ (got[e] # 0 /\ got[d] # 0 => got[e] < got[d])
    BY <2>1 DEF Ordered, Pulled
  <2> QED
    BY <2>1, <2>2 DEF TypeOK
<1> QED
  BY <1>1, <1>2, <1>3, <1>4, <1>5

(* The other steps of a call pull nothing.                                 *)
LEMMA QuietStep ==
  ASSUME IInv, NEW c \in Calls, Take(c) \/ PutBack(c) \/ Lower(c)
  PROVE  IInv'
<1> USE DEF IInv, Take, PutBack, Lower, Returns
<1>1. TypeOK'
  <2>1. CASE Take(c)
    BY <2>1 DEF TypeOK
  <2>2. CASE PutBack(c)
    BY <2>2 DEF TypeOK, Pulled
  <2>3. CASE Lower(c)
    BY <2>3 DEF TypeOK
  <2> QED
    BY <2>1, <2>2, <2>3
<1>2. OnePlace'
  BY DEF TypeOK, OnePlace, AdvancedByOne, Holds, BusyOnlyWhileAdvancing
<1>3. ASSUME NEW d \in Calls PROVE Pulled(d)'
  BY DEF TypeOK, Pulled
<1>4. Accounted'
  BY DEF Accounted
<1>5. Ordered'
  BY DEF TypeOK, Ordered
<1> QED
  BY <1>1, <1>2, <1>3, <1>4, <1>5

(* The iterator has one place, and every item one call.                    *)
THEOREM Invariance == Spec => []IInv
<1>1. IInv /\ [Next]_vars => IInv'
  <2> SUFFICES ASSUME IInv, [Next]_vars PROVE IInv'
    OBVIOUS
  <2>1. CASE UNCHANGED vars
    BY <2>1 DEF vars, IInv, TypeOK, OnePlace, AdvancedByOne, Holds,
                BusyOnlyWhileAdvancing, Pulled, Accounted, Ordered
  <2>2. CASE Destroy
    BY <2>2 DEF Destroy, IInv, TypeOK, OnePlace, AdvancedByOne, Holds,
                BusyOnlyWhileAdvancing, Pulled, Accounted, Ordered
  <2>3. ASSUME NEW c \in Calls, NEW o \in Calls \cup {NoCall},
               Next_(c, o) \/ NullOutItem(c, o)
        PROVE  IInv'
    BY <2>3, EntersStep DEF Next_, NullOutItem
  <2>4. ASSUME NEW c \in Calls, Take(c) \/ PutBack(c) \/ Lower(c)
        PROVE  IInv'
    BY <2>4, QuietStep
  <2>5. ASSUME NEW c \in Calls, Yields(c)
        PROVE  IInv'
    <3>1. outcome' = [outcome EXCEPT ![c] = "none"]
      BY <2>5 DEF Yields, Running, IInv, TypeOK, Pulled
    <3> QED
      BY <2>5, <3>1, AdvanceStep DEF Yields, Running
  <2>6. ASSUME NEW c \in Calls, Ends(c)
        PROVE  IInv'
    BY <2>6, AdvanceStep DEF Ends, Running
  <2>7. ASSUME NEW c \in Calls, NextPanics(c)
        PROVE  IInv'
    BY <2>7, AdvanceStep DEF NextPanics, Running
  <2> QED
    BY <2>1, <2>2, <2>3, <2>4, <2>5, <2>6, <2>7 DEF Next, CallStep
<1> QED
  BY IndInit, <1>1, PTL DEF Spec

(* Every variable keeps its type; a call that returned has an outcome.     *)
THEOREM TypeCorrect == Spec => []TypeOK
<1>1. IInv => TypeOK
  BY DEF IInv
<1> QED
  BY Invariance, <1>1, PTL

(* The producer's next never runs in two calls at once (iter_next).        *)
THEOREM Exclusive == Spec => []AdvancedByOne
<1>1. IInv => AdvancedByOne
  BY DEF IInv, OnePlace
<1> QED
  BY Invariance, <1>1, PTL

(* A handle is without its iterator only while a call advances it          *)
(* (Advancing::drop).                                                      *)
THEOREM NeverWedged == Spec => []BusyOnlyWhileAdvancing
<1>1. IInv => BusyOnlyWhileAdvancing
  BY DEF IInv, OnePlace
<1> QED
  BY Invariance, <1>1, PTL

(* Every item pulled belongs to one call, which delivers it or reports a   *)
(* panic (iter_step).                                                      *)
THEOREM NothingLost == Spec => []NoItemLost
<1>1. IInv => NoItemLost
  <2> SUFFICES ASSUME IInv, NEW i \in 1..pos
               PROVE  \E c \in Calls :
                        /\ got[c] = i
                        /\ \A d \in Calls \ {c} : got[d] # i
                        /\ pc[c] = "done" => outcome[c] \in {"item", "panic"}
    BY DEF NoItemLost
  <2>1. PICK c \in Calls : got[c] = i
    BY DEF IInv, Accounted
  <2>2. got[c] # 0
    BY <2>1
  <2> QED
    BY <2>1, <2>2 DEF IInv, Accounted, Pulled
<1> QED
  BY Invariance, <1>1, PTL

(* A call that begins after another returned gets a later item.            *)
THEOREM DeliversInOrder == Spec => []InOrder
<1>1. IInv => InOrder
  BY DEF IInv, Ordered, InOrder
<1> QED
  BY Invariance, <1>1, PTL

===============================================================================

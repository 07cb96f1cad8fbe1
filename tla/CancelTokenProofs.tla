--------------------------- MODULE CancelTokenProofs ---------------------------
(***************************************************************************)
(* For every set of tokens, calls and cancelling threads: a cancellation   *)
(* racing a poll is never missed, a token keeps no slot of a call that is  *)
(* over, and its reference count is exact.                                 *)
(***************************************************************************)
EXTENDS CancelToken, FiniteSetTheorems, TLAPS

USE TokenOfAssumption, NoTaskAssumption

(* The calls whose Cancellable has registered and not yet deregistered.    *)
Registered(f) == pc[f] \in {"store", "check", "inner", "suspended", "ended", "dropped"}

(* A thread past the store of the flag has it set, and one that has not    *)
(* taken the registrations holds none.                                     *)
Stored(k) == /\ step[k] # "idle" => flag[target[k]]
             /\ step[k] # "wake" => taken[k] = {}

(* Slots belong to registered calls of the token, and a call that may come *)
(* to wait on a token that is not cancelled has its slot there.            *)
Slotted ==
  /\ \A t \in Tokens : \A f \in slots[t] : TokenOf[f] = t /\ Registered(f)
  /\ \A f \in Tasks : /\ pc[f] \in {"store", "check", "inner", "suspended"}
                      /\ ~flag[TokenOf[f]]
                      => f \in slots[TokenOf[f]]

(* Once stored, a waker is in its slot or has been called, or is about to. *)
Woken(f) == woken[f] \/ \E k \in Cancellers : waking[k] = f

Armed(f) == pc[f] \in {"check", "inner", "suspended"} => waker[f] \/ Woken(f)

(* A call that passed the flag check of a token cancelled since.           *)
Heeded(f) == flag[TokenOf[f]] /\ pc[f] \in {"inner", "suspended"}
               => woken[f] \/ WakeUnderWay(f)

WakeInv == /\ \A k \in Cancellers : Stored(k)
           /\ Slotted
           /\ \A f \in Tasks : Armed(f) /\ Heeded(f)

(* TypeOK, but for the count: that it is a natural number follows from     *)
(* CountsHolders only.                                                     *)
Types ==
  /\ flag \in [Tokens -> BOOLEAN]
  /\ slots \in [Tokens -> SUBSET Tasks]
  /\ waker \in [Tasks -> BOOLEAN]
  /\ woken \in [Tasks -> BOOLEAN]
  /\ pc \in [Tasks -> {"new", "launched", "register", "store", "check", "inner",
                       "suspended", "ended", "dropped", "leaving", "done"}]
  /\ result \in [Tasks -> {"none", "cancelled", "ready", "dropped"}]
  /\ step \in [Cancellers -> {"idle", "take", "wake"}]
  /\ target \in [Cancellers -> Tokens]
  /\ taken \in [Cancellers -> SUBSET Tasks]
  /\ waking \in [Cancellers -> Tasks \cup {NoTask}]
  /\ consumer \in [Tokens -> BOOLEAN]
  /\ refs \in [Tokens -> Int]

IInv == Types /\ WakeInv /\ CountsHolders

-----------------------------------------------------------------------------
(* The count.                                                              *)

LEMMA HoldersFinite ==
  \A t \in Tokens : /\ IsFiniteSet(Launchers(t)) /\ IsFiniteSet(Producers(t))
                    /\ Cardinality(Launchers(t)) \in Nat
                    /\ Cardinality(Producers(t)) \in Nat
<1> TAKE t \in Tokens
<1>1. Launchers(t) \subseteq Tasks /\ Producers(t) \subseteq Tasks
  BY DEF Launchers, Producers
<1>2. IsFiniteSet(Launchers(t)) /\ IsFiniteSet(Producers(t))
  BY <1>1, TasksAssumption, FS_Subset
<1> QED
  BY <1>2, FS_CardinalityType

(* A step of call f that leaves the other calls' places alone moves the    *)
(* two sets by f at most, and the sets of f's token only.                  *)
LEMMA HoldersMove ==
  ASSUME Types, NEW f \in Tasks, NEW to, pc' = [pc EXCEPT ![f] = to]
  PROVE  LET A == Launchers(TokenOf[f])
             B == Producers(TokenOf[f])
             in == to \notin {"new", "done"}
             out == to \notin {"new", "done", "ended", "leaving"}
         IN  /\ A' = IF in THEN A \cup {f} ELSE A \ {f}
             /\ B' = IF out THEN B \cup {f} ELSE B \ {f}
             /\ \A t \in Tokens \ {TokenOf[f]} :
                  Launchers(t)' = Launchers(t) /\ Producers(t)' = Producers(t)
  BY DEF Types, Launchers, Producers, InFlight

(* Adding or removing one call.                                            *)
LEMMA OneMore ==
  ASSUME NEW S, IsFiniteSet(S), NEW f
  PROVE  /\ Cardinality(S \cup {f}) = Cardinality(S) + (IF f \in S THEN 0 ELSE 1)
         /\ Cardinality(S \ {f}) = Cardinality(S) - (IF f \in S THEN 1 ELSE 0)
         /\ Cardinality(S) \in Nat
<1>1. f \notin S => S \ {f} = S
  OBVIOUS
<1>2. f \in S => S \cup {f} = S
  OBVIOUS
<1>3. Cardinality(S) \in Nat
  BY FS_CardinalityType
<1>4. /\ Cardinality(S \cup {f}) = IF f \in S THEN Cardinality(S) ELSE Cardinality(S) + 1
      /\ Cardinality(S \ {f}) = IF f \in S THEN Cardinality(S) - 1 ELSE Cardinality(S)
  BY FS_AddElement, FS_RemoveElement
<1> QED
  BY <1>3, <1>4

(* The references a call holds at place p: none before it is launched and  *)
(* after it has left, one when the producer's future is gone, or two.      *)
References(p) == CASE p \in {"new", "done"} -> 0
                   [] p \in {"ended", "leaving"} -> 1
                   [] OTHER -> 2

(* A call's move changes the count by the references it gains or gives up. *)
Moves(f, to, n) ==
  /\ pc' = [pc EXCEPT ![f] = to]
  /\ n \in Int
  /\ n = References(to) - References(pc[f])
  /\ refs' = [refs EXCEPT ![TokenOf[f]] = @ + n]
  /\ consumer' = consumer

LEMMA CountMove ==
  ASSUME Types, CountsHolders, NEW f \in Tasks, NEW to, NEW n, Moves(f, to, n)
  PROVE  CountsHolders'
<1> USE DEF Moves
<1> DEFINE T == TokenOf[f]
           A == Launchers(T)
           B == Producers(T)
           holds(p) == p \notin {"new", "done"}
           clones(p) == p \notin {"new", "done", "ended", "leaving"}
<1>t. T \in Tokens
  OBVIOUS
<1>1. /\ A' = IF holds(to) THEN A \cup {f} ELSE A \ {f}
      /\ B' = IF clones(to) THEN B \cup {f} ELSE B \ {f}
      /\ \A t \in Tokens \ {T} :
           Launchers(t)' = Launchers(t) /\ Producers(t)' = Producers(t)
  BY HoldersMove
<1>2. /\ f \in A <=> holds(pc[f])
      /\ f \in B <=> clones(pc[f])
  BY DEF Launchers, Producers, InFlight
<1>3. IsFiniteSet(A) /\ IsFiniteSet(B)
  BY HoldersFinite, <1>t
<1> HIDE DEF T, A, B
<1>4. /\ Cardinality(A') = Cardinality(A) + (IF holds(to) THEN 1 ELSE 0)
                                         - (IF holds(pc[f]) THEN 1 ELSE 0)
      /\ Cardinality(A) \in Nat
  <2>1. /\ Cardinality(A \cup {f}) = Cardinality(A) + (IF f \in A THEN 0 ELSE 1)
        /\ Cardinality(A \ {f}) = Cardinality(A) - (IF f \in A THEN 1 ELSE 0)
        /\ Cardinality(A) \in Nat
    BY <1>3, OneMore
  <2> QED
    BY <1>1, <1>2, <2>1
<1>5. /\ Cardinality(B') = Cardinality(B) + (IF clones(to) THEN 1 ELSE 0)
                                         - (IF clones(pc[f]) THEN 1 ELSE 0)
      /\ Cardinality(B) \in Nat
  <2>1. /\ Cardinality(B \cup {f}) = Cardinality(B) + (IF f \in B THEN 0 ELSE 1)
        /\ Cardinality(B \ {f}) = Cardinality(B) - (IF f \in B THEN 1 ELSE 0)
        /\ Cardinality(B) \in Nat
    BY <1>3, OneMore
  <2> QED
    BY <1>1, <1>2, <2>1
<1> USE DEF T, A, B
<1>6. n = (IF holds(to) THEN 1 ELSE 0) + (IF clones(to) THEN 1 ELSE 0)
          - (IF holds(pc[f]) THEN 1 ELSE 0) - (IF clones(pc[f]) THEN 1 ELSE 0)
  <2>1. \A p : References(p) = (IF holds(p) THEN 1 ELSE 0)
                              + (IF clones(p) THEN 1 ELSE 0)
    BY DEF References
  <2> QED
    BY <2>1
<1>7. refs'[T] = Holders(T)'
  <2>1. refs'[T] = refs[T] + n /\ consumer'[T] = consumer[T]
    BY <1>t DEF Types
  <2>2. refs[T] = (IF consumer[T] THEN 1 ELSE 0) + Cardinality(A) + Cardinality(B)
    BY <1>t DEF CountsHolders, Holders
  <2>3. refs'[T] = (IF consumer'[T] THEN 1 ELSE 0) + Cardinality(A') + Cardinality(B')
    <3> HIDE DEF T, A, B
    <3> QED
      BY <2>1, <2>2, <1>4, <1>5, <1>6
  <2> QED
    BY <2>3 DEF Holders
<1>8. ASSUME NEW t \in Tokens \ {T}
      PROVE  refs'[t] = Holders(t)'
  <2>1. refs'[t] = refs[t] /\ consumer'[t] = consumer[t]
    BY DEF Types
  <2>2. Launchers(t)' = Launchers(t) /\ Producers(t)' = Producers(t)
    BY <1>1
  <2>3. refs[t] = Holders(t)
    BY DEF CountsHolders
  <2> QED
    BY <2>1, <2>2, <2>3 DEF Holders
<1> QED
  BY <1>7, <1>8 DEF CountsHolders

(* Steps that leave every call where it is leave the two sets alone.       *)
LEMMA CountStays ==
  ASSUME CountsHolders, UNCHANGED <<pc, consumer, refs>>
  PROVE  CountsHolders'
  BY DEF CountsHolders, Holders, Launchers, Producers, InFlight

-----------------------------------------------------------------------------
LEMMA IndInit == Init => IInv
<1> SUFFICES ASSUME Init PROVE IInv
  OBVIOUS
<1>1. Types
  BY DEF Init, Types
<1>2. WakeInv
  BY DEF Init, WakeInv, Stored, Slotted, Registered, Armed, Heeded
<1>3. ASSUME NEW t \in Tokens
      PROVE  refs[t] = Holders(t)
  <2>1. Launchers(t) = {} /\ Producers(t) = {}
    BY DEF Init, Launchers, Producers, InFlight
  <2>2. Cardinality({}) = 0
    BY FS_EmptySet
  <2> QED
    BY <2>1, <2>2 DEF Init, Holders
<1> QED
  BY <1>1, <1>2, <1>3 DEF IInv, CountsHolders

LEMMA TypesStep == Types /\ [Next]_vars => Types'
<1> SUFFICES ASSUME Types, [Next]_vars PROVE Types'
  OBVIOUS
<1> USE DEF Types, AddRefs, Goto, EndsWith
<1>u. CASE UNCHANGED vars
  BY <1>u DEF vars, futures, thread
<1>1. ASSUME NEW k \in Cancellers, NEW t \in Tokens, CancelStores(k, t)
      PROVE  Types'
  BY <1>1 DEF CancelStores, futures
<1>2. ASSUME NEW k \in Cancellers, CancelTakes(k)
      PROVE  Types'
  BY <1>2 DEF CancelTakes, futures
<1>3. ASSUME NEW k \in Cancellers, NEW f \in Tasks, CancelTakesWaker(k, f)
      PROVE  Types'
  BY <1>3 DEF CancelTakesWaker, futures
<1>4. ASSUME NEW k \in Cancellers, CancelWakes(k)
      PROVE  Types'
  <2>1. waking[k] \in Tasks
    BY <1>4 DEF CancelWakes
  <2>2. InFlight(waking[k]) \in BOOLEAN
    BY DEF InFlight
  <2> QED
    BY <1>4, <2>1, <2>2 DEF CancelWakes
<1>5. ASSUME NEW k \in Cancellers, CancelReturns(k)
      PROVE  Types'
  BY <1>5 DEF CancelReturns, futures
<1>6. ASSUME NEW t \in Tokens, Destroy(t)
      PROVE  Types'
  BY <1>6 DEF Destroy, futures, thread
<1>7. ASSUME NEW f \in Tasks, Launch(f)
      PROVE  Types'
  BY <1>7 DEF Launch, thread
<1>8. ASSUME NEW f \in Tasks, BeginPoll(f)
      PROVE  Types'
  BY <1>8 DEF BeginPoll, thread
<1>9. ASSUME NEW f \in Tasks, RegisterSlot(f)
      PROVE  Types'
  BY <1>9 DEF RegisterSlot, thread
<1>10. ASSUME NEW f \in Tasks, StoreWaker(f)
      PROVE  Types'
  BY <1>10 DEF StoreWaker, thread
<1>11. ASSUME NEW f \in Tasks, CheckClear(f)
      PROVE  Types'
  BY <1>11 DEF CheckClear, thread
<1>12. ASSUME NEW f \in Tasks, CheckSet(f)
      PROVE  Types'
  BY <1>12 DEF CheckSet, thread
<1>13. ASSUME NEW f \in Tasks, InnerReady(f)
      PROVE  Types'
  BY <1>13 DEF InnerReady, thread
<1>14. ASSUME NEW f \in Tasks, InnerPending(f)
      PROVE  Types'
  BY <1>14 DEF InnerPending, thread
<1>15. ASSUME NEW f \in Tasks, ProducerWakes(f)
      PROVE  Types'
  BY <1>15 DEF ProducerWakes, thread
<1>16. ASSUME NEW f \in Tasks, ExecutorDrops(f)
      PROVE  Types'
  BY <1>16 DEF ExecutorDrops, thread
<1>17. ASSUME NEW f \in Tasks, Deregister(f)
      PROVE  Types'
  BY <1>17 DEF Deregister, thread
<1>18. ASSUME NEW f \in Tasks, Leave(f)
      PROVE  Types'
  BY <1>18 DEF Leave, thread
<1> QED
  BY <1>1, <1>2, <1>3, <1>4, <1>5, <1>6, <1>7, <1>8, <1>9, <1>10,
     <1>11, <1>12, <1>13, <1>14, <1>15, <1>16, <1>17, <1>18, <1>u
     DEF Next, CancelContinues, Poll

LEMMA CountStep == IInv /\ [Next]_vars => CountsHolders'
<1> SUFFICES ASSUME Types, WakeInv, CountsHolders, [Next]_vars
             PROVE  CountsHolders'
  BY DEF IInv
<1> USE DEF AddRefs, Goto
<1>u. CASE UNCHANGED vars
  BY <1>u, CountStays DEF vars, futures
<1>1. ASSUME NEW k \in Cancellers, NEW t \in Tokens, CancelStores(k, t)
      PROVE  CountsHolders'
  BY <1>1, CountStays DEF CancelStores, futures
<1>2. ASSUME NEW k \in Cancellers, CancelContinues(k)
      PROVE  CountsHolders'
  BY <1>2, CountStays DEF CancelContinues, CancelTakes, CancelTakesWaker,
                          CancelWakes, CancelReturns, futures
<1>3. ASSUME NEW t \in Tokens, Destroy(t)
      PROVE  CountsHolders'
  <2> SUFFICES ASSUME NEW s \in Tokens PROVE refs'[s] = Holders(s)'
    BY DEF CountsHolders
  <2>1. Launchers(s)' = Launchers(s) /\ Producers(s)' = Producers(s)
    BY <1>3 DEF Destroy, futures, Launchers, Producers, InFlight
  <2>2. refs[s] = Holders(s)
    BY DEF CountsHolders
  <2>3. Cardinality(Launchers(s)) \in Nat /\ Cardinality(Producers(s)) \in Nat
    BY HoldersFinite
  <2>4. CASE s = t
    <3>1. refs'[s] = refs[s] - 1 /\ consumer[s] /\ ~consumer'[s]
      BY <1>3, <2>4 DEF Destroy, Types
    <3> QED
      BY <3>1, <2>1, <2>2, <2>3 DEF Holders
  <2>5. CASE s # t
    <3>1. refs'[s] = refs[s] /\ consumer'[s] = consumer[s]
      BY <1>3, <2>5 DEF Destroy, Types
    <3> QED
      BY <3>1, <2>1, <2>2 DEF Holders
  <2> QED
    BY <2>4, <2>5
<1>4. ASSUME NEW f \in Tasks, ProducerWakes(f)
      PROVE  CountsHolders'
  BY <1>4, CountStays DEF ProducerWakes, thread
<1>5. ASSUME NEW f \in Tasks, Launch(f)
      PROVE  CountsHolders'
  <2>1. Moves(f, "launched", 2)
    BY <1>5 DEF Moves, Launch, References
  <2> QED
    BY <2>1, CountMove
<1>6. ASSUME NEW f \in Tasks, NEW from, NEW to, Goto(f, from, to),
             UNCHANGED <<consumer, refs>>,
             from \notin {"new", "done", "ended", "leaving"},
             to \notin {"new", "done", "ended", "leaving"}
      PROVE  CountsHolders'
  <2>1. refs' = [refs EXCEPT ![TokenOf[f]] = @ + 0]
    BY <1>6 DEF Types
  <2>2. 0 = References(to) - References(pc[f])
    BY <1>6 DEF References
  <2>3. pc' = [pc EXCEPT ![f] = to] /\ consumer' = consumer /\ 0 \in Int
    BY <1>6
  <2>4. Moves(f, to, 0)
    BY <2>1, <2>2, <2>3 DEF Moves
  <2> QED
    BY <2>4, CountMove
<1>7. ASSUME NEW f \in Tasks,
             \/ BeginPoll(f) \/ RegisterSlot(f) \/ StoreWaker(f) \/ CheckClear(f)
             \/ InnerPending(f) \/ ExecutorDrops(f)
      PROVE  CountsHolders'
  BY <1>6, <1>7 DEF BeginPoll, RegisterSlot, StoreWaker, CheckClear, InnerPending,
                    ExecutorDrops
<1>8. ASSUME NEW f \in Tasks, CheckSet(f) \/ InnerReady(f)
      PROVE  CountsHolders'
  <2>1. Moves(f, "ended", -1)
    BY <1>8 DEF Moves, CheckSet, InnerReady, EndsWith, References
  <2> QED
    BY <2>1, CountMove
<1>9. ASSUME NEW f \in Tasks, Deregister(f)
      PROVE  CountsHolders'
  <2>1. CASE Goto(f, "ended", "leaving") /\ UNCHANGED refs
    <3>1. Moves(f, "leaving", 0)
      BY <1>9, <2>1 DEF Moves, Deregister, Types, References
    <3> QED
      BY <3>1, CountMove
  <2>2. CASE Goto(f, "dropped", "leaving") /\ AddRefs(TokenOf[f], -1)
    <3>1. Moves(f, "leaving", -1)
      BY <1>9, <2>2 DEF Moves, Deregister, References
    <3> QED
      BY <3>1, CountMove
  <2> QED
    BY <1>9, <2>1, <2>2 DEF Deregister
<1>10. ASSUME NEW f \in Tasks, Leave(f)
       PROVE  CountsHolders'
  <2>1. Moves(f, "done", -1)
    BY <1>10 DEF Moves, Leave, References
  <2> QED
    BY <2>1, CountMove
<1> QED
  BY <1>1, <1>2, <1>3, <1>4, <1>5, <1>7, <1>8, <1>9, <1>10, <1>u DEF Next, Poll

-----------------------------------------------------------------------------
(* The wake-up protocol.  Each action changes little of what it reads, so  *)
(* each preserves the three parts by itself.                               *)
LEMMA WakeStep == IInv /\ [Next]_vars => WakeInv'
<1> SUFFICES ASSUME Types, WakeInv, [Next]_vars
             PROVE  WakeInv'
  BY DEF IInv
<1> USE DEF Types, WakeInv, Goto
<1>u. CASE UNCHANGED vars
  BY <1>u DEF vars, futures, thread, Stored, Slotted, Registered, Armed, Woken,
              Heeded, WakeUnderWay
<1>1. ASSUME NEW k \in Cancellers, NEW t \in Tokens, CancelStores(k, t)
      PROVE  WakeInv'
  <2> USE <1>1 DEF CancelStores, futures
  <2>1. \A j \in Cancellers : Stored(j)'
    BY DEF Stored
  <2>2. Slotted'
    BY DEF Slotted, Registered
  <2>3. ASSUME NEW f \in Tasks PROVE Armed(f)'
    BY DEF Armed, Woken
  <2>4. ASSUME NEW f \in Tasks PROVE Heeded(f)'
    <3>1. CASE flag[TokenOf[f]] \/ TokenOf[f] # t
      <4>1. WakeUnderWay(f) => WakeUnderWay(f)'
        BY DEF WakeUnderWay
      <4> QED
        BY <3>1, <4>1 DEF Heeded
    <3>2. CASE ~flag[TokenOf[f]] /\ TokenOf[f] = t /\ pc[f] \in {"inner", "suspended"}
      <4>1. f \in slots[t] /\ (waker[f] \/ Woken(f))
        BY <3>2 DEF Slotted, Armed
      <4> QED
        BY <3>2, <4>1 DEF Heeded, WakeUnderWay, Woken
    <3> QED
      BY <3>1, <3>2 DEF Heeded
  <2> QED
    BY <2>1, <2>2, <2>3, <2>4
<1>2. ASSUME NEW k \in Cancellers, CancelTakes(k)
      PROVE  WakeInv'
  <2> USE <1>2 DEF CancelTakes, futures
  <2>1. \A j \in Cancellers : Stored(j)'
    BY DEF Stored
  <2>2. Slotted'
    BY DEF Slotted, Registered, Stored
  <2>3. ASSUME NEW f \in Tasks PROVE Armed(f)'
    BY DEF Armed, Woken
  <2>4. ASSUME NEW f \in Tasks PROVE Heeded(f)'
    <3>1. ASSUME WakeUnderWay(f) PROVE WakeUnderWay(f)'
      <4>1. PICK j \in Cancellers :
              \/ waking[j] = f
              \/ f \in taken[j] /\ waker[f]
              \/ /\ step[j] = "take"
                 /\ target[j] = TokenOf[f]
                 /\ f \in slots[TokenOf[f]]
                 /\ waker[f]
        BY <3>1 DEF WakeUnderWay
      <4>2. CASE waking[j] = f
        BY <4>2 DEF WakeUnderWay
      <4>3. CASE f \in taken[j] /\ waker[f]
        <5>1. j # k
          BY <4>3 DEF Stored
        <5> QED
          BY <4>3, <5>1 DEF WakeUnderWay
      <4>4. CASE /\ step[j] = "take"
                 /\ target[j] = TokenOf[f]
                 /\ f \in slots[TokenOf[f]]
                 /\ waker[f]
        <5>1. CASE target[k] = TokenOf[f]
          <6>1. f \in taken'[k] /\ waker'[f]
            BY <4>4, <5>1
          <6> QED
            BY <6>1 DEF WakeUnderWay
        <5>2. CASE target[k] # TokenOf[f]
          <6>1. j # k /\ slots'[TokenOf[f]] = slots[TokenOf[f]]
            BY <4>4, <5>2
          <6> QED
            BY <4>4, <6>1 DEF WakeUnderWay
        <5> QED
          BY <5>1, <5>2
      <4> QED
        BY <4>1, <4>2, <4>3, <4>4
    <3> QED
      BY <3>1 DEF Heeded
  <2> QED
    BY <2>1, <2>2, <2>3, <2>4
<1>3. ASSUME NEW k \in Cancellers, NEW g \in Tasks, CancelTakesWaker(k, g)
      PROVE  WakeInv'
  <2> USE <1>3 DEF CancelTakesWaker, futures
  <2>1. \A j \in Cancellers : Stored(j)'
    BY DEF Stored
  <2>2. Slotted'
    BY DEF Slotted, Registered
  <2>3. ASSUME NEW f \in Tasks PROVE Armed(f)'
    BY DEF Armed, Woken
  <2>4. ASSUME NEW f \in Tasks PROVE Heeded(f)'
    <3>1. WakeUnderWay(f) => WakeUnderWay(f)'
      BY DEF WakeUnderWay
    <3> QED
      BY <3>1 DEF Heeded
  <2> QED
    BY <2>1, <2>2, <2>3, <2>4
<1>4. ASSUME NEW k \in Cancellers, CancelWakes(k)
      PROVE  WakeInv'
  <2> USE <1>4 DEF CancelWakes
  <2>0. waking[k] \in Tasks
    OBVIOUS
  <2>1. \A j \in Cancellers : Stored(j)'
    BY DEF Stored
  <2>2. Slotted'
    BY DEF Slotted, Registered
  <2>3. ASSUME NEW f \in Tasks PROVE Armed(f)'
    BY <2>0 DEF Armed, Woken, InFlight
  <2>4. ASSUME NEW f \in Tasks PROVE Heeded(f)'
    <3>1. pc[f] \in {"inner", "suspended"} => InFlight(f)
      BY DEF InFlight
    <3>2. CASE f = waking[k]
      BY <2>0, <3>1, <3>2 DEF Heeded
    <3>3. CASE f # waking[k]
      <4>1. WakeUnderWay(f) => WakeUnderWay(f)'
        BY <3>3 DEF WakeUnderWay
      <4> QED
        BY <2>0, <3>3, <4>1 DEF Heeded
    <3> QED
      BY <3>2, <3>3
  <2> QED
    BY <2>1, <2>2, <2>3, <2>4
<1>5. ASSUME NEW k \in Cancellers, CancelReturns(k)
      PROVE  WakeInv'
  <2> USE <1>5 DEF CancelReturns, futures
  <2>1. \A j \in Cancellers : Stored(j)'
    BY DEF Stored
  <2>2. Slotted'
    BY DEF Slotted, Registered
  <2>3. ASSUME NEW f \in Tasks PROVE Armed(f)'
    BY DEF Armed, Woken
  <2>4. ASSUME NEW f \in Tasks PROVE Heeded(f)'
    <3>1. WakeUnderWay(f) => WakeUnderWay(f)'
      BY DEF WakeUnderWay
    <3> QED
      BY <3>1 DEF Heeded
  <2> QED
    BY <2>1, <2>2, <2>3, <2>4
<1>6. ASSUME NEW t \in Tokens, Destroy(t)
      PROVE  WakeInv'
  BY <1>6 DEF Destroy, futures, thread, Stored, Slotted, Registered, Armed, Woken,
              Heeded, WakeUnderWay
<1>7. ASSUME NEW f \in Tasks, Launch(f)
      PROVE  WakeInv'
  BY <1>7 DEF Launch, thread, Stored, Slotted, Registered, Armed, Woken, Heeded,
              WakeUnderWay
<1>8. ASSUME NEW f \in Tasks, BeginPoll(f)
      PROVE  WakeInv'
  BY <1>8 DEF BeginPoll, thread, Stored, Slotted, Registered, Armed, Woken,
              Heeded, WakeUnderWay
<1>9. ASSUME NEW f \in Tasks, RegisterSlot(f)
      PROVE  WakeInv'
  BY <1>9 DEF RegisterSlot, thread, Stored, Slotted, Registered, Armed, Woken,
              Heeded, WakeUnderWay
<1>10. ASSUME NEW f \in Tasks, StoreWaker(f)
       PROVE  WakeInv'
  BY <1>10 DEF StoreWaker, thread, Stored, Slotted, Registered, Armed, Woken,
               Heeded, WakeUnderWay
<1>11. ASSUME NEW f \in Tasks, CheckClear(f)
       PROVE  WakeInv'
  BY <1>11 DEF CheckClear, thread, Stored, Slotted, Registered, Armed, Woken,
               Heeded, WakeUnderWay
<1>12. ASSUME NEW f \in Tasks, NEW from, NEW r, EndsWith(f, from, r),
              from \in {"check", "inner"}
       PROVE  WakeInv'
  <2> USE <1>12 DEF EndsWith, thread
  <2>1. \A k \in Cancellers : Stored(k)'
    BY DEF Stored
  <2>2. Slotted'
    BY DEF Slotted, Registered
  <2>3. ASSUME NEW g \in Tasks PROVE Armed(g)'
    BY DEF Armed, Woken
  <2>4. ASSUME NEW g \in Tasks PROVE Heeded(g)'
    BY DEF Heeded, WakeUnderWay
  <2> QED
    BY <2>1, <2>2, <2>3, <2>4
<1>13. ASSUME NEW f \in Tasks, InnerPending(f)
       PROVE  WakeInv'
  BY <1>13 DEF InnerPending, thread, Stored, Slotted, Registered, Armed, Woken,
               Heeded, WakeUnderWay
<1>14. ASSUME NEW f \in Tasks, ProducerWakes(f)
       PROVE  WakeInv'
  BY <1>14 DEF ProducerWakes, thread, Stored, Slotted, Registered, Armed, Woken,
               Heeded, WakeUnderWay
<1>15. ASSUME NEW f \in Tasks, ExecutorDrops(f)
       PROVE  WakeInv'
  <2> USE <1>15 DEF ExecutorDrops, thread
  <2>1. \A k \in Cancellers : Stored(k)'
    BY DEF Stored
  <2>2. Slotted'
    BY DEF Slotted, Registered
  <2>3. ASSUME NEW g \in Tasks PROVE Armed(g)'
    BY DEF Armed, Woken
  <2>4. ASSUME NEW g \in Tasks PROVE Heeded(g)'
    BY DEF Heeded, WakeUnderWay
  <2> QED
    BY <2>1, <2>2, <2>3, <2>4
<1>16. ASSUME NEW f \in Tasks, Deregister(f)
       PROVE  WakeInv'
  BY <1>16 DEF Deregister, thread, Stored, Slotted, Registered, Armed, Woken,
               Heeded, WakeUnderWay
<1>17. ASSUME NEW f \in Tasks, Leave(f)
       PROVE  WakeInv'
  BY <1>17 DEF Leave, thread, Stored, Slotted, Registered, Armed, Woken, Heeded,
               WakeUnderWay
<1> QED
  BY <1>1, <1>2, <1>3, <1>4, <1>5, <1>6, <1>7, <1>8, <1>9, <1>10, <1>11, <1>12,
     <1>13, <1>14, <1>15, <1>16, <1>17, <1>u
     DEF Next, CancelContinues, Poll, CheckSet, InnerReady

(* The types, the wake-up protocol and the count are preserved together.   *)
THEOREM Invariance == Spec => []IInv
<1>1. IInv /\ [Next]_vars => IInv'
  BY TypesStep, WakeStep, CountStep DEF IInv
<1> QED
  BY IndInit, <1>1, PTL DEF Spec

(* Every variable keeps its type; a count never goes below zero.           *)
THEOREM TypeCorrect == Spec => []TypeOK
<1>1. IInv => TypeOK
  <2> SUFFICES ASSUME Types, CountsHolders PROVE TypeOK
    BY DEF IInv
  <2>1. \A t \in Tokens : Holders(t) \in Nat
    BY HoldersFinite DEF Holders
  <2>2. refs \in [Tokens -> Nat]
    BY <2>1 DEF Types, CountsHolders
  <2> QED
    BY <2>2 DEF Types, TypeOK
<1> QED
  BY Invariance, <1>1, PTL

(* A cancellation racing a poll is never missed (Cancellable::poll).       *)
THEOREM CancelNotLost == Spec => []NoLostCancel
<1>1. IInv => NoLostCancel
  BY DEF IInv, WakeInv, Heeded, NoLostCancel
<1> QED
  BY Invariance, <1>1, PTL

(* A token keeps no slot of a call that is over (Cancellable::drop).       *)
THEOREM SlotsInFlight == Spec => []RegistrationsInFlight
<1>1. IInv => RegistrationsInFlight
  BY DEF IInv, Types, WakeInv, Slotted, Registered, RegistrationsInFlight, InFlight
<1> QED
  BY Invariance, <1>1, PTL

(* The count of a token is that of its holders (CancelToken::from_raw).    *)
THEOREM CountExact == Spec => []CountsHolders
<1>1. IInv => CountsHolders
  BY DEF IInv
<1> QED
  BY Invariance, <1>1, PTL

===============================================================================

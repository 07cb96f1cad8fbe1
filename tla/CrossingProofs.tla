---------------------------- MODULE CrossingProofs ----------------------------
(***************************************************************************)
(* For any number of calls and any argument lists: the object's reference  *)
(* count and the leak counters are exact, and a call adopts what it was    *)
(* passed unless the argument itself fails.                                *)
(***************************************************************************)
EXTENDS Crossing, FiniteSetTheorems, TLAPS

USE WidthAssumption

(* TypeOK, but for the counts: that they are natural numbers follows from  *)
(* their being exact.                                                      *)
Types ==
  /\ strong \in Int
  /\ live \in Int
  /\ callbacks \in Int
  /\ handles \in Nat
  /\ phase \in [Calls -> {"idle", "encode", "lift", "reject", "run", "unwind", "done"}]
  /\ args \in [Calls -> Signatures \cup {<<>>}]
  /\ arg \in [Calls -> 1 .. Width + 1]
  /\ part \in [Calls -> 1 .. Width + 1]
  /\ failed \in [Calls -> SUBSET (1 .. Width)]
  /\ outcome \in [Calls -> {"none", "ok", "error", "marshal", "panic"}]
  /\ place \in [Positions -> {"absent", "sent", "local", "kept", "gone"}]
  /\ result \in [Calls -> {"none", "moved", "lifted", "owned"}]

(* A call that has not begun has passed nothing.                           *)
Fresh == \A c \in Calls : phase[c] = "idle" =>
           args[c] = <<>> /\ \A p \in Positions : p[1] = c => place[p] = "absent"

(* What is anywhere is a part that carries something.                      *)
Carried ==
  \A p \in Positions :
    /\ place[p] # "absent" => IsPart(p) /\ Kind(p) \in {"arc", "token", "callback"}
    /\ place[p] = "sent" => Kind(p) # "arc"

IInv == Types /\ Fresh /\ Carried /\ CountExact /\ CountersExact

-----------------------------------------------------------------------------
(* Counting.                                                               *)

In(x, S) == IF x \in S THEN 1 ELSE 0

LEMMA PositionsFinite == IsFiniteSet(Positions)
<1> DEFINE W == 1 .. Width
           f == [q \in Calls \X (W \X W) |-> <<q[1], q[2][1], q[2][2]>>]
<1>1. IsFiniteSet(W)
  BY FS_Interval
<1>2. IsFiniteSet(Calls \X (W \X W))
  BY <1>1, CallsAssumption, FS_Product
<1>3. f \in Surjection(Calls \X (W \X W), Positions)
  <2>1. ASSUME NEW p \in Positions PROVE \E q \in Calls \X (W \X W) : f[q] = p
    <3>1. <<p[1], <<p[2], p[3]>>>> \in Calls \X (W \X W)
      BY DEF Positions
    <3>2. f[<<p[1], <<p[2], p[3]>>>>] = p
      BY <3>1 DEF Positions
    <3> QED
      BY <3>1, <3>2
  <2>2. f \in [Calls \X (W \X W) -> Positions]
    BY DEF Positions
  <2> QED
    BY <2>1, <2>2 DEF Surjection
<1> QED
  BY <1>2, <1>3, FS_Surjection

(* Adding or removing one element.                                         *)
LEMMA OneMore ==
  ASSUME NEW S, IsFiniteSet(S), NEW e, NEW T,
         \A x : x # e => (x \in T <=> x \in S)
  PROVE  Cardinality(T) = Cardinality(S) + In(e, T) - In(e, S)
<1>1. Cardinality(S) \in Nat
  BY FS_CardinalityType
<1>2. CASE e \in T /\ e \notin S
  <2>1. T = S \cup {e}
    BY <1>2
  <2> QED
    BY <1>1, <1>2, <2>1, FS_AddElement DEF In
<1>3. CASE e \notin T /\ e \in S
  <2>1. T = S \ {e}
    BY <1>3
  <2> QED
    BY <1>1, <1>3, <2>1, FS_RemoveElement DEF In
<1>4. CASE e \in T <=> e \in S
  <2>1. T = S
    BY <1>4
  <2> QED
    BY <1>1, <1>4, <2>1 DEF In
<1> QED
  BY <1>2, <1>3, <1>4

LEMMA CountsFinite ==
  ASSUME NEW S
  PROVE  /\ IsFiniteSet(References(S)) /\ Cardinality(References(S)) \in Nat
         /\ IsFiniteSet(Callbacks(S)) /\ Cardinality(Callbacks(S)) \in Nat
         /\ IsFiniteSet(Results(S)) /\ Cardinality(Results(S)) \in Nat
<1>1. References(S) \subseteq Positions /\ Callbacks(S) \subseteq Positions
  BY DEF References, Callbacks
<1>2. Results(S) \subseteq Calls
  BY DEF Results
<1>3. IsFiniteSet(References(S)) /\ IsFiniteSet(Callbacks(S)) /\ IsFiniteSet(Results(S))
  BY <1>1, <1>2, PositionsFinite, CallsAssumption, FS_Subset
<1> QED
  BY <1>3, FS_CardinalityType

(* What moving part p to a place does to the references (the callbacks) at *)
(* the places of S, and moving the result of call c to the results.        *)
LEMMA PartMoves ==
  ASSUME Types, NEW p \in Positions, IsPart(p), NEW to,
         place' = [place EXCEPT ![p] = to], UNCHANGED args, NEW S
  PROVE  LET n == In(to, S) - In(place[p], S)
         IN  /\ Cardinality(References(S)')
                  = Cardinality(References(S)) + IF Kind(p) \in Objects THEN n ELSE 0
             /\ Cardinality(Callbacks(S)')
                  = Cardinality(Callbacks(S)) + IF Kind(p) = "callback" THEN n ELSE 0
<1> DEFINE R == References(S)
           C == Callbacks(S)
<1>1. \A x : x # p => (x \in R' <=> x \in R) /\ (x \in C' <=> x \in C)
  BY DEF Types, References, Callbacks, IsPart, Kind
<1>2. p \in R <=> place[p] \in S /\ Kind(p) \in Objects
  BY DEF References
<1>3. p \in R' <=> to \in S /\ Kind(p) \in Objects
  BY DEF Types, References, IsPart, Kind
<1>4. p \in C <=> place[p] \in S /\ Kind(p) = "callback"
  BY DEF Callbacks
<1>5. p \in C' <=> to \in S /\ Kind(p) = "callback"
  BY DEF Types, Callbacks, IsPart, Kind
<1>6. IsFiniteSet(R) /\ IsFiniteSet(C)
  BY CountsFinite
<1>7. Cardinality(R') = Cardinality(R) + In(p, R') - In(p, R)
  BY <1>1, <1>6, OneMore
<1>8. Cardinality(C') = Cardinality(C) + In(p, C') - In(p, C)
  BY <1>1, <1>6, OneMore
<1>9. Cardinality(R) \in Nat /\ Cardinality(C) \in Nat
  BY CountsFinite
<1> QED
  BY <1>2, <1>3, <1>4, <1>5, <1>7, <1>8, <1>9 DEF In

LEMMA ResultMoves ==
  ASSUME Types, NEW c \in Calls, NEW to, result' = [result EXCEPT ![c] = to], NEW S
  PROVE  Cardinality(Results(S)')
           = Cardinality(Results(S)) + In(to, S) - In(result[c], S)
<1> DEFINE R == Results(S)
<1>1. \A x : x # c => (x \in R' <=> x \in R)
  BY DEF Types, Results
<1>2. (c \in R <=> result[c] \in S) /\ (c \in R' <=> to \in S)
  BY DEF Types, Results
<1>3. Cardinality(R') = Cardinality(R) + In(c, R') - In(c, R)
  BY <1>1, CountsFinite, OneMore
<1> QED
  BY <1>2, <1>3 DEF In

-----------------------------------------------------------------------------
(* What an action does to the counts: it changes handles alone, moves a    *)
(* part, or moves a result.                                                *)

Alive == {"sent", "local", "kept"}
Held == {"local", "kept"}
Owed == {"moved", "lifted", "owned"}
Tracked == {"moved", "lifted"}

HandleEffect ==
  /\ UNCHANGED <<place, result, callbacks>>
  /\ strong' = strong + handles' - handles
  /\ live' = live + handles' - handles

PartEffect(p, to) ==
  /\ p \in Positions /\ IsPart(p) /\ phase[p[1]] # "idle"
  /\ Kind(p) \in {"arc", "token", "callback"}
  /\ to = "sent" => Kind(p) # "arc"
  /\ place' = [place EXCEPT ![p] = to]
  /\ UNCHANGED <<args, result>>
  /\ strong' = strong + handles' - handles
       + IF Kind(p) \in Objects THEN In(to, Alive) - In(place[p], Alive) ELSE 0
  /\ live' = live + handles' - handles
       + IF Kind(p) \in Objects THEN In(to, {"sent"}) - In(place[p], {"sent"}) ELSE 0
  /\ callbacks' = callbacks
       + IF Kind(p) = "callback" THEN In(to, Held) - In(place[p], Held) ELSE 0

ResultEffect(c, to) ==
  /\ c \in Calls
  /\ result' = [result EXCEPT ![c] = to]
  /\ UNCHANGED <<args, place, callbacks>>
  /\ strong' = strong + handles' - handles
       + In(to, Owed) - In(result[c], Owed) + In(to, {"lifted"}) - In(result[c], {"lifted"})
  /\ live' = live + handles' - handles + In(to, Tracked) - In(result[c], Tracked)

BeginEffect(c) ==
  /\ UNCHANGED <<counters, handles, place, result>>
  /\ args' = [args EXCEPT ![c] = args'[c]]
  /\ phase'[c] # "idle"
  /\ \A p \in Positions : p[1] = c => place[p] = "absent"

Effect ==
  \/ HandleEffect /\ UNCHANGED args
  \/ \E p \in Positions, to \in {"sent", "local", "kept", "gone"} : PartEffect(p, to)
  \/ \E c \in Calls, to \in {"none", "moved", "lifted", "owned"} : ResultEffect(c, to)
  \/ \E c \in Calls : BeginEffect(c)

LEMMA ThunkEffects ==
  ASSUME Types, Carried, NEW c \in Calls, Thunk(c)
  PROVE  Effect
<1> USE DEF Types, Track, Goto, Move, Own, Lifts, Here, In, Alive, Held, Owed, Tracked,
            Objects, counters
<1>1. CASE LiftBorrow(c)
  BY <1>1 DEF LiftBorrow, Effect, HandleEffect
<1>2. CASE LiftArc(c)
  <2>1. PartEffect(Here(c), "local")
    BY <1>2 DEF LiftArc, PartEffect
  <2> QED
    BY <2>1 DEF Effect, PartEffect
<1>3. CASE LiftToken(c)
  <2>1. PartEffect(Here(c), "local")
    BY <1>3 DEF LiftToken, PartEffect
  <2> QED
    BY <2>1 DEF Effect, PartEffect
<1>4. CASE LiftCallback(c)
  <2>1. PartEffect(Here(c), "local")
    BY <1>4 DEF LiftCallback, PartEffect
  <2> QED
    BY <2>1 DEF Effect, PartEffect
<1>5. CASE Reject(c) \/ LiftNext(c) \/ LiftPanics(c) \/ Unwrap(c) \/ Done(c)
  BY <1>5 DEF Reject, LiftNext, LiftPanics, Unwrap, Done, Effect, HandleEffect
<1>6. CASE Lend(c)
  BY <1>6 DEF Lend, Effect, HandleEffect, call
<1>7. CASE MethodReturns(c)
  <2>1. ResultEffect(c, "moved")
    BY <1>7 DEF MethodReturns, ResultEffect, call
  <2> QED
    BY <2>1 DEF Effect
<1>8. CASE AdoptLifts(c)
  <2>1. ResultEffect(c, "lifted")
    BY <1>8 DEF AdoptLifts, ResultEffect, call
  <2> QED
    BY <2>1 DEF Effect
<1>9. CASE AdoptReleases(c)
  <2>1. ResultEffect(c, "owned")
    BY <1>9 DEF AdoptReleases, ResultEffect, call
  <2> QED
    BY <2>1 DEF Effect
<1>10. CASE DropResult(c)
  <2>1. ResultEffect(c, "none")
    BY <1>10 DEF DropResult, ResultEffect, call
  <2> QED
    BY <2>1 DEF Effect
<1>11. CASE \E how \in {"ok", "error", "panic"} : Returns(c, how)
  BY <1>11 DEF Returns, Effect, HandleEffect
<1>12. ASSUME NEW p \in Positions, Keep(c, p) PROVE Effect
  <2>1. PartEffect(p, "kept")
    BY <1>12 DEF Keep, PartEffect, call, Carried
  <2> QED
    BY <2>1 DEF Effect
<1>13. ASSUME NEW p \in Positions, ReturnsObject(c, p) PROVE Effect
  <2>1. PartEffect(p, "gone")
    BY <1>13 DEF ReturnsObject, PartEffect, References
  <2> QED
    BY <2>1 DEF Effect
<1>14. ASSUME NEW p \in Positions, Drop(c, p) PROVE Effect
  <2>1. Kind(p) \in Objects \cup {"callback"}
    BY <1>14 DEF Drop, Carried
  <2>2. PartEffect(p, "gone")
    BY <1>14, <2>1 DEF Drop, PartEffect, Release, call
  <2> QED
    BY <2>2 DEF Effect
<1> QED
  BY <1>1, <1>2, <1>3, <1>4, <1>5, <1>6, <1>7, <1>8, <1>9, <1>10, <1>11, <1>12,
     <1>13, <1>14 DEF Thunk

LEMMA Effects ==
  ASSUME Types, Fresh, Carried, [Next]_vars
  PROVE  Effect
<1> USE DEF Types, Track, Goto, Move, Own, In, Alive, Held, Owed, Tracked, Objects,
            counters, call, cursor
<1>1. CASE Clone \/ Destroy
  BY <1>1 DEF Clone, Destroy, Effect, HandleEffect
<1>2. ASSUME NEW c \in Calls, NEW a \in Signatures, Begin(c, a) PROVE Effect
  <2>1. BeginEffect(c)
    BY <1>2 DEF Begin, BeginEffect, Fresh
  <2> QED
    BY <2>1 DEF Effect
<1>3. ASSUME NEW c \in Calls, NEW p \in Positions, EncodeToken(c, p) \/ PassCallback(c, p)
      PROVE Effect
  <2>1. PartEffect(p, "sent")
    BY <1>3 DEF EncodeToken, PassCallback, PartEffect
  <2> QED
    BY <2>1 DEF Effect
<1>4. ASSUME NEW c \in Calls, Enter(c) PROVE Effect
  BY <1>4 DEF Enter, Effect, HandleEffect
<1>5. ASSUME NEW c \in Calls, Thunk(c) PROVE Effect
  BY <1>5, ThunkEffects
<1>6. ASSUME NEW p \in Positions, DropKept(p) PROVE Effect
  <2>1. PartEffect(p, "gone")
    <3>1. place[p] = "kept" /\ p[1] \in Calls
      BY <1>6 DEF DropKept, Positions
    <3>2. phase[p[1]] # "idle"
      BY <3>1 DEF Fresh
    <3>3. Kind(p) \in {"arc", "token", "callback"}
      BY <3>1 DEF Carried
    <3> QED
      BY <1>6, <3>1, <3>2, <3>3 DEF DropKept, PartEffect, Release, References, Callbacks
  <2> QED
    BY <2>1 DEF Effect
<1>7. CASE UNCHANGED vars
  BY <1>7 DEF vars, Effect, HandleEffect
<1> QED
  BY <1>1, <1>2, <1>3, <1>4, <1>5, <1>6, <1>7 DEF Next, Consumer

(* An effect keeps both counts exact.                                      *)
LEMMA CountsStep ==
  ASSUME Types, Types', CountExact, CountersExact, Effect
  PROVE  CountExact' /\ CountersExact'
<1> DEFINE R(S) == Cardinality(References(S))
           C(S) == Cardinality(Callbacks(S))
           Q(S) == Cardinality(Results(S))
<1>0. /\ strong \in Int /\ live \in Int /\ callbacks \in Int /\ handles \in Int
      /\ strong' \in Int /\ live' \in Int /\ callbacks' \in Int /\ handles' \in Int
  BY DEF Types
<1>1. /\ R(Alive) \in Nat /\ R({"sent"}) \in Nat /\ C(Held) \in Nat
      /\ Q(Owed) \in Nat /\ Q({"lifted"}) \in Nat /\ Q(Tracked) \in Nat
  BY CountsFinite
<1>2. /\ strong = handles + R(Alive) + Q(Owed) + Q({"lifted"})
      /\ live = handles + R({"sent"}) + Q(Tracked)
      /\ callbacks = C(Held)
  BY DEF CountExact, CountersExact, Alive, Held, Owed, Tracked
<1>3. SUFFICES /\ strong' = handles' + R(Alive)' + Q(Owed)' + Q({"lifted"})'
               /\ live' = handles' + R({"sent"})' + Q(Tracked)'
               /\ callbacks' = C(Held)'
  BY DEF CountExact, CountersExact, Alive, Held, Owed, Tracked
<1>4. CASE HandleEffect /\ UNCHANGED args
  <2>1. \A S : R(S)' = R(S) /\ C(S)' = C(S) /\ Q(S)' = Q(S)
    BY <1>4 DEF HandleEffect, References, Callbacks, Results, IsPart, Kind
  <2> QED
    BY <2>1, <1>0, <1>1, <1>2, <1>4 DEF HandleEffect
<1>5. ASSUME NEW p \in Positions, NEW to, PartEffect(p, to)
      PROVE  /\ strong' = handles' + R(Alive)' + Q(Owed)' + Q({"lifted"})'
             /\ live' = handles' + R({"sent"})' + Q(Tracked)'
             /\ callbacks' = C(Held)'
  <2> DEFINE n(S) == In(to, S) - In(place[p], S)
  <2>1. ASSUME NEW S
        PROVE  /\ R(S)' = R(S) + IF Kind(p) \in Objects THEN n(S) ELSE 0
               /\ C(S)' = C(S) + IF Kind(p) = "callback" THEN n(S) ELSE 0
    BY <1>5, PartMoves DEF PartEffect
  <2>2. /\ R(Alive)' = R(Alive) + IF Kind(p) \in Objects THEN n(Alive) ELSE 0
        /\ R({"sent"})' = R({"sent"}) + IF Kind(p) \in Objects THEN n({"sent"}) ELSE 0
        /\ C(Held)' = C(Held) + IF Kind(p) = "callback" THEN n(Held) ELSE 0
    BY <2>1
  <2>3. \A S : Q(S)' = Q(S)
    BY <1>5 DEF PartEffect, Results
  <2> QED
    BY <2>2, <2>3, <1>0, <1>1, <1>2, <1>5 DEF PartEffect, In
<1>6. ASSUME NEW c \in Calls, NEW to, ResultEffect(c, to)
      PROVE  /\ strong' = handles' + R(Alive)' + Q(Owed)' + Q({"lifted"})'
             /\ live' = handles' + R({"sent"})' + Q(Tracked)'
             /\ callbacks' = C(Held)'
  <2>1. \A S : R(S)' = R(S) /\ C(S)' = C(S)
    BY <1>6 DEF ResultEffect, References, Callbacks, IsPart, Kind
  <2>2. ASSUME NEW S PROVE Q(S)' = Q(S) + In(to, S) - In(result[c], S)
    BY <1>6, ResultMoves DEF ResultEffect
  <2>3. /\ Q(Owed)' = Q(Owed) + In(to, Owed) - In(result[c], Owed)
        /\ Q({"lifted"})' = Q({"lifted"}) + In(to, {"lifted"}) - In(result[c], {"lifted"})
        /\ Q(Tracked)' = Q(Tracked) + In(to, Tracked) - In(result[c], Tracked)
    BY <2>2
  <2> QED
    BY <2>1, <2>3, <1>0, <1>1, <1>2, <1>6 DEF ResultEffect, In
<1>7. ASSUME NEW c \in Calls, BeginEffect(c)
      PROVE  /\ strong' = handles' + R(Alive)' + Q(Owed)' + Q({"lifted"})'
             /\ live' = handles' + R({"sent"})' + Q(Tracked)'
             /\ callbacks' = C(Held)'
  <2>1. ASSUME NEW p \in Positions, place[p] # "absent"
        PROVE  (IsPart(p) <=> IsPart(p)') /\ Kind(p)' = Kind(p)
    <3>1. p[1] \in Calls /\ p[1] # c
      BY <1>7, <2>1 DEF BeginEffect, Positions
    <3>2. args'[p[1]] = args[p[1]]
      BY <1>7, <3>1 DEF BeginEffect, Types
    <3> QED
      BY <3>2 DEF IsPart, Kind
  <2>2. ASSUME NEW S, "absent" \notin S
        PROVE  References(S)' = References(S) /\ Callbacks(S)' = Callbacks(S)
    BY <1>7, <2>1, <2>2 DEF BeginEffect, References, Callbacks
  <2>3. \A S : Q(S)' = Q(S)
    BY <1>7 DEF BeginEffect, Results
  <2>4. R(Alive)' = R(Alive) /\ R({"sent"})' = R({"sent"}) /\ C(Held)' = C(Held)
    BY <2>2 DEF Alive, Held
  <2> QED
    BY <2>3, <2>4, <1>0, <1>1, <1>2, <1>7 DEF BeginEffect, counters
<1> QED
  BY <1>4, <1>5, <1>6, <1>7 DEF Effect

-----------------------------------------------------------------------------
(* The other conjuncts of the invariant.                                   *)

LEMMA ArgsBounded ==
  ASSUME Types, NEW c \in Calls
  PROVE  /\ args[c] \in Seq(Seq(Parts)) /\ Len(args[c]) <= Width
         /\ DOMAIN args[c] \subseteq 1 .. Width
<1>1. args[c] \in Seq(Seq(Parts)) /\ Len(args[c]) <= Width
  <2>1. CASE args[c] \in Signatures
    BY <2>1, SignaturesAssumption
  <2>2. CASE args[c] = <<>>
    BY <2>2
  <2> QED
    BY <2>1, <2>2 DEF Types
<1> QED
  BY <1>1

LEMMA ThunkTypes ==
  ASSUME Types, NEW c \in Calls, Thunk(c)
  PROVE  Types'
<1>0. ASSUME Here(c) \in Own(c)
      PROVE  /\ arg[c] \in 1 .. Width /\ part[c] \in 1 .. Width
             /\ Here(c) \in Positions
  BY <1>0 DEF Own, Here, Positions
<1> USE DEF Types, Track, Goto, Move, Lifts, counters, cursor, call
<1>1. CASE LiftBorrow(c)
  BY <1>0, <1>1 DEF LiftBorrow, NextPart
<1>2. CASE LiftArc(c)
  BY <1>0, <1>2 DEF LiftArc, NextPart
<1>3. CASE LiftToken(c)
  BY <1>0, <1>3 DEF LiftToken, NextPart
<1>4. CASE LiftCallback(c)
  BY <1>0, <1>4 DEF LiftCallback, NextPart
<1>5. CASE Reject(c) \/ LiftPanics(c)
  <2>1. Here(c) \in Own(c) /\ failed' = [failed EXCEPT ![c] = @ \cup {arg[c]}]
    BY <1>5 DEF Reject, LiftPanics
  <2>2. failed' \in [Calls -> SUBSET (1 .. Width)]
    BY <1>0, <2>1
  <2>3. CASE Reject(c)
    BY <2>2, <2>3 DEF Reject
  <2>4. CASE LiftPanics(c)
    BY <2>2, <2>4 DEF LiftPanics
  <2> QED
    BY <1>5, <2>3, <2>4
<1>6. CASE LiftNext(c)
  <2>1. arg[c] \in 1 .. Width
    BY <1>6, ArgsBounded DEF LiftNext
  <2> QED
    BY <1>6, <2>1 DEF LiftNext, NextArg
<1>7. CASE Unwrap(c) \/ Done(c)
  BY <1>7 DEF Unwrap, Done
<1>8. CASE \E how \in {"ok", "error", "panic"} : Returns(c, how)
  BY <1>8 DEF Returns
<1>9. CASE Lend(c) \/ MethodReturns(c) \/ AdoptLifts(c) \/ AdoptReleases(c) \/ DropResult(c)
  <2>1. CASE Lend(c)
    BY <2>1 DEF Lend
  <2>2. CASE MethodReturns(c)
    BY <2>2 DEF MethodReturns
  <2>3. CASE AdoptLifts(c)
    BY <2>3 DEF AdoptLifts
  <2>4. CASE AdoptReleases(c)
    BY <2>4 DEF AdoptReleases
  <2>5. CASE DropResult(c)
    BY <2>5 DEF DropResult
  <2> QED
    BY <1>9, <2>1, <2>2, <2>3, <2>4, <2>5
<1>10. ASSUME NEW p \in Positions, Keep(c, p) PROVE Types'
  BY <1>10 DEF Keep
<1>11. ASSUME NEW p \in Positions, ReturnsObject(c, p) PROVE Types'
  BY <1>11 DEF ReturnsObject
<1>12. ASSUME NEW p \in Positions, Drop(c, p) PROVE Types'
  BY <1>12 DEF Drop, Release
<1> QED
  BY <1>1, <1>2, <1>3, <1>4, <1>5, <1>6, <1>7, <1>8, <1>9, <1>10, <1>11, <1>12 DEF Thunk

LEMMA TypesStep == Types /\ [Next]_vars => Types'
<1> SUFFICES ASSUME Types, [Next]_vars PROVE Types'
  OBVIOUS
<1> USE DEF Types, Track, Goto, Move, counters, cursor, call
<1>1. CASE Clone \/ Destroy
  BY <1>1 DEF Clone, Destroy
<1>2. ASSUME NEW c \in Calls, NEW a \in Signatures, Begin(c, a) PROVE Types'
  BY <1>2 DEF Begin
<1>3. ASSUME NEW c \in Calls, NEW p \in Positions, EncodeToken(c, p) \/ PassCallback(c, p)
      PROVE Types'
  <2>1. CASE EncodeToken(c, p)
    BY <2>1 DEF EncodeToken
  <2>2. CASE PassCallback(c, p)
    BY <2>2 DEF PassCallback
  <2> QED
    BY <1>3, <2>1, <2>2
<1>4. ASSUME NEW c \in Calls, Enter(c) PROVE Types'
  BY <1>4 DEF Enter
<1>5. ASSUME NEW p \in Positions, DropKept(p) PROVE Types'
  BY <1>5 DEF DropKept, Release
<1>6. CASE UNCHANGED vars
  BY <1>6 DEF vars
<1> QED
  BY <1>1, <1>2, <1>3, <1>4, <1>5, <1>6, ThunkTypes DEF Next, Consumer

LEMMA NeverIdleAgain ==
  ASSUME Types, [Next]_vars, NEW d \in Calls, phase'[d] = "idle"
  PROVE  phase[d] = "idle"
<1> USE DEF Types, Goto, call
<1>1. ASSUME NEW c \in Calls, Consumer(c) PROVE phase[d] = "idle"
  BY <1>1 DEF Consumer, Begin, EncodeToken, PassCallback, Enter
<1>2. ASSUME NEW c \in Calls, LiftBorrow(c) \/ LiftArc(c) \/ LiftToken(c) \/ LiftCallback(c)
      PROVE  phase[d] = "idle"
  BY <1>2 DEF LiftBorrow, LiftArc, LiftToken, LiftCallback
<1>3. ASSUME NEW c \in Calls, Reject(c) \/ LiftNext(c) \/ LiftPanics(c) \/ Unwrap(c) \/ Done(c)
      PROVE  phase[d] = "idle"
  BY <1>3 DEF Reject, LiftNext, LiftPanics, Unwrap, Done
<1>4. ASSUME NEW c \in Calls,
             Lend(c) \/ MethodReturns(c) \/ AdoptLifts(c) \/ AdoptReleases(c) \/ DropResult(c)
      PROVE  phase[d] = "idle"
  BY <1>4 DEF Lend, MethodReturns, AdoptLifts, AdoptReleases, DropResult
<1>5. ASSUME NEW c \in Calls, NEW how, Returns(c, how) PROVE phase[d] = "idle"
  BY <1>5 DEF Returns
<1>6. ASSUME NEW c \in Calls, NEW p \in Positions, Keep(c, p) \/ ReturnsObject(c, p) \/ Drop(c, p)
      PROVE  phase[d] = "idle"
  BY <1>6 DEF Keep, ReturnsObject, Drop
<1>7. CASE Clone \/ Destroy \/ \E p \in Positions : DropKept(p)
  BY <1>7 DEF Clone, Destroy, DropKept
<1>8. CASE UNCHANGED vars
  BY <1>8 DEF vars
<1> QED
  BY <1>1, <1>2, <1>3, <1>4, <1>5, <1>6, <1>7, <1>8 DEF Next, Thunk

LEMMA FreshStep == Types /\ Fresh /\ Carried /\ [Next]_vars => Fresh'
<1> SUFFICES ASSUME Types, Fresh, Carried, [Next]_vars, NEW d \in Calls, phase'[d] = "idle"
             PROVE  args'[d] = <<>> /\ \A p \in Positions : p[1] = d => place'[p] = "absent"
  BY DEF Fresh
<1>0. Effect
  BY Effects
<1>1. /\ phase[d] = "idle" /\ args[d] = <<>>
      /\ \A p \in Positions : p[1] = d => place[p] = "absent"
  BY NeverIdleAgain DEF Fresh
<1>2. CASE HandleEffect /\ UNCHANGED args
  BY <1>1, <1>2 DEF HandleEffect
<1>3. ASSUME NEW p \in Positions, NEW to, PartEffect(p, to)
      PROVE  args' = args /\ \A q \in Positions : q[1] = d => place'[q] = place[q]
  BY <1>1, <1>3 DEF PartEffect, Types
<1>4. ASSUME NEW c \in Calls, NEW to, ResultEffect(c, to) PROVE args' = args /\ place' = place
  BY <1>4 DEF ResultEffect
<1>5. ASSUME NEW c \in Calls, BeginEffect(c) PROVE args'[d] = args[d] /\ place' = place
  BY <1>5 DEF BeginEffect, Types
<1> QED
  BY <1>0, <1>1, <1>2, <1>3, <1>4, <1>5 DEF Effect

LEMMA CarriedStep == Types /\ Fresh /\ Carried /\ [Next]_vars => Carried'
<1> SUFFICES ASSUME Types, Carried, Effect, NEW q \in Positions
             PROVE  /\ place'[q] # "absent" => IsPart(q)' /\ Kind(q)' \in {"arc", "token", "callback"}
                    /\ place'[q] = "sent" => Kind(q)' # "arc"
  BY Effects DEF Carried
<1>1. CASE HandleEffect /\ UNCHANGED args
  BY <1>1 DEF HandleEffect, Carried, IsPart, Kind
<1>2. ASSUME NEW p \in Positions, NEW to, PartEffect(p, to)
      PROVE  /\ place'[q] # "absent" => IsPart(q)' /\ Kind(q)' \in {"arc", "token", "callback"}
             /\ place'[q] = "sent" => Kind(q)' # "arc"
  <2>1. (IsPart(q)' <=> IsPart(q)) /\ Kind(q)' = Kind(q)
    BY <1>2 DEF PartEffect, IsPart, Kind
  <2>2. IF q = p THEN place'[q] = to ELSE place'[q] = place[q]
    BY <1>2 DEF PartEffect, Types
  <2> QED
    BY <1>2, <2>1, <2>2 DEF PartEffect, Carried
<1>3. ASSUME NEW c \in Calls, NEW to, ResultEffect(c, to) PROVE UNCHANGED <<args, place>>
  BY <1>3 DEF ResultEffect
<1>4. ASSUME NEW c \in Calls, BeginEffect(c)
      PROVE  place' = place /\ (place[q] # "absent" => args'[q[1]] = args[q[1]])
  <2>1. q[1] \in Calls
    BY DEF Positions
  <2> QED
    BY <1>4, <2>1 DEF BeginEffect, Types
<1> QED
  BY <1>1, <1>2, <1>3, <1>4 DEF Effect, Carried, IsPart, Kind

-----------------------------------------------------------------------------
(* The theorems.                                                           *)

(* The invariant holds initially: one reference, the consumer's.           *)
LEMMA InitInv == Init => IInv
<1> SUFFICES ASSUME Init PROVE IInv
  OBVIOUS
<1>1. Types /\ Fresh /\ Carried
  BY DEF Init, Types, Fresh, Carried
<1>2. ASSUME NEW S, "absent" \notin S, "none" \notin S
      PROVE  References(S) = {} /\ Callbacks(S) = {} /\ Results(S) = {}
  BY <1>2 DEF Init, References, Callbacks, Results
<1>3. CountExact /\ CountersExact
  <2>1. /\ References({"sent", "local", "kept"}) = {} /\ References({"sent"}) = {}
        /\ Callbacks({"local", "kept"}) = {} /\ Results({"lifted"}) = {}
        /\ Results({"moved", "lifted", "owned"}) = {} /\ Results({"moved", "lifted"}) = {}
    BY <1>2
  <2>2. strong = 1 /\ live = 1 /\ callbacks = 0 /\ handles = 1
    BY DEF Init
  <2>3. Cardinality({}) = 0
    BY FS_EmptySet
  <2> QED
    BY <2>1, <2>2, <2>3 DEF CountExact, CountersExact
<1> QED
  BY <1>1, <1>3 DEF IInv

LEMMA InvStep == IInv /\ [Next]_vars => IInv'
<1> SUFFICES ASSUME IInv, [Next]_vars PROVE IInv'
  OBVIOUS
<1>1. Types' /\ Fresh' /\ Carried'
  BY TypesStep, FreshStep, CarriedStep DEF IInv
<1>2. CountExact' /\ CountersExact'
  BY <1>1, Effects, CountsStep DEF IInv
<1> QED
  BY <1>1, <1>2 DEF IInv

(* The inductive invariant of the crossing.                                *)
THEOREM Invariance == Spec => []IInv
<1>1. Init => IInv
  BY InitInv
<1>2. IInv /\ [Next]_vars => IInv'
  BY InvStep
<1> QED
  BY <1>1, <1>2, PTL DEF Spec

(* No count ever falls below zero: nothing is released twice.              *)
THEOREM TypeCorrect == Spec => []TypeOK
<1>1. IInv => TypeOK
  <2> SUFFICES ASSUME IInv PROVE TypeOK
    OBVIOUS
  <2>1. strong \in Nat /\ live \in Nat /\ callbacks \in Nat
    <3>1. /\ Cardinality(References({"sent", "local", "kept"})) \in Nat
          /\ Cardinality(References({"sent"})) \in Nat
          /\ Cardinality(Callbacks({"local", "kept"})) \in Nat
          /\ Cardinality(Results({"moved", "lifted", "owned"})) \in Nat
          /\ Cardinality(Results({"lifted"})) \in Nat
          /\ Cardinality(Results({"moved", "lifted"})) \in Nat
      BY CountsFinite
    <3>2. CountExact /\ CountersExact /\ handles \in Nat
      BY DEF IInv, Types
    <3> QED
      BY <3>1, <3>2 DEF CountExact, CountersExact
  <2> QED
    BY <2>1 DEF IInv, Types, TypeOK
<1> QED
  BY <1>1, Invariance, PTL

(* object.rs: every reference there is, and no other, is counted.          *)
THEOREM Counted == Spec => []CountExact
<1>1. IInv => CountExact
  BY DEF IInv
<1> QED
  BY <1>1, Invariance, PTL

(* leak.rs: the counters read what the two sides hold.                     *)
THEOREM CountersTrue == Spec => []CountersExact
<1>1. IInv => CountersExact
  BY DEF IInv
<1> QED
  BY <1>1, Invariance, PTL

-----------------------------------------------------------------------------
(* What a call leaves behind in a buffer belongs to an argument that       *)
(* failed, or lies ahead of the part it lifts next; when nothing panics,   *)
(* nothing lies ahead once the lifting is over.                            *)
Ahead(c, p) == p[2] > arg[c] \/ (p[2] = arg[c] /\ p[3] >= part[c])

Order(c) ==
  /\ phase[c] \in {"idle", "encode"} => arg[c] = 1 /\ part[c] = 1
  /\ phase[c] = "reject" => arg[c] \in failed[c]
  /\ phase[c] = "run" => arg[c] = Len(args[c]) + 1
  /\ phase[c] \in {"unwind", "done"} /\ ~LiftPanicked(c) => arg[c] = Len(args[c]) + 1
  /\ \A p \in Own(c) : place[p] = "sent" => p[2] \in failed[c] \/ Ahead(c, p)

OrderInv == IInv /\ \A c \in Calls : Order(c)

(* An action that neither advances a call nor sends for it keeps its order. *)
LEMMA OrderFrame ==
  ASSUME NEW d \in Calls, Order(d),
         phase'[d] = phase[d], args'[d] = args[d], arg'[d] = arg[d], part'[d] = part[d],
         failed'[d] = failed[d], outcome'[d] = outcome[d],
         \A p \in Own(d) : place'[p] = "sent" => place[p] = "sent"
  PROVE  Order(d)'
<1>1. Own(d)' = Own(d)
  BY DEF Own, IsPart
<1>2. \A p : Ahead(d, p)' <=> Ahead(d, p)
  BY DEF Ahead
<1> QED
  BY <1>1, <1>2 DEF Order, LiftPanicked

(* Moving a part elsewhere sends nothing.                                  *)
LEMMA Unsent ==
  ASSUME Types, NEW p \in Positions, NEW to, to # "sent",
         place' = [place EXCEPT ![p] = to], NEW q \in Positions, place'[q] = "sent"
  PROVE  place[q] = "sent" /\ q # p
BY DEF Types

LEMMA OwnIsPart ==
  ASSUME Types, NEW c \in Calls, NEW p \in Own(c)
  PROVE  /\ p \in Positions /\ p = <<c, p[2], p[3]>> /\ IsPart(p)
         /\ p[2] \in 1 .. Len(args[c]) /\ p[3] \in 1 .. Len(args[c][p[2]])
<1>1. p \in Positions /\ p[1] = c /\ IsPart(p)
  BY DEF Own
<1>2. args[c] \in Seq(Seq(Parts)) /\ args[c][p[2]] \in Seq(Parts)
  BY <1>1, ArgsBounded DEF IsPart
<1> QED
  BY <1>1, <1>2 DEF IsPart, Positions

(* Actions that leave the calls alone.                                     *)
LEMMA QuietOrder ==
  ASSUME Types, NEW d \in Calls, Order(d), UNCHANGED call,
         \/ place' = place
         \/ \E p \in Positions, to \in {"local", "kept", "gone"} :
              place' = [place EXCEPT ![p] = to]
  PROVE  Order(d)'
<1>1. \A q \in Own(d) : place'[q] = "sent" => place[q] = "sent"
  BY Unsent DEF Own
<1> QED
  BY <1>1, OrderFrame DEF call, cursor

LEMMA ConsumerOrder ==
  ASSUME Types, Fresh, NEW c \in Calls, Consumer(c), NEW d \in Calls, Order(d)
  PROVE  Order(d)'
<1> USE DEF Types, Goto, Move, call, cursor
<1>1. ASSUME NEW a \in Signatures, Begin(c, a) PROVE Order(d)'
  <2>1. CASE d = c
    <3>1. phase'[c] = "encode" /\ arg'[c] = 1 /\ part'[c] = 1
      BY <1>1, <2>1 DEF Begin, Order
    <3>2. \A p \in Positions : p[1] = c => place'[p] = "absent"
      BY <1>1 DEF Begin, Fresh
    <3> QED
      BY <2>1, <3>1, <3>2 DEF Order, Own
  <2>2. CASE d # c
    BY <1>1, <2>2, OrderFrame DEF Begin
  <2> QED
    BY <2>1, <2>2
<1>2. ASSUME NEW p \in Positions, EncodeToken(c, p) \/ PassCallback(c, p) PROVE Order(d)'
  <2>0. /\ UNCHANGED call /\ p \in Own(c) /\ place' = [place EXCEPT ![p] = "sent"]
        /\ phase[c] = "encode"
    BY <1>2 DEF EncodeToken, PassCallback
  <2>1. CASE d = c
    <3>1. arg[c] = 1 /\ part[c] = 1
      BY <2>0, <2>1 DEF Order
    <3>2. \A q \in Own(c) : Ahead(c, q)
      BY <3>1 DEF Ahead, Own, Positions
    <3> QED
      BY <2>0, <2>1, <3>1, <3>2 DEF Order, Own, IsPart, Ahead
  <2>2. CASE d # c
    <3>1. p \notin Own(d)
      BY <2>0, <2>2 DEF Own
    <3> QED
      BY <2>0, <3>1, OrderFrame DEF Own
  <2> QED
    BY <2>1, <2>2
<1>3. CASE Enter(c)
  <2>1. CASE d = c
    <3>1. Own(c)' = Own(c) /\ \A p : Ahead(c, p)' = Ahead(c, p)
      BY <1>3 DEF Enter, Own, IsPart, Ahead
    <3> QED
      BY <1>3, <2>1, <3>1 DEF Enter, Order
  <2>2. CASE d # c
    BY <1>3, <2>2, OrderFrame DEF Enter
  <2> QED
    BY <2>1, <2>2
<1> QED
  BY <1>1, <1>2, <1>3 DEF Consumer

(* Lifting a part moves it, if it was sent, and the cursor past it.        *)
LEMMA LiftOrder ==
  ASSUME Types, Carried, NEW c \in Calls,
         LiftBorrow(c) \/ LiftArc(c) \/ LiftToken(c) \/ LiftCallback(c),
         NEW d \in Calls, Order(d)
  PROVE  Order(d)'
<1>1. /\ phase[c] = "lift" /\ Here(c) \in Own(c)
      /\ UNCHANGED <<phase, args, arg, failed, outcome>>
      /\ part' = [part EXCEPT ![c] = part[c] + 1]
  BY DEF LiftBorrow, LiftArc, LiftToken, LiftCallback, Lifts, NextPart, Types
<1>2. place' = place \/ place' = [place EXCEPT ![Here(c)] = "local"]
  BY DEF LiftBorrow, LiftArc, LiftToken, LiftCallback, Move
<1>3. place'[Here(c)] # "sent"
  <2>1. CASE LiftBorrow(c)
    <3>1. Kind(Here(c)) = "borrow" /\ place' = place /\ Here(c) \in Positions
      BY <2>1 DEF LiftBorrow, Lifts, Own
    <3> QED
      BY <3>1 DEF Carried
  <2>2. CASE ~LiftBorrow(c)
    BY <1>1, <2>2 DEF LiftArc, LiftToken, LiftCallback, Move, Types, Own
  <2> QED
    BY <2>1, <2>2
<1>4. \A q \in Positions : place'[q] = "sent" => place[q] = "sent" /\ q # Here(c)
  BY <1>1, <1>2, <1>3 DEF Types, Own
<1>5. CASE d = c
  <2>1. ASSUME NEW q \in Own(c), place'[q] = "sent" PROVE q[2] \in failed[c] \/ Ahead(c, q)'
    <3>1. place[q] = "sent" /\ q # Here(c) /\ q = <<c, q[2], q[3]>>
      BY <1>4, <2>1, OwnIsPart
    <3>2. q[2] \in failed[c] \/ Ahead(c, q)
      BY <1>5, <3>1 DEF Order
    <3>3. q[2] # arg[c] \/ q[3] # part[c]
      BY <3>1 DEF Here
    <3>4. arg'[c] = arg[c] /\ part'[c] = part[c] + 1 /\ part[c] \in Int
      BY <1>1 DEF Types
    <3>5. q[3] \in Int
      BY DEF Own, Positions
    <3> QED
      BY <3>2, <3>3, <3>4, <3>5 DEF Ahead
  <2>2. Own(c)' = Own(c)
    BY <1>1 DEF Own, IsPart
  <2> QED
    BY <1>1, <1>5, <2>1, <2>2 DEF Order
<1>6. CASE d # c
  <2>1. part'[d] = part[d]
    BY <1>1, <1>6 DEF Types
  <2> QED
    BY <1>1, <1>4, <2>1, OrderFrame DEF Own
<1> QED
  BY <1>5, <1>6

(* A failed argument, the next argument, and the end of the lifting.       *)
LEMMA ArgumentOrder ==
  ASSUME Types, NEW c \in Calls,
         Reject(c) \/ LiftNext(c) \/ LiftPanics(c) \/ Unwrap(c),
         NEW d \in Calls, Order(d)
  PROVE  Order(d)'
<1>1. UNCHANGED <<args, place>>
  BY DEF Reject, LiftNext, LiftPanics, Unwrap
<1>2. Own(c)' = Own(c)
  BY <1>1 DEF Own, IsPart
<1>3. CASE d # c
  <2>1. /\ phase'[d] = phase[d] /\ arg'[d] = arg[d] /\ part'[d] = part[d]
        /\ failed'[d] = failed[d] /\ outcome'[d] = outcome[d]
    BY <1>3 DEF Reject, LiftNext, LiftPanics, Unwrap, NextArg, Types, cursor
  <2> QED
    BY <1>1, <2>1, OrderFrame
<1>4. CASE d = c /\ (Reject(c) \/ LiftPanics(c))
  <2>1. /\ failed'[c] = failed[c] \cup {arg[c]} /\ UNCHANGED cursor
        /\ \/ phase'[c] = "reject"
           \/ phase'[c] = "unwind" /\ outcome'[c] = "panic"
    BY <1>4 DEF Reject, LiftPanics, Types
  <2> QED
    BY <1>1, <1>2, <1>4, <2>1 DEF Order, Ahead, LiftPanicked, cursor
<1>5. CASE d = c /\ LiftNext(c)
  <2>1. /\ arg'[c] = arg[c] + 1 /\ part'[c] = 1 /\ phase'[c] = "lift" /\ failed' = failed
        /\ arg[c] \in Int /\ part[c] \in Int
    BY <1>5 DEF LiftNext, NextArg, Types
  <2>2. ASSUME NEW q \in Own(c), place[q] = "sent" PROVE q[2] \in failed[c] \/ q[2] > arg[c]
    <3>1. q[2] \in failed[c] \/ Ahead(c, q)
      BY <1>5, <2>2 DEF Order
    <3>2. CASE phase[c] = "reject"
      BY <1>5, <2>1, <3>1, <3>2 DEF Order, Ahead
    <3>3. CASE phase[c] = "lift"
      <4>1. part[c] > Len(args[c][arg[c]])
        BY <1>5, <3>3 DEF LiftNext
      <4>2. q[3] \in 1 .. Len(args[c][q[2]]) /\ Len(args[c][q[2]]) \in Nat
        <5>1. q[3] \in 1 .. Len(args[c][q[2]]) /\ q[2] \in 1 .. Len(args[c])
          BY OwnIsPart
        <5> QED
          BY <5>1, ArgsBounded
      <4> QED
        BY <2>1, <3>1, <4>1, <4>2 DEF Ahead
    <3> QED
      BY <1>5, <3>2, <3>3 DEF LiftNext
  <2>3. \A q \in Own(c) : q[2] \in Int /\ q[3] \in Nat \ {0}
    BY DEF Own, Positions
  <2>4. \A q \in Own(c) : place[q] = "sent" => q[2] \in failed[c] \/ Ahead(c, q)'
    BY <2>1, <2>2, <2>3 DEF Ahead
  <2> QED
    BY <1>1, <1>2, <1>5, <2>1, <2>4 DEF Order
<1>6. CASE d = c /\ Unwrap(c)
  <2>1. /\ arg[c] = Len(args[c]) + 1 /\ UNCHANGED <<cursor, failed>>
        /\ phase'[c] \in {"run", "unwind"}
    BY <1>6 DEF Unwrap, Types
  <2> QED
    BY <1>1, <1>2, <1>6, <2>1 DEF Order, Ahead, cursor
<1> QED
  BY <1>3, <1>4, <1>5, <1>6

(* Returning and ending move nothing but the phase.                        *)
LEMMA EndOrder ==
  ASSUME Types, NEW c \in Calls, NEW d \in Calls, Order(d),
         \/ \E how \in {"ok", "error", "panic"} : Returns(c, how)
         \/ \E p \in Positions : ReturnsObject(c, p)
         \/ Done(c)
  PROVE  Order(d)'
<1>1. /\ UNCHANGED <<args, cursor, failed>>
      /\ place' = place \/ \E p \in Positions : place' = [place EXCEPT ![p] = "gone"]
  BY DEF Returns, ReturnsObject, Done, Move
<1>2. \A q \in Own(d) : place'[q] = "sent" => place[q] = "sent"
  BY <1>1, Unsent DEF Own
<1>3. CASE d # c
  <2>1. phase'[d] = phase[d] /\ outcome'[d] = outcome[d]
    BY <1>3 DEF Returns, ReturnsObject, Done, Goto, Types
  <2> QED
    BY <1>1, <1>2, <2>1, OrderFrame DEF cursor
<1>4. CASE d = c
  <2>1. \/ phase[c] = "run" /\ phase'[c] = "unwind"
        \/ phase[c] = "unwind" /\ phase'[c] = "done" /\ outcome' = outcome
    BY DEF Returns, ReturnsObject, Done, Goto, Types
  <2>2. Own(c)' = Own(c) /\ \A p : Ahead(c, p)' <=> Ahead(c, p)
    BY <1>1 DEF Own, IsPart, Ahead, cursor
  <2> QED
    BY <1>1, <1>2, <1>4, <2>1, <2>2 DEF Order, LiftPanicked, cursor
<1> QED
  BY <1>3, <1>4

LEMMA OrderStep == OrderInv /\ [Next]_vars => OrderInv'
<1> SUFFICES ASSUME OrderInv, [Next]_vars, NEW d \in Calls PROVE Order(d)'
  BY InvStep DEF OrderInv
<1>1. Types /\ Fresh /\ Carried /\ Order(d)
  BY DEF OrderInv, IInv
<1>2. ASSUME NEW c \in Calls, Consumer(c) PROVE Order(d)'
  BY <1>1, <1>2, ConsumerOrder
<1>3. ASSUME NEW c \in Calls, Thunk(c) PROVE Order(d)'
  <2>1. CASE LiftBorrow(c) \/ LiftArc(c) \/ LiftToken(c) \/ LiftCallback(c)
    BY <1>1, <2>1, LiftOrder
  <2>2. CASE Reject(c) \/ LiftNext(c) \/ LiftPanics(c) \/ Unwrap(c)
    BY <1>1, <2>2, ArgumentOrder
  <2>3. CASE Lend(c) \/ MethodReturns(c) \/ AdoptLifts(c) \/ AdoptReleases(c) \/ DropResult(c)
    BY <1>1, <2>3, QuietOrder DEF Lend, MethodReturns, AdoptLifts, AdoptReleases, DropResult
  <2>4. ASSUME NEW p \in Positions, Keep(c, p) \/ Drop(c, p) PROVE Order(d)'
    BY <1>1, <2>4, QuietOrder DEF Keep, Drop, Move
  <2>5. CASE \/ \E how \in {"ok", "error", "panic"} : Returns(c, how)
             \/ \E p \in Positions : ReturnsObject(c, p)
             \/ Done(c)
    BY <1>1, <2>5, EndOrder
  <2> QED
    BY <1>3, <2>1, <2>2, <2>3, <2>4, <2>5 DEF Thunk
<1>4. CASE Clone \/ Destroy \/ UNCHANGED vars
  BY <1>1, <1>4, QuietOrder DEF Clone, Destroy, vars
<1>5. ASSUME NEW p \in Positions, DropKept(p) PROVE Order(d)'
  BY <1>1, <1>5, QuietOrder DEF DropKept, Move
<1> QED
  BY <1>2, <1>3, <1>4, <1>5 DEF Next

(* function.rs: a call that fails adopts every token and every callback,   *)
(* but for those of an argument that fails itself, whichever arguments     *)
(* fail, unless a lift panics.                                             *)
THEOREM Adopts == Spec => []OthersAdopted
<1>1. Init => OrderInv
  <2> SUFFICES ASSUME Init, NEW c \in Calls PROVE Order(c)
    BY InitInv DEF OrderInv
  <2> QED
    BY DEF Init, Order, Own
<1>2. OrderInv /\ [Next]_vars => OrderInv'
  BY OrderStep
<1>3. OrderInv => OthersAdopted
  <2> SUFFICES ASSUME OrderInv, NEW c \in Calls, phase[c] = "done", ~LiftPanicked(c),
                      NEW p \in Own(c), place[p] = "sent"
               PROVE  p[2] \in failed[c]
    BY DEF OthersAdopted, Adopted
  <2>1. Order(c) /\ Types
    BY DEF OrderInv, IInv
  <2>2. p[2] \in 1 .. Len(args[c]) /\ arg[c] = Len(args[c]) + 1 /\ Len(args[c]) \in Nat
    <3>1. p[2] \in 1 .. Len(args[c])
      BY <2>1, OwnIsPart
    <3>2. Len(args[c]) \in Nat
      BY <2>1, ArgsBounded
    <3> QED
      BY <2>1, <3>1, <3>2 DEF Order
  <2> QED
    BY <2>1, <2>2 DEF Order, Ahead
<1> QED
  BY <1>1, <1>2, <1>3, PTL DEF Spec

===============================================================================

------------------------------ MODULE HandleProofs ------------------------------
(***************************************************************************)
(* The parts of MCConsumers that hold something for the other side, for    *)
(* every number of calls and of threads: the steps of Go's and Kotlin's    *)
(* atomic wrappers, of Python's and Ruby's locked ones, and of a callback's*)
(* implementation.  Each keeps its invariant and is a step of a handle, or *)
(* none.                                                                   *)
(***************************************************************************)
EXTENDS MCConsumers, FiniteSetTheorems, SequenceTheorems, TLAPS

(* The parts count with the same operator.                                 *)
LEMMA SameCount ==
  ASSUME NEW S
  PROVE  /\ Atomic!Cardinality(S) = Cardinality(S)
         /\ Locked!Cardinality(S) = Cardinality(S)
BY DEF Atomic!Cardinality, Locked!Cardinality, Cardinality

(* Adding or removing one thread.                                          *)
LEMMA OneThread ==
  ASSUME NEW S, IsFiniteSet(S), NEW t
  PROVE  /\ t \notin S => Cardinality(S \cup {t}) = Cardinality(S) + 1
         /\ t \in S => Cardinality(S \ {t}) = Cardinality(S) - 1
         /\ Cardinality(S) \in Nat
         /\ Cardinality(S) = 0 <=> S = {}
         /\ IsFiniteSet(S \ {t})
BY FS_AddElement, FS_RemoveElement, FS_CardinalityType, FS_EmptySet

-----------------------------------------------------------------------------
(* Go and Kotlin: the atomic word.                                         *)

AtomicFreeing == {t \in Atomic!Threads : pc[t] = "free"}

(* A thread that is about to swap loaded the word of an open handle.       *)
AtomicLoadedOpen == \A t \in Atomic!Threads : pc[t] = "swap" => ~Atomic!IsClosed(seen[t])

(* TypeOK, but for the bound on frees, which follows from FreedOnce.       *)
AtomicTypes ==
  /\ state \in Nat
  /\ seen \in [Atomic!Threads -> Nat]
  /\ pc \in [Atomic!Threads -> {"load", "swap", "lent", "free", "done"}]
  /\ frees \in Nat

AtomicInv == AtomicTypes /\ AtomicLoadedOpen /\ Atomic!CountsCalls /\ Atomic!FreedOnce

-----------------------------------------------------------------------------
LEMMA AtomicSetsFinite ==
  /\ IsFiniteSet(Atomic!Lent) /\ Cardinality(Atomic!Lent) \in Nat
  /\ IsFiniteSet(AtomicFreeing) /\ Cardinality(AtomicFreeing) \in Nat
<1>1. IsFiniteSet(Atomic!Threads)
  BY ThreadsAssumption, FS_Union, FS_AddElement, FS_EmptySet DEF Atomic!Threads
<1>2. Atomic!Lent \subseteq Atomic!Threads /\ AtomicFreeing \subseteq Atomic!Threads
  BY DEF Atomic!Lent, AtomicFreeing, Atomic!Threads
<1>3. IsFiniteSet(Atomic!Lent) /\ IsFiniteSet(AtomicFreeing)
  BY <1>1, <1>2, FS_Subset
<1> QED
  BY <1>3, FS_CardinalityType

LEMMA AtomicParity ==
  ASSUME NEW s \in Nat
  PROVE  /\ Atomic!IsClosed(s + 2) = Atomic!IsClosed(s)
         /\ s \geq 2 => Atomic!IsClosed(s - 2) = Atomic!IsClosed(s)
         /\ ~Atomic!IsClosed(s) => Atomic!IsClosed(s + 1)
         /\ Atomic!IsClosed(1) /\ ~Atomic!IsClosed(0)
BY SMT DEF Atomic!IsClosed

(* A closed word that counts no call is 1.                                 *)
LEMMA AtomicLastCall ==
  ASSUME NEW n \in Nat, NEW w, w = 2 * n + 1
  PROVE  w = 1 <=> n = 0
<1>1. n = 0 => w = 1
  BY SMT
<1>2. n # 0 => w # 1
  BY SMT
<1> QED
  BY <1>1, <1>2

(* What a thread's move does to the two sets.                              *)
LEMMA AtomicMoves ==
  ASSUME AtomicTypes, NEW t \in Atomic!Threads, NEW to, Atomic!Goes(t, to)
  PROVE  /\ Atomic!Lent' = IF to = "lent" /\ t \in Calls THEN Atomic!Lent \cup {t} ELSE Atomic!Lent \ {t}
         /\ AtomicFreeing' = IF to = "free" THEN AtomicFreeing \cup {t} ELSE AtomicFreeing \ {t}
BY DEF AtomicTypes, Atomic!Goes, Atomic!Lent, AtomicFreeing, Atomic!Threads

LEMMA AtomicInitInv == Atomic!Init => AtomicInv
<1> SUFFICES ASSUME Atomic!Init PROVE AtomicInv
  OBVIOUS
<1>1. Atomic!Lent = {} /\ AtomicFreeing = {} /\ ~Atomic!Closed
  BY AtomicParity DEF Atomic!Init, Atomic!Lent, AtomicFreeing, Atomic!Threads, Atomic!Closed
<1>2. Cardinality({}) = 0
  BY FS_EmptySet
<1>3. Atomic!CountsCalls /\ Atomic!FreedOnce
  BY <1>1, <1>2, SameCount DEF Atomic!Init, Atomic!CountsCalls, Atomic!FreedOnce, AtomicFreeing
<1>4. AtomicTypes /\ AtomicLoadedOpen
  BY DEF Atomic!Init, AtomicTypes, AtomicLoadedOpen, Atomic!Threads
<1> QED
  BY <1>3, <1>4 DEF AtomicInv

LEMMA AtomicStepInv == AtomicInv /\ [Atomic!Next]_(Atomic!vars) => AtomicInv'
<1> SUFFICES ASSUME AtomicInv, [Atomic!Next]_(Atomic!vars) PROVE AtomicInv'
  OBVIOUS
<1> USE DEF AtomicInv
<1>o. Atomic!FreedOnce <=> Cardinality(AtomicFreeing) + frees = (IF Atomic!Closed /\ Atomic!Lent = {} THEN 1 ELSE 0)
  BY SameCount DEF Atomic!FreedOnce, AtomicFreeing
<1>p. Atomic!FreedOnce' <=> Cardinality(AtomicFreeing') + frees' = (IF Atomic!Closed' /\ Atomic!Lent' = {} THEN 1 ELSE 0)
  BY SameCount DEF Atomic!FreedOnce, AtomicFreeing
<1>f. /\ IsFiniteSet(Atomic!Lent) /\ Cardinality(Atomic!Lent) \in Nat
      /\ IsFiniteSet(AtomicFreeing) /\ Cardinality(AtomicFreeing) \in Nat
  BY AtomicSetsFinite
<1>e. /\ Cardinality(Atomic!Lent) = 0 <=> Atomic!Lent = {}
      /\ Cardinality(AtomicFreeing) = 0 <=> AtomicFreeing = {}
  BY <1>f, OneThread
<1>1. ASSUME NEW t \in Atomic!Threads, Atomic!Load(t) \/ Atomic!Retries(t)
      PROVE  AtomicInv'
  <2>1. PICK to \in {"load", "swap", "done"} : Atomic!Goes(t, to)
    BY <1>1 DEF Atomic!Load, Atomic!Retries
  <2>2. t \notin Atomic!Lent /\ t \notin AtomicFreeing
    BY <1>1 DEF Atomic!Load, Atomic!Retries, Atomic!Lent, AtomicFreeing
  <2>3. Atomic!Lent' = Atomic!Lent /\ AtomicFreeing' = AtomicFreeing
    BY <2>1, <2>2, AtomicMoves
  <2>4. state' = state /\ frees' = frees /\ Atomic!Closed' = Atomic!Closed
    BY <1>1 DEF Atomic!Load, Atomic!Retries, Atomic!Closed, Atomic!IsClosed
  <2>5. Atomic!CountsCalls' /\ Atomic!FreedOnce'
    BY <2>3, <2>4, <1>o, <1>p, SameCount DEF Atomic!CountsCalls
  <2>6. AtomicTypes' /\ AtomicLoadedOpen'
    BY <1>1 DEF Atomic!Load, Atomic!Retries, AtomicTypes, AtomicLoadedOpen, Atomic!Goes, Atomic!IsClosed
  <2> QED
    BY <2>5, <2>6
<1>2. ASSUME NEW c \in Calls, Atomic!Acquire(c)
      PROVE  AtomicInv'
  <2>1. c \in Atomic!Threads /\ pc[c] = "swap" /\ state = seen[c] /\ Atomic!Goes(c, "lent")
    BY <1>2 DEF Atomic!Acquire, Atomic!Threads
  <2>2. c \notin Atomic!Lent /\ c \notin AtomicFreeing
    BY <2>1 DEF Atomic!Lent, AtomicFreeing
  <2>3. Atomic!Lent' = Atomic!Lent \cup {c} /\ AtomicFreeing' = AtomicFreeing
    BY <2>1, <2>2, AtomicMoves
  <2>4. ~Atomic!Closed
    BY <2>1 DEF AtomicLoadedOpen, Atomic!Closed
  <2>5. state' = state + 2 /\ frees' = frees /\ ~Atomic!Closed'
    BY <1>2, <2>4, AtomicParity DEF Atomic!Acquire, Atomic!Closed, AtomicTypes
  <2>6. Cardinality(Atomic!Lent') = Cardinality(Atomic!Lent) + 1
    BY <1>f, <2>2, <2>3, OneThread
  <2>7. Atomic!CountsCalls'
    BY <1>f, <2>4, <2>5, <2>6, SameCount DEF Atomic!CountsCalls, AtomicTypes
  <2>8. Atomic!FreedOnce'
    BY <2>3, <2>4, <2>5, <1>o, <1>p
  <2>9. AtomicTypes' /\ AtomicLoadedOpen'
    BY <1>2, <2>1 DEF Atomic!Acquire, AtomicTypes, AtomicLoadedOpen, Atomic!Goes, Atomic!IsClosed
  <2> QED
    BY <2>7, <2>8, <2>9
<1>3. ASSUME NEW c \in Calls, Atomic!Release(c)
      PROVE  AtomicInv'
  <2>1. c \in Atomic!Threads /\ pc[c] = "lent" /\ state' = state - 2 /\ frees' = frees
    BY <1>3 DEF Atomic!Release, Atomic!Threads
  <2>2. c \in Atomic!Lent /\ c \notin AtomicFreeing
    BY <2>1 DEF Atomic!Lent, AtomicFreeing
  <2>3. Atomic!Lent' = Atomic!Lent \ {c}
    <3>1. PICK to \in {"free", "done"} : Atomic!Goes(c, to)
      BY <1>3 DEF Atomic!Release
    <3> QED
      BY <2>1, <3>1, AtomicMoves
  <2>4. /\ Cardinality(Atomic!Lent') = Cardinality(Atomic!Lent) - 1 /\ Cardinality(Atomic!Lent') \in Nat
        /\ Cardinality(Atomic!Lent') = 0 <=> Atomic!Lent' = {}
    <3>1. IsFiniteSet(Atomic!Lent')
      BY <1>f, <2>3, FS_Subset
    <3> QED
      BY <1>f, <2>2, <2>3, <3>1, OneThread
  <2>5. state \geq 2 /\ state \in Nat
    BY <1>f, <2>4, SameCount DEF Atomic!CountsCalls, AtomicTypes
  <2>6. Atomic!Closed' = Atomic!Closed
    BY <2>1, <2>5, AtomicParity DEF Atomic!Closed
  <2>7. Atomic!CountsCalls'
    BY <1>f, <2>1, <2>4, <2>5, <2>6, SameCount DEF Atomic!CountsCalls
  <2>8. state' = 1 <=> Atomic!Closed' /\ Atomic!Lent' = {}
    <3>1. state' = 2 * Cardinality(Atomic!Lent') + (IF Atomic!Closed' THEN 1 ELSE 0)
      BY <2>7, SameCount DEF Atomic!CountsCalls
    <3>2. CASE Atomic!Closed'
      BY <2>4, <3>1, <3>2, AtomicLastCall
    <3>3. CASE ~Atomic!Closed'
      <4>1. state' = 2 * Cardinality(Atomic!Lent')
        BY <2>4, <3>1, <3>3
      <4> QED
        BY <2>4, <3>3, <4>1
    <3> QED
      BY <3>2, <3>3
  <2>9. Atomic!FreedOnce'
    <3>1. Cardinality(AtomicFreeing) + frees = 0
      BY <2>2, <1>o
    <3>2. CASE state' = 1
      <4>1. AtomicFreeing' = AtomicFreeing \cup {c}
        BY <1>3, <2>1, <3>2, AtomicMoves DEF Atomic!Release
      <4>2. Cardinality(AtomicFreeing') = Cardinality(AtomicFreeing) + 1
        BY <1>f, <2>2, <4>1, OneThread
      <4> QED
        BY <1>f, <2>1, <2>8, <3>1, <3>2, <4>2, <1>p DEF AtomicTypes
    <3>3. CASE state' # 1
      <4>1. AtomicFreeing' = AtomicFreeing
        BY <1>3, <2>1, <2>2, <3>3, AtomicMoves DEF Atomic!Release
      <4> QED
        BY <2>1, <2>8, <3>1, <3>3, <4>1, <1>p
    <3> QED
      BY <3>2, <3>3
  <2>10. AtomicTypes' /\ AtomicLoadedOpen'
    BY <1>3, <2>1, <2>5 DEF Atomic!Release, AtomicTypes, AtomicLoadedOpen, Atomic!Goes, Atomic!IsClosed
  <2> QED
    BY <2>7, <2>9, <2>10
<1>4. ASSUME NEW k \in Closers \cup {Collector}, Atomic!Close(k)
      PROVE  AtomicInv'
  <2>1. /\ k \in Atomic!Threads /\ pc[k] = "swap" /\ state = seen[k]
        /\ state' = state + 1 /\ frees' = frees
    BY <1>4 DEF Atomic!Close, Atomic!Threads
  <2>2. k \notin Atomic!Lent /\ k \notin AtomicFreeing
    BY <2>1 DEF Atomic!Lent, AtomicFreeing
  <2>3. Atomic!Lent' = Atomic!Lent
    <3>1. PICK to \in {"free", "done"} : Atomic!Goes(k, to)
      BY <1>4 DEF Atomic!Close
    <3> QED
      BY <2>1, <2>2, <3>1, AtomicMoves
  <2>4. ~Atomic!Closed /\ Atomic!Closed'
    BY <2>1, AtomicParity DEF AtomicLoadedOpen, Atomic!Closed, AtomicTypes
  <2>5. Atomic!CountsCalls'
    BY <1>f, <2>1, <2>3, <2>4, SameCount DEF Atomic!CountsCalls, AtomicTypes
  <2>6. state = 0 <=> Atomic!Lent = {}
    BY <1>e, <1>f, <2>4, SameCount DEF Atomic!CountsCalls
  <2>7. Atomic!FreedOnce'
    <3>1. Cardinality(AtomicFreeing) + frees = 0
      BY <2>4, <1>o
    <3>2. CASE state = 0
      <4>1. AtomicFreeing' = AtomicFreeing \cup {k}
        BY <1>4, <2>1, <3>2, AtomicMoves DEF Atomic!Close
      <4>2. Cardinality(AtomicFreeing') = Cardinality(AtomicFreeing) + 1
        BY <1>f, <2>2, <4>1, OneThread
      <4> QED
        BY <1>f, <2>1, <2>3, <2>4, <2>6, <3>1, <3>2, <4>2, <1>p DEF AtomicTypes
    <3>3. CASE state # 0
      <4>1. AtomicFreeing' = AtomicFreeing
        BY <1>4, <2>1, <2>2, <3>3, AtomicMoves DEF Atomic!Close
      <4> QED
        BY <2>1, <2>3, <2>6, <3>1, <3>3, <4>1, <1>p
    <3> QED
      BY <3>2, <3>3
  <2>8. AtomicTypes' /\ AtomicLoadedOpen'
    BY <1>4, <2>1 DEF Atomic!Close, AtomicTypes, AtomicLoadedOpen, Atomic!Goes, Atomic!IsClosed
  <2> QED
    BY <2>5, <2>7, <2>8
<1>5. ASSUME NEW t \in Atomic!Threads, Atomic!Destroy(t)
      PROVE  AtomicInv'
  <2>1. t \in AtomicFreeing /\ t \notin Atomic!Lent /\ Atomic!Goes(t, "done")
    BY <1>5 DEF Atomic!Destroy, AtomicFreeing, Atomic!Lent
  <2>2. Atomic!Lent' = Atomic!Lent /\ AtomicFreeing' = AtomicFreeing \ {t}
    BY <2>1, AtomicMoves
  <2>3. Cardinality(AtomicFreeing') = Cardinality(AtomicFreeing) - 1
    BY <1>f, <2>1, <2>2, OneThread
  <2>4. state' = state /\ frees' = frees + 1 /\ Atomic!Closed' = Atomic!Closed
    BY <1>5 DEF Atomic!Destroy, Atomic!Closed, Atomic!IsClosed
  <2>5. Atomic!CountsCalls'
    BY <2>2, <2>4, SameCount DEF Atomic!CountsCalls
  <2>6. Atomic!FreedOnce'
    BY <1>f, <2>2, <2>3, <2>4, <1>o, <1>p DEF AtomicTypes
  <2>7. AtomicTypes' /\ AtomicLoadedOpen'
    BY <1>5 DEF Atomic!Destroy, AtomicTypes, AtomicLoadedOpen, Atomic!Goes, Atomic!IsClosed
  <2> QED
    BY <2>5, <2>6, <2>7
<1>6. ASSUME UNCHANGED Atomic!vars PROVE AtomicInv'
  BY <1>6, SameCount DEF Atomic!vars, AtomicTypes, AtomicLoadedOpen, Atomic!CountsCalls, Atomic!FreedOnce, Atomic!Lent, Atomic!Closed, Atomic!IsClosed
<1> QED
  BY <1>1, <1>2, <1>3, <1>4, <1>5, <1>6 DEF Atomic!Next

LEMMA AtomicInvImplies == AtomicInv => Atomic!TypeOK /\ Atomic!CountsCalls /\ Atomic!FreedOnce
<1> SUFFICES ASSUME AtomicInv PROVE frees \in 0..1
  BY DEF AtomicInv, AtomicTypes, Atomic!TypeOK
<1>1. Cardinality(AtomicFreeing) + frees = (IF Atomic!Closed /\ Atomic!Lent = {} THEN 1 ELSE 0)
  BY SameCount DEF AtomicInv, Atomic!FreedOnce, AtomicFreeing
<1> QED
  BY <1>1, AtomicSetsFinite DEF AtomicInv, AtomicTypes

-----------------------------------------------------------------------------
(* The wrapper is a handle.                                                *)

LEMMA AtomicInitRefines == Atomic!Init => Atomic!H!Init
BY AtomicParity DEF Atomic!Init, Atomic!H!Init, Atomic!Closed, Atomic!Lent, Atomic!Threads

LEMMA AtomicStepRefines == AtomicInv /\ [Atomic!Next]_(Atomic!vars) => [Atomic!H!Next]_(Atomic!H!vars)
<1> SUFFICES ASSUME AtomicInv, [Atomic!Next]_(Atomic!vars) PROVE [Atomic!H!Next]_(Atomic!H!vars)
  OBVIOUS
<1> USE DEF AtomicInv
<1>1. ASSUME NEW t \in Atomic!Threads, Atomic!Load(t) \/ Atomic!Retries(t)
      PROVE  UNCHANGED Atomic!H!vars
  <2>1. PICK to \in {"load", "swap", "done"} : Atomic!Goes(t, to)
    BY <1>1 DEF Atomic!Load, Atomic!Retries
  <2>2. t \notin Atomic!Lent
    BY <1>1 DEF Atomic!Load, Atomic!Retries, Atomic!Lent
  <2>3. Atomic!Lent' = Atomic!Lent
    BY <2>1, <2>2, AtomicMoves
  <2> QED
    BY <1>1, <2>3 DEF Atomic!Load, Atomic!Retries, Atomic!Closed, Atomic!IsClosed, Atomic!H!vars
<1>2. ASSUME NEW c \in Calls, Atomic!Acquire(c)
      PROVE  Atomic!H!Lend(c)
  <2>1. c \in Atomic!Threads /\ pc[c] = "swap" /\ state = seen[c] /\ Atomic!Goes(c, "lent")
    BY <1>2 DEF Atomic!Acquire, Atomic!Threads
  <2>2. ~Atomic!Closed /\ c \notin Atomic!Lent
    BY <2>1 DEF AtomicLoadedOpen, Atomic!Closed, Atomic!Lent
  <2>3. Atomic!Lent' = Atomic!Lent \cup {c}
    BY <2>1, AtomicMoves
  <2>4. Atomic!Closed' = Atomic!Closed /\ frees' = frees
    BY <1>2, AtomicParity DEF Atomic!Acquire, Atomic!Closed, AtomicTypes
  <2> QED
    BY <2>2, <2>3, <2>4 DEF Atomic!H!Lend
<1>3. ASSUME NEW c \in Calls, Atomic!Release(c)
      PROVE  Atomic!H!Return(c)
  <2>1. c \in Atomic!Threads /\ c \in Atomic!Lent /\ state' = state - 2 /\ frees' = frees
    BY <1>3 DEF Atomic!Release, Atomic!Threads, Atomic!Lent
  <2>2. PICK to \in {"free", "done"} : Atomic!Goes(c, to)
    BY <1>3 DEF Atomic!Release
  <2>3. Atomic!Lent' = Atomic!Lent \ {c}
    BY <2>1, <2>2, AtomicMoves
  <2>4. Cardinality(Atomic!Lent) \in Nat /\ Cardinality(Atomic!Lent) # 0
    BY <2>1, AtomicSetsFinite, OneThread
  <2>5. state \in Nat /\ state \geq 2
    BY <2>4, SameCount DEF Atomic!CountsCalls, AtomicTypes
  <2>6. Atomic!Closed' = Atomic!Closed
    BY <2>1, <2>5, AtomicParity DEF Atomic!Closed
  <2> QED
    BY <2>1, <2>3, <2>6 DEF Atomic!H!Return
<1>4. ASSUME NEW k \in Closers \cup {Collector}, Atomic!Close(k)
      PROVE  Atomic!H!Close
  <2>1. k \in Atomic!Threads /\ pc[k] = "swap" /\ state = seen[k] /\ state' = state + 1 /\ frees' = frees
    BY <1>4 DEF Atomic!Close, Atomic!Threads
  <2>2. PICK to \in {"free", "done"} : Atomic!Goes(k, to)
    BY <1>4 DEF Atomic!Close
  <2>3. k \notin Atomic!Lent
    BY <2>1 DEF Atomic!Lent
  <2>4. Atomic!Lent' = Atomic!Lent
    BY <2>1, <2>2, <2>3, AtomicMoves
  <2>5. Atomic!Closed = FALSE /\ Atomic!Closed' = TRUE
    BY <2>1, AtomicParity DEF AtomicLoadedOpen, Atomic!Closed, AtomicTypes
  <2> QED
    BY <2>1, <2>4, <2>5 DEF Atomic!H!Close
<1>5. ASSUME NEW t \in Atomic!Threads, Atomic!Destroy(t)
      PROVE  Atomic!H!Free
  <2>1. t \in AtomicFreeing /\ t \notin Atomic!Lent /\ Atomic!Goes(t, "done")
    BY <1>5 DEF Atomic!Destroy, AtomicFreeing, Atomic!Lent
  <2>2. Cardinality(AtomicFreeing) + frees = (IF Atomic!Closed /\ Atomic!Lent = {} THEN 1 ELSE 0)
    BY SameCount DEF Atomic!FreedOnce, AtomicFreeing
  <2>3. Cardinality(AtomicFreeing) \in Nat /\ Cardinality(AtomicFreeing) # 0
    BY <2>1, AtomicSetsFinite, OneThread
  <2>4. Atomic!Closed /\ Atomic!Lent = {} /\ frees = 0
    BY <2>2, <2>3 DEF AtomicTypes
  <2>5. Atomic!Lent' = Atomic!Lent
    BY <2>1, AtomicMoves
  <2>6. frees' = 1 /\ Atomic!Closed' = Atomic!Closed
    BY <1>5, <2>4 DEF Atomic!Destroy, Atomic!Closed, Atomic!IsClosed
  <2> QED
    BY <2>4, <2>5, <2>6 DEF Atomic!H!Free
<1>6. ASSUME UNCHANGED Atomic!vars PROVE UNCHANGED Atomic!H!vars
  BY <1>6 DEF Atomic!vars, Atomic!H!vars, Atomic!Lent, Atomic!Closed, Atomic!IsClosed
<1> QED
  BY <1>1, <1>2, <1>3, <1>4, <1>5, <1>6 DEF Atomic!Next, Atomic!H!Next

-----------------------------------------------------------------------------

(* Python and Ruby: the lock.                                              *)

LockedFreeing == {t \in Locked!Threads : pc[t] = "free"}

(* TypeOK, but for the bound on frees, which follows from FreedOnce.       *)
LockedTypes ==
  /\ held \in BOOLEAN
  /\ closing \in BOOLEAN
  /\ calls \in Nat
  /\ pc \in [Locked!Threads -> {"new", "lent", "free", "done"}]
  /\ frees \in Nat

(* The counter under the lock is the calls in flight, and none of them is  *)
(* left when the pointer leaves the wrapper.                               *)
LockedCounted == calls = Cardinality(Locked!Lent) /\ (~held => Locked!Lent = {})

LockedInv == LockedTypes /\ LockedCounted /\ Locked!FreedOnce

-----------------------------------------------------------------------------
LEMMA LockedSetsFinite ==
  /\ IsFiniteSet(Locked!Lent) /\ Cardinality(Locked!Lent) \in Nat
  /\ Cardinality(Locked!Lent) = 0 <=> Locked!Lent = {}
  /\ IsFiniteSet(LockedFreeing) /\ Cardinality(LockedFreeing) \in Nat
  /\ Cardinality(LockedFreeing) = 0 <=> LockedFreeing = {}
<1>1. IsFiniteSet(Locked!Threads)
  BY ThreadsAssumption, FS_Union, FS_AddElement, FS_EmptySet DEF Locked!Threads
<1>2. Locked!Lent \subseteq Locked!Threads /\ LockedFreeing \subseteq Locked!Threads
  BY DEF Locked!Lent, LockedFreeing, Locked!Threads
<1>3. IsFiniteSet(Locked!Lent) /\ IsFiniteSet(LockedFreeing)
  BY <1>1, <1>2, FS_Subset
<1> QED
  BY <1>3, FS_CardinalityType, FS_EmptySet

(* What a thread's move does to the two sets.                              *)
LEMMA LockedMoves ==
  ASSUME LockedTypes, NEW t \in Locked!Threads, NEW to, Locked!Goes(t, to)
  PROVE  /\ Locked!Lent' = IF to = "lent" /\ t \in Calls THEN Locked!Lent \cup {t} ELSE Locked!Lent \ {t}
         /\ LockedFreeing' = IF to = "free" THEN LockedFreeing \cup {t} ELSE LockedFreeing \ {t}
BY DEF LockedTypes, Locked!Goes, Locked!Lent, LockedFreeing, Locked!Threads

LEMMA LockedInitInv == Locked!Init => LockedInv
<1> SUFFICES ASSUME Locked!Init PROVE LockedInv
  OBVIOUS
<1>1. Locked!Lent = {} /\ LockedFreeing = {}
  BY DEF Locked!Init, Locked!Lent, LockedFreeing, Locked!Threads
<1>2. LockedCounted /\ Locked!FreedOnce
  BY <1>1, FS_EmptySet, SameCount DEF Locked!Init, LockedCounted, Locked!FreedOnce, LockedFreeing
<1>3. LockedTypes
  BY DEF Locked!Init, LockedTypes
<1> QED
  BY <1>2, <1>3 DEF LockedInv

LEMMA LockedStepInv == LockedInv /\ [Locked!Next]_(Locked!vars) => LockedInv'
<1> SUFFICES ASSUME LockedInv, [Locked!Next]_(Locked!vars) PROVE LockedInv'
  OBVIOUS
<1> USE DEF LockedInv
<1>o. Cardinality(LockedFreeing) + frees = (IF held THEN 0 ELSE 1)
  BY SameCount DEF Locked!FreedOnce, LockedFreeing
<1>p. Locked!FreedOnce' <=> Cardinality(LockedFreeing') + frees' = (IF held' THEN 0 ELSE 1)
  BY SameCount DEF Locked!FreedOnce, LockedFreeing
<1>f. /\ IsFiniteSet(Locked!Lent) /\ Cardinality(Locked!Lent) \in Nat
      /\ Cardinality(Locked!Lent) = 0 <=> Locked!Lent = {}
      /\ IsFiniteSet(LockedFreeing) /\ Cardinality(LockedFreeing) \in Nat
      /\ Cardinality(LockedFreeing) = 0 <=> LockedFreeing = {}
  BY LockedSetsFinite
<1>1. ASSUME NEW c \in Calls, Locked!Acquire(c)
      PROVE  LockedInv'
  <2>1. c \in Locked!Threads /\ c \notin Locked!Lent /\ c \notin LockedFreeing /\ Locked!Goes(c, "lent")
    BY <1>1 DEF Locked!Acquire, Locked!Enters, Locked!Threads, Locked!Lent, LockedFreeing
  <2>2. Locked!Lent' = Locked!Lent \cup {c} /\ LockedFreeing' = LockedFreeing
    BY <2>1, LockedMoves
  <2>3. Cardinality(Locked!Lent') = Cardinality(Locked!Lent) + 1
    BY <1>f, <2>1, <2>2, OneThread
  <2>4. held /\ held' = held /\ frees' = frees /\ calls' = calls + 1
    BY <1>1 DEF Locked!Acquire, Locked!Closed, LockedTypes
  <2>5. LockedCounted'
    BY <2>3, <2>4 DEF LockedCounted
  <2>6. Locked!FreedOnce'
    BY <1>o, <1>p, <2>2, <2>4
  <2>7. LockedTypes'
    <3>1. closing' = closing
      BY <1>1 DEF Locked!Acquire
    <3> QED
      BY <2>1, <2>4, <3>1 DEF LockedTypes, Locked!Goes
  <2> QED
    BY <2>5, <2>6, <2>7
<1>2. ASSUME NEW c \in Calls, Locked!Refused(c)
      PROVE  LockedInv'
  <2>1. c \in Locked!Threads /\ c \notin Locked!Lent /\ c \notin LockedFreeing /\ Locked!Goes(c, "done")
    BY <1>2 DEF Locked!Refused, Locked!Enters, Locked!Threads, Locked!Lent, LockedFreeing
  <2>2. Locked!Lent' = Locked!Lent /\ LockedFreeing' = LockedFreeing
    BY <2>1, LockedMoves
  <2>3. LockedCounted' /\ Locked!FreedOnce'
    BY <1>2, <1>o, <1>p, <2>2 DEF Locked!Refused, LockedCounted
  <2>4. LockedTypes'
    BY <1>2 DEF Locked!Refused, LockedTypes, Locked!Goes
  <2> QED
    BY <2>3, <2>4
<1>3. ASSUME NEW c \in Calls, Locked!Release(c)
      PROVE  LockedInv'
  <2>1. c \in Locked!Threads /\ c \in Locked!Lent /\ c \notin LockedFreeing
    BY <1>3 DEF Locked!Release, Locked!Threads, Locked!Lent, LockedFreeing
  <2>2. PICK to \in {"free", "done"} : Locked!Goes(c, to)
    BY <1>3 DEF Locked!Release
  <2>3. Locked!Lent' = Locked!Lent \ {c}
    BY <2>1, <2>2, LockedMoves
  <2>4. Cardinality(Locked!Lent') = Cardinality(Locked!Lent) - 1 /\ IsFiniteSet(Locked!Lent')
    BY <1>f, <2>1, <2>3, OneThread
  <2>5. Cardinality(Locked!Lent') \in Nat /\ (Cardinality(Locked!Lent') = 0 <=> Locked!Lent' = {})
    BY <2>4, FS_CardinalityType, FS_EmptySet
  <2>6. calls' = Cardinality(Locked!Lent') /\ frees' = frees
    BY <1>3, <1>f, <2>4 DEF Locked!Release, LockedCounted
  <2>7. held /\ Cardinality(LockedFreeing) = 0 /\ frees = 0
    BY <1>o, <1>f, <2>1 DEF LockedCounted, LockedTypes
  <2>8. CASE closing /\ calls' = 0
    <3>1. held' = FALSE /\ closing' \in BOOLEAN /\ Locked!Goes(c, "free")
      BY <1>3, <2>8 DEF Locked!Release
    <3>2. Locked!Lent' = {}
      BY <2>5, <2>6, <2>8
    <3>3. LockedFreeing' = LockedFreeing \cup {c}
      BY <2>1, <3>1, LockedMoves
    <3>4. Cardinality(LockedFreeing') = 1
      BY <1>f, <2>1, <2>7, <3>3, OneThread
    <3>5. LockedCounted' /\ Locked!FreedOnce'
      BY <1>p, <2>6, <2>7, <3>1, <3>2, <3>4 DEF LockedCounted
    <3>6. LockedTypes'
      BY <2>5, <2>6, <2>7, <3>1 DEF LockedTypes, Locked!Goes
    <3> QED
      BY <3>5, <3>6
  <2>9. CASE ~(closing /\ calls' = 0)
    <3>1. held' = held /\ closing' = closing /\ Locked!Goes(c, "done")
      BY <1>3, <2>9 DEF Locked!Release
    <3>2. LockedFreeing' = LockedFreeing
      BY <2>1, <3>1, LockedMoves
    <3>3. LockedCounted' /\ Locked!FreedOnce'
      BY <1>p, <2>6, <2>7, <3>1, <3>2 DEF LockedCounted
    <3>4. LockedTypes'
      BY <2>5, <2>6, <2>7, <3>1 DEF LockedTypes, Locked!Goes
    <3> QED
      BY <3>3, <3>4
  <2> QED
    BY <2>8, <2>9
<1>4. ASSUME NEW k \in Closers, Locked!Close(k)
      PROVE  LockedInv'
  <2>1. k \in Locked!Threads /\ k \notin Locked!Lent /\ k \notin LockedFreeing
    BY <1>4 DEF Locked!Close, Locked!Enters, Locked!Threads, Locked!Lent, LockedFreeing
  <2>2. PICK to \in {"free", "done"} : Locked!Goes(k, to)
    BY <1>4 DEF Locked!Close
  <2>3. Locked!Lent' = Locked!Lent /\ calls' = calls /\ frees' = frees
    BY <1>4, <2>1, <2>2, LockedMoves DEF Locked!Close
  <2>4. CASE held' = held /\ closing' \in BOOLEAN /\ Locked!Goes(k, "done")
    <3>1. LockedFreeing' = LockedFreeing
      BY <2>1, <2>4, LockedMoves
    <3> QED
      BY <1>o, <1>p, <2>3, <2>4, <3>1 DEF LockedCounted, LockedTypes, Locked!Goes
  <2>5. CASE ~Locked!Closed /\ ~(calls > 0) /\ held' = FALSE /\ closing' \in BOOLEAN /\ Locked!Goes(k, "free")
    <3>1. held /\ Locked!Lent = {} /\ Cardinality(LockedFreeing) = 0 /\ frees = 0
      BY <1>f, <1>o, <2>5 DEF Locked!Closed, LockedCounted, LockedTypes
    <3>2. LockedFreeing' = LockedFreeing \cup {k}
      BY <2>1, <2>5, LockedMoves
    <3>3. Cardinality(LockedFreeing') = 1
      BY <1>f, <2>1, <3>1, <3>2, OneThread
    <3>4. LockedCounted' /\ Locked!FreedOnce'
      BY <1>p, <2>3, <2>5, <3>1, <3>3 DEF LockedCounted
    <3>5. LockedTypes'
      BY <2>3, <2>5 DEF LockedTypes, Locked!Goes
    <3> QED
      BY <3>4, <3>5
  <2> QED
    BY <1>4, <2>4, <2>5 DEF Locked!Close, LockedTypes
<1>5. ASSUME Locked!Finalize
      PROVE  LockedInv'
  <2>1. /\ Collector \in Locked!Threads /\ Collector \notin Locked!Lent /\ Collector \notin LockedFreeing
        /\ Locked!Lent = {} /\ held' = FALSE
        /\ UNCHANGED <<closing, calls, frees>>
        /\ Locked!Goes(Collector, IF held THEN "free" ELSE "done")
    BY <1>5 DEF Locked!Finalize, Locked!Enters, Locked!Threads, Locked!Lent, LockedFreeing
  <2>2. Locked!Lent' = Locked!Lent
    BY <2>1, LockedMoves
  <2>3. LockedCounted'
    BY <2>1, <2>2 DEF LockedCounted
  <2>4. Locked!FreedOnce'
    <3>1. CASE held
      <4>1. LockedFreeing' = LockedFreeing \cup {Collector}
        BY <2>1, <3>1, LockedMoves
      <4>2. Cardinality(LockedFreeing') = Cardinality(LockedFreeing) + 1
        BY <1>f, <2>1, <4>1, OneThread
      <4> QED
        BY <1>f, <1>o, <1>p, <2>1, <3>1, <4>2 DEF LockedTypes
    <3>2. CASE ~held
      <4>1. LockedFreeing' = LockedFreeing
        BY <2>1, <3>2, LockedMoves
      <4> QED
        BY <1>o, <1>p, <2>1, <3>2, <4>1
    <3> QED
      BY <3>1, <3>2
  <2>5. LockedTypes'
    BY <2>1 DEF LockedTypes, Locked!Goes
  <2> QED
    BY <2>3, <2>4, <2>5
<1>6. ASSUME NEW t \in Locked!Threads, Locked!Free(t)
      PROVE  LockedInv'
  <2>1. /\ t \in LockedFreeing /\ t \notin Locked!Lent /\ Locked!Goes(t, "done") /\ frees' = frees + 1
        /\ UNCHANGED <<held, closing, calls>>
    BY <1>6 DEF Locked!Free, LockedFreeing, Locked!Lent
  <2>2. Locked!Lent' = Locked!Lent /\ LockedFreeing' = LockedFreeing \ {t}
    BY <2>1, LockedMoves
  <2>3. Cardinality(LockedFreeing') = Cardinality(LockedFreeing) - 1
    BY <1>f, <2>1, <2>2, OneThread
  <2>4. LockedCounted' /\ Locked!FreedOnce'
    BY <1>f, <1>o, <1>p, <2>1, <2>2, <2>3 DEF LockedCounted, LockedTypes
  <2>5. LockedTypes'
    BY <2>1 DEF LockedTypes, Locked!Goes
  <2> QED
    BY <2>4, <2>5
<1>7. ASSUME UNCHANGED Locked!vars PROVE LockedInv'
  BY <1>7, SameCount DEF Locked!vars, LockedTypes, LockedCounted, Locked!FreedOnce, Locked!Lent
<1> QED
  BY <1>1, <1>2, <1>3, <1>4, <1>5, <1>6, <1>7 DEF Locked!Next

LEMMA LockedInvImplies == LockedInv => Locked!TypeOK /\ Locked!FreedOnce
<1> SUFFICES ASSUME LockedInv PROVE frees \in 0..1
  BY DEF LockedInv, LockedTypes, Locked!TypeOK
<1>1. Cardinality(LockedFreeing) + frees = (IF held THEN 0 ELSE 1)
  BY SameCount DEF LockedInv, Locked!FreedOnce, LockedFreeing
<1> QED
  BY <1>1, LockedSetsFinite DEF LockedInv, LockedTypes

-----------------------------------------------------------------------------
(* The wrapper is a handle.                                                *)

LEMMA LockedInitRefines == Locked!Init => Locked!H!Init
BY DEF Locked!Init, Locked!H!Init, Locked!Closed, Locked!Lent, Locked!Threads

LEMMA LockedStepRefines == LockedInv /\ [Locked!Next]_(Locked!vars) => [Locked!H!Next]_(Locked!H!vars)
<1> SUFFICES ASSUME LockedInv, [Locked!Next]_(Locked!vars) PROVE [Locked!H!Next]_(Locked!H!vars)
  OBVIOUS
<1> USE DEF LockedInv
<1>1. ASSUME NEW c \in Calls, Locked!Acquire(c)
      PROVE  Locked!H!Lend(c)
  <2>1. c \in Locked!Threads /\ c \notin Locked!Lent /\ Locked!Goes(c, "lent")
    BY <1>1 DEF Locked!Acquire, Locked!Enters, Locked!Threads, Locked!Lent
  <2>2. Locked!Lent' = Locked!Lent \cup {c}
    BY <2>1, LockedMoves
  <2> QED
    BY <1>1, <2>1, <2>2 DEF Locked!Acquire, Locked!Closed, Locked!H!Lend
<1>2. ASSUME NEW c \in Calls, Locked!Refused(c)
      PROVE  UNCHANGED Locked!H!vars
  <2>1. c \in Locked!Threads /\ c \notin Locked!Lent /\ Locked!Goes(c, "done")
    BY <1>2 DEF Locked!Refused, Locked!Enters, Locked!Threads, Locked!Lent
  <2>2. Locked!Lent' = Locked!Lent
    BY <2>1, LockedMoves
  <2> QED
    BY <1>2, <2>2 DEF Locked!Refused, Locked!Closed, Locked!H!vars
<1>3. ASSUME NEW c \in Calls, Locked!Release(c)
      PROVE  Locked!H!Return(c)
  <2>1. c \in Locked!Threads /\ c \in Locked!Lent /\ frees' = frees
    BY <1>3 DEF Locked!Release, Locked!Threads, Locked!Lent
  <2>2. PICK to \in {"free", "done"} : Locked!Goes(c, to)
    BY <1>3 DEF Locked!Release
  <2>3. Locked!Lent' = Locked!Lent \ {c}
    BY <2>1, <2>2, LockedMoves
  <2>4. Locked!Closed' = Locked!Closed
    <3>1. CASE closing /\ calls' = 0
      <4>1. Locked!Closed /\ Locked!Closed'
        BY <1>3, <3>1 DEF Locked!Release, Locked!Closed
      <4> QED
        BY <4>1 DEF Locked!Closed
    <3>2. CASE ~(closing /\ calls' = 0)
      <4>1. held' = held /\ closing' = closing
        BY <1>3, <3>2 DEF Locked!Release
      <4> QED
        BY <4>1 DEF Locked!Closed
    <3> QED
      BY <3>1, <3>2
  <2> QED
    BY <2>1, <2>3, <2>4 DEF Locked!H!Return
<1>4. ASSUME NEW k \in Closers, Locked!Close(k)
      PROVE  Locked!H!Close \/ UNCHANGED Locked!H!vars
  <2>1. k \in Locked!Threads /\ k \notin Locked!Lent /\ frees' = frees
    BY <1>4 DEF Locked!Close, Locked!Enters, Locked!Threads, Locked!Lent
  <2>2. PICK to \in {"free", "done"} : Locked!Goes(k, to)
    BY <1>4 DEF Locked!Close
  <2>3. Locked!Lent' = Locked!Lent
    BY <2>1, <2>2, LockedMoves
  <2>4. CASE Locked!Closed
    <3>1. held' = held /\ closing' = closing
      BY <1>4, <2>4 DEF Locked!Close
    <3> QED
      BY <2>1, <2>3, <3>1 DEF Locked!H!vars, Locked!Closed
  <2>5. CASE ~Locked!Closed
    <3>1. Locked!Closed' = TRUE
      BY <1>4, <2>5 DEF Locked!Close, Locked!Closed
    <3> QED
      BY <2>1, <2>3, <2>5, <3>1 DEF Locked!H!Close
  <2> QED
    BY <2>4, <2>5
<1>5. ASSUME Locked!Finalize
      PROVE  Locked!H!Close \/ UNCHANGED Locked!H!vars
  <2>1. /\ Collector \in Locked!Threads /\ Collector \notin Locked!Lent /\ frees' = frees
        /\ Locked!Goes(Collector, IF held THEN "free" ELSE "done")
    BY <1>5 DEF Locked!Finalize, Locked!Enters, Locked!Threads, Locked!Lent
  <2>2. Locked!Lent' = Locked!Lent
    BY <2>1, LockedMoves
  <2>3. Locked!Closed' = TRUE
    BY <1>5 DEF Locked!Finalize, Locked!Closed
  <2>4. CASE Locked!Closed
    <3>1. Locked!Closed = TRUE
      BY <2>4 DEF Locked!Closed
    <3> QED
      BY <2>1, <2>2, <2>3, <3>1 DEF Locked!H!vars
  <2>5. CASE ~Locked!Closed
    BY <2>1, <2>2, <2>3, <2>5 DEF Locked!H!Close
  <2> QED
    BY <2>4, <2>5
<1>6. ASSUME NEW t \in Locked!Threads, Locked!Free(t)
      PROVE  Locked!H!Free
  <2>1. /\ t \in LockedFreeing /\ t \notin Locked!Lent /\ Locked!Goes(t, "done") /\ frees' = frees + 1
        /\ UNCHANGED <<held, closing, calls>>
    BY <1>6 DEF Locked!Free, LockedFreeing, Locked!Lent
  <2>2. Locked!Lent' = Locked!Lent
    BY <2>1, LockedMoves
  <2>3. Cardinality(LockedFreeing) + frees = (IF held THEN 0 ELSE 1)
    BY SameCount DEF Locked!FreedOnce, LockedFreeing
  <2>4. Cardinality(LockedFreeing) \in Nat /\ Cardinality(LockedFreeing) # 0
    BY <2>1, LockedSetsFinite
  <2>5. ~held /\ frees = 0 /\ Locked!Lent = {}
    BY <2>3, <2>4 DEF LockedTypes, LockedCounted
  <2> QED
    BY <2>1, <2>2, <2>5 DEF Locked!H!Free, Locked!Closed
<1>7. ASSUME UNCHANGED Locked!vars PROVE UNCHANGED Locked!H!vars
  BY <1>7 DEF Locked!vars, Locked!H!vars, Locked!Lent, Locked!Closed
<1> QED
  BY <1>1, <1>2, <1>3, <1>4, <1>5, <1>6, <1>7 DEF Locked!Next, Locked!H!Next

-----------------------------------------------------------------------------

USE WorkersAssumption DEF Callback!Release

(* TypeOK, but for the bound on frees, which follows from Released.        *)
CallbackTypes ==
  /\ affine \in BOOLEAN
  /\ holders \subseteq Workers
  /\ running \in [Workers -> 0..MaxCalls]
  /\ freeing \subseteq Workers
  /\ made \in 0..MaxCalls
  /\ posted \in Seq(0..MaxCalls)
  /\ frees \in Nat

(* A call runs on a thread that holds a share, or is on its way once.      *)
CallbackSeparate ==
  /\ \A t \in Workers : running[t] # 0 => t \in holders /\ running[t] \leq made
  /\ \A t, u \in Workers : running[t] # 0 /\ running[t] = running[u] => t = u
  /\ \A i \in 1..Len(posted) : posted[i] \leq made
  /\ \A i, j \in 1..Len(posted) : posted[i] = posted[j] => i = j
  /\ \A t \in Workers, i \in 1..Len(posted) : running[t] # 0 => posted[i] # running[t]

(* The release is in one place at most, behind every call, and nothing is  *)
(* on its way after it.                                                    *)
CallbackReleased ==
  /\ ~affine => posted = <<>>
  /\ \A i \in 1..Len(posted) :
       posted[i] = 0 => i = Len(posted) /\ holders = {} /\ freeing = {} /\ frees = 0
  /\ freeing # {} => holders = {} /\ frees = 0
  /\ frees # 0 => frees = 1 /\ holders = {} /\ freeing = {} /\ posted = <<>>

CallbackInv == CallbackTypes /\ CallbackSeparate /\ CallbackReleased

-----------------------------------------------------------------------------
LEMMA CallbackInitInv == Callback!Init => CallbackInv
BY DEF Callback!Init, CallbackInv, CallbackTypes, CallbackSeparate, CallbackReleased

LEMMA CallbackStepInv == CallbackInv /\ [Callback!Next]_(Callback!vars) => CallbackInv'
<1> SUFFICES ASSUME CallbackInv, [Callback!Next]_(Callback!vars) PROVE CallbackInv'
  OBVIOUS
<1> USE DEF CallbackInv
<1>1. ASSUME NEW t \in Workers, NEW u \in Workers, Callback!Shares(t, u)
      PROVE  CallbackInv'
  BY <1>1 DEF Callback!Shares, CallbackTypes, CallbackSeparate, CallbackReleased
<1>2. ASSUME NEW t \in Workers, Callback!Refused(t)
      PROVE  CallbackInv'
  <2>1. /\ made' = made + 1 /\ made' \in 0..MaxCalls
        /\ UNCHANGED <<affine, holders, running, freeing, posted, frees>>
    BY <1>2 DEF Callback!Refused, CallbackTypes
  <2>2. CallbackTypes' /\ CallbackReleased'
    BY <2>1 DEF CallbackTypes, CallbackReleased
  <2>3. CallbackSeparate'
    BY <2>1 DEF CallbackTypes, CallbackSeparate
  <2> QED
    BY <2>2, <2>3
<1>3. ASSUME NEW t \in Workers, Callback!Runs(t)
      PROVE  CallbackInv'
  <2>1. /\ t \in holders /\ running[t] = 0 /\ made' = made + 1 /\ made' \in 1..MaxCalls
        /\ UNCHANGED <<affine, holders, freeing, posted, frees>>
    BY <1>3 DEF Callback!Runs, Callback!Idle, CallbackTypes
  <2>2. running'[t] = made' /\ \A u \in Workers : u # t => running'[u] = running[u]
    BY <1>3 DEF Callback!Runs, CallbackTypes
  <2>3. CallbackTypes'
    BY <1>3, <2>1 DEF Callback!Runs, CallbackTypes
  <2>4. CallbackSeparate'
    <3>1. \A u \in Workers : running[u] \in 0..MaxCalls /\ (running[u] # 0 => running[u] < made')
      BY <2>1 DEF CallbackSeparate, CallbackTypes
    <3>2. \A u \in Workers : running'[u] # 0 => u \in holders' /\ running'[u] \leq made'
      BY <2>1, <2>2, <3>1 DEF CallbackSeparate
    <3>3. \A u, v \in Workers : running'[u] # 0 /\ running'[u] = running'[v] => u = v
      BY <2>1, <2>2, <3>1 DEF CallbackSeparate
    <3>4. \A i \in 1..Len(posted) : posted[i] \in 0..MaxCalls /\ posted[i] < made'
      BY <2>1 DEF CallbackSeparate, CallbackTypes
    <3>5. \A u \in Workers, i \in 1..Len(posted) : running'[u] # 0 => posted[i] # running'[u]
      BY <2>1, <2>2, <3>4 DEF CallbackSeparate
    <3> QED
      BY <2>1, <3>2, <3>3, <3>4, <3>5 DEF CallbackSeparate
  <2>5. CallbackReleased'
    BY <2>1 DEF CallbackReleased
  <2> QED
    BY <2>3, <2>4, <2>5
<1>4. ASSUME NEW t \in Workers, Callback!Posts(t)
      PROVE  CallbackInv'
  <2>1. /\ t \in holders /\ affine /\ made' = made + 1 /\ made' \in 1..MaxCalls
        /\ UNCHANGED <<affine, holders, running, freeing, frees>>
    BY <1>4 DEF Callback!Posts, Callback!Idle, CallbackTypes
  <2>2. /\ posted' \in Seq(0..MaxCalls) /\ Len(posted') = Len(posted) + 1
        /\ \A i \in 1..Len(posted) : posted'[i] = posted[i]
        /\ posted'[Len(posted) + 1] = made'
    BY <1>4, <2>1, AppendProperties DEF Callback!Posts, CallbackTypes
  <2>3. Len(posted) \in Nat /\ \A i \in 1..Len(posted) : posted[i] \in 0..MaxCalls
    BY DEF CallbackTypes
  <2>4. CallbackTypes'
    BY <2>1, <2>2 DEF CallbackTypes
  <2>5. CallbackSeparate'
    <3>1. \A u \in Workers : running[u] \in 0..MaxCalls /\ (running[u] # 0 => running[u] < made')
      BY <2>1 DEF CallbackSeparate, CallbackTypes
    <3>2. \A i \in 1..Len(posted) : posted[i] < made'
      BY <2>1, <2>3 DEF CallbackSeparate, CallbackTypes
    <3>3. \A i \in 1..Len(posted') : IF i = Len(posted) + 1 THEN posted'[i] = made'
                                      ELSE i \in 1..Len(posted) /\ posted'[i] = posted[i]
      BY <2>2, <2>3
    <3>4. \A i \in 1..Len(posted') : posted'[i] \leq made'
      BY <2>1, <2>3, <3>2, <3>3
    <3>5. \A i, j \in 1..Len(posted') : posted'[i] = posted'[j] => i = j
      BY <2>1, <2>3, <3>2, <3>3 DEF CallbackSeparate
    <3>6. \A u \in Workers, i \in 1..Len(posted') : running[u] # 0 => posted'[i] # running[u]
      BY <2>1, <2>3, <3>1, <3>3 DEF CallbackSeparate
    <3>7. \A u \in Workers : running[u] # 0 => u \in holders /\ running[u] \leq made'
      BY <2>1, <3>1 DEF CallbackSeparate
    <3> QED
      BY <2>1, <3>4, <3>5, <3>6, <3>7 DEF CallbackSeparate
  <2>6. CallbackReleased'
    BY <2>1, <2>2, <2>3 DEF CallbackReleased
  <2> QED
    BY <2>4, <2>5, <2>6
<1>5. ASSUME NEW t \in Workers, Callback!Returns(t)
      PROVE  CallbackInv'
  BY <1>5 DEF Callback!Returns, CallbackTypes, CallbackSeparate, CallbackReleased
<1>6. ASSUME NEW t \in Workers, Callback!Drop(t)
      PROVE  CallbackInv'
  <2>1. /\ t \in holders /\ running[t] = 0 /\ holders' = holders \ {t}
        /\ freeing' = (IF holders' = {} THEN {t} ELSE {})
        /\ UNCHANGED <<affine, running, made, posted, frees>>
    BY <1>6 DEF Callback!Drop, Callback!Idle
  <2>2. frees = 0 /\ \A i \in 1..Len(posted) : posted[i] # 0
    BY <2>1 DEF CallbackReleased
  <2>3. CallbackTypes' /\ CallbackSeparate'
    BY <2>1 DEF CallbackTypes, CallbackSeparate
  <2>4. CallbackReleased'
    BY <2>1, <2>2 DEF CallbackReleased
  <2> QED
    BY <2>3, <2>4
<1>7. ASSUME NEW t \in Workers, Callback!Frees(t)
      PROVE  CallbackInv'
  <2>1. /\ holders = {} /\ frees = 0 /\ freeing' = {}
        /\ \A i \in 1..Len(posted) : posted[i] # 0
        /\ UNCHANGED <<affine, holders, running, made>>
    BY <1>7 DEF Callback!Frees, CallbackReleased
  <2>2. \A u \in Workers : running[u] = 0
    BY <2>1 DEF CallbackSeparate
  <2>3. CASE affine
    <3>1. posted' = Append(posted, 0) /\ frees' = frees
      BY <1>7, <2>3 DEF Callback!Frees
    <3>2. /\ posted' \in Seq(0..MaxCalls) /\ Len(posted') = Len(posted) + 1
          /\ \A i \in 1..Len(posted) : posted'[i] = posted[i]
          /\ posted'[Len(posted) + 1] = 0
      BY <3>1, AppendProperties DEF CallbackTypes
    <3>3. Len(posted) \in Nat
      BY DEF CallbackTypes
    <3>4. CallbackTypes'
      BY <2>1, <3>1, <3>2 DEF CallbackTypes
    <3>5. CallbackSeparate'
      <4>1. \A i \in 1..Len(posted') : IF i = Len(posted) + 1 THEN posted'[i] = 0
                                        ELSE i \in 1..Len(posted) /\ posted'[i] = posted[i]
        BY <3>2, <3>3
      <4>2. ASSUME NEW i \in 1..Len(posted')
            PROVE  posted'[i] \leq made
        <5>1. 0 \leq made
          BY DEF CallbackTypes
        <5>2. CASE i = Len(posted) + 1
          BY <4>1, <5>1, <5>2
        <5>3. CASE i # Len(posted) + 1
          BY <4>1, <5>3 DEF CallbackSeparate
        <5> QED
          BY <5>2, <5>3
      <4>3. \A i, j \in 1..Len(posted') : posted'[i] = posted'[j] => i = j
        BY <2>1, <3>3, <4>1 DEF CallbackSeparate
      <4>4. UNCHANGED <<running, holders, made>> /\ \A u \in Workers : running'[u] = 0
        BY <2>1, <2>2
      <4> QED
        BY <4>2, <4>3, <4>4 DEF CallbackSeparate
    <3>6. CallbackReleased'
      BY <2>1, <2>3, <3>1, <3>2, <3>3 DEF CallbackReleased
    <3> QED
      BY <3>4, <3>5, <3>6
  <2>4. CASE ~affine
    <3>1. posted' = posted /\ frees' = 1 /\ posted = <<>>
      BY <1>7, <2>1, <2>4 DEF Callback!Frees, CallbackReleased
    <3> QED
      BY <2>1, <3>1 DEF CallbackTypes, CallbackSeparate, CallbackReleased
  <2> QED
    BY <2>3, <2>4
<1>8. ASSUME Callback!Receives
      PROVE  CallbackInv'
  <2>1. /\ posted # <<>> /\ posted' = Tail(posted) /\ posted[1] \in 0..MaxCalls
        /\ Head(posted) = posted[1] /\ frees = 0
        /\ UNCHANGED <<affine, holders, running, freeing, made>>
    BY <1>8 DEF Callback!Receives, CallbackTypes, CallbackReleased
  <2>2. /\ posted' \in Seq(0..MaxCalls) /\ Len(posted') = Len(posted) - 1
        /\ Len(posted) \in Nat
        /\ \A i \in 1..Len(posted') : posted'[i] = posted[i + 1]
    BY <2>1, HeadTailProperties DEF CallbackTypes
  <2>3. CallbackSeparate'
    BY <2>1, <2>2 DEF CallbackSeparate
  <2>e. Len(posted) \in Nat \ {0} /\ 1 \in 1..Len(posted)
    BY <2>1, EmptySeq DEF CallbackTypes
  <2>4. CASE posted[1] = 0
    <3>1. Len(posted) = 1 /\ holders = {} /\ freeing = {}
      BY <2>e, <2>4 DEF CallbackReleased
    <3>b. frees' = 1
      BY <1>8, <2>1, <2>4 DEF Callback!Receives
    <3>2. posted' = <<>>
      BY <2>2, <3>1, EmptySeq
    <3>3. CallbackReleased'
      BY <2>1, <3>1, <3>b, <3>2 DEF CallbackReleased
    <3>4. CallbackTypes'
      BY <2>1, <2>2, <3>b DEF CallbackTypes
    <3> QED
      BY <2>3, <3>3, <3>4
  <2>5. CASE posted[1] # 0
    <3>1. frees' = frees
      BY <1>8, <2>1, <2>5 DEF Callback!Receives
    <3>2. CallbackReleased'
      <4>1. affine
        BY <2>1 DEF CallbackReleased
      <4>2. ASSUME NEW i \in 1..Len(posted'), posted'[i] = 0
            PROVE  i = Len(posted') /\ holders' = {} /\ freeing' = {} /\ frees' = 0
        <5>1. i + 1 \in 1..Len(posted) /\ posted[i + 1] = 0
          <6>1. i \in Nat /\ 1 \leq i /\ i \leq Len(posted) - 1
            BY <2>2
          <6>2. posted[i + 1] = 0
            BY <2>2, <4>2
          <6> QED
            BY <2>2, <6>1, <6>2
        <5>2. i + 1 = Len(posted) /\ holders = {} /\ freeing = {}
          BY <5>1 DEF CallbackReleased
        <5>3. i = Len(posted')
          BY <2>2, <5>2
        <5> QED
          BY <2>1, <3>1, <5>2, <5>3
      <4>3. freeing' # {} => holders' = {} /\ frees' = 0
        BY <2>1, <3>1 DEF CallbackReleased
      <4> QED
        BY <2>1, <3>1, <4>1, <4>2, <4>3 DEF CallbackReleased
    <3> QED
      BY <2>1, <2>2, <2>3, <3>1, <3>2 DEF CallbackTypes
  <2> QED
    BY <2>4, <2>5
<1>9. ASSUME UNCHANGED Callback!vars PROVE CallbackInv'
  BY <1>9 DEF Callback!vars, CallbackTypes, CallbackSeparate, CallbackReleased
<1> QED
  BY <1>1, <1>2, <1>3, <1>4, <1>5, <1>6, <1>7, <1>8, <1>9 DEF Callback!Next

-----------------------------------------------------------------------------
(* The implementation is a handle.                                         *)

LEMMA CallbackInitRefines == Callback!Init => Callback!H!Init
BY DEF Callback!Init, Callback!H!Init, Callback!Lent, Callback!ToSet

LEMMA CallbackStepRefines == CallbackInv /\ [Callback!Next]_(Callback!vars) => [Callback!H!Next]_(Callback!H!vars)
<1> SUFFICES ASSUME CallbackInv, [Callback!Next]_(Callback!vars) PROVE [Callback!H!Next]_(Callback!H!vars)
  OBVIOUS
<1> USE DEF CallbackInv
<1>l. /\ DOMAIN posted = 1..Len(posted) /\ Len(posted) \in Nat
      /\ \A c : c \in Callback!Lent <=> /\ c # 0
                               /\ \/ \E t \in Workers : running[t] = c
                                  \/ \E i \in 1..Len(posted) : posted[i] = c
  BY DEF CallbackTypes, Callback!Lent, Callback!ToSet
<1>p. CallbackInv'
  BY CallbackStepInv
<1>m. /\ DOMAIN posted' = 1..Len(posted') /\ Len(posted') \in Nat
      /\ \A c : c \in Callback!Lent' <=> /\ c # 0
                                /\ \/ \E t \in Workers : running'[t] = c
                                   \/ \E i \in 1..Len(posted') : posted'[i] = c
  BY <1>p DEF CallbackTypes, Callback!Lent, Callback!ToSet
<1>n. \A n \in 1..MaxCalls : n > made => n \notin Callback!Lent
  BY <1>l DEF CallbackTypes, CallbackSeparate
<1>1. ASSUME NEW t \in Workers, NEW u \in Workers, Callback!Shares(t, u)
      PROVE  UNCHANGED Callback!H!vars
  BY <1>1 DEF Callback!Shares, Callback!H!vars, Callback!Lent
<1>2. ASSUME NEW t \in Workers, Callback!Refused(t)
      PROVE  UNCHANGED Callback!H!vars
  BY <1>2 DEF Callback!Refused, Callback!H!vars, Callback!Lent
<1>3. ASSUME NEW t \in Workers, Callback!Runs(t)
      PROVE  \E c \in 1..MaxCalls : Callback!H!Lend(c)
  <2>1. /\ holders # {} /\ running[t] = 0 /\ made' \in 1..MaxCalls /\ made' > made
        /\ UNCHANGED <<holders, posted, frees>>
    BY <1>3 DEF Callback!Runs, Callback!Idle, CallbackTypes
  <2>2. running'[t] = made' /\ \A u \in Workers : u # t => running'[u] = running[u]
    BY <1>3 DEF Callback!Runs, CallbackTypes
  <2>3. made' \notin Callback!Lent
    BY <1>n, <2>1
  <2>4. Callback!Lent' = Callback!Lent \cup {made'}
    BY <1>l, <1>m, <2>1, <2>2
  <2> QED
    BY <2>1, <2>3, <2>4 DEF Callback!H!Lend
<1>4. ASSUME NEW t \in Workers, Callback!Posts(t)
      PROVE  \E c \in 1..MaxCalls : Callback!H!Lend(c)
  <2>1. /\ holders # {} /\ made' \in 1..MaxCalls /\ made' > made
        /\ UNCHANGED <<holders, running, frees>>
    BY <1>4 DEF Callback!Posts, Callback!Idle, CallbackTypes
  <2>2. /\ Len(posted') = Len(posted) + 1
        /\ \A i \in 1..Len(posted) : posted'[i] = posted[i]
        /\ posted'[Len(posted) + 1] = made'
    BY <1>4, <2>1, AppendProperties DEF Callback!Posts, CallbackTypes
  <2>3. made' \notin Callback!Lent
    BY <1>n, <2>1
  <2>4. \A c : (\E i \in 1..Len(posted') : posted'[i] = c) <=>
               (c = made' \/ \E i \in 1..Len(posted) : posted[i] = c)
    BY <1>l, <2>2
  <2>5. Callback!Lent' = Callback!Lent \cup {made'}
    <3>1. made' # 0 /\ running' = running
      BY <2>1
    <3>2. ASSUME NEW c PROVE c \in Callback!Lent' <=> c \in Callback!Lent \/ c = made'
      BY <1>l, <1>m, <2>4, <3>1
    <3> QED
      BY <3>2
  <2> QED
    BY <2>1, <2>3, <2>5 DEF Callback!H!Lend
<1>5. ASSUME NEW t \in Workers, Callback!Returns(t)
      PROVE  \E c \in 1..MaxCalls : Callback!H!Return(c)
  <2>1. running[t] \in 1..MaxCalls /\ UNCHANGED <<holders, posted, frees>>
    BY <1>5 DEF Callback!Returns, CallbackTypes
  <2>2. running'[t] = 0 /\ \A u \in Workers : u # t => running'[u] = running[u]
    BY <1>5 DEF Callback!Returns, CallbackTypes
  <2>3. /\ running[t] \in Callback!Lent
        /\ \A u \in Workers : running[u] = running[t] => u = t
        /\ \A i \in 1..Len(posted) : posted[i] # running[t]
    BY <1>l, <2>1 DEF CallbackSeparate
  <2>4. Callback!Lent' = Callback!Lent \ {running[t]}
    BY <1>l, <1>m, <2>1, <2>2, <2>3
  <2> QED
    BY <2>1, <2>3, <2>4 DEF Callback!H!Return
<1>6. ASSUME NEW t \in Workers, Callback!Drop(t)
      PROVE  Callback!H!Close \/ UNCHANGED Callback!H!vars
  <2>1. holders # {} /\ Callback!Lent' = Callback!Lent /\ frees' = frees
    BY <1>6 DEF Callback!Drop, Callback!Idle, Callback!Lent
  <2>2. CASE holders' = {}
    BY <2>1, <2>2 DEF Callback!H!Close
  <2>3. CASE holders' # {}
    BY <2>1, <2>3 DEF Callback!H!vars
  <2> QED
    BY <2>2, <2>3
<1>7. ASSUME NEW t \in Workers, Callback!Frees(t)
      PROVE  Callback!H!Free \/ UNCHANGED Callback!H!vars
  <2>1. /\ holders = {} /\ frees = 0
        /\ UNCHANGED <<holders, running>>
    BY <1>7 DEF Callback!Frees, CallbackReleased
  <2>2. \A u \in Workers : running[u] = 0
    BY <2>1 DEF CallbackSeparate
  <2>3. CASE affine
    <3>1. posted' = Append(posted, 0) /\ frees' = frees
      BY <1>7, <2>3 DEF Callback!Frees
    <3>2. /\ Len(posted') = Len(posted) + 1
          /\ \A i \in 1..Len(posted) : posted'[i] = posted[i]
          /\ posted'[Len(posted) + 1] = 0
      BY <3>1, AppendProperties DEF CallbackTypes
    <3>3. \A c : (\E i \in 1..Len(posted') : posted'[i] = c) <=>
                 (c = 0 \/ \E i \in 1..Len(posted) : posted[i] = c)
      BY <1>l, <3>2
    <3>4. Callback!Lent' = Callback!Lent
      BY <1>l, <1>m, <2>1, <3>3
    <3> QED
      BY <2>1, <3>1, <3>4 DEF Callback!H!vars
  <2>4. CASE ~affine
    <3>1. posted' = posted /\ frees' = 1 /\ posted = <<>>
      BY <1>7, <2>1, <2>4 DEF Callback!Frees, CallbackReleased
    <3>2. Callback!Lent = {} /\ Callback!Lent' = {}
      BY <1>l, <1>m, <2>1, <2>2, <3>1
    <3> QED
      BY <2>1, <3>1, <3>2 DEF Callback!H!Free
  <2> QED
    BY <2>3, <2>4
<1>8. ASSUME Callback!Receives
      PROVE  Callback!H!Free \/ \E c \in 1..MaxCalls : Callback!H!Return(c)
  <2>1. /\ posted # <<>> /\ posted' = Tail(posted) /\ Head(posted) = posted[1]
        /\ frees = 0 /\ UNCHANGED <<holders, running>>
    BY <1>8 DEF Callback!Receives, CallbackTypes, CallbackReleased
  <2>2. /\ posted[1] \in 0..MaxCalls
        /\ Len(posted') = Len(posted) - 1
        /\ \A i \in 1..Len(posted') : posted'[i] = posted[i + 1]
        /\ 1 \in 1..Len(posted)
    BY <2>1, HeadTailProperties, EmptySeq DEF CallbackTypes
  <2>3. CASE posted[1] = 0
    <3>1. Len(posted) = 1 /\ holders = {} /\ frees' = 1
      <4>1. frees' = 1
        BY <1>8, <2>1, <2>3 DEF Callback!Receives
      <4> QED
        BY <2>2, <2>3, <4>1 DEF CallbackReleased
    <3>2. \A u \in Workers : running[u] = 0
      BY <3>1 DEF CallbackSeparate
    <3>3. Callback!Lent = {} /\ Callback!Lent' = {}
      <4>1. \A i \in 1..Len(posted) : posted[i] = 0
        BY <2>3, <3>1
      <4>2. \A i \in 1..Len(posted') : FALSE
        BY <2>2, <3>1
      <4> QED
        BY <1>l, <1>m, <2>1, <3>2, <4>1, <4>2
    <3> QED
      BY <2>1, <3>1, <3>3 DEF Callback!H!Free
  <2>4. CASE posted[1] # 0
    <3>1. frees' = frees /\ posted[1] \in 1..MaxCalls
      BY <1>8, <2>1, <2>2, <2>4 DEF Callback!Receives
    <3>2. /\ posted[1] \in Callback!Lent
          /\ \A u \in Workers : running[u] # posted[1]
          /\ \A i \in 1..Len(posted) : posted[i] = posted[1] => i = 1
      BY <1>l, <2>2, <2>4 DEF CallbackSeparate
    <3>3. \A c : (\E i \in 1..Len(posted') : posted'[i] = c) <=>
                 (c # posted[1] /\ \E i \in 1..Len(posted) : posted[i] = c)
      <4>1. ASSUME NEW i \in 1..Len(posted')
            PROVE  i + 1 \in 1..Len(posted) /\ posted'[i] = posted[i + 1] /\ i + 1 # 1
        BY <1>l, <1>m, <2>2
      <4>2. ASSUME NEW i \in 1..Len(posted), i # 1
            PROVE  i - 1 \in 1..Len(posted') /\ posted'[i - 1] = posted[i]
        <5>1. i - 1 \in 1..Len(posted')
          BY <1>l, <1>m, <2>2, <4>2
        <5> QED
          BY <2>2, <5>1
      <4> QED
        BY <3>2, <4>1, <4>2
    <3>4. Callback!Lent' = Callback!Lent \ {posted[1]}
      <4>1. ASSUME NEW c PROVE c \in Callback!Lent' <=> c \in Callback!Lent /\ c # posted[1]
        <5>1. running' = running
          BY <2>1
        <5> QED
          BY <1>l, <1>m, <3>2, <3>3, <5>1
      <4> QED
        BY <4>1
    <3> QED
      BY <2>1, <3>1, <3>2, <3>4 DEF Callback!H!Return
  <2> QED
    BY <2>3, <2>4
<1>9. ASSUME UNCHANGED Callback!vars PROVE UNCHANGED Callback!H!vars
  BY <1>9 DEF Callback!vars, Callback!H!vars, Callback!Lent
<1> QED
  BY <1>1, <1>2, <1>3, <1>4, <1>5, <1>6, <1>7, <1>8, <1>9 DEF Callback!Next, Callback!H!Next

================================================================================

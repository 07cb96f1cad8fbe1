------------------------------ MODULE AtomicHandle ------------------------------
(***************************************************************************)
(* Go's wvRef and Kotlin's NativeHandle: one atomic word counts the calls  *)
(* that borrow a native reference and says whether it was closed.  Several *)
(* threads close it: the program's, and the garbage collector's (Go's      *)
(* cleanup, Kotlin's cleaner thread, which may run while calls borrow it). *)
(***************************************************************************)
EXTENDS HandleThreads

VARIABLES state,    \* the word: bit 0 is set once closed, the rest counts
          seen,     \* seen[t]: what thread t loaded from it
          pc,       \* pc[t]: where thread t is
          frees     \* how many times the reference was destroyed

vars == <<state, seen, pc, frees>>

Threads == Calls \cup Closers \cup {Collector}

TypeOK ==
  /\ state \in Nat
  /\ seen \in [Threads -> Nat]
  /\ pc \in [Threads -> {"load", "swap", "lent", "free", "done"}]
  /\ frees \in 0..1

Init ==
  /\ state = 0
  /\ seen = [t \in Threads |-> 0]
  /\ pc = [t \in Threads |-> "load"]
  /\ frees = 0

IsClosed(s) == s % 2 = 1

Goes(t, place) == pc' = [pc EXCEPT ![t] = place]

(* acquire and close load the word, and give up if the handle is closed.   *)
Load(t) ==
  /\ pc[t] = "load"
  /\ seen' = [seen EXCEPT ![t] = state]
  /\ Goes(t, IF IsClosed(state) THEN "done" ELSE "swap")
  /\ UNCHANGED <<state, frees>>

(* compare-and-swap: on a change by another thread, the loop starts again. *)
Retries(t) ==
  /\ pc[t] = "swap"
  /\ state # seen[t]
  /\ Goes(t, "load")
  /\ UNCHANGED <<state, seen, frees>>

(* A defect: the word is stored, not swapped.                              *)
AcquireStores(c) ==
  /\ pc[c] = "swap"
  /\ state' = seen[c] + 2
  /\ Goes(c, "lent")
  /\ UNCHANGED <<seen, frees>>

Acquire(c) ==
  /\ pc[c] = "swap"
  /\ state = seen[c]
  /\ state' = state + 2
  /\ Goes(c, "lent")
  /\ UNCHANGED <<seen, frees>>

(* A defect: a release looks at what the word was before it.               *)
ReleaseLate(c) ==
  /\ pc[c] = "lent"
  /\ state' = state - 2
  /\ Goes(c, IF state = 1 THEN "free" ELSE "done")
  /\ UNCHANGED <<seen, frees>>

(* The call returned: the last one after a close frees the reference.      *)
Release(c) ==
  /\ pc[c] = "lent"
  /\ state' = state - 2
  /\ Goes(c, IF state' = 1 THEN "free" ELSE "done")
  /\ UNCHANGED <<seen, frees>>

Close(k) ==
  /\ pc[k] = "swap"
  /\ state = seen[k]
  /\ state' = state + 1
  /\ Goes(k, IF seen[k] = 0 THEN "free" ELSE "done")
  /\ UNCHANGED <<seen, frees>>

Destroy(t) ==
  /\ pc[t] = "free"
  /\ frees' = frees + 1
  /\ Goes(t, "done")
  /\ UNCHANGED <<state, seen>>

Next ==
  \/ \E t \in Threads : Load(t) \/ Retries(t) \/ Destroy(t)
  \/ \E c \in Calls : Acquire(c) \/ Release(c)
  \/ \E k \in Closers \cup {Collector} : Close(k)

(* A thread that is to destroy the reference runs on and does.             *)
Progress == \E t \in Threads : Destroy(t)

Spec == Init /\ [][Next]_vars /\ WF_vars(Progress)

-----------------------------------------------------------------------------
Closed == IsClosed(state)
Lent == {c \in Calls : pc[c] = "lent"}

H == INSTANCE Handle WITH closed <- Closed, lent <- Lent

(* The word says who has the reference: the calls that borrowed it, and    *)
(* whether it was closed, whatever loads the swaps raced with.             *)
CountsCalls == state = 2 * Cardinality(Lent) + (IF Closed THEN 1 ELSE 0)

(* Once closed and back from its calls, the reference is freed or about to *)
(* be, by exactly one of the closer and the last call; before that it is   *)
(* not.                                                                    *)
FreedOnce ==
  LET Freeing == {t \in Threads : pc[t] = "free"}
  IN  Cardinality(Freeing) + frees = (IF Closed /\ Lent = {} THEN 1 ELSE 0)

(* The wrapper is a handle: no call borrows it once closed, and its        *)
(* reference is not freed under a call nor twice.                          *)
HandlePromise == H!Spec

===============================================================================

------------------------------ MODULE LockedHandle ------------------------------
(***************************************************************************)
(* The object wrappers of Python and Ruby: a lock guards the pointer, the  *)
(* number of calls that borrow it and whether it is being closed; the      *)
(* reference is freed outside the lock.  Each critical section is an       *)
(* action.  Ruby clears the closing flag with the pointer and Python leaves*)
(* it: what it is from then on is left open, and nothing may depend on it. *)
(* The wrappers of JavaScript and Dart are the same on one thread, where   *)
(* calls nest and a free runs the producer's destructor before anything    *)
(* else.                                                                   *)
(***************************************************************************)
EXTENDS HandleThreads

VARIABLES held,      \* the wrapper has its pointer
          closing,
          calls,     \* calls in flight
          pc,        \* pc[t]: where thread t is
          frees      \* how many times the reference was released

vars == <<held, closing, calls, pc, frees>>

Threads == Calls \cup Closers \cup {Collector}

TypeOK ==
  /\ held \in BOOLEAN
  /\ closing \in BOOLEAN
  /\ calls \in Nat
  /\ pc \in [Threads -> {"new", "lent", "free", "done"}]
  /\ frees \in 0..1

Init ==
  /\ held = TRUE
  /\ closing = FALSE
  /\ calls = 0
  /\ pc = [t \in Threads |-> "new"]
  /\ frees = 0

Goes(t, place) == pc' = [pc EXCEPT ![t] = place]

Closed == closing \/ ~held

(* A thread that enters the wrapper: it is reachable.                      *)
Enters(t) == pc[t] = "new" /\ pc[Collector] = "new"

Acquire(c) ==
  /\ Enters(c)
  /\ ~Closed
  /\ calls' = calls + 1
  /\ Goes(c, "lent")
  /\ UNCHANGED <<held, closing, frees>>

Refused(c) ==
  /\ Enters(c)
  /\ Closed
  /\ Goes(c, "done")
  /\ UNCHANGED <<held, closing, calls, frees>>

(* A defect: the pointer stays with the wrapper.                           *)
ReleaseKeeping(c) ==
  /\ pc[c] = "lent"
  /\ calls' = calls - 1
  /\ Goes(c, IF closing /\ calls' = 0 THEN "free" ELSE "done")
  /\ UNCHANGED <<held, closing, frees>>

(* The last call after a close takes the pointer, to free it.              *)
Release(c) ==
  /\ pc[c] = "lent"
  /\ calls' = calls - 1
  /\ IF closing /\ calls' = 0
     THEN held' = FALSE /\ closing' \in BOOLEAN /\ Goes(c, "free")
     ELSE UNCHANGED <<held, closing>> /\ Goes(c, "done")
  /\ UNCHANGED frees

Close(k) ==
  /\ Enters(k)
  /\ IF Closed
     THEN UNCHANGED <<held, closing>> /\ Goes(k, "done")
     ELSE IF calls > 0
     THEN closing' = TRUE /\ UNCHANGED held /\ Goes(k, "done")
     ELSE held' = FALSE /\ closing' \in BOOLEAN /\ Goes(k, "free")
  /\ UNCHANGED <<calls, frees>>

(* __del__, or the finalizer of the pointer, of an unreachable wrapper: no *)
(* thread is in it or will be.                                             *)
Finalize ==
  /\ Enters(Collector)
  /\ \A t \in Threads : pc[t] \in {"new", "done"}
  /\ held' = FALSE
  /\ Goes(Collector, IF held THEN "free" ELSE "done")
  /\ UNCHANGED <<closing, calls, frees>>

Free(t) ==
  /\ pc[t] = "free"
  /\ frees' = frees + 1
  /\ Goes(t, "done")
  /\ UNCHANGED <<held, closing, calls>>

Next ==
  \/ \E c \in Calls : Acquire(c) \/ Refused(c) \/ Release(c)
  \/ \E k \in Closers : Close(k)
  \/ Finalize
  \/ \E t \in Threads : Free(t)

(* A thread that took the pointer runs on and frees the reference.         *)
Progress == \E t \in Threads : Free(t)

Spec == Init /\ [][Next]_vars /\ WF_vars(Progress)

-----------------------------------------------------------------------------
Lent == {c \in Calls : pc[c] = "lent"}

H == INSTANCE Handle WITH closed <- Closed, lent <- Lent

(* The pointer that leaves the wrapper is freed, or about to be, by exactly*)
(* one of the closer, the last call and the finalizer.                     *)
FreedOnce ==
  LET Freeing == {t \in Threads : pc[t] = "free"}
  IN  Cardinality(Freeing) + frees = (IF held THEN 0 ELSE 1)

(* The wrapper is a handle: no call borrows it once closed, and its        *)
(* reference is not freed under a call nor twice.                          *)
HandlePromise == H!Spec

===============================================================================

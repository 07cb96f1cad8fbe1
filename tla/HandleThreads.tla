----------------------------- MODULE HandleThreads -----------------------------
(***************************************************************************)
(* The threads that use one object wrapper of a consumer.                  *)
(***************************************************************************)
EXTENDS FiniteSets, Naturals

CONSTANTS Calls,     \* the calls that borrow the native pointer
          Closers,   \* the threads that close the wrapper
          Collector  \* the garbage collector's thread

ASSUME ThreadsAssumption ==
  /\ IsFiniteSet(Calls)
  /\ IsFiniteSet(Closers)
  /\ Calls \cap Closers = {}
  /\ Collector \notin Calls \cup Closers

===============================================================================

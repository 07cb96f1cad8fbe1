---------------------------- MODULE CallbackThreads ----------------------------
(***************************************************************************)
(* The producer's threads that share one callback's implementation.        *)
(***************************************************************************)
EXTENDS Naturals

CONSTANTS Workers,   \* the producer's threads
          Owner,     \* the one of them that passed the implementation
          MaxCalls   \* bound on the calls of its methods

ASSUME WorkersAssumption == Owner \in Workers /\ MaxCalls \in Nat

===============================================================================

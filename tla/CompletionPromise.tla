--------------------------- MODULE CompletionPromise ---------------------------
(***************************************************************************)
(* What an async launcher promises a consumer (rt/spawn.rs, rt/call.rs):   *)
(* the completion callback of a launch fires exactly once, and a call whose*)
(* token had fired before the launch never delivers the producer's result. *)
(* The module says nothing of threads, executors, or locks.                *)
(***************************************************************************)
EXTENDS Naturals

CONSTANTS Calls,     \* the async calls a consumer makes
          Tokened    \* those launched with a (non-null) cancel token

VARIABLES launched,  \* the launcher has been entered
          cancelled, \* the call's token has fired
          doomed,    \* it had fired when the launcher was entered
          fired,     \* how many times the completion ran
          outcome    \* what it was given: "none" before the first time

vars == <<launched, cancelled, doomed, fired, outcome>>

(* What the producer's own future resolves to, and every code a            *)
(* completion can carry: the future's own result, a marshalling failure    *)
(* (-3), a panic (-2), a cancellation (-5), an executor failure (-1).      *)
Results  == {"ok", "error"}
Outcomes == Results \cup {"marshal", "panic", "cancelled", "generic"}

Init == /\ launched = [c \in Calls |-> FALSE]
        /\ cancelled = [c \in Calls |-> FALSE]
        /\ doomed = [c \in Calls |-> FALSE]
        /\ fired = [c \in Calls |-> 0]
        /\ outcome = [c \in Calls |-> "none"]

Cancel(c) == /\ c \in Tokened
             /\ ~cancelled[c]
             /\ cancelled' = [cancelled EXCEPT ![c] = TRUE]
             /\ UNCHANGED <<launched, doomed, fired, outcome>>

Launch(c) == /\ ~launched[c]
             /\ launched' = [launched EXCEPT ![c] = TRUE]
             /\ doomed' = [doomed EXCEPT ![c] = cancelled[c]]
             /\ UNCHANGED <<cancelled, fired, outcome>>

Complete(c, o) == /\ launched[c]
                  /\ fired[c] = 0
                  /\ o \in Results => ~doomed[c]
                  /\ fired' = [fired EXCEPT ![c] = 1]
                  /\ outcome' = [outcome EXCEPT ![c] = o]
                  /\ UNCHANGED <<launched, cancelled, doomed>>

Next == \E c \in Calls : \/ Cancel(c)
                         \/ Launch(c)
                         \/ \E o \in Outcomes : Complete(c, o)

Spec == Init /\ [][Next]_vars

===============================================================================

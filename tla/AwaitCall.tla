-------------------------------- MODULE AwaitCall -------------------------------
(***************************************************************************)
(* What the asynchronous calls of all consumers share: the state of one    *)
(* call, the threads it runs on and the native library, which calls the    *)
(* completion once, on a thread of its own or inside the native call that  *)
(* launches the work or cancels it.  A consumer's module adds its call     *)
(* object and the steps of its runtime.                                    *)
(***************************************************************************)
EXTENDS Naturals

VARIABLES cancellable,   \* the function takes a cancel token
          token,         \* the call's reference to it
          native,        \* the native call: its outcome once it fired
          entry,         \* what the completion finds its call by
          taken,         \* the completion took the outcome
          wait,          \* how the caller waits
          pc,            \* where the caller and the canceller are
          on,            \* the thread that runs the completion
          at,            \* where the completion is
          call           \* the call object of the consumer's runtime

shared == <<cancellable, token, native, entry, taken, wait>>
threads == <<pc, on, at>>
vars == <<shared, threads, call>>

Outcomes == {"value", "failed", "cancelled"}

TypeOK ==
  /\ cancellable \in BOOLEAN
  /\ token \in {"none", "held", "destroyed"}
  /\ native \in {"idle", "running", "never"} \cup Outcomes
  /\ entry \in {"none", "kept", "gone"}
  /\ taken \in BOOLEAN
  /\ wait \in {"idle", "waiting", "threw"} \cup Outcomes
  /\ pc \in [caller : {"begin", "launch", "launching", "launched", "cancelling",
                       "draining", "destroy", "return", "throwing", "done"},
             canceller : {"idle", "cancel", "native", "cancelling", "destroy",
                          "return", "done"}]
  /\ on \in {"caller", "canceller", "worker"}
  /\ at \in {"idle", "find", "release", "dispose", "destroy", "settle", "done"}

StartsWith(object) ==
  /\ cancellable \in BOOLEAN
  /\ token = "none"
  /\ native = "idle"
  /\ entry = "none"
  /\ taken = FALSE
  /\ wait = "idle"
  /\ pc = [caller |-> "begin", canceller |-> "idle"]
  /\ on = "worker"
  /\ at = "idle"
  /\ call = object

CallerAt(place) == pc.caller = place
CallerGoes(place) == pc' = [pc EXCEPT !.caller = place]
CancellerAt(place) == pc.canceller = place
CancellerGoes(place) == pc' = [pc EXCEPT !.canceller = place]

(* What the call makes before its launch: an entry for its completion and, *)
(* for a cancellable function, a token.                                    *)
Makes ==
  /\ token' = IF cancellable THEN "held" ELSE "none"
  /\ entry' = "kept"
  /\ wait' = "waiting"
  /\ UNCHANGED <<cancellable, native, taken>>

(* The launcher is called.                                                 *)
Launch ==
  /\ CallerAt("launch")
  /\ CallerGoes("launching")
  /\ native' = "running"
  /\ UNCHANGED <<cancellable, token, entry, taken, wait, on, at, call>>

(* A completion that fires inside a native call runs there to its end.     *)
Inside(t) == on = t /\ at \notin {"idle", "done"}

Launched ==
  /\ CallerAt("launching")
  /\ ~Inside("caller")
  /\ CallerGoes("launched")
  /\ UNCHANGED <<shared, on, at, call>>

(* The launcher throws before it calls the native one: the call is         *)
(* forgotten, and the error propagates once its token is released.         *)
LaunchFails(next) ==
  /\ CallerAt("launch")
  /\ CallerGoes(next)
  /\ native' = "never"
  /\ entry' = "gone"
  /\ UNCHANGED <<cancellable, token, taken, wait>>

(* The caller's function returns, or throws.                               *)
Ends(how) ==
  /\ CallerGoes("done")
  /\ wait' = how
  /\ UNCHANGED <<cancellable, token, native, entry, taken, on, at, call>>

Threw == CallerAt("throwing") /\ ~Inside("caller") /\ Ends("threw")

(* The native call fires, on thread t: with the cancelled outcome, if it   *)
(* was cancelled or cancelled itself, or with the work's own.              *)
Fire(t, first) ==
  /\ native = "running"
  /\ \/ t = "worker"
     \/ t = "caller" /\ pc.caller \in {"launching", "cancelling"}
     \/ t = "canceller" /\ CancellerAt("cancelling")
  /\ native' \in Outcomes
  /\ on' = t
  /\ at' = first
  /\ UNCHANGED <<cancellable, token, taken, wait, pc>>

(* What the completion makes of the outcome: it may fail to read a value.  *)
(* An error that it fails to read is still a failure, if it says so.       *)
Received == {native} \cup (IF native = "value" THEN {"failed"} ELSE {})

FinishesWith(place) == at' = place /\ UNCHANGED <<pc, on>>

Users == (IF pc.caller = "cancelling" THEN {"caller"} ELSE {})
           \cup (IF pc.canceller = "cancelling" THEN {"canceller"} ELSE {})

P == INSTANCE AwaitPromise WITH users <- Users

===============================================================================

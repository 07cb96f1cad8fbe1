------------------------------- MODULE DotnetAwait ------------------------------
(***************************************************************************)
(* .NET's FfiCall: a task that a native completion settles.  The gate      *)
(* guards two flags; the completion and the callback that the caller's     *)
(* CancellationToken registers agree through them on which of them, the    *)
(* last, destroys the native token.                                        *)
(***************************************************************************)
EXTENDS AwaitCall

FfiCall ==
  [tcs |-> "active",         \* the task
   asked |-> FALSE,          \* the caller's token was cancelled
   registration |-> "none",  \* the callback registered with it
   completed |-> FALSE,
   cancelling |-> FALSE]

Init == StartsWith(FfiCall)

Refuse == CallerAt("begin") /\ call.asked /\ Ends("cancelled")

(* With a native token, the callback is registered before the launch.      *)
Begin ==
  /\ CallerAt("begin")
  /\ ~call.asked
  /\ CallerGoes("launch")
  /\ Makes
  /\ call' = [call EXCEPT !.registration = IF cancellable THEN "set" ELSE "none"]
  /\ UNCHANGED <<on, at>>

(* Without one, it is registered after the launch, unless it completed.    *)
Registers ==
  /\ CallerAt("launched")
  /\ CallerGoes("draining")
  /\ call' = [call EXCEPT !.registration =
                            IF ~cancellable /\ ~call.completed THEN "set" ELSE @]
  /\ UNCHANGED <<shared, on, at>>

Awaits == CallerAt("draining") /\ call.tcs # "active" /\ Ends(call.tcs)

(* The caller's token is cancelled; its thread runs the callback, if one is*)
(* registered (or this thread, when one is registered later).              *)
Ask ==
  /\ ~call.asked
  /\ call' = [call EXCEPT !.asked = TRUE]
  /\ UNCHANGED <<shared, threads>>

Callback ==
  /\ call.asked
  /\ call.registration = "set"
  /\ CancellerAt("idle")
  /\ CancellerGoes("cancel")
  /\ call' = [call EXCEPT !.registration = "running"]
  /\ UNCHANGED <<shared, on, at>>

TrySet(how) == IF call.tcs = "active" THEN how ELSE call.tcs

StopWaiting ==
  /\ CancellerAt("cancel")
  /\ ~cancellable
  /\ CancellerGoes("return")
  /\ call' = [call EXCEPT !.tcs = TrySet("cancelled")]
  /\ UNCHANGED <<shared, on, at>>

(* Under the gate; the native token is cancelled outside it.               *)
Cancel ==
  /\ CancellerAt("cancel")
  /\ cancellable
  /\ IF call.completed
     THEN CancellerGoes("return") /\ UNCHANGED call
     ELSE CancellerGoes("native") /\ call' = [call EXCEPT !.cancelling = TRUE]
  /\ UNCHANGED <<shared, on, at>>

CancelNative ==
  /\ CancellerAt("native")
  /\ CancellerGoes("cancelling")
  /\ UNCHANGED <<shared, on, at, call>>

(* A defect: the canceller never destroys the token.                       *)
CancelReturnsOnly ==
  /\ CancellerAt("cancelling")
  /\ ~Inside("canceller")
  /\ call' = [call EXCEPT !.cancelling = FALSE]
  /\ CancellerGoes("return")
  /\ UNCHANGED <<shared, on, at>>

CancelReturns ==
  /\ CancellerAt("cancelling")
  /\ ~Inside("canceller")
  /\ call' = [call EXCEPT !.cancelling = FALSE]
  /\ CancellerGoes(IF call.completed THEN "destroy" ELSE "return")
  /\ UNCHANGED <<shared, on, at>>

DestroysLast ==
  /\ CancellerAt("destroy")
  /\ CancellerGoes("return")
  /\ token' = "destroyed"
  /\ UNCHANGED <<cancellable, native, entry, taken, wait, on, at, call>>

CallbackReturns ==
  /\ CancellerAt("return")
  /\ CancellerGoes("done")
  /\ call' = [call EXCEPT !.registration = "ran"]
  /\ UNCHANGED <<shared, on, at>>

(* Abandon: the launcher threw, and this thread releases what was made.    *)
LaunchThrows ==
  /\ LaunchFails("throwing")
  /\ on' = "caller"
  /\ at' = "release"
  /\ UNCHANGED call

(* Complete recovers the call from its handle and frees the handle,        *)
Complete(t) == Fire(t, "find") /\ UNCHANGED <<entry, call>>

Find ==
  /\ at = "find"
  /\ entry' = "gone"
  /\ FinishesWith("release")
  /\ UNCHANGED <<cancellable, token, native, taken, wait, call>>

(* A defect: the completion does not look for a cancel that is under way.  *)
ReleaseAlways ==
  /\ at = "release"
  /\ call' = [call EXCEPT !.completed = TRUE]
  /\ FinishesWith("destroy")
  /\ UNCHANGED shared

(* Release: under the gate, then                                           *)
Release ==
  /\ at = "release"
  /\ call' = [call EXCEPT !.completed = TRUE]
  /\ FinishesWith(IF call.cancelling THEN "settle" ELSE "dispose")
  /\ UNCHANGED shared

(* unless a cancel is under way: disposing of the registration waits for a *)
(* callback that runs on another thread,                                   *)
Dispose ==
  /\ at = "dispose"
  /\ call.registration = "running" => on = "canceller"
  /\ call' = [call EXCEPT !.registration = IF @ = "set" THEN "gone" ELSE @]
  /\ FinishesWith("destroy")
  /\ UNCHANGED shared

Destroy ==
  /\ at = "destroy"
  /\ token' = IF token = "held" THEN "destroyed" ELSE token
  /\ FinishesWith("settle")
  /\ UNCHANGED <<cancellable, native, entry, taken, wait, call>>

(* and the task gets the outcome, unless the caller stopped waiting.       *)
Settle ==
  /\ at = "settle"
  /\ taken' = (native # "never")
  /\ IF native = "never" THEN UNCHANGED call
     ELSE call' \in {[call EXCEPT !.tcs = TrySet(c)] : c \in Received}
  /\ FinishesWith("done")
  /\ UNCHANGED <<cancellable, token, native, entry, wait>>

Program == \/ Refuse \/ Begin \/ Launch \/ Launched \/ Registers \/ Awaits
           \/ Threw \/ Callback \/ StopWaiting \/ Cancel \/ CancelNative
           \/ CancelReturns \/ DestroysLast \/ CallbackReturns
           \/ \E t \in {"caller", "canceller", "worker"} : Complete(t)
           \/ Find \/ Release \/ Dispose \/ Destroy \/ Settle

Next == Program \/ Ask \/ LaunchThrows

Spec == Init /\ [][Next]_vars /\ WF_vars(Program)

===============================================================================

------------------------------ MODULE PythonAwait -------------------------------
(***************************************************************************)
(* Python's asynchronous calls: a task awaits a future that the completion *)
(* hands to the event loop to resolve.  A task that is cancelled while it  *)
(* awaits cancels the native call and awaits its completion; cancelled     *)
(* again, it stops waiting.                                                *)
(***************************************************************************)
EXTENDS AwaitCall

Pending ==
  [future |-> "active",
   scheduled |-> "none",  \* what the loop is to resolve the future with
   cancels |-> 0,         \* how often the task was cancelled, at most twice
   raises |-> FALSE]      \* the wait ends with CancelledError

Init == StartsWith(Pending)

Begin ==
  /\ CallerAt("begin")
  /\ CallerGoes("launch")
  /\ Makes
  /\ UNCHANGED <<on, at, call>>

(* Whatever the launch raises, the call is abandoned.                      *)
LaunchThrows == LaunchFails("destroy") /\ UNCHANGED <<on, at, call>>

(* The loop's callbacks run while the task is suspended.                   *)
Suspended == pc.caller \in {"launched", "draining"}

Resolve ==
  /\ Suspended
  /\ call.scheduled # "none"
  /\ call' = [call EXCEPT !.scheduled = "none",
                          !.future = IF @ = "active" THEN call.scheduled ELSE @]
  /\ UNCHANGED <<shared, threads>>

(* Cancelling the task cancels the future it awaits, if that is not done,  *)
(* but not through the shield of a cancellable call's first await.         *)
CancelTask ==
  /\ Suspended
  /\ call.cancels < 2
  /\ LET shielded == cancellable /\ CallerAt("launched")
     IN  /\ call' = [call EXCEPT !.cancels = @ + 1, !.raises = TRUE,
                     !.future = IF ~shielded /\ @ = "active" THEN "cancelled" ELSE @]
         /\ IF shielded THEN CallerGoes("cancelling") ELSE UNCHANGED pc
  /\ UNCHANGED <<shared, on, at>>

(* A completion with the cancelled code is caught as a cancellation is.    *)
Awaited ==
  /\ CallerAt("launched")
  /\ call.future # "active"
  /\ CallerGoes(IF cancellable /\ call.future = "cancelled" THEN "cancelling"
                ELSE "destroy")
  /\ call' = [call EXCEPT !.raises = @ \/ call.future = "cancelled"]
  /\ UNCHANGED <<shared, on, at>>

CancelReturns ==
  /\ CallerAt("cancelling")
  /\ ~Inside("caller")
  /\ CallerGoes("draining")
  /\ UNCHANGED <<shared, on, at, call>>

Drained ==
  /\ CallerAt("draining")
  /\ call.future # "active"
  /\ CallerGoes("destroy")
  /\ UNCHANGED <<shared, on, at, call>>

(* The finally of the wait, or the handler of a launch that raised.        *)
Destroy ==
  /\ CallerAt("destroy")
  /\ CallerGoes(IF native = "never" THEN "throwing" ELSE "return")
  /\ token' = IF cancellable THEN "destroyed" ELSE token
  /\ UNCHANGED <<cancellable, native, entry, taken, wait, on, at, call>>

Return == CallerAt("return") /\ Ends(IF call.raises THEN "cancelled" ELSE call.future)

(* The trampoline takes the outcome, then settles its call.                *)
Complete(t) == Fire(t, "settle") /\ UNCHANGED <<entry, call>>

Take ==
  /\ at = "settle"
  /\ taken' = TRUE
  /\ FinishesWith("find")
  /\ UNCHANGED <<cancellable, token, native, entry, wait, call>>

Settle ==
  /\ at = "find"
  /\ entry' = "gone"
  /\ call' \in {[call EXCEPT !.scheduled = c] : c \in Received}
  /\ FinishesWith("done")
  /\ UNCHANGED <<cancellable, token, native, taken, wait>>

Program == \/ Begin \/ Launch \/ Launched \/ Resolve \/ Awaited \/ CancelReturns
           \/ Drained \/ Destroy \/ Return \/ Threw
           \/ \E t \in {"caller", "worker"} : Complete(t)
           \/ Take \/ Settle

Next == Program \/ CancelTask \/ LaunchThrows

Spec == Init /\ [][Next]_vars /\ WF_vars(Program)

===============================================================================

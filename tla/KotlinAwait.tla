------------------------------- MODULE KotlinAwait ------------------------------
(***************************************************************************)
(* Kotlin's awaitNative: a suspended coroutine that a native completion    *)
(* resumes.  The call object's monitor is held while the native token is   *)
(* cancelled; a completion that fires inside that cancel enters it again.  *)
(***************************************************************************)
EXTENDS AwaitCall

NativeCompletion ==
  [cont |-> "active",       \* the continuation
   cancelling |-> FALSE,    \* the monitor is held by a native cancel
   released |-> FALSE]      \* the completion left the token to it

Init == StartsWith(NativeCompletion)

(* Constructs the call, parks it and asks to be told of a cancellation.    *)
Begin ==
  /\ CallerAt("begin")
  /\ CallerGoes("launch")
  /\ Makes
  /\ UNCHANGED <<on, at, call>>

(* The coroutine is cancelled; its handler runs on the canceller's thread. *)
CoroutineCancelled ==
  /\ wait = "waiting"
  /\ call.cont = "active"
  /\ CancellerAt("idle")
  /\ CancellerGoes("cancel")
  /\ call' = [call EXCEPT !.cont = "cancelled"]
  /\ UNCHANGED <<shared, on, at>>

Cancel ==
  /\ CancellerAt("cancel")
  /\ IF token = "held"
     THEN CancellerGoes("cancelling") /\ call' = [call EXCEPT !.cancelling = TRUE]
     ELSE CancellerGoes("done") /\ UNCHANGED call
  /\ UNCHANGED <<shared, on, at>>

CancelReturns ==
  /\ CancellerAt("cancelling")
  /\ ~Inside("canceller")
  /\ CancellerGoes(IF call.released THEN "destroy" ELSE "done")
  /\ call' = [call EXCEPT !.cancelling = FALSE]
  /\ UNCHANGED <<shared, on, at>>

Destroys == token' = IF token = "held" THEN "destroyed" ELSE token

DestroysLeft ==
  /\ CancellerAt("destroy")
  /\ CancellerGoes("done")
  /\ Destroys
  /\ UNCHANGED <<cancellable, native, entry, taken, wait, on, at, call>>

(* The monitor is the canceller's while it cancels; it can enter again.    *)
Enters(t) == pc.canceller \in {"cancelling", "destroy"} => t = "canceller"

(* releaseToken waits for the monitor, unless this thread has it.          *)
ReleaseToken(t) ==
  /\ Enters(t)
  /\ IF call.cancelling
     THEN call' = [call EXCEPT !.released = TRUE] /\ UNCHANGED token
     ELSE Destroys /\ UNCHANGED call

(* The launch throws: the call is forgotten and the error propagates.      *)
LaunchThrows == LaunchFails("destroy") /\ UNCHANGED <<on, at, call>>

Throws ==
  /\ CallerAt("destroy")
  /\ ReleaseToken("caller")
  /\ CallerGoes("throwing")
  /\ UNCHANGED <<cancellable, native, entry, taken, wait, on, at>>

(* PendingCalls.complete: the completion finds its call,                   *)
Complete(t) == Fire(t, "find") /\ UNCHANGED <<entry, call>>

Find ==
  /\ at = "find"
  /\ entry' = "gone"
  /\ FinishesWith("release")
  /\ UNCHANGED <<cancellable, token, native, taken, wait, call>>

(* releases the token and resumes the coroutine, with the error or what    *)
(* lift makes of a result, unless it was cancelled.                        *)
Release ==
  /\ at = "release"
  /\ ReleaseToken(on)
  /\ FinishesWith("settle")
  /\ UNCHANGED <<cancellable, native, entry, taken, wait>>

Settle ==
  /\ at = "settle"
  /\ taken' = TRUE
  /\ call' \in {[call EXCEPT !.cont = IF @ = "active" THEN c ELSE @] :
                  c \in Received}
  /\ FinishesWith("done")
  /\ UNCHANGED <<cancellable, token, native, entry, wait>>

(* The exception is made of an error outside the try around lift: when its *)
(* payload cannot be read, what that throws is ignored on the way out of   *)
(* the callback, and the coroutine is not resumed.  A cancelled call's     *)
(* error is the library's own and has no payload.                          *)
SettleThrows ==
  /\ at = "settle"
  /\ native = "failed"
  /\ taken' = TRUE
  /\ FinishesWith("done")
  /\ UNCHANGED <<cancellable, token, native, entry, wait, call>>

Resume == CallerAt("launched") /\ call.cont # "active" /\ Ends(call.cont)

Program == \/ Begin \/ Launch \/ Launched \/ Throws \/ Threw \/ Resume
           \/ Cancel \/ CancelReturns \/ DestroysLeft
           \/ \E t \in {"caller", "canceller", "worker"} : Complete(t)
           \/ Find \/ Release \/ Settle \/ SettleThrows

Next == Program \/ CoroutineCancelled \/ LaunchThrows

Spec == Init /\ [][Next]_vars /\ WF_vars(Program)

===============================================================================

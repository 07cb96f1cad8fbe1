-------------------------------- MODULE GoAwait ---------------------------------
(***************************************************************************)
(* Go's wvAwait: the goroutine itself cancels the native call when its     *)
(* context is done, and receives the completion from a buffered channel.   *)
(* It destroys its token when it returns.                                  *)
(***************************************************************************)
EXTENDS AwaitCall

wvAsyncCall ==
  [done |-> "empty",   \* what the channel holds
   o |-> "none",       \* what was received from it
   ctx |-> FALSE]      \* the caller's context is done

Init == StartsWith(wvAsyncCall)

Refuse == CallerAt("begin") /\ call.ctx /\ Ends("cancelled")

Begin ==
  /\ CallerAt("begin")
  /\ ~call.ctx
  /\ CallerGoes("launch")
  /\ Makes
  /\ UNCHANGED <<on, at, call>>

ContextDone ==
  /\ ~call.ctx
  /\ call' = [call EXCEPT !.ctx = TRUE]
  /\ UNCHANGED <<shared, threads>>

(* wvAwait: select receives the outcome or sees that the context is done.  *)
(* Without a token the wait is over, and the outcome stays in the channel. *)
Receive ==
  /\ pc.caller \in {"launched", "draining"}
  /\ call.done # "empty"
  /\ call' = [call EXCEPT !.done = "empty", !.o = call.done]
  /\ CallerGoes("destroy")
  /\ UNCHANGED <<shared, on, at>>

(* A defect: a done context ends the wait of a cancellable call too.       *)
AbandonAlways == CallerAt("launched") /\ call.ctx /\ Ends("cancelled")

Abandon == CallerAt("launched") /\ call.ctx /\ ~cancellable /\ Ends("cancelled")

Cancel ==
  /\ CallerAt("launched")
  /\ call.ctx
  /\ cancellable
  /\ CallerGoes("cancelling")
  /\ UNCHANGED <<shared, on, at, call>>

CancelReturns ==
  /\ CallerAt("cancelling")
  /\ ~Inside("caller")
  /\ CallerGoes("draining")
  /\ UNCHANGED <<shared, on, at, call>>

(* The deferred destruction of the token, and the return of the outcome.   *)
Destroy ==
  /\ CallerAt("destroy")
  /\ CallerGoes("return")
  /\ token' = IF cancellable THEN "destroyed" ELSE token
  /\ UNCHANGED <<cancellable, native, entry, taken, wait, on, at, call>>

Return == CallerAt("return") /\ Ends(call.o)

(* wvComplete deletes its handle, settles and sends, and never blocks.     *)
Complete(t) == Fire(t, "find") /\ UNCHANGED <<entry, call>>

Find ==
  /\ at = "find"
  /\ entry' = "gone"
  /\ FinishesWith("settle")
  /\ UNCHANGED <<cancellable, token, native, taken, wait, call>>

Settle ==
  /\ at = "settle"
  /\ taken' = TRUE
  /\ call' \in {[call EXCEPT !.done = c] : c \in Received}
  /\ FinishesWith("done")
  /\ UNCHANGED <<cancellable, token, native, entry, wait>>

Program == \/ Refuse \/ Begin \/ Launch \/ Launched \/ Receive \/ Abandon
           \/ Cancel \/ CancelReturns \/ Destroy \/ Return
           \/ \E t \in {"caller", "worker"} : Complete(t)
           \/ Find \/ Settle

Next == Program \/ ContextDone

Spec == Init /\ [][Next]_vars /\ WF_vars(Program)

===============================================================================

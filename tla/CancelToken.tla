------------------------------ MODULE CancelToken ------------------------------
(***************************************************************************)
(* Reference-counted cancel tokens and the Cancellable future that makes a *)
(* cancellation observable (rt/cancel.rs).  Consumer threads cancel a token*)
(* while executor threads poll, or drop, the calls launched with it.  Each *)
(* action is one atomic operation of the code: an atomic load or store of  *)
(* the flag, or one critical section of a mutex.                           *)
(*                                                                         *)
(* An executor polls a task only when its waker was called, so a wake-up   *)
(* that is missed leaves a cancelled call suspended for ever.              *)
(***************************************************************************)
EXTENDS Integers, FiniteSets

CONSTANTS Tokens,        \* cancel tokens the consumer created
          Tasks,         \* in-flight cancellable calls: one Cancellable each
          TokenOf,       \* the token each call is launched with
          Cancellers,    \* consumer threads that may cancel
          NoTask

ASSUME TokenOfAssumption == TokenOf \in [Tasks -> Tokens]
ASSUME TasksAssumption == IsFiniteSet(Tasks)
ASSUME NoTaskAssumption == NoTask \notin Tasks

VARIABLES
  flag,      \* flag[t]: FfiCancelToken.cancelled
  slots,     \* slots[t]: the calls whose slot is in FfiCancelToken.registrations
  waker,     \* waker[f]: the call's WakerSlot holds a waker
  woken,     \* woken[f]: the executor is to poll the task
  pc,        \* pc[f]: where the call's Cancellable is
  result,    \* result[f]: how it ended
  step,      \* step[k]: where the thread is inside FfiCancelToken::cancel
  target,    \* target[k]: the token it cancels
  taken,     \* taken[k]: the registrations it took and has yet to wake
  waking,    \* waking[k]: the call whose waker it took and has yet to call
  consumer,  \* consumer[t]: the consumer's reference is not destroyed
  refs       \* refs[t]: the Arc's strong count

futures == <<pc, result, woken>>
thread == <<step, target, taken, waking>>
vars == <<flag, slots, waker, futures, thread, consumer, refs>>

(* A call between its launch and the drop of its Cancellable.              *)
InFlight(f) == pc[f] \notin {"new", "done"}

TypeOK ==
  /\ flag \in [Tokens -> BOOLEAN]
  /\ slots \in [Tokens -> SUBSET Tasks]
  /\ waker \in [Tasks -> BOOLEAN]
  /\ woken \in [Tasks -> BOOLEAN]
  /\ pc \in [Tasks -> {"new", "launched", "register", "store", "check", "inner",
                       "suspended", "ended", "dropped", "leaving", "done"}]
  /\ result \in [Tasks -> {"none", "cancelled", "ready", "dropped"}]
  /\ step \in [Cancellers -> {"idle", "take", "wake"}]
  /\ target \in [Cancellers -> Tokens]
  /\ taken \in [Cancellers -> SUBSET Tasks]
  /\ waking \in [Cancellers -> Tasks \cup {NoTask}]
  /\ consumer \in [Tokens -> BOOLEAN]
  /\ refs \in [Tokens -> Nat]

Init ==
  /\ flag = [t \in Tokens |-> FALSE]
  /\ slots = [t \in Tokens |-> {}]
  /\ waker = [f \in Tasks |-> FALSE]
  /\ woken = [f \in Tasks |-> FALSE]
  /\ pc = [f \in Tasks |-> "new"]
  /\ result = [f \in Tasks |-> "none"]
  /\ step = [k \in Cancellers |-> "idle"]
  /\ target \in [Cancellers -> Tokens]
  /\ taken = [k \in Cancellers |-> {}]
  /\ waking = [k \in Cancellers |-> NoTask]
  /\ consumer = [t \in Tokens |-> TRUE]
  /\ refs = [t \in Tokens |-> 1]

Goto(f, from, to) == pc[f] = from /\ pc' = [pc EXCEPT ![f] = to]

AddRefs(t, n) == refs' = [refs EXCEPT ![t] = @ + n]

-----------------------------------------------------------------------------
(* The consumer's cancel_token_cancel, on any of its threads.              *)

(* FfiCancelToken::cancel stores the flag first...                         *)
CancelStores(k, t) ==
  /\ step[k] = "idle"
  /\ consumer[t]
  /\ flag' = [flag EXCEPT ![t] = TRUE]
  /\ step' = [step EXCEPT ![k] = "take"]
  /\ target' = [target EXCEPT ![k] = t]
  /\ UNCHANGED <<slots, waker, futures, taken, waking, consumer, refs>>

(* ... then takes every registration under the lock...                     *)
CancelTakes(k) ==
  /\ step[k] = "take"
  /\ step' = [step EXCEPT ![k] = "wake"]
  /\ taken' = [taken EXCEPT ![k] = slots[target[k]]]
  /\ slots' = [slots EXCEPT ![target[k]] = {}]
  /\ UNCHANGED <<flag, waker, futures, target, waking, consumer, refs>>

(* ... and wakes each, outside it: WakerSlot::wake takes the waker under   *)
(* the slot's lock, and calls it after.                                    *)
CancelTakesWaker(k, f) ==
  /\ step[k] = "wake"
  /\ waking[k] = NoTask
  /\ f \in taken[k]
  /\ taken' = [taken EXCEPT ![k] = @ \ {f}]
  /\ waking' = [waking EXCEPT ![k] = IF waker[f] THEN f ELSE NoTask]
  /\ waker' = [waker EXCEPT ![f] = FALSE]
  /\ UNCHANGED <<flag, slots, futures, step, target, consumer, refs>>

CancelWakes(k) ==
  /\ waking[k] # NoTask
  /\ woken' = [woken EXCEPT ![waking[k]] = InFlight(waking[k])]
  /\ waking' = [waking EXCEPT ![k] = NoTask]
  /\ UNCHANGED <<flag, slots, waker, pc, result, step, target, taken, consumer,
                 refs>>

CancelReturns(k) ==
  /\ step[k] = "wake"
  /\ taken[k] = {}
  /\ waking[k] = NoTask
  /\ step' = [step EXCEPT ![k] = "idle"]
  /\ UNCHANGED <<flag, slots, waker, futures, target, taken, waking, consumer,
                 refs>>

(* cancel_token_destroy: the consumer must not be using the token.         *)
Destroy(t) ==
  /\ consumer[t]
  /\ \A k \in Cancellers : step[k] # "idle" => target[k] # t
  /\ consumer' = [consumer EXCEPT ![t] = FALSE]
  /\ AddRefs(t, -1)
  /\ UNCHANGED <<flag, slots, waker, futures, thread>>

-----------------------------------------------------------------------------
(* The call: a Cancellable future an executor polls or drops.              *)

(* A defect: the launcher borrows the consumer's reference.                *)
LaunchBorrowing(f) ==
  /\ consumer[TokenOf[f]]
  /\ Goto(f, "new", "launched")
  /\ woken' = [woken EXCEPT ![f] = TRUE]
  /\ UNCHANGED <<flag, slots, waker, result, thread, consumer, refs>>

(* The launcher takes a reference with CancelToken::from_raw, and clones   *)
(* it into the producer's future.                                          *)
Launch(f) ==
  /\ consumer[TokenOf[f]]
  /\ Goto(f, "new", "launched")
  /\ woken' = [woken EXCEPT ![f] = TRUE]
  /\ AddRefs(TokenOf[f], 2)
  /\ UNCHANGED <<flag, slots, waker, result, thread, consumer>>

(* The executor polls; the first poll makes and registers the slot.        *)
BeginPoll(f) ==
  /\ woken[f]
  /\ woken' = [woken EXCEPT ![f] = FALSE]
  /\ Goto(f, "launched", "register") \/ Goto(f, "suspended", "store")
  /\ UNCHANGED <<flag, slots, waker, result, thread, consumer, refs>>

(* A defect: the slot is made but never pushed onto the token.             *)
RegisterNowhere(f) ==
  /\ Goto(f, "register", "store")
  /\ UNCHANGED <<flag, slots, waker, result, woken, thread, consumer, refs>>

RegisterSlot(f) ==
  /\ Goto(f, "register", "store")
  /\ slots' = [slots EXCEPT ![TokenOf[f]] = @ \cup {f}]
  /\ UNCHANGED <<flag, waker, result, woken, thread, consumer, refs>>

(* A defect: the waker is stored by the first poll only, which a token     *)
(* cancelled between polls has already taken, and the flag is not read.    *)
StoreWakerAndSkipFlag(f) ==
  /\ Goto(f, "store", "inner")
  /\ waker' = [waker EXCEPT ![f] = TRUE]
  /\ UNCHANGED <<flag, slots, result, woken, thread, consumer, refs>>

(* WakerSlot::register, before the flag is read.                           *)
StoreWaker(f) ==
  /\ Goto(f, "store", "check")
  /\ waker' = [waker EXCEPT ![f] = TRUE]
  /\ UNCHANGED <<flag, slots, result, woken, thread, consumer, refs>>

(* The flag is unset: the producer's future is polled.                     *)
CheckClear(f) ==
  /\ ~flag[TokenOf[f]]
  /\ Goto(f, "check", "inner")
  /\ UNCHANGED <<flag, slots, waker, result, woken, thread, consumer, refs>>

(* The inner future goes, and with it the producer's clone of the token.   *)
EndsWith(f, from, r) ==
  /\ Goto(f, from, "ended")
  /\ result' = [result EXCEPT ![f] = r]
  /\ AddRefs(TokenOf[f], -1)
  /\ UNCHANGED <<flag, slots, waker, woken, thread, consumer>>

CheckSet(f) == flag[TokenOf[f]] /\ EndsWith(f, "check", "cancelled")

InnerReady(f) == EndsWith(f, "inner", "ready")

InnerPending(f) ==
  /\ Goto(f, "inner", "suspended")
  /\ UNCHANGED <<flag, slots, waker, result, woken, thread, consumer, refs>>

(* The producer's future wakes the task for reasons of its own.            *)
ProducerWakes(f) ==
  /\ pc[f] \in {"inner", "suspended"}
  /\ ~woken[f]
  /\ woken' = [woken EXCEPT ![f] = TRUE]
  /\ UNCHANGED <<flag, slots, waker, pc, result, thread, consumer, refs>>

(* The executor drops the task unfinished: Cancellable::drop deregisters   *)
(* first; the future and the token go after it.                            *)
ExecutorDrops(f) ==
  /\ Goto(f, "launched", "dropped") \/ Goto(f, "suspended", "dropped")
  /\ result' = [result EXCEPT ![f] = "dropped"]
  /\ UNCHANGED <<flag, slots, waker, woken, thread, consumer, refs>>

(* A defect: only a future that ended by itself is deregistered.           *)
DeregisterEnded(f) ==
  /\ \/ Goto(f, "ended", "leaving") /\ UNCHANGED refs
     \/ Goto(f, "dropped", "leaving") /\ AddRefs(TokenOf[f], -1)
  /\ slots' = [slots EXCEPT ![TokenOf[f]] =
                 IF pc[f] = "ended" THEN @ \ {f} ELSE @]
  /\ UNCHANGED <<flag, waker, result, woken, thread, consumer>>

Deregister(f) ==
  /\ \/ Goto(f, "ended", "leaving") /\ UNCHANGED refs
     \/ Goto(f, "dropped", "leaving") /\ AddRefs(TokenOf[f], -1)
  /\ slots' = [slots EXCEPT ![TokenOf[f]] = @ \ {f}]
  /\ UNCHANGED <<flag, waker, result, woken, thread, consumer>>

(* The Cancellable is dropped, with the launcher's token.                  *)
Leave(f) ==
  /\ Goto(f, "leaving", "done")
  /\ woken' = [woken EXCEPT ![f] = FALSE]
  /\ AddRefs(TokenOf[f], -1)
  /\ UNCHANGED <<flag, slots, waker, result, thread, consumer>>

-----------------------------------------------------------------------------
CancelContinues(k) ==
  \/ CancelTakes(k)
  \/ \E f \in Tasks : CancelTakesWaker(k, f)
  \/ CancelWakes(k)
  \/ CancelReturns(k)

Poll(f) ==
  \/ BeginPoll(f) \/ RegisterSlot(f) \/ StoreWaker(f)
  \/ CheckClear(f) \/ CheckSet(f) \/ InnerPending(f)
  \/ Deregister(f) \/ Leave(f)

Next ==
  \/ \E k \in Cancellers : \/ \E t \in Tokens : CancelStores(k, t)
                           \/ CancelContinues(k)
  \/ \E t \in Tokens : Destroy(t)
  \/ \E f \in Tasks : \/ Launch(f) \/ Poll(f) \/ InnerReady(f)
                      \/ ProducerWakes(f) \/ ExecutorDrops(f)

Spec == Init /\ [][Next]_vars

(* A cancel runs to its end, and an executor polls a woken task; neither   *)
(* the producer's future nor its wake-ups are counted on.                  *)
FairSpec == Spec /\ (\A k \in Cancellers : WF_vars(CancelContinues(k)))
                 /\ (\A f \in Tasks : WF_vars(Poll(f)))

-----------------------------------------------------------------------------
(* A wake-up for f is still under way in some thread's cancel.             *)
WakeUnderWay(f) ==
  \E k \in Cancellers :
    \/ waking[k] = f
    \/ f \in taken[k] /\ waker[f]
    \/ /\ step[k] = "take"
       /\ target[k] = TokenOf[f]
       /\ f \in slots[TokenOf[f]]
       /\ waker[f]

(* "A cancellation racing a poll is never missed": a call suspended on a   *)
(* cancelled token is going to be polled again, however the cancel's steps *)
(* and the poll's interleave.                                              *)
NoLostCancel ==
  \A f \in Tasks : flag[TokenOf[f]] /\ pc[f] = "suspended"
                   => woken[f] \/ WakeUnderWay(f)

(* A long-lived token keeps no slot of a call that is over, whether it was *)
(* cancelled, finished, or was dropped by its executor at any point.       *)
RegistrationsInFlight ==
  \A t \in Tokens : slots[t] \subseteq {f \in Tasks : TokenOf[f] = t /\ InFlight(f)}

(* Every thread that touches a token does so while it is alive, and its    *)
(* count goes to zero with the last holder: the consumer may destroy its   *)
(* reference while calls are in flight.                                    *)
Launchers(t) == {f \in Tasks : TokenOf[f] = t /\ InFlight(f)}
Producers(t) == {f \in Launchers(t) : pc[f] \notin {"ended", "leaving"}}

Holders(t) == (IF consumer[t] THEN 1 ELSE 0)
              + Cardinality(Launchers(t)) + Cardinality(Producers(t))

CountsHolders == \A t \in Tokens : refs[t] = Holders(t)

(* A call in flight on a cancelled token ends, whatever its future does.   *)
CancelEndsCalls ==
  \A f \in Tasks : (InFlight(f) /\ flag[TokenOf[f]]) ~> pc[f] = "done"

===============================================================================

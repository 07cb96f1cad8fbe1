------------------------------- MODULE ErrorSlot -------------------------------
(***************************************************************************)
(* Who owns the allocations that cross the C ABI when calls fail.  A call  *)
(* fills the consumer's slot, or boxes an error for a completion; a        *)
(* callback's method fills the proxy's slot, and may have allocated a      *)
(* return before it failed.  A message, a payload (an error code's fields) *)
(* and a returned run are each allocated and freed by the producer.        *)
(***************************************************************************)
EXTENDS ErrorCodes

VARIABLES pc,        \* where the call is
          boxed,     \* whether its outcome goes to a completion
          err,       \* the slot of the callback's method that runs
          ret,       \* whether that method has allocated a return
          raised,    \* the failure that the producer was given, to pass on
          out,       \* the error that the consumer is given
          result,    \* whether it is given a run
          runs,      \* the live runs, as leak.rs counts them
          lost       \* those that a panic lost

vars == <<pc, boxed, err, ret, raised, out, result, runs, lost>>

(* The payload is the code whose fields it encodes.                        *)
FfiError == [code : {None, Other} \cup Codes, message : BOOLEAN, payload : {None} \cup Codes]

Success == [code |-> None, message |-> FALSE, payload |-> None]

Count(b) == IF b THEN 1 ELSE 0
Owned(e) == Count(e.message) + Count(e.payload # None)

TypeOK ==
  /\ pc \in {"idle", "producer", "method", "outcome", "returned"}
  /\ boxed \in BOOLEAN
  /\ err \in FfiError /\ raised \in FfiError /\ out \in FfiError
  /\ ret \in BOOLEAN /\ result \in BOOLEAN
  /\ runs \in Nat /\ lost \in 0..MaxLost

Init ==
  /\ pc = "idle" /\ boxed = FALSE
  /\ err = Success /\ raised = Success /\ out = Success
  /\ ret = FALSE /\ result = FALSE
  /\ runs = 0 /\ lost = 0

-----------------------------------------------------------------------------
(* The consumer calls; what its slot held is never read.                   *)
Begins ==
  /\ pc = "idle"
  /\ pc' = "producer"
  /\ boxed' \in BOOLEAN
  /\ raised' = Success
  /\ UNCHANGED <<err, ret, out, result, runs, lost>>

(* The proxy calls the method with an empty slot of its own.               *)
CallsBack ==
  /\ pc = "producer"
  /\ pc' = "method"
  /\ err' = Success
  /\ UNCHANGED <<boxed, ret, raised, out, result, runs, lost>>

(* The method allocates what it will return (alloc), and may still fail.   *)
Allocates ==
  /\ pc = "method" /\ ~ret
  /\ ret' = TRUE
  /\ runs' = runs + 1
  /\ UNCHANGED <<pc, boxed, err, raised, out, result, lost>>

(* A defect: only the message of the error is replaced.                    *)
SetMessage(e, code, message) == [e EXCEPT !.code = code, !.message = message]

(* FfiError::set: an error that is reported over another, e, replaces it.  *)
Set(e, code, message) == [code |-> code, message |-> message, payload |-> None]

(* error_set: report_current, _callback_fail, set_error, a second time when*)
(* encoding the fields fails.                                              *)
Reports(code, message) ==
  /\ pc = "method"
  /\ err' = Set(err, code, message)
  /\ runs' = (runs + Owned(err')) - Owned(err)
  /\ UNCHANGED <<pc, boxed, ret, raised, out, result, lost>>

(* error_set_payload: the fields of the error reported, never of another.  *)
(* They replace, and free, the payload it had.                             *)
Attaches ==
  /\ pc = "method"
  /\ err.code \in Codes
  /\ err' = [err EXCEPT !.payload = err.code]
  /\ runs' = (runs + 1) - Count(err.payload # None)
  /\ UNCHANGED <<pc, boxed, ret, raised, out, result, lost>>

(* failure: a declared code whose fields decode arrives typed; anything    *)
(* else is a failure of the callback.                                      *)
Failure(e) ==
  IF e.code \in Codes /\ e.payload # None
  THEN e ELSE [code |-> Other, message |-> TRUE, payload |-> None]

(* A defect: the failure is looked at first, and the return forgotten.     *)
AdoptedUnlessFailed(e, r) == r /\ e.code = None

(* callback_value: whether the return is adopted, and its run freed.       *)
Adopted(e, r) == r

(* The proxy takes the outcome of the method: the return is adopted, the   *)
(* failure decoded and the slot dropped.  A return that is malformed fails.*)
Answers ==
  /\ pc = "method"
  /\ \/ err.code # None /\ raised' = Failure(err)
     \/ err.code = None /\ raised' = Success
     \/ err.code = None /\ ret /\ raised' = [Success EXCEPT !.code = Other]
  /\ runs' = runs - Owned(err) - Count(Adopted(err, ret))
  /\ pc' = IF raised'.code = None THEN "producer" ELSE "outcome"
  /\ err' = Success /\ ret' = FALSE
  /\ UNCHANGED <<boxed, out, result, lost>>

(* A custom type's lift panics: its run is not released, the slot is.      *)
AdoptPanics ==
  /\ pc = "method" /\ ret /\ lost < MaxLost
  /\ pc' = "outcome"
  /\ raised' = [Success EXCEPT !.code = Other]
  /\ runs' = runs - Owned(err)
  /\ lost' = lost + 1
  /\ err' = Success /\ ret' = FALSE
  /\ UNCHANGED <<boxed, out, result>>

(* The producer goes on after the failure of its callback, or fails.       *)
Recovers ==
  /\ pc = "outcome"
  /\ pc' = "producer"
  /\ raised' = Success
  /\ UNCHANGED <<boxed, err, ret, out, result, runs, lost>>

Fails(code) ==
  /\ pc = "producer"
  /\ pc' = "outcome"
  /\ raised' = [code |-> code, message |-> TRUE,
                payload |-> IF code \in Codes THEN code ELSE None]
  /\ UNCHANGED <<boxed, err, ret, out, result, runs, lost>>

-----------------------------------------------------------------------------
(* into_ffi allocates an error anew from the one the producer returns.     *)
IntoFfi(e, message) == Set(Success, e.code, message)

Lowers(e, message) ==
  IF e.code \in Codes THEN [IntoFfi(e, message) EXCEPT !.payload = e.payload]
  ELSE IntoFfi(e, message)

(* call stores a failure in the slot, over whatever it held; an async call *)
(* boxes it for its completion.                                            *)
Throws(message) ==
  /\ pc = "outcome"
  /\ pc' = "returned"
  /\ out' = Lowers(raised, message)
  /\ runs' = runs + Owned(out')
  /\ UNCHANGED <<boxed, err, ret, raised, result, lost>>

(* It returns a value, which may be a run that the consumer owns.          *)
Returns ==
  /\ pc = "producer"
  /\ pc' = "returned"
  /\ out' = Success
  /\ result' \in BOOLEAN
  /\ runs' = runs + Count(result')
  /\ UNCHANGED <<boxed, err, ret, raised, lost>>

(* An async call without a completion: a result is dropped unlowered and   *)
(* the error, boxed like any, is freed by the launcher.                    *)
Discards ==
  /\ boxed
  /\ pc \in {"producer", "outcome"}
  /\ pc' = "idle"
  /\ raised' = Success
  /\ UNCHANGED <<boxed, err, ret, out, result, runs, lost>>

(* The binding copies what it was given and releases it: error_clear, or   *)
(* error_free of a box, and run_free.                                      *)
Releases ==
  /\ pc = "returned"
  /\ pc' = "idle"
  /\ runs' = runs - Owned(out) - Count(result)
  /\ out' = Success /\ result' = FALSE
  /\ UNCHANGED <<boxed, err, ret, raised, lost>>

Next ==
  \/ Begins \/ CallsBack \/ Allocates \/ Attaches \/ Answers \/ AdoptPanics
  \/ \E code \in {Other} \cup Codes, message \in BOOLEAN : Reports(code, message)
  \/ \E code \in {Other} \cup Codes : Fails(code)
  \/ \E message \in BOOLEAN : Throws(message)
  \/ Recovers \/ Returns \/ Discards \/ Releases

Spec == Init /\ [][Next]_vars

-----------------------------------------------------------------------------
(* Every run has one owner: a slot, a box, a return or a result.  None is  *)
(* lost, except the return whose adoption panics, and none freed twice,    *)
(* however often a method reports and whether it fails after allocating.   *)
RunsOwned ==
  runs = Owned(err) + Owned(out) + Count(ret) + Count(result) + lost

(* A typed error is decoded with the fields of its own code, by the        *)
(* producer and by the consumer, whatever was reported before it.          *)
FieldsOfTheCode ==
  \A e \in {raised, out} : e.payload \in {None, e.code}

===============================================================================

------------------------------- MODULE MCConsumers ------------------------------
(***************************************************************************)
(* The runtimes of the consumers, for TLC: a behaviour is one of one part, *)
(* an object wrapper, an implementation that the producer holds, an        *)
(* asynchronous call, or calls and callbacks that fail.  What the parts of *)
(* a kind promise is stated once.                                          *)
(***************************************************************************)
EXTENDS HandleThreads, CallbackThreads, ErrorCodes, Sequences

VARIABLES part, pc, frees,
          state, seen,
          held, closing, calls,
          affine, holders, running, freeing, made, posted,
          cancellable, token, native, entry, taken, wait, on, at, call,
          boxed, err, ret, raised, out, result, runs, lost

vars == <<part, pc, frees, state, seen, held, closing, calls,
          affine, holders, running, freeing, made, posted,
          cancellable, token, native, entry, taken, wait, on, at, call,
          boxed, err, ret, raised, out, result, runs, lost>>

Atomic == INSTANCE AtomicHandle
Locked == INSTANCE LockedHandle
Callback == INSTANCE ForeignCallback
Call == INSTANCE AwaitCall
KotlinCall == INSTANCE KotlinAwait
DotnetCall == INSTANCE DotnetAwait
PythonCall == INSTANCE PythonAwait
GoCall == INSTANCE GoAwait
Errors == INSTANCE ErrorSlot

Awaits == {"kotlin call", "dotnet call", "python call", "go call"}

(* The variables of the other parts.                                       *)
NoAtomic == state = 0 /\ seen = 0
NoLocked == held = 0 /\ closing = 0 /\ calls = 0
NoCallback == affine = FALSE /\ holders = 0 /\ running = 0 /\ freeing = 0 /\ made = 0 /\ posted = 0
NoCall == /\ cancellable = FALSE
          /\ token = "none" /\ native = "idle" /\ entry = "none"
          /\ taken = FALSE /\ wait = "idle"
          /\ on = 0 /\ at = 0 /\ call = 0
NoError == /\ boxed = FALSE /\ err = 0 /\ ret = FALSE /\ raised = 0
           /\ out = 0 /\ result = FALSE /\ runs = 0 /\ lost = 0

KeepAtomic == UNCHANGED <<state, seen>>
KeepLocked == UNCHANGED <<held, closing, calls>>
KeepCallback == UNCHANGED <<affine, holders, running, freeing, made, posted>>
KeepCall == UNCHANGED <<cancellable, token, native, entry, taken, wait, on, at, call>>
KeepError == UNCHANGED <<boxed, err, ret, raised, out, result, runs, lost>>

OnlyAtomic == UNCHANGED part /\ KeepLocked /\ KeepCallback /\ KeepCall
              /\ KeepError
OnlyLocked == UNCHANGED part /\ KeepAtomic /\ KeepCallback /\ KeepCall
              /\ KeepError
OnlyCallback == UNCHANGED <<part, pc>> /\ KeepAtomic /\ KeepLocked /\ KeepCall
                /\ KeepError
OnlyCall == UNCHANGED <<part, frees>> /\ KeepAtomic /\ KeepLocked /\ KeepCallback
            /\ KeepError
OnlyError == UNCHANGED <<part, frees>> /\ KeepAtomic /\ KeepLocked /\ KeepCallback /\ KeepCall

Init ==
  \/ part = "atomic" /\ Atomic!Init /\ NoLocked /\ NoCallback /\ NoCall /\ NoError
  \/ part = "locked" /\ Locked!Init /\ NoAtomic /\ NoCallback /\ NoCall /\ NoError
  \/ part = "callback" /\ pc = 0 /\ Callback!Init /\ NoAtomic /\ NoLocked /\ NoCall /\ NoError
  \/ /\ frees = 0 /\ NoAtomic /\ NoLocked /\ NoCallback /\ NoError
     /\ \/ part = "kotlin call" /\ KotlinCall!Init
        \/ part = "dotnet call" /\ DotnetCall!Init
        \/ part = "python call" /\ PythonCall!Init
        \/ part = "go call" /\ GoCall!Init
  \/ /\ part = "errors" /\ Errors!Init /\ frees = 0
     /\ NoAtomic /\ NoLocked /\ NoCallback /\ NoCall

Next ==
  \/ part = "atomic" /\ Atomic!Next /\ OnlyAtomic
  \/ part = "locked" /\ Locked!Next /\ OnlyLocked
  \/ part = "callback" /\ Callback!Next /\ OnlyCallback
  \/ part = "kotlin call" /\ KotlinCall!Next /\ OnlyCall
  \/ part = "dotnet call" /\ DotnetCall!Next /\ OnlyCall
  \/ part = "python call" /\ PythonCall!Next /\ OnlyCall
  \/ part = "go call" /\ GoCall!Next /\ OnlyCall
  \/ part = "errors" /\ Errors!Next /\ OnlyError

(* Every part is fair to the steps that its own specification is fair to:  *)
(* a behaviour has finitely many of them, so they are all taken.           *)
Progress ==
  \/ part = "atomic" /\ Atomic!Progress /\ OnlyAtomic
  \/ part = "locked" /\ Locked!Progress /\ OnlyLocked
  \/ part = "callback" /\ Callback!Progress /\ OnlyCallback
  \/ part = "kotlin call" /\ KotlinCall!Program /\ OnlyCall
  \/ part = "dotnet call" /\ DotnetCall!Program /\ OnlyCall
  \/ part = "python call" /\ PythonCall!Program /\ OnlyCall
  \/ part = "go call" /\ GoCall!Program /\ OnlyCall

Spec == Init /\ [][Next]_vars /\ WF_vars(Progress)

-----------------------------------------------------------------------------
(* The state of the part that runs has its type.                           *)
TypeOK ==
  CASE part = "atomic" -> Atomic!TypeOK
    [] part = "locked" -> Locked!TypeOK
    [] part = "callback" -> Callback!TypeOK
    [] part \in Awaits -> Call!TypeOK
    [] part = "errors" -> Errors!TypeOK

(* The atomic word of Go's and Kotlin's wrappers counts the calls that     *)
(* borrowed the reference and says whether it was closed, whatever the     *)
(* loads that the swaps raced with.                                        *)
CountsCalls == part = "atomic" => Atomic!CountsCalls

(* The reference that leaves a wrapper is freed, or about to be, by exactly*)
(* one of the threads that close it, its last call and the collector.      *)
FreedOnce ==
  CASE part = "atomic" -> Atomic!FreedOnce
    [] part = "locked" -> Locked!FreedOnce
    [] OTHER -> TRUE

H == INSTANCE Handle WITH
       Calls <- Calls \cup 1..MaxCalls,
       closed <- CASE part = "atomic" -> Atomic!Closed
                   [] part = "locked" -> Locked!Closed
                   [] part = "callback" -> holders = {}
                   [] OTHER -> FALSE,
       lent <- CASE part = "atomic" -> Atomic!Lent
                 [] part = "locked" -> Locked!Lent
                 [] part = "callback" -> Callback!Lent
                 [] OTHER -> {}

(* A wrapper's reference and a callback's implementation are handles: no   *)
(* call borrows one that was closed, it is not freed under a call, on      *)
(* whatever thread that runs or as a message, and it is freed once,        *)
HandlePromise == H!Spec

(* and it is freed: when the last call returns, the last message arrives.  *)
HandleFreed == H!Frees

P == INSTANCE AwaitPromise WITH
       users <- IF part \in Awaits THEN Call!Users ELSE {}

(* The completion finds its call, wherever it fires, takes its outcome, and*)
(* ends a wait that still waits; the call's token is destroyed once, and   *)
(* never under the native call that cancels it.                            *)
AwaitPromise == P!Spec

(* Kotlin's completion ended and did not resume the coroutine: it failed to*)
(* read the error.                                                         *)
Abandoned == part = "kotlin call" /\ at = "done" /\ call.cont = "active"

(* A call that fires, or could not be launched, releases its token and its *)
(* entry, whatever its cancellation raced with, and ends its wait, unless  *)
(* Kotlin's completion abandons the coroutine: it waits until it is        *)
(* cancelled, and nothing says that it will be.                            *)
AwaitEnds == P!Over ~> P!Settled /\ (wait # "waiting" \/ Abandoned)

(* Go and .NET: the wait for a cancellable call that was launched does not *)
(* end, cancelled or not, before its native call does.                     *)
Ended == wait \notin {"idle", "waiting"}

WaitsForNative ==
  part \in {"go call", "dotnet call"} /\ cancellable /\ Ended => native # "running"

(* Every run that a call, its callback or its error allocates has one owner*)
(* and is freed once, whatever fails; only a panicking adoption loses one. *)
RunsOwned == part = "errors" => Errors!RunsOwned

(* A typed error arrives with the fields of its own code on either side,   *)
(* whatever its slot held before.                                          *)
FieldsOfTheCode == part = "errors" => Errors!FieldsOfTheCode

(* "Cancelling the awaiting task cancels the native call and waits for its *)
(* (cancelled) completion before raising, so nothing outlives the call."   *)
(* (python/runtime/cancel.py:11)                                           *)
NothingOutlivesCall ==
  part = "python call" /\ cancellable /\ Ended => native # "running"

===============================================================================

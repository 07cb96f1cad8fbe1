------------------------------- MODULE Crossing -------------------------------
(***************************************************************************)
(* References to one object, and callbacks, crossing the C ABI in          *)
(* synchronous calls (rt/object.rs, the lifting in rt/types.rs, callbacks  *)
(* in rt/callback.rs, and the thunks weaveffi-macros/src/function.rs       *)
(* expands to).                                                            *)
(*                                                                         *)
(* An argument is the sequence of the parts a thunk lifts from it that     *)
(* matter here: "borrow" is &T, "arc" an owned Arc<T>, "token" an object   *)
(* token in a value buffer, "callback" a callback argument.  At "reject"   *)
(* the lift fails (a null object, a malformed buffer, a value a custom     *)
(* type's lift rejects) and at "panic" a custom type's lift panics.        *)
(***************************************************************************)
EXTENDS Integers, Sequences, FiniteSets

CONSTANTS Calls,       \* calls of the consumer's threads, each made once
          Signatures,  \* the argument lists they may pass
          Width,       \* a bound on arguments, and on an argument's parts
          MaxHandles   \* a bound on the references the consumer owns

Parts == {"borrow", "arc", "token", "callback", "reject", "panic"}
Objects == {"arc", "token"}

ASSUME CallsAssumption == IsFiniteSet(Calls)
ASSUME WidthAssumption == Width \in Nat
ASSUME SignaturesAssumption ==
  \A a \in Signatures : /\ a \in Seq(Seq(Parts))
                        /\ Len(a) <= Width
                        /\ \A i \in DOMAIN a : Len(a[i]) <= Width

VARIABLES
  strong,     \* the Arc's strong count
  live,       \* the leak counter OBJECTS
  callbacks,  \* the leak counter CALLBACKS
  handles,    \* the references the consumer owns, but for those it sent
  phase,      \* phase[c]: where the call is
  args,       \* args[c]: its arguments
  arg, part,  \* arg[c], part[c]: the part it lifts next
  failed,     \* failed[c]: the arguments whose lift failed
  outcome,    \* outcome[c]: what it reports
  place,      \* place[p]: where a part passed in a call is
  result      \* result[c]: where the object a method of a callback returned is

counters == <<strong, live, callbacks>>
cursor == <<arg, part>>
call == <<phase, args, cursor, failed, outcome>>
vars == <<counters, handles, call, place, result>>

Positions == Calls \X (1 .. Width) \X (1 .. Width)

IsPart(p) == p[2] \in DOMAIN args[p[1]] /\ p[3] \in DOMAIN args[p[1]][p[2]]
Kind(p) == args[p[1]][p[2]][p[3]]
Own(c) == {p \in Positions : p[1] = c /\ IsPart(p)}

(* The references to the object at places of S.                            *)
References(S) ==
  {p \in Positions : place[p] \in S /\ IsPart(p) /\ Kind(p) \in Objects}
Callbacks(S) ==
  {p \in Positions : place[p] \in S /\ IsPart(p) /\ Kind(p) = "callback"}
Results(S) == {c \in Calls : result[c] \in S}

TypeOK ==
  /\ strong \in Nat
  /\ live \in Nat
  /\ callbacks \in Nat
  /\ handles \in Nat
  /\ phase \in [Calls -> {"idle", "encode", "lift", "reject", "run", "unwind", "done"}]
  /\ args \in [Calls -> Signatures \cup {<<>>}]
  /\ arg \in [Calls -> 1 .. Width + 1]
  /\ part \in [Calls -> 1 .. Width + 1]
  /\ failed \in [Calls -> SUBSET (1 .. Width)]
  /\ outcome \in [Calls -> {"none", "ok", "error", "marshal", "panic"}]
  /\ place \in [Positions -> {"absent", "sent", "local", "kept", "gone"}]
  /\ result \in [Calls -> {"none", "moved", "lifted", "owned"}]

(* The consumer has the reference a constructor lowered.                   *)
Init ==
  /\ strong = 1
  /\ live = 1
  /\ callbacks = 0
  /\ handles = 1
  /\ phase = [c \in Calls |-> "idle"]
  /\ args = [c \in Calls |-> <<>>]
  /\ arg = [c \in Calls |-> 1]
  /\ part = [c \in Calls |-> 1]
  /\ failed = [c \in Calls |-> {}]
  /\ outcome = [c \in Calls |-> "none"]
  /\ place = [p \in Positions |-> "absent"]
  /\ result = [c \in Calls |-> "none"]

Goto(c, from, to) == phase[c] = from /\ phase' = [phase EXCEPT ![c] = to]
Move(p, from, to) == place[p] = from /\ place' = [place EXCEPT ![p] = to]

(* Leak counters and counts change by the same amounts.                    *)
Track(n, l) == strong' = strong + n /\ live' = live + l /\ UNCHANGED callbacks

(* A call lends the consumer's reference for as long as it runs.           *)
Lends(c) == /\ phase[c] \notin {"idle", "done"}
            /\ \E p \in Own(c) : Kind(p) \in {"borrow", "arc"}

-----------------------------------------------------------------------------
(* The consumer's references.                                              *)

(* object_clone.                                                           *)
Clone ==
  /\ handles \in 1 .. MaxHandles - 1
  /\ handles' = handles + 1
  /\ Track(1, 1)
  /\ UNCHANGED <<call, place, result>>

(* object_destroy; the consumer keeps the reference it lends to a call.    *)
Destroy ==
  /\ handles > 0
  /\ handles = 1 => \A c \in Calls : ~Lends(c)
  /\ handles' = handles - 1
  /\ Track(-1, -1)
  /\ UNCHANGED <<call, place, result>>

-----------------------------------------------------------------------------
(* The consumer makes a call.                                              *)

Begin(c, a) ==
  /\ handles > 0
  /\ Goto(c, "idle", "encode")
  /\ args' = [args EXCEPT ![c] = a]
  /\ UNCHANGED <<counters, handles, cursor, failed, outcome, place, result>>

(* A token carries a reference of its own, which _clone returned.          *)
EncodeToken(c, p) ==
  /\ phase[c] = "encode"
  /\ handles > 0
  /\ p \in Own(c)
  /\ Kind(p) = "token"
  /\ Move(p, "absent", "sent")
  /\ Track(1, 1)
  /\ UNCHANGED <<handles, call, result>>

PassCallback(c, p) ==
  /\ phase[c] = "encode"
  /\ p \in Own(c)
  /\ Kind(p) = "callback"
  /\ Move(p, "absent", "sent")
  /\ UNCHANGED <<counters, handles, call, result>>

Enter(c) ==
  /\ Goto(c, "encode", "lift")
  /\ \A p \in Own(c) : Kind(p) \in {"token", "callback"} => place[p] = "sent"
  /\ UNCHANGED <<counters, handles, args, cursor, failed, outcome, place, result>>

-----------------------------------------------------------------------------
(* The thunk lifts every argument, in order.                               *)

Here(c) == <<c, arg[c], part[c]>>
Lifts(c, kind) == /\ phase[c] = "lift"
                  /\ Here(c) \in Own(c)
                  /\ Kind(Here(c)) = kind

NextPart(c) == part' = [part EXCEPT ![c] = @ + 1]
NextArg(c) == /\ arg' = [arg EXCEPT ![c] = @ + 1]
              /\ part' = [part EXCEPT ![c] = 1]

(* object_ref: the count stays.                                            *)
LiftBorrow(c) ==
  /\ Lifts(c, "borrow")
  /\ NextPart(c)
  /\ UNCHANGED <<counters, handles, phase, args, arg, failed, outcome, place,
                 result>>

(* A defect: the thunk takes the consumer's reference.                     *)
LiftArcTaking(c) ==
  /\ Lifts(c, "arc")
  /\ Move(Here(c), "absent", "local")
  /\ Track(0, 0)
  /\ NextPart(c)
  /\ UNCHANGED <<handles, phase, args, arg, failed, outcome, result>>

(* object_arc: a new reference.                                            *)
LiftArc(c) ==
  /\ Lifts(c, "arc")
  /\ Move(Here(c), "absent", "local")
  /\ Track(1, 0)
  /\ NextPart(c)
  /\ UNCHANGED <<handles, phase, args, arg, failed, outcome, result>>

(* A defect: the leak counter still counts the token.                      *)
LiftTokenUntracked(c) ==
  /\ Lifts(c, "token")
  /\ Move(Here(c), "sent", "local")
  /\ Track(0, 0)
  /\ NextPart(c)
  /\ UNCHANGED <<handles, phase, args, arg, failed, outcome, result>>

(* object_from_token: the reader adopts the token's reference.             *)
LiftToken(c) ==
  /\ Lifts(c, "token")
  /\ Move(Here(c), "sent", "local")
  /\ Track(0, -1)
  /\ NextPart(c)
  /\ UNCHANGED <<handles, phase, args, arg, failed, outcome, result>>

(* ForeignCallback::adopt.                                                 *)
LiftCallback(c) ==
  /\ Lifts(c, "callback")
  /\ Move(Here(c), "sent", "local")
  /\ callbacks' = callbacks + 1
  /\ NextPart(c)
  /\ UNCHANGED <<strong, live, handles, phase, args, arg, failed, outcome, result>>

(* A defect: a rejected argument fails the call at once.                   *)
RejectAtOnce(c) ==
  /\ Lifts(c, "reject")
  /\ phase' = [phase EXCEPT ![c] = "unwind"]
  /\ failed' = [failed EXCEPT ![c] = @ \cup {arg[c]}]
  /\ outcome' = [outcome EXCEPT ![c] = "marshal"]
  /\ UNCHANGED <<counters, handles, args, cursor, place, result>>

(* The lift of this argument fails: what it read is dropped, what it did   *)
(* not read stays in the buffer, and the next argument is lifted.          *)
Reject(c) ==
  /\ Lifts(c, "reject")
  /\ phase' = [phase EXCEPT ![c] = "reject"]
  /\ failed' = [failed EXCEPT ![c] = @ \cup {arg[c]}]
  /\ UNCHANGED <<counters, handles, args, cursor, outcome, place, result>>

LiftNext(c) ==
  /\ phase[c] \in {"lift", "reject"}
  /\ arg[c] \in DOMAIN args[c]
  /\ phase[c] = "lift" => part[c] > Len(args[c][arg[c]])
  /\ phase[c] = "reject" => \A p \in Own(c) : p[2] = arg[c] => place[p] # "local"
  /\ NextArg(c)
  /\ phase' = [phase EXCEPT ![c] = "lift"]
  /\ UNCHANGED <<counters, handles, args, failed, outcome, place, result>>

(* The panic leaves the thunk's body, which lifts nothing more.            *)
LiftPanics(c) ==
  /\ Lifts(c, "panic")
  /\ phase' = [phase EXCEPT ![c] = "unwind"]
  /\ failed' = [failed EXCEPT ![c] = @ \cup {arg[c]}]
  /\ outcome' = [outcome EXCEPT ![c] = "panic"]
  /\ UNCHANGED <<counters, handles, args, cursor, place, result>>

(* The arguments are unwrapped in order, and the first failure reported.   *)
Unwrap(c) ==
  /\ phase[c] = "lift"
  /\ arg[c] = Len(args[c]) + 1
  /\ IF failed[c] = {}
     THEN /\ phase' = [phase EXCEPT ![c] = "run"]
          /\ UNCHANGED outcome
     ELSE /\ phase' = [phase EXCEPT ![c] = "unwind"]
          /\ outcome' = [outcome EXCEPT ![c] = "marshal"]
  /\ UNCHANGED <<counters, handles, args, cursor, failed, place, result>>

-----------------------------------------------------------------------------
(* The producer's function.                                                *)

Holds(c) == \/ \E p \in Own(c) : Kind(p) = "borrow"
            \/ \E p \in References({"local"}) : p[1] = c
            \/ References({"kept"}) # {}
HasCallback(c) == Callbacks({"kept"}) # {} \/ \E p \in Callbacks({"local"}) : p[1] = c

(* It stores an argument it owns.                                          *)
Keep(c, p) ==
  /\ phase[c] = "run"
  /\ p \in Own(c)
  /\ Move(p, "local", "kept")
  /\ UNCHANGED <<counters, handles, call, result>>

(* It passes the object to a method of a callback: lend_object.            *)
Lend(c) ==
  /\ phase[c] = "run"
  /\ Holds(c) /\ HasCallback(c)
  /\ handles < MaxHandles
  /\ handles' = handles + 1
  /\ Track(1, 1)
  /\ UNCHANGED <<call, place, result>>

(* A method returns the object, a fresh _clone ...                         *)
MethodReturns(c) ==
  /\ phase[c] = "run"
  /\ HasCallback(c)
  /\ handles > 0
  /\ result[c] = "none"
  /\ result' = [result EXCEPT ![c] = "moved"]
  /\ Track(1, 1)
  /\ UNCHANGED <<handles, call, place>>

(* ... that is adopted, whether or not the method failed: lifted ...       *)
AdoptLifts(c) ==
  /\ result[c] = "moved"
  /\ result' = [result EXCEPT ![c] = "lifted"]
  /\ Track(1, 0)
  /\ UNCHANGED <<handles, call, place>>

(* A defect: what was lifted is not released.                              *)
AdoptKeeps(c) ==
  /\ result[c] = "lifted"
  /\ result' = [result EXCEPT ![c] = "owned"]
  /\ Track(0, -1)
  /\ UNCHANGED <<handles, call, place>>

(* ... and released.                                                       *)
AdoptReleases(c) ==
  /\ result[c] = "lifted"
  /\ result' = [result EXCEPT ![c] = "owned"]
  /\ Track(-1, -1)
  /\ UNCHANGED <<handles, call, place>>

DropResult(c) ==
  /\ result[c] = "owned"
  /\ result' = [result EXCEPT ![c] = "none"]
  /\ Track(-1, 0)
  /\ UNCHANGED <<handles, call, place>>

Returns(c, how) ==
  /\ Goto(c, "run", "unwind")
  /\ result[c] \in {"none", "owned"}
  /\ outcome' = [outcome EXCEPT ![c] = how]
  /\ UNCHANGED <<counters, handles, args, cursor, failed, place, result>>

(* It returns an Arc it owns: lower_object moves the reference.            *)
ReturnsObject(c, p) ==
  /\ Goto(c, "run", "unwind")
  /\ result[c] \in {"none", "owned"}
  /\ p \in Own(c) \cap References({"local"})
  /\ Move(p, "local", "gone")
  /\ handles < MaxHandles
  /\ handles' = handles + 1
  /\ Track(0, 1)
  /\ outcome' = [outcome EXCEPT ![c] = "ok"]
  /\ UNCHANGED <<args, cursor, failed, result>>

-----------------------------------------------------------------------------
(* What is dropped: a reference, or a callback, whose free is called.      *)

Release(p) ==
  IF Kind(p) = "callback"
  THEN callbacks' = callbacks - 1 /\ UNCHANGED <<strong, live>>
  ELSE Track(-1, 0)

(* By the call, in any order: the producer's function, its return or its   *)
(* unwinding drops what the call still owns.                               *)
Drop(c, p) ==
  /\ p \in Own(c)
  /\ \/ phase[c] \in {"run", "unwind"}
     \/ phase[c] = "reject" /\ p[2] = arg[c]
  /\ Move(p, "local", "gone")
  /\ Release(p)
  /\ UNCHANGED <<handles, call, result>>

(* By the producer, later and on any thread.                               *)
DropKept(p) ==
  /\ p \in References({"kept"}) \cup Callbacks({"kept"})
  /\ Move(p, "kept", "gone")
  /\ Release(p)
  /\ UNCHANGED <<handles, call, result>>

Done(c) ==
  /\ Goto(c, "unwind", "done")
  /\ \A p \in Own(c) : place[p] # "local"
  /\ result[c] = "none"
  /\ UNCHANGED <<counters, handles, args, cursor, failed, outcome, place, result>>

-----------------------------------------------------------------------------
Thunk(c) ==
  \/ LiftBorrow(c) \/ LiftArc(c) \/ LiftToken(c) \/ LiftCallback(c)
  \/ Reject(c) \/ LiftNext(c) \/ LiftPanics(c) \/ Unwrap(c)
  \/ Lend(c) \/ MethodReturns(c) \/ AdoptLifts(c) \/ AdoptReleases(c) \/ DropResult(c)
  \/ \E how \in {"ok", "error", "panic"} : Returns(c, how)
  \/ \E p \in Positions : Keep(c, p) \/ ReturnsObject(c, p) \/ Drop(c, p)
  \/ Done(c)

Consumer(c) ==
  \/ \E a \in Signatures : Begin(c, a)
  \/ \E p \in Positions : EncodeToken(c, p) \/ PassCallback(c, p)
  \/ Enter(c)

Next ==
  \/ Clone \/ Destroy
  \/ \E c \in Calls : Consumer(c) \/ Thunk(c)
  \/ \E p \in Positions : DropKept(p)

Spec == Init /\ [][Next]_vars

-----------------------------------------------------------------------------
(* Every reference to the object is counted once, wherever it is, on every *)
(* path a call can take: the object is dropped neither while one is left   *)
(* (in a wrapper, a buffer, a thunk, the producer) nor never.              *)
CountExact ==
  strong = handles + Cardinality(References({"sent", "local", "kept"}))
                   + Cardinality(Results({"moved", "lifted", "owned"}))
                   + Cardinality(Results({"lifted"}))

(* The leak counters tell the truth: OBJECTS counts the references the     *)
(* consumer holds and those in tokens nobody has read, CALLBACKS the       *)
(* implementations the producer holds, whose free is yet to be called.     *)
CountersExact ==
  /\ live = handles + Cardinality(References({"sent"}))
                    + Cardinality(Results({"moved", "lifted"}))
  /\ callbacks = Cardinality(Callbacks({"local", "kept"}))

(* "The inputs it adopts are adopted and released even when another        *)
(* argument fails" (abi.md): when a call is over, every token and every    *)
(* callback was adopted, but for those of an argument that failed itself.  *)
Adopted(c) == \A p \in Own(c) : place[p] = "sent" => p[2] \in failed[c]
LiftPanicked(c) == outcome[c] = "panic" /\ failed[c] # {}

OthersAdopted ==
  \A c \in Calls : phase[c] = "done" /\ ~LiftPanicked(c) => Adopted(c)

(* The same whatever the failure: also when a lift panics.                 *)
AllOthersAdopted == \A c \in Calls : phase[c] = "done" => Adopted(c)

===============================================================================

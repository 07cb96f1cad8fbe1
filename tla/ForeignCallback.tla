---------------------------- MODULE ForeignCallback ----------------------------
(***************************************************************************)
(* A consumer's implementation of a callback interface, held by the        *)
(* producer through a proxy that its threads share (an Arc): calls of its  *)
(* methods from any of them, and the consumer's release of the             *)
(* implementation once the last share is dropped.                          *)
(*                                                                         *)
(* Most consumers' entries run on the calling thread.  Dart's are bound to *)
(* the thread of its isolate: a method that returns a value is refused     *)
(* elsewhere, and the others, and the release, are messages that the       *)
(* isolate receives later.                                                 *)
(***************************************************************************)
EXTENDS CallbackThreads, Sequences, SequencesExt

VARIABLES affine,    \* its vtable is flagged thread-affine (Dart)
          holders,   \* the threads that hold a share of the proxy
          running,   \* running[t]: the call thread t runs, 0 for none
          freeing,   \* the thread that dropped the last share, to free it
          made,      \* how many calls were made
          posted,    \* the messages the isolate has yet to receive
          frees      \* how many times the consumer's table released it

vars == <<affine, holders, running, freeing, made, posted, frees>>

Release == 0         \* the message that releases the implementation

TypeOK ==
  /\ affine \in BOOLEAN
  /\ holders \subseteq Workers
  /\ running \in [Workers -> 0..MaxCalls]
  /\ freeing \subseteq Workers
  /\ made \in 0..MaxCalls
  /\ posted \in Seq(0..MaxCalls)
  /\ frees \in 0..1

(* adopt: the thread that passed the implementation has the first share.   *)
Init ==
  /\ affine \in BOOLEAN
  /\ holders = {Owner}
  /\ running = [t \in Workers |-> 0]
  /\ freeing = {}
  /\ made = 0
  /\ posted = <<>>
  /\ frees = 0

Idle(t) == t \in holders /\ running[t] = 0

Shares(t, u) ==
  /\ t \in holders
  /\ holders' = holders \cup {u}
  /\ UNCHANGED <<affine, running, freeing, made, posted, frees>>

(* check_thread and entry fail before an argument is lent: the entry is    *)
(* missing, or it returns a value and this is another thread.              *)
Refused(t) ==
  /\ Idle(t)
  /\ made < MaxCalls
  /\ made' = made + 1
  /\ UNCHANGED <<affine, holders, running, freeing, posted, frees>>

(* The entry runs the implementation on this thread.                       *)
Runs(t) ==
  /\ Idle(t)
  /\ made < MaxCalls
  /\ affine => t = Owner
  /\ made' = made + 1
  /\ running' = [running EXCEPT ![t] = made']
  /\ UNCHANGED <<affine, holders, freeing, posted, frees>>

(* The forwarder of a method that returns nothing copies its arguments.    *)
Posts(t) ==
  /\ affine
  /\ Idle(t)
  /\ made < MaxCalls
  /\ made' = made + 1
  /\ posted' = Append(posted, made')
  /\ UNCHANGED <<affine, holders, running, freeing, frees>>

Returns(t) ==
  /\ running[t] # 0
  /\ running' = [running EXCEPT ![t] = 0]
  /\ UNCHANGED <<affine, holders, freeing, made, posted, frees>>

Drop(t) ==
  /\ Idle(t)
  /\ holders' = holders \ {t}
  /\ freeing' = IF holders' = {} THEN {t} ELSE {}
  /\ UNCHANGED <<affine, running, made, posted, frees>>

(* A defect: Dart's free removes the implementation from its table itself. *)
FreesInPlace(t) ==
  /\ t \in freeing
  /\ freeing' = {}
  /\ frees' = frees + 1
  /\ UNCHANGED <<affine, holders, running, made, posted>>

(* The drop of the last share calls the vtable's free.                     *)
Frees(t) ==
  /\ t \in freeing
  /\ freeing' = {}
  /\ IF affine
     THEN posted' = Append(posted, Release) /\ UNCHANGED frees
     ELSE frees' = frees + 1 /\ UNCHANGED posted
  /\ UNCHANGED <<affine, holders, running, made>>

(* The isolate's event loop, between two native calls.  A message for an   *)
(* implementation that was released would be dropped.                      *)
Receives ==
  /\ posted # <<>>
  /\ running[Owner] = 0
  /\ posted' = Tail(posted)
  /\ IF Head(posted) = Release /\ frees = 0
     THEN frees' = frees + 1 ELSE UNCHANGED frees
  /\ UNCHANGED <<affine, holders, running, freeing, made>>

Next ==
  \/ \E t, u \in Workers : Shares(t, u)
  \/ \E t \in Workers : Refused(t) \/ Runs(t) \/ Posts(t) \/ Returns(t) \/ Drop(t) \/ Frees(t)
  \/ Receives

(* Methods return and the isolate's event loop runs.                       *)
Progress == Receives \/ \E t \in Workers : Returns(t) \/ Frees(t)

Spec == Init /\ [][Next]_vars /\ WF_vars(Progress)

-----------------------------------------------------------------------------
(* To its implementation the proxy is a handle: closed with its last share,*)
(* lent to the calls that run or are on their way.                         *)
Lent == ({running[t] : t \in Workers} \cup ToSet(posted)) \ {Release}

H == INSTANCE Handle WITH
       Calls <- 1..MaxCalls, closed <- holders = {}, lent <- Lent

(* No call reaches an implementation after its release, on whichever       *)
(* thread the last share is dropped, and it is released once.              *)
HandlePromise == H!Spec

===============================================================================

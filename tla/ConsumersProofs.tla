---------------------------- MODULE ConsumersProofs ----------------------------
(***************************************************************************)
(* What the runtimes of the consumers promise, for every number of calls   *)
(* and of threads and every error domain: the invariants of MCConsumers,   *)
(* that wrappers and implementations are handles, and that an asynchronous *)
(* call keeps its promise.  HandleProofs has the parts that are handles;   *)
(* the asynchronous calls and the errors are here.                         *)
(***************************************************************************)
EXTENDS HandleProofs

HIDE WorkersAssumption DEF Callback!Release

(* Of every consumer: where the caller is says what was made for the call, *)
(* and the completion runs once, with the entry that it looks for.         *)
CallInv ==
  /\ Call!TypeOK
  /\ pc.caller = "begin" =>
       native = "idle" /\ wait = "idle" /\ token = "none" /\ entry = "none"
  /\ pc.caller = "launch" => native = "idle" /\ entry = "kept" /\ token # "destroyed"
  /\ pc.caller \notin {"begin", "launch", "done"} => native # "idle"
  /\ pc.caller \notin {"begin", "done"} => wait = "waiting"
  /\ pc.caller = "done" => wait \notin {"idle", "waiting"}
  /\ native \in {"idle", "running"} => at = "idle"
  /\ native = "running" => entry = "kept"
  /\ at = "find" => entry = "kept" /\ native \in Call!Outcomes
  /\ taken => native \in Call!Outcomes

(* A received outcome is what the native call ended with, or the failure to*)
(* read its value.                                                         *)
Fits(outcome) == outcome = native \/ (outcome = "failed" /\ native = "value")

(* The token is there until the caller destroys it.                        *)
HoldsToken == token = (IF cancellable THEN "held" ELSE "none")

-----------------------------------------------------------------------------
(* wvAwait of Go.                                                          *)

wvAsyncCalls ==
  [done : {"empty"} \cup Call!Outcomes, o : {"none"} \cup Call!Outcomes,
   ctx : BOOLEAN]

GoInv ==
  /\ CallInv
  /\ call \in wvAsyncCalls
  /\ native # "never" /\ pc.canceller = "idle" /\ on # "canceller"
  /\ at \in {"settle", "done"} => native \in Call!Outcomes
  /\ at = "settle" => ~taken
  /\ at = "find" => ~taken
  /\ call.done # "empty" => taken /\ Fits(call.done)
  /\ call.o # "none" => taken /\ Fits(call.o)
  /\ pc.caller \in {"destroy", "return"} => call.o # "none"
  /\ pc.caller \notin {"begin", "return", "done"} => HoldsToken
  /\ pc.caller = "cancelling" => cancellable
  /\ pc.caller = "done" /\ cancellable => native # "running"

LEMMA GoInitInv == GoCall!Init => GoInv
<1> SUFFICES ASSUME GoCall!Init PROVE GoInv
  OBVIOUS
<1> USE DEF GoCall!Init, GoCall!StartsWith, GoCall!wvAsyncCall
<1>1. call \in wvAsyncCalls
  BY DEF wvAsyncCalls, Call!Outcomes
<1>2. CallInv
  BY DEF CallInv, Call!TypeOK, Call!Outcomes
<1> QED
  BY <1>1, <1>2 DEF GoInv, HoldsToken

LEMMA GoStepInv ==
  ASSUME GoInv, GoCall!Next
  PROVE  GoInv'
<1> USE DEF CallInv, HoldsToken, Fits, Call!TypeOK, Call!Outcomes,
            GoCall!CallerAt, GoCall!CallerGoes, GoCall!CancellerAt,
            GoCall!CancellerGoes, GoCall!Makes, GoCall!Ends, GoCall!Inside,
            GoCall!Fire, GoCall!FinishesWith, GoCall!Received,
            GoCall!Outcomes, GoCall!shared, GoCall!threads
<1>1. ASSUME GoCall!Refuse PROVE GoInv'
  BY <1>1 DEF GoCall!Refuse, wvAsyncCalls, GoInv
<1>2. ASSUME GoCall!Begin PROVE GoInv'
  BY <1>2 DEF GoCall!Begin, wvAsyncCalls, GoInv
<1>3. ASSUME GoCall!Launch PROVE GoInv'
  BY <1>3 DEF GoCall!Launch, wvAsyncCalls, GoInv
<1>4. ASSUME GoCall!Launched PROVE GoInv'
  BY <1>4 DEF GoCall!Launched, wvAsyncCalls, GoInv
<1>5. ASSUME GoCall!Receive PROVE GoInv'
  <2>1. call' \in wvAsyncCalls
    BY <1>5 DEF GoCall!Receive, wvAsyncCalls, GoInv
  <2>2. CallInv'
    BY <1>5 DEF GoCall!Receive, GoInv
  <2> QED
    BY <1>5, <2>1, <2>2 DEF GoCall!Receive, wvAsyncCalls, GoInv
<1>6. ASSUME GoCall!Abandon PROVE GoInv'
  BY <1>6 DEF GoCall!Abandon, wvAsyncCalls, GoInv
<1>7. ASSUME GoCall!Cancel PROVE GoInv'
  BY <1>7 DEF GoCall!Cancel, wvAsyncCalls, GoInv
<1>8. ASSUME GoCall!CancelReturns PROVE GoInv'
  BY <1>8 DEF GoCall!CancelReturns, wvAsyncCalls, GoInv
<1>9. ASSUME GoCall!Destroy PROVE GoInv'
  BY <1>9 DEF GoCall!Destroy, wvAsyncCalls, GoInv
<1>10. ASSUME GoCall!Return PROVE GoInv'
  BY <1>10 DEF GoCall!Return, wvAsyncCalls, GoInv
<1>11. ASSUME GoCall!Find PROVE GoInv'
  BY <1>11 DEF GoCall!Find, wvAsyncCalls, GoInv
<1>12. ASSUME GoCall!Settle PROVE GoInv'
  BY <1>12 DEF GoCall!Settle, wvAsyncCalls, GoInv
<1>13. ASSUME GoCall!ContextDone PROVE GoInv'
  <2>1. call' \in wvAsyncCalls
    BY <1>13 DEF GoCall!ContextDone, wvAsyncCalls, GoInv
  <2>2. CallInv'
    BY <1>13 DEF GoCall!ContextDone, GoInv
  <2> QED
    BY <1>13, <2>1, <2>2 DEF GoCall!ContextDone, wvAsyncCalls, GoInv
<1>14. ASSUME NEW t \in {"caller", "worker"}, GoCall!Complete(t) PROVE GoInv'
  BY <1>14 DEF GoCall!Complete, wvAsyncCalls, GoInv
<1> QED
  BY <1>1, <1>2, <1>3, <1>4, <1>5, <1>6, <1>7, <1>8, <1>9, <1>10, <1>11,
     <1>12, <1>13, <1>14 DEF GoCall!Next, GoCall!Program

LEMMA GoStepPromise ==
  ASSUME GoInv, GoCall!Next
  PROVE  [Call!P!Next]_(Call!P!vars)
<1> USE DEF GoInv, CallInv, HoldsToken, Fits, Call!TypeOK, Call!Outcomes,
            Call!Users, Call!P!vars, Call!P!Outcomes, wvAsyncCalls,
            GoCall!CallerAt, GoCall!CallerGoes, GoCall!CancellerAt,
            GoCall!CancellerGoes, GoCall!Makes, GoCall!Ends, GoCall!Inside,
            GoCall!Fire, GoCall!FinishesWith, GoCall!Received,
            GoCall!Outcomes, GoCall!shared, GoCall!threads
<1>1. ASSUME GoCall!Refuse PROVE Call!P!Refuse
  BY <1>1 DEF GoCall!Refuse, Call!P!Refuse
<1>2. ASSUME GoCall!Begin PROVE Call!P!Begin
  BY <1>2 DEF GoCall!Begin, Call!P!Begin
<1>3. ASSUME GoCall!Launch PROVE Call!P!Launch
  BY <1>3 DEF GoCall!Launch, Call!P!Launch
<1>4. ASSUME \/ GoCall!Launched \/ GoCall!Receive
             \/ GoCall!ContextDone
      PROVE  UNCHANGED Call!P!vars
  BY <1>4 DEF GoCall!Launched, GoCall!Receive, GoCall!ContextDone
<1>5. ASSUME GoCall!Abandon \/ GoCall!Return PROVE Call!P!End
  BY <1>5 DEF GoCall!Abandon, GoCall!Return, Call!P!End
<1>6. ASSUME GoCall!Cancel PROVE Call!P!Cancel
  BY <1>6 DEF GoCall!Cancel, Call!P!Cancel
<1>7. ASSUME GoCall!CancelReturns PROVE Call!P!Cancelled
  BY <1>7 DEF GoCall!CancelReturns, Call!P!Cancelled
<1>8. ASSUME GoCall!Destroy PROVE Call!P!Destroy \/ UNCHANGED Call!P!vars
  BY <1>8 DEF GoCall!Destroy, Call!P!Destroy
<1>9. ASSUME GoCall!Find PROVE Call!P!Find
  BY <1>9 DEF GoCall!Find, Call!P!Find
<1>10. ASSUME GoCall!Settle PROVE Call!P!Take
  BY <1>10 DEF GoCall!Settle, Call!P!Take
<1>11. ASSUME NEW t \in {"caller", "worker"}, GoCall!Complete(t) PROVE Call!P!Fire
  BY <1>11 DEF GoCall!Complete, Call!P!Fire
<1> QED
  BY <1>1, <1>2, <1>3, <1>4, <1>5, <1>6, <1>7, <1>8, <1>9, <1>10,
     <1>11 DEF GoCall!Next, GoCall!Program, Call!P!Next

LEMMA GoStutters ==
  ASSUME GoInv, UNCHANGED GoCall!vars
  PROVE  GoInv' /\ UNCHANGED Call!P!vars
BY DEF GoCall!vars, GoCall!shared, GoCall!threads, wvAsyncCalls, GoInv,
       CallInv, HoldsToken, Fits, Call!TypeOK, Call!Users, Call!P!vars

-----------------------------------------------------------------------------
(* awaitNative of Kotlin.                                                  *)

NativeCompletions ==
  [cont : {"active"} \cup Call!Outcomes, cancelling : BOOLEAN, released : BOOLEAN]

KotlinInv ==
  /\ CallInv
  /\ call \in NativeCompletions
  /\ pc.caller \notin {"cancelling", "draining", "return"}
  /\ pc.caller \in {"destroy", "throwing"} => native = "never"
  /\ call.cancelling <=> pc.canceller = "cancelling"
  /\ call.released \/ token = "destroyed" \/ pc.canceller = "destroy" => native # "idle"
  /\ pc.canceller # "idle" => pc.caller # "begin"
  /\ at \in {"release", "settle"} => native \in Call!Outcomes /\ ~taken
  /\ at = "find" => ~taken
  /\ call.cont \in {"value", "failed"} => taken /\ Fits(call.cont)

LEMMA KotlinInitInv == KotlinCall!Init => KotlinInv
<1> SUFFICES ASSUME KotlinCall!Init PROVE KotlinInv
  OBVIOUS
<1> USE DEF KotlinCall!Init, KotlinCall!StartsWith, KotlinCall!NativeCompletion
<1>1. call \in NativeCompletions
  BY DEF NativeCompletions, Call!Outcomes
<1>2. CallInv
  BY DEF CallInv, Call!TypeOK, Call!Outcomes
<1> QED
  BY <1>1, <1>2 DEF KotlinInv, HoldsToken

LEMMA KotlinStepInv ==
  ASSUME KotlinInv, KotlinCall!Next
  PROVE  KotlinInv'
<1> USE DEF CallInv, HoldsToken, Fits, Call!TypeOK, Call!Outcomes,
            KotlinCall!CallerAt, KotlinCall!CallerGoes,
            KotlinCall!CancellerAt, KotlinCall!CancellerGoes,
            KotlinCall!Makes, KotlinCall!Ends, KotlinCall!Inside,
            KotlinCall!Fire, KotlinCall!FinishesWith, KotlinCall!Received,
            KotlinCall!Outcomes, KotlinCall!shared, KotlinCall!threads,
            KotlinCall!Threw, KotlinCall!Destroys, KotlinCall!Enters,
            KotlinCall!ReleaseToken
<1>1. ASSUME KotlinCall!Begin PROVE KotlinInv'
  BY <1>1 DEF KotlinCall!Begin, NativeCompletions, KotlinInv
<1>2. ASSUME KotlinCall!Launch PROVE KotlinInv'
  BY <1>2 DEF KotlinCall!Launch, NativeCompletions, KotlinInv
<1>3. ASSUME KotlinCall!Launched PROVE KotlinInv'
  BY <1>3 DEF KotlinCall!Launched, NativeCompletions, KotlinInv
<1>4. ASSUME KotlinCall!Throws PROVE KotlinInv'
  BY <1>4 DEF KotlinCall!Throws, NativeCompletions, KotlinInv
<1>5. ASSUME KotlinCall!Threw PROVE KotlinInv'
  BY <1>5 DEF KotlinCall!Threw, NativeCompletions, KotlinInv
<1>6. ASSUME KotlinCall!Resume PROVE KotlinInv'
  BY <1>6 DEF KotlinCall!Resume, NativeCompletions, KotlinInv
<1>7. ASSUME KotlinCall!Cancel PROVE KotlinInv'
  <2>1. call' \in NativeCompletions
    BY <1>7 DEF KotlinCall!Cancel, NativeCompletions, KotlinInv
  <2>2. CallInv'
    BY <1>7 DEF KotlinCall!Cancel, KotlinInv
  <2> QED
    BY <1>7, <2>1, <2>2 DEF KotlinCall!Cancel, NativeCompletions, KotlinInv
<1>8. ASSUME KotlinCall!CancelReturns PROVE KotlinInv'
  <2>1. call' \in NativeCompletions
    BY <1>8 DEF KotlinCall!CancelReturns, NativeCompletions, KotlinInv
  <2>2. CallInv'
    BY <1>8 DEF KotlinCall!CancelReturns, KotlinInv
  <2> QED
    BY <1>8, <2>1, <2>2 DEF KotlinCall!CancelReturns, NativeCompletions, KotlinInv
<1>9. ASSUME KotlinCall!DestroysLeft PROVE KotlinInv'
  BY <1>9 DEF KotlinCall!DestroysLeft, NativeCompletions, KotlinInv
<1>10. ASSUME KotlinCall!Find PROVE KotlinInv'
  BY <1>10 DEF KotlinCall!Find, NativeCompletions, KotlinInv
<1>11. ASSUME KotlinCall!Release PROVE KotlinInv'
  <2>1. call' \in NativeCompletions
    BY <1>11 DEF KotlinCall!Release, NativeCompletions, KotlinInv
  <2>2. CallInv'
    BY <1>11 DEF KotlinCall!Release, KotlinInv
  <2> QED
    BY <1>11, <2>1, <2>2 DEF KotlinCall!Release, NativeCompletions, KotlinInv
<1>12. ASSUME KotlinCall!Settle PROVE KotlinInv'
  BY <1>12 DEF KotlinCall!Settle, NativeCompletions, KotlinInv
<1>13. ASSUME KotlinCall!CoroutineCancelled PROVE KotlinInv'
  BY <1>13 DEF KotlinCall!CoroutineCancelled, NativeCompletions, KotlinInv
<1>14. ASSUME KotlinCall!LaunchThrows PROVE KotlinInv'
  BY <1>14 DEF KotlinCall!LaunchThrows, KotlinCall!LaunchFails, NativeCompletions, KotlinInv
<1>15. ASSUME NEW t \in {"caller", "canceller", "worker"}, KotlinCall!Complete(t) PROVE KotlinInv'
  BY <1>15 DEF KotlinCall!Complete, NativeCompletions, KotlinInv
<1>16. ASSUME KotlinCall!SettleThrows PROVE KotlinInv'
  BY <1>16 DEF KotlinCall!SettleThrows, NativeCompletions, KotlinInv
<1> QED
  BY <1>1, <1>2, <1>3, <1>4, <1>5, <1>6, <1>7, <1>8, <1>9, <1>10, <1>11,
     <1>12, <1>13, <1>14, <1>15, <1>16 DEF KotlinCall!Next, KotlinCall!Program

LEMMA KotlinStepPromise ==
  ASSUME KotlinInv, KotlinCall!Next
  PROVE  [Call!P!Next]_(Call!P!vars)
<1> USE DEF KotlinInv, CallInv, HoldsToken, Fits, Call!TypeOK,
            Call!Outcomes, Call!Users, Call!P!vars, Call!P!Outcomes,
            NativeCompletions, KotlinCall!CallerAt, KotlinCall!CallerGoes,
            KotlinCall!CancellerAt, KotlinCall!CancellerGoes,
            KotlinCall!Makes, KotlinCall!Ends, KotlinCall!Inside,
            KotlinCall!Fire, KotlinCall!FinishesWith, KotlinCall!Received,
            KotlinCall!Outcomes, KotlinCall!shared, KotlinCall!threads,
            KotlinCall!Threw, KotlinCall!Destroys, KotlinCall!Enters,
            KotlinCall!ReleaseToken
<1>1. ASSUME KotlinCall!Begin PROVE Call!P!Begin
  BY <1>1 DEF KotlinCall!Begin, Call!P!Begin
<1>2. ASSUME KotlinCall!Launch PROVE Call!P!Launch
  BY <1>2 DEF KotlinCall!Launch, Call!P!Launch
<1>3. ASSUME KotlinCall!Launched \/ KotlinCall!CoroutineCancelled PROVE UNCHANGED Call!P!vars
  BY <1>3 DEF KotlinCall!Launched, KotlinCall!CoroutineCancelled
<1>4. ASSUME KotlinCall!LaunchThrows PROVE Call!P!Fail
  BY <1>4 DEF KotlinCall!LaunchThrows, KotlinCall!LaunchFails, Call!P!Fail
<1>5. ASSUME \/ KotlinCall!Throws \/ KotlinCall!Release
             \/ KotlinCall!DestroysLeft
      PROVE  Call!P!Destroy \/ UNCHANGED Call!P!vars
  BY <1>5 DEF KotlinCall!Throws, KotlinCall!Release,
     KotlinCall!DestroysLeft, Call!P!Destroy
<1>6. ASSUME KotlinCall!Threw \/ KotlinCall!Resume PROVE Call!P!End
  BY <1>6 DEF KotlinCall!Threw, KotlinCall!Resume, Call!P!End
<1>7. ASSUME KotlinCall!Cancel PROVE Call!P!Cancel \/ UNCHANGED Call!P!vars
  BY <1>7 DEF KotlinCall!Cancel, Call!P!Cancel
<1>8. ASSUME KotlinCall!CancelReturns PROVE Call!P!Cancelled
  BY <1>8 DEF KotlinCall!CancelReturns, Call!P!Cancelled
<1>9. ASSUME KotlinCall!Find PROVE Call!P!Find
  BY <1>9 DEF KotlinCall!Find, Call!P!Find
<1>10. ASSUME KotlinCall!Settle PROVE Call!P!Take
  BY <1>10 DEF KotlinCall!Settle, Call!P!Take
<1>11. ASSUME NEW t \in {"caller", "canceller", "worker"}, KotlinCall!Complete(t) PROVE Call!P!Fire
  BY <1>11 DEF KotlinCall!Complete, Call!P!Fire
<1>12. ASSUME KotlinCall!SettleThrows PROVE Call!P!Take
  BY <1>12 DEF KotlinCall!SettleThrows, Call!P!Take
<1> QED
  BY <1>1, <1>2, <1>3, <1>4, <1>5, <1>6, <1>7, <1>8, <1>9, <1>10, <1>11,
     <1>12 DEF KotlinCall!Next, KotlinCall!Program, Call!P!Next

LEMMA KotlinStutters ==
  ASSUME KotlinInv, UNCHANGED KotlinCall!vars
  PROVE  KotlinInv' /\ UNCHANGED Call!P!vars
BY DEF KotlinCall!vars, KotlinCall!shared, KotlinCall!threads,
       NativeCompletions, KotlinInv, CallInv, HoldsToken, Fits, Call!TypeOK,
       Call!Users, Call!P!vars

-----------------------------------------------------------------------------
(* The task, the future and the trampoline of Python.                      *)

Pendings ==
  [future : {"active"} \cup Call!Outcomes, scheduled : {"none"} \cup Call!Outcomes,
   cancels : 0..2, raises : BOOLEAN]

PythonInv ==
  /\ CallInv
  /\ call \in Pendings
  /\ pc.canceller = "idle" /\ on # "canceller"
  /\ at = "settle" => native \in Call!Outcomes /\ entry = "kept" /\ ~taken
  /\ at = "find" => taken
  /\ call.scheduled # "none" => taken /\ Fits(call.scheduled)
  /\ call.future \in {"value", "failed"} => taken /\ Fits(call.future)
  /\ pc.caller \in {"destroy", "return"} => native = "never" \/ call.future # "active"
  /\ pc.caller = "return" => native # "never"
  /\ pc.caller = "throwing" => native = "never"
  /\ pc.caller \notin {"begin", "return", "throwing", "done"} => HoldsToken
  /\ pc.caller = "cancelling" => cancellable

LEMMA PythonInitInv == PythonCall!Init => PythonInv
<1> SUFFICES ASSUME PythonCall!Init PROVE PythonInv
  OBVIOUS
<1> USE DEF PythonCall!Init, PythonCall!StartsWith, PythonCall!Pending
<1>1. call \in Pendings
  BY DEF Pendings, Call!Outcomes
<1>2. CallInv
  BY DEF CallInv, Call!TypeOK, Call!Outcomes
<1> QED
  BY <1>1, <1>2 DEF PythonInv, HoldsToken

LEMMA PythonStepInv ==
  ASSUME PythonInv, PythonCall!Next
  PROVE  PythonInv'
<1> USE DEF CallInv, HoldsToken, Fits, Call!TypeOK, Call!Outcomes,
            PythonCall!CallerAt, PythonCall!CallerGoes,
            PythonCall!CancellerAt, PythonCall!CancellerGoes,
            PythonCall!Makes, PythonCall!Ends, PythonCall!Inside,
            PythonCall!Fire, PythonCall!FinishesWith, PythonCall!Received,
            PythonCall!Outcomes, PythonCall!shared, PythonCall!threads,
            PythonCall!Threw, PythonCall!Suspended
<1>1. ASSUME PythonCall!Begin PROVE PythonInv'
  BY <1>1 DEF PythonCall!Begin, Pendings, PythonInv
<1>2. ASSUME PythonCall!Launch PROVE PythonInv'
  BY <1>2 DEF PythonCall!Launch, Pendings, PythonInv
<1>3. ASSUME PythonCall!Launched PROVE PythonInv'
  BY <1>3 DEF PythonCall!Launched, Pendings, PythonInv
<1>4. ASSUME PythonCall!Resolve PROVE PythonInv'
  <2>1. call' \in Pendings
    BY <1>4 DEF PythonCall!Resolve, Pendings, PythonInv
  <2>2. CallInv'
    BY <1>4 DEF PythonCall!Resolve, PythonInv
  <2> QED
    BY <1>4, <2>1, <2>2 DEF PythonCall!Resolve, Pendings, PythonInv
<1>5. ASSUME PythonCall!Awaited PROVE PythonInv'
  <2>1. call' \in Pendings
    BY <1>5 DEF PythonCall!Awaited, Pendings, PythonInv
  <2>2. CallInv'
    BY <1>5 DEF PythonCall!Awaited, PythonInv
  <2> QED
    BY <1>5, <2>1, <2>2 DEF PythonCall!Awaited, Pendings, PythonInv
<1>6. ASSUME PythonCall!CancelReturns PROVE PythonInv'
  BY <1>6 DEF PythonCall!CancelReturns, Pendings, PythonInv
<1>7. ASSUME PythonCall!Drained PROVE PythonInv'
  BY <1>7 DEF PythonCall!Drained, Pendings, PythonInv
<1>8. ASSUME PythonCall!Destroy PROVE PythonInv'
  BY <1>8 DEF PythonCall!Destroy, Pendings, PythonInv
<1>9. ASSUME PythonCall!Return PROVE PythonInv'
  BY <1>9 DEF PythonCall!Return, Pendings, PythonInv
<1>10. ASSUME PythonCall!Threw PROVE PythonInv'
  BY <1>10 DEF PythonCall!Threw, Pendings, PythonInv
<1>11. ASSUME PythonCall!Take PROVE PythonInv'
  BY <1>11 DEF PythonCall!Take, Pendings, PythonInv
<1>12. ASSUME PythonCall!Settle PROVE PythonInv'
  BY <1>12 DEF PythonCall!Settle, Pendings, PythonInv
<1>13. ASSUME PythonCall!CancelTask PROVE PythonInv'
  <2>1. call' \in Pendings
    <3>1. call.cancels + 1 \in 0..2
      BY <1>13 DEF PythonCall!CancelTask, Pendings, PythonInv
    <3> QED
      BY <1>13, <3>1 DEF PythonCall!CancelTask, Pendings, PythonInv
  <2>2. CallInv'
    BY <1>13 DEF PythonCall!CancelTask, PythonInv
  <2> QED
    BY <1>13, <2>1, <2>2 DEF PythonCall!CancelTask, Pendings, PythonInv
<1>14. ASSUME PythonCall!LaunchThrows PROVE PythonInv'
  BY <1>14 DEF PythonCall!LaunchThrows, PythonCall!LaunchFails, Pendings, PythonInv
<1>15. ASSUME NEW t \in {"caller", "worker"}, PythonCall!Complete(t) PROVE PythonInv'
  BY <1>15 DEF PythonCall!Complete, Pendings, PythonInv
<1> QED
  BY <1>1, <1>2, <1>3, <1>4, <1>5, <1>6, <1>7, <1>8, <1>9, <1>10, <1>11,
     <1>12, <1>13, <1>14, <1>15 DEF PythonCall!Next, PythonCall!Program

LEMMA PythonStepPromise ==
  ASSUME PythonInv, PythonCall!Next
  PROVE  [Call!P!Next]_(Call!P!vars)
<1> USE DEF PythonInv, CallInv, HoldsToken, Fits, Call!TypeOK,
            Call!Outcomes, Call!Users, Call!P!vars, Call!P!Outcomes,
            Pendings, PythonCall!CallerAt, PythonCall!CallerGoes,
            PythonCall!CancellerAt, PythonCall!CancellerGoes,
            PythonCall!Makes, PythonCall!Ends, PythonCall!Inside,
            PythonCall!Fire, PythonCall!FinishesWith, PythonCall!Received,
            PythonCall!Outcomes, PythonCall!shared, PythonCall!threads,
            PythonCall!Threw, PythonCall!Suspended
<1>1. ASSUME PythonCall!Begin PROVE Call!P!Begin
  BY <1>1 DEF PythonCall!Begin, Call!P!Begin
<1>2. ASSUME PythonCall!Launch PROVE Call!P!Launch
  BY <1>2 DEF PythonCall!Launch, Call!P!Launch
<1>3. ASSUME PythonCall!LaunchThrows PROVE Call!P!Fail
  BY <1>3 DEF PythonCall!LaunchThrows, PythonCall!LaunchFails, Call!P!Fail
<1>4. ASSUME \/ PythonCall!Launched \/ PythonCall!Resolve
             \/ PythonCall!Drained
      PROVE  UNCHANGED Call!P!vars
  BY <1>4 DEF PythonCall!Launched, PythonCall!Resolve, PythonCall!Drained
<1>5. ASSUME PythonCall!Awaited \/ PythonCall!CancelTask PROVE Call!P!Cancel \/ UNCHANGED Call!P!vars
  BY <1>5 DEF PythonCall!Awaited, PythonCall!CancelTask, Call!P!Cancel
<1>6. ASSUME PythonCall!CancelReturns PROVE Call!P!Cancelled
  BY <1>6 DEF PythonCall!CancelReturns, Call!P!Cancelled
<1>7. ASSUME PythonCall!Destroy PROVE Call!P!Destroy \/ UNCHANGED Call!P!vars
  BY <1>7 DEF PythonCall!Destroy, Call!P!Destroy
<1>8. ASSUME PythonCall!Return \/ PythonCall!Threw PROVE Call!P!End
  BY <1>8 DEF PythonCall!Return, PythonCall!Threw, Call!P!End
<1>9. ASSUME PythonCall!Take PROVE Call!P!Take
  BY <1>9 DEF PythonCall!Take, Call!P!Take
<1>10. ASSUME PythonCall!Settle PROVE Call!P!Find
  BY <1>10 DEF PythonCall!Settle, Call!P!Find
<1>11. ASSUME NEW t \in {"caller", "worker"}, PythonCall!Complete(t) PROVE Call!P!Fire
  BY <1>11 DEF PythonCall!Complete, Call!P!Fire
<1> QED
  BY <1>1, <1>2, <1>3, <1>4, <1>5, <1>6, <1>7, <1>8, <1>9, <1>10,
     <1>11 DEF PythonCall!Next, PythonCall!Program, Call!P!Next

LEMMA PythonStutters ==
  ASSUME PythonInv, UNCHANGED PythonCall!vars
  PROVE  PythonInv' /\ UNCHANGED Call!P!vars
BY DEF PythonCall!vars, PythonCall!shared, PythonCall!threads, Pendings,
       PythonInv, CallInv, HoldsToken, Fits, Call!TypeOK, Call!Users,
       Call!P!vars

-----------------------------------------------------------------------------
(* FfiCall of .NET.                                                        *)

FfiCalls ==
  [tcs : {"active"} \cup Call!Outcomes, asked : BOOLEAN,
   registration : {"none", "set", "running", "ran", "gone"},
   completed : BOOLEAN, cancelling : BOOLEAN]

DotnetInv ==
  /\ CallInv
  /\ call \in FfiCalls
  /\ pc.caller \notin {"cancelling", "destroy", "return"}
  /\ pc.caller = "throwing" => native = "never"
  /\ pc.caller = "begin" => call.registration = "none"
  /\ ~cancellable /\ call.registration # "none" => pc.caller \in {"draining", "done"}
  /\ ~cancellable => token = "none"
  /\ cancellable /\ call.registration # "none" => token # "none"
  /\ token = "destroyed" => call.completed
  /\ call.completed => at \in {"dispose", "destroy", "settle", "done"}
  /\ at \in {"release", "dispose", "destroy", "settle"} =>
       native \in Call!Outcomes \cup {"never"} /\ ~taken
  /\ at = "find" => ~taken
  /\ at \in {"find", "release"} => ~call.completed
  /\ at \in {"dispose", "destroy", "settle", "done"} => call.completed
  /\ pc.canceller \notin {"idle", "done"} => call.registration = "running"
  /\ call.cancelling <=> pc.canceller \in {"native", "cancelling"}
  /\ pc.canceller \in {"native", "cancelling", "destroy"} => token = "held"
  /\ call.cancelling => at \notin {"dispose", "destroy"}
  /\ pc.canceller = "destroy" => at \in {"settle", "done"}
  /\ call.tcs \in {"value", "failed"} => taken /\ Fits(call.tcs)
  /\ cancellable /\ call.tcs # "active" => taken
  /\ pc.caller = "done" /\ cancellable => native # "running"

LEMMA DotnetInitInv == DotnetCall!Init => DotnetInv
<1> SUFFICES ASSUME DotnetCall!Init PROVE DotnetInv
  OBVIOUS
<1> USE DEF DotnetCall!Init, DotnetCall!StartsWith, DotnetCall!FfiCall
<1>1. call \in FfiCalls
  BY DEF FfiCalls, Call!Outcomes
<1>2. CallInv
  BY DEF CallInv, Call!TypeOK, Call!Outcomes
<1> QED
  BY <1>1, <1>2 DEF DotnetInv, HoldsToken

LEMMA DotnetStepInv ==
  ASSUME DotnetInv, DotnetCall!Next
  PROVE  DotnetInv'
<1> USE DEF CallInv, HoldsToken, Fits, Call!TypeOK, Call!Outcomes,
            DotnetCall!CallerAt, DotnetCall!CallerGoes,
            DotnetCall!CancellerAt, DotnetCall!CancellerGoes,
            DotnetCall!Makes, DotnetCall!Ends, DotnetCall!Inside,
            DotnetCall!Fire, DotnetCall!FinishesWith, DotnetCall!Received,
            DotnetCall!Outcomes, DotnetCall!shared, DotnetCall!threads,
            DotnetCall!Threw, DotnetCall!TrySet
<1>1. ASSUME DotnetCall!Refuse PROVE DotnetInv'
  BY <1>1 DEF DotnetCall!Refuse, FfiCalls, DotnetInv
<1>2. ASSUME DotnetCall!Begin PROVE DotnetInv'
  BY <1>2 DEF DotnetCall!Begin, FfiCalls, DotnetInv
<1>3. ASSUME DotnetCall!Launch PROVE DotnetInv'
  BY <1>3 DEF DotnetCall!Launch, FfiCalls, DotnetInv
<1>4. ASSUME DotnetCall!Launched PROVE DotnetInv'
  BY <1>4 DEF DotnetCall!Launched, FfiCalls, DotnetInv
<1>5. ASSUME DotnetCall!Registers PROVE DotnetInv'
  BY <1>5 DEF DotnetCall!Registers, FfiCalls, DotnetInv
<1>6. ASSUME DotnetCall!Awaits PROVE DotnetInv'
  BY <1>6 DEF DotnetCall!Awaits, FfiCalls, DotnetInv
<1>7. ASSUME DotnetCall!Threw PROVE DotnetInv'
  BY <1>7 DEF DotnetCall!Threw, FfiCalls, DotnetInv
<1>8. ASSUME DotnetCall!Callback PROVE DotnetInv'
  BY <1>8 DEF DotnetCall!Callback, FfiCalls, DotnetInv
<1>9. ASSUME DotnetCall!StopWaiting PROVE DotnetInv'
  BY <1>9 DEF DotnetCall!StopWaiting, FfiCalls, DotnetInv
<1>10. ASSUME DotnetCall!Cancel PROVE DotnetInv'
  <2>1. call' \in FfiCalls
    BY <1>10 DEF DotnetCall!Cancel, FfiCalls, DotnetInv
  <2>2. CallInv'
    BY <1>10 DEF DotnetCall!Cancel, DotnetInv
  <2> QED
    BY <1>10, <2>1, <2>2 DEF DotnetCall!Cancel, FfiCalls, DotnetInv
<1>11. ASSUME DotnetCall!CancelNative PROVE DotnetInv'
  BY <1>11 DEF DotnetCall!CancelNative, FfiCalls, DotnetInv
<1>12. ASSUME DotnetCall!CancelReturns PROVE DotnetInv'
  <2>1. call' \in FfiCalls
    BY <1>12 DEF DotnetCall!CancelReturns, FfiCalls, DotnetInv
  <2>2. CallInv'
    BY <1>12 DEF DotnetCall!CancelReturns, DotnetInv
  <2> QED
    BY <1>12, <2>1, <2>2 DEF DotnetCall!CancelReturns, FfiCalls, DotnetInv
<1>13. ASSUME DotnetCall!DestroysLast PROVE DotnetInv'
  BY <1>13 DEF DotnetCall!DestroysLast, FfiCalls, DotnetInv
<1>14. ASSUME DotnetCall!CallbackReturns PROVE DotnetInv'
  BY <1>14 DEF DotnetCall!CallbackReturns, FfiCalls, DotnetInv
<1>15. ASSUME DotnetCall!Find PROVE DotnetInv'
  BY <1>15 DEF DotnetCall!Find, FfiCalls, DotnetInv
<1>16. ASSUME DotnetCall!Release PROVE DotnetInv'
  <2>1. call' \in FfiCalls
    BY <1>16 DEF DotnetCall!Release, FfiCalls, DotnetInv
  <2>2. CallInv'
    BY <1>16 DEF DotnetCall!Release, DotnetInv
  <2> QED
    BY <1>16, <2>1, <2>2 DEF DotnetCall!Release, FfiCalls, DotnetInv
<1>17. ASSUME DotnetCall!Dispose PROVE DotnetInv'
  BY <1>17 DEF DotnetCall!Dispose, FfiCalls, DotnetInv
<1>18. ASSUME DotnetCall!Destroy PROVE DotnetInv'
  BY <1>18 DEF DotnetCall!Destroy, FfiCalls, DotnetInv
<1>19. ASSUME DotnetCall!Settle PROVE DotnetInv'
  BY <1>19 DEF DotnetCall!Settle, FfiCalls, DotnetInv
<1>20. ASSUME DotnetCall!Ask PROVE DotnetInv'
  <2>1. call' \in FfiCalls
    BY <1>20 DEF DotnetCall!Ask, FfiCalls, DotnetInv
  <2>2. CallInv'
    BY <1>20 DEF DotnetCall!Ask, DotnetInv
  <2> QED
    BY <1>20, <2>1, <2>2 DEF DotnetCall!Ask, FfiCalls, DotnetInv
<1>21. ASSUME DotnetCall!LaunchThrows PROVE DotnetInv'
  BY <1>21 DEF DotnetCall!LaunchThrows, DotnetCall!LaunchFails, FfiCalls, DotnetInv
<1>22. ASSUME NEW t \in {"caller", "canceller", "worker"}, DotnetCall!Complete(t) PROVE DotnetInv'
  BY <1>22 DEF DotnetCall!Complete, FfiCalls, DotnetInv
<1> QED
  BY <1>1, <1>2, <1>3, <1>4, <1>5, <1>6, <1>7, <1>8, <1>9, <1>10, <1>11,
     <1>12, <1>13, <1>14, <1>15, <1>16, <1>17, <1>18, <1>19, <1>20, <1>21,
     <1>22 DEF DotnetCall!Next, DotnetCall!Program

LEMMA DotnetStepPromise ==
  ASSUME DotnetInv, DotnetCall!Next
  PROVE  [Call!P!Next]_(Call!P!vars)
<1> USE DEF DotnetInv, CallInv, HoldsToken, Fits, Call!TypeOK,
            Call!Outcomes, Call!Users, Call!P!vars, Call!P!Outcomes,
            FfiCalls, DotnetCall!CallerAt, DotnetCall!CallerGoes,
            DotnetCall!CancellerAt, DotnetCall!CancellerGoes,
            DotnetCall!Makes, DotnetCall!Ends, DotnetCall!Inside,
            DotnetCall!Fire, DotnetCall!FinishesWith, DotnetCall!Received,
            DotnetCall!Outcomes, DotnetCall!shared, DotnetCall!threads,
            DotnetCall!Threw, DotnetCall!TrySet
<1>1. ASSUME DotnetCall!Refuse PROVE Call!P!Refuse
  BY <1>1 DEF DotnetCall!Refuse, Call!P!Refuse
<1>2. ASSUME DotnetCall!Begin PROVE Call!P!Begin
  BY <1>2 DEF DotnetCall!Begin, Call!P!Begin
<1>3. ASSUME DotnetCall!Launch PROVE Call!P!Launch
  BY <1>3 DEF DotnetCall!Launch, Call!P!Launch
<1>4. ASSUME DotnetCall!LaunchThrows PROVE Call!P!Fail
  BY <1>4 DEF DotnetCall!LaunchThrows, DotnetCall!LaunchFails, Call!P!Fail
<1>5. ASSUME \/ DotnetCall!Launched \/ DotnetCall!Registers
             \/ DotnetCall!Ask \/ DotnetCall!Callback
             \/ DotnetCall!StopWaiting \/ DotnetCall!Cancel
             \/ DotnetCall!CallbackReturns \/ DotnetCall!Release
             \/ DotnetCall!Dispose
      PROVE  UNCHANGED Call!P!vars
  BY <1>5 DEF DotnetCall!Launched, DotnetCall!Registers, DotnetCall!Ask,
     DotnetCall!Callback, DotnetCall!StopWaiting, DotnetCall!Cancel,
     DotnetCall!CallbackReturns, DotnetCall!Release, DotnetCall!Dispose
<1>6. ASSUME DotnetCall!CancelNative PROVE Call!P!Cancel
  BY <1>6 DEF DotnetCall!CancelNative, Call!P!Cancel
<1>7. ASSUME DotnetCall!CancelReturns PROVE Call!P!Cancelled
  BY <1>7 DEF DotnetCall!CancelReturns, Call!P!Cancelled
<1>8. ASSUME DotnetCall!DestroysLast PROVE Call!P!Destroy
  BY <1>8 DEF DotnetCall!DestroysLast, Call!P!Destroy
<1>9. ASSUME DotnetCall!Destroy PROVE Call!P!Destroy \/ UNCHANGED Call!P!vars
  BY <1>9 DEF DotnetCall!Destroy, Call!P!Destroy
<1>10. ASSUME DotnetCall!Awaits \/ DotnetCall!Threw PROVE Call!P!End
  BY <1>10 DEF DotnetCall!Awaits, DotnetCall!Threw, Call!P!End
<1>11. ASSUME DotnetCall!Find PROVE Call!P!Find
  BY <1>11 DEF DotnetCall!Find, Call!P!Find
<1>12. ASSUME DotnetCall!Settle PROVE Call!P!Take \/ UNCHANGED Call!P!vars
  BY <1>12 DEF DotnetCall!Settle, Call!P!Take
<1>13. ASSUME NEW t \in {"caller", "canceller", "worker"}, DotnetCall!Complete(t) PROVE Call!P!Fire
  BY <1>13 DEF DotnetCall!Complete, Call!P!Fire
<1> QED
  BY <1>1, <1>2, <1>3, <1>4, <1>5, <1>6, <1>7, <1>8, <1>9, <1>10, <1>11,
     <1>12, <1>13 DEF DotnetCall!Next, DotnetCall!Program, Call!P!Next

LEMMA DotnetStutters ==
  ASSUME DotnetInv, UNCHANGED DotnetCall!vars
  PROVE  DotnetInv' /\ UNCHANGED Call!P!vars
BY DEF DotnetCall!vars, DotnetCall!shared, DotnetCall!threads, FfiCalls,
       DotnetInv, CallInv, HoldsToken, Fits, Call!TypeOK, Call!Users,
       Call!P!vars

-----------------------------------------------------------------------------
(* The errors.                                                             *)

(* Outside a method its slot and its return are empty, and the consumer has*)
(* nothing until the call returned; a payload is of its error's own code.  *)
ErrorsInv ==
  /\ Errors!TypeOK
  /\ pc # "method" => err = Errors!Success /\ ret = FALSE
  /\ pc # "returned" => out = Errors!Success /\ result = FALSE
  /\ \A e \in {err, raised, out} : e.payload \in {None, e.code}
  /\ Errors!RunsOwned

LEMMA OwnedRuns ==
  /\ Errors!Success \in Errors!FfiError /\ Errors!Success.payload = None
  /\ Errors!Owned(Errors!Success) = 0
<1> USE DEF Errors!Success, Errors!FfiError, Errors!None, None
<1>1. Errors!Success \in Errors!FfiError
  OBVIOUS
<1> QED
  BY <1>1 DEF Errors!Owned, Errors!Count

LEMMA ErrorsInitInv == Errors!Init => ErrorsInv
<1> SUFFICES ASSUME Errors!Init PROVE ErrorsInv
  OBVIOUS
<1>1. Errors!TypeOK
  <2>1. 0 \in 0..MaxLost
    BY CodesAssumption
  <2>2. /\ err \in Errors!FfiError /\ raised \in Errors!FfiError /\ out \in Errors!FfiError
    BY OwnedRuns DEF Errors!Init
  <2>3. runs \in Nat /\ lost \in 0..MaxLost
    BY <2>1 DEF Errors!Init
  <2>4. pc \in {"idle", "producer", "method", "outcome", "returned"}
    BY DEF Errors!Init
  <2>5. boxed \in BOOLEAN /\ ret \in BOOLEAN /\ result \in BOOLEAN
    BY DEF Errors!Init
  <2> QED
    BY <2>2, <2>3, <2>4, <2>5 DEF Errors!TypeOK
<1>2. Errors!RunsOwned
  BY OwnedRuns DEF Errors!Init, Errors!RunsOwned, Errors!Count
<1> QED
  BY <1>1, <1>2, OwnedRuns DEF Errors!Init, ErrorsInv

(* Once everything was released, only the runs that a panic lost are live. *)
LEMMA Emptied ==
  ASSUME pc' \in {"idle", "producer", "outcome"}, err' = Errors!Success, ret' = FALSE,
         out' = Errors!Success, result' = FALSE, boxed' \in BOOLEAN,
         raised' \in Errors!FfiError, raised'.payload \in {None, raised'.code},
         lost' \in 0..MaxLost, runs' = lost'
  PROVE  ErrorsInv'
<1>n. lost' \in Nat
  BY CodesAssumption
<1>1. Errors!TypeOK'
  <2>1. /\ err' \in Errors!FfiError /\ raised' \in Errors!FfiError /\ out' \in Errors!FfiError
    BY OwnedRuns
  <2>2. runs' \in Nat
    BY <1>n
  <2>3. boxed' \in BOOLEAN /\ ret' \in BOOLEAN /\ result' \in BOOLEAN
    OBVIOUS
  <2>4. pc' \in {"idle", "producer", "method", "outcome", "returned"}
    OBVIOUS
  <2> QED
    BY <2>1, <2>2, <2>3, <2>4 DEF Errors!TypeOK
<1>2. Errors!RunsOwned'
  <2>1. Errors!Owned(err') = 0 /\ Errors!Owned(out') = 0
    BY OwnedRuns
  <2>2. \A n \in Nat : n = 0 + 0 + 0 + 0 + n
    OBVIOUS
  <2>3. /\ (IF ret' THEN 1 ELSE 0) = 0
        /\ (IF result' THEN 1 ELSE 0) = 0
    OBVIOUS
  <2>4. Errors!RunsOwned' <=> runs' = 0 + 0 + 0 + 0 + lost'
    BY <2>1, <2>3 DEF Errors!RunsOwned, Errors!Count
  <2> QED
    BY <1>n, <2>2, <2>4
<1> QED
  BY <1>1, <1>2, OwnedRuns DEF ErrorsInv

LEMMA ErrorsStepInv ==
  ASSUME ErrorsInv, Errors!Next
  PROVE  ErrorsInv'
<1> USE CodesAssumption
    DEF ErrorsInv, Errors!TypeOK, Errors!RunsOwned, Errors!Success, Errors!FfiError,
        Errors!Owned, Errors!Count, Errors!None, Errors!Other, None, Other
<1>1. ASSUME Errors!Begins
      PROVE  ErrorsInv'
  BY <1>1 DEF Errors!Begins
<1>2. ASSUME Errors!CallsBack
      PROVE  ErrorsInv'
  BY <1>2 DEF Errors!CallsBack
<1>3. ASSUME Errors!Allocates
      PROVE  ErrorsInv'
  BY <1>3 DEF Errors!Allocates
<1>4. ASSUME Errors!Attaches
      PROVE  ErrorsInv'
  BY <1>4 DEF Errors!Attaches
<1>5. ASSUME Errors!Answers
      PROVE  ErrorsInv'
  <2>1. runs' = lost
    <3>1. out = Errors!Success /\ result = FALSE
      BY <1>5 DEF Errors!Answers
    <3>2. runs = Errors!Owned(err) + Errors!Count(ret) + lost
      BY <3>1
    <3> QED
      BY <1>5, <3>2 DEF Errors!Answers, Errors!Adopted
  <2>2. raised' \in Errors!FfiError /\ raised'.payload \in {None, raised'.code}
    <3>1. CASE err.code # None
      <4>1. raised' = Errors!Failure(err)
        BY <1>5, <3>1 DEF Errors!Answers
      <4> QED
        BY <4>1 DEF Errors!Failure
    <3>2. CASE err.code = None
      <4>1. raised' = Errors!Success \/ raised' = [Errors!Success EXCEPT !.code = Other]
        BY <1>5, <3>2 DEF Errors!Answers
      <4> QED
        BY <4>1
    <3> QED
      BY <3>1, <3>2
  <2>3. /\ pc' \in {"producer", "outcome"} /\ err' = Errors!Success /\ ret' = FALSE
        /\ UNCHANGED <<boxed, out, result, lost>>
    BY <1>5 DEF Errors!Answers
  <2>4. out = Errors!Success /\ result = FALSE
    BY <1>5 DEF Errors!Answers
  <2> QED
    BY <2>1, <2>2, <2>3, <2>4, Emptied
<1>6. ASSUME Errors!AdoptPanics
      PROVE  ErrorsInv'
  <2>1. /\ pc' = "outcome" /\ err' = Errors!Success /\ ret' = FALSE
        /\ lost' = lost + 1 /\ lost' \in 0..MaxLost /\ UNCHANGED <<boxed, out, result>>
    BY <1>6 DEF Errors!AdoptPanics
  <2>2. raised' \in Errors!FfiError /\ raised'.payload \in {None, raised'.code}
    BY <1>6 DEF Errors!AdoptPanics
  <2>3. out = Errors!Success /\ result = FALSE /\ ret = TRUE
    BY <1>6 DEF Errors!AdoptPanics
  <2>4. runs' = lost'
    BY <1>6, <2>3 DEF Errors!AdoptPanics
  <2> QED
    BY <2>1, <2>2, <2>3, <2>4, Emptied
<1>7. ASSUME NEW code \in {Other} \cup Codes, NEW message \in BOOLEAN, Errors!Reports(code, message)
      PROVE  ErrorsInv'
  BY <1>7 DEF Errors!Reports, Errors!Set
<1>8. ASSUME NEW code \in {Other} \cup Codes, Errors!Fails(code)
      PROVE  ErrorsInv'
  BY <1>8 DEF Errors!Fails
<1>9. ASSUME NEW message \in BOOLEAN, Errors!Throws(message)
      PROVE  ErrorsInv'
  BY <1>9 DEF Errors!Throws, Errors!Lowers, Errors!IntoFfi, Errors!Set
<1>10. ASSUME Errors!Recovers
      PROVE  ErrorsInv'
  BY <1>10 DEF Errors!Recovers
<1>11. ASSUME Errors!Returns
      PROVE  ErrorsInv'
  BY <1>11 DEF Errors!Returns
<1>12. ASSUME Errors!Discards
      PROVE  ErrorsInv'
  BY <1>12 DEF Errors!Discards
<1>13. ASSUME Errors!Releases
      PROVE  ErrorsInv'
  <2>1. /\ pc' = "idle" /\ out' = Errors!Success /\ result' = FALSE
        /\ UNCHANGED <<boxed, err, ret, raised, lost>>
    BY <1>13 DEF Errors!Releases
  <2>2. err = Errors!Success /\ ret = FALSE
    BY <1>13 DEF Errors!Releases
  <2>3. runs' = lost
    <3>1. runs = Errors!Owned(out) + Errors!Count(result) + lost
      BY <2>2
    <3> QED
      BY <1>13, <3>1 DEF Errors!Releases
  <2> QED
    BY <2>1, <2>2, <2>3, Emptied
<1> QED
  BY <1>1, <1>2, <1>3, <1>4, <1>5, <1>6, <1>7, <1>8, <1>9, <1>10, <1>11, <1>12, <1>13 DEF Errors!Next

LEMMA ErrorsStutters ==
  ASSUME ErrorsInv, UNCHANGED Errors!vars
  PROVE  ErrorsInv'
BY DEF Errors!vars, ErrorsInv, Errors!TypeOK, Errors!RunsOwned

-----------------------------------------------------------------------------
(* All parts.  The part that runs has its invariant; the others stand still*)
(* and nothing is said of them.                                            *)

IInv ==
  /\ part \in {"atomic", "locked", "callback", "errors"} \cup Awaits
  /\ part = "atomic" => AtomicInv
  /\ part = "locked" => LockedInv
  /\ part = "callback" => CallbackInv
  /\ part = "kotlin call" => KotlinInv
  /\ part = "dotnet call" => DotnetInv
  /\ part = "python call" => PythonInv
  /\ part = "go call" => GoInv
  /\ part = "errors" => ErrorsInv

LEMMA CallbackInvImplies == CallbackInv => Callback!TypeOK
BY WorkersAssumption DEF CallbackInv, CallbackTypes, CallbackReleased, Callback!TypeOK

LEMMA InitInv == Init => IInv
<1> USE DEF IInv, Awaits
<1>1. ASSUME part = "atomic", Atomic!Init PROVE IInv
  BY <1>1, AtomicInitInv
<1>2. ASSUME part = "locked", Locked!Init PROVE IInv
  BY <1>2, LockedInitInv
<1>3. ASSUME part = "callback", Callback!Init PROVE IInv
  BY <1>3, CallbackInitInv
<1>4. ASSUME part = "kotlin call", KotlinCall!Init PROVE IInv
  BY <1>4, KotlinInitInv
<1>5. ASSUME part = "dotnet call", DotnetCall!Init PROVE IInv
  BY <1>5, DotnetInitInv
<1>6. ASSUME part = "python call", PythonCall!Init PROVE IInv
  BY <1>6, PythonInitInv
<1>7. ASSUME part = "go call", GoCall!Init PROVE IInv
  BY <1>7, GoInitInv
<1>8. ASSUME part = "errors", Errors!Init PROVE IInv
  BY <1>8, ErrorsInitInv
<1> QED
  BY <1>1, <1>2, <1>3, <1>4, <1>5, <1>6, <1>7, <1>8 DEF Init

(* A step is one of the part that runs, and leaves the others alone.       *)
LEMMA StepInv == IInv /\ [Next]_vars => IInv'
<1> SUFFICES ASSUME IInv, [Next]_vars PROVE IInv'
  OBVIOUS
<1> USE DEF IInv, Awaits
<1>1. ASSUME part = "atomic", part' = part, Atomic!Next PROVE IInv'
  BY <1>1, AtomicStepInv
<1>2. ASSUME part = "locked", part' = part, Locked!Next PROVE IInv'
  BY <1>2, LockedStepInv
<1>3. ASSUME part = "callback", part' = part, Callback!Next PROVE IInv'
  BY <1>3, CallbackStepInv
<1>4. ASSUME part = "kotlin call", part' = part, KotlinCall!Next PROVE IInv'
  BY <1>4, KotlinStepInv
<1>5. ASSUME part = "dotnet call", part' = part, DotnetCall!Next PROVE IInv'
  BY <1>5, DotnetStepInv
<1>6. ASSUME part = "python call", part' = part, PythonCall!Next PROVE IInv'
  BY <1>6, PythonStepInv
<1>7. ASSUME part = "go call", part' = part, GoCall!Next PROVE IInv'
  BY <1>7, GoStepInv
<1>8. ASSUME part = "errors", part' = part, Errors!Next PROVE IInv'
  BY <1>8, ErrorsStepInv
<1>9. ASSUME UNCHANGED vars PROVE IInv'
  <2>1. /\ UNCHANGED part /\ UNCHANGED Atomic!vars /\ UNCHANGED Locked!vars
        /\ UNCHANGED Callback!vars /\ UNCHANGED KotlinCall!vars /\ UNCHANGED DotnetCall!vars
        /\ UNCHANGED PythonCall!vars /\ UNCHANGED GoCall!vars /\ UNCHANGED Errors!vars
    BY <1>9 DEF vars, Atomic!vars, Locked!vars, Callback!vars, KotlinCall!vars,
         KotlinCall!shared, KotlinCall!threads, DotnetCall!vars, DotnetCall!shared,
         DotnetCall!threads, PythonCall!vars, PythonCall!shared, PythonCall!threads,
         GoCall!vars, GoCall!shared, GoCall!threads, Errors!vars
  <2> QED
    BY <2>1, AtomicStepInv, LockedStepInv, CallbackStepInv, KotlinStutters, DotnetStutters,
       PythonStutters, GoStutters, ErrorsStutters
<1> QED
  BY <1>1, <1>2, <1>3, <1>4, <1>5, <1>6, <1>7, <1>8, <1>9
     DEF Next, OnlyAtomic, OnlyLocked, OnlyCallback, OnlyCall, OnlyError

LEMMA SpecInv == Spec => []IInv
BY InitInv, StepInv, PTL DEF Spec

(* The state of the part that runs keeps its type, whichever part it is.   *)
THEOREM TypeCorrect == Spec => []TypeOK
<1>1. IInv => TypeOK
  BY AtomicInvImplies, LockedInvImplies, CallbackInvImplies
     DEF IInv, TypeOK, Awaits, KotlinInv, DotnetInv, PythonInv, GoInv, CallInv, ErrorsInv
<1> QED
  BY <1>1, SpecInv, PTL

(* The word of a wrapper of Go or Kotlin is exact (wvRef.acquire, release  *)
(* and close, and NativeHandle's), for every number of threads.            *)
THEOREM CountIsExact == Spec => []CountsCalls
<1>1. IInv => CountsCalls
  BY AtomicInvImplies DEF IInv, CountsCalls
<1> QED
  BY <1>1, SpecInv, PTL

(* Of the threads that close a wrapper, its last call and the collector,   *)
(* exactly one frees the reference, after all of them (wvRef.close of Go,  *)
(* _release and close of Python, Handle of Ruby).                          *)
THEOREM FreedExactlyOnce == Spec => []FreedOnce
<1>1. IInv => FreedOnce
  BY AtomicInvImplies, LockedInvImplies DEF IInv, FreedOnce
<1> QED
  BY <1>1, SpecInv, PTL

(* wvAwait of Go and FfiCall of .NET: a cancellable call that was launched *)
(* is waited for until its native call ended.                              *)
THEOREM NativeIsWaitedFor == Spec => []WaitsForNative
<1>1. IInv => WaitsForNative
  BY DEF IInv, WaitsForNative, Ended, GoInv, DotnetInv, CallInv, Call!TypeOK
<1> QED
  BY <1>1, SpecInv, PTL

(* FfiError::set, set_payload and release, callback_value and launch: every*)
(* run has one owner, for every error domain.                              *)
THEOREM EveryRunOwned == Spec => []RunsOwned
<1>1. IInv => RunsOwned
  BY DEF IInv, RunsOwned, ErrorsInv
<1> QED
  BY <1>1, SpecInv, PTL

(* failure and into_ffi: a typed error keeps the fields of its own code.   *)
THEOREM TypedWithItsFields == Spec => []FieldsOfTheCode
<1>1. IInv => FieldsOfTheCode
  BY DEF IInv, FieldsOfTheCode, Errors!FieldsOfTheCode, ErrorsInv, Errors!None, None
<1> QED
  BY <1>1, SpecInv, PTL

-----------------------------------------------------------------------------
(* The handles.                                                            *)

LEMMA InitHandle == Init => H!Init
<1> USE DEF H!Init
<1>1. ASSUME part = "atomic", Atomic!Init PROVE H!Init
  BY <1>1, AtomicInitRefines DEF Atomic!H!Init
<1>2. ASSUME part = "locked", Locked!Init PROVE H!Init
  BY <1>2, LockedInitRefines DEF Locked!H!Init
<1>3. ASSUME part = "callback", Callback!Init PROVE H!Init
  BY <1>3, CallbackInitRefines DEF Callback!H!Init
<1>4. ASSUME part \notin {"atomic", "locked", "callback"}, frees = 0 PROVE H!Init
  BY <1>4
<1> QED
  BY <1>1, <1>2, <1>3, <1>4 DEF Init

LEMMA StepHandle == IInv /\ [Next]_vars => [H!Next]_(H!vars)
<1> SUFFICES ASSUME IInv, [Next]_vars PROVE [H!Next]_(H!vars)
  OBVIOUS
<1>p. part' = part
  BY DEF vars, Next, OnlyAtomic, OnlyLocked, OnlyCallback, OnlyCall, OnlyError
<1>1. CASE part = "atomic"
  <2>1. AtomicInv /\ [Atomic!Next]_(Atomic!vars)
    BY <1>1 DEF IInv, vars, Next, Atomic!vars, Awaits
  <2>2. [Atomic!H!Next]_(Atomic!H!vars)
    BY <2>1, AtomicStepRefines
  <2>3. ASSUME NEW c \in Calls, Atomic!H!Lend(c) \/ Atomic!H!Return(c) PROVE H!Next
    BY <1>1, <1>p, <2>3 DEF Atomic!H!Lend, Atomic!H!Return, H!Lend, H!Return, H!Next
  <2>4. ASSUME Atomic!H!Close \/ Atomic!H!Free PROVE H!Next
    BY <1>1, <1>p, <2>4 DEF Atomic!H!Close, Atomic!H!Free, H!Close, H!Free, H!Next
  <2>5. ASSUME UNCHANGED Atomic!H!vars PROVE UNCHANGED H!vars
    BY <1>1, <1>p, <2>5 DEF Atomic!H!vars, H!vars
  <2> QED
    BY <2>2, <2>3, <2>4, <2>5 DEF Atomic!H!Next
<1>2. CASE part = "locked"
  <2>1. LockedInv /\ [Locked!Next]_(Locked!vars)
    BY <1>2 DEF IInv, vars, Next, Locked!vars, Awaits
  <2>2. [Locked!H!Next]_(Locked!H!vars)
    BY <2>1, LockedStepRefines
  <2>3. ASSUME NEW c \in Calls, Locked!H!Lend(c) \/ Locked!H!Return(c) PROVE H!Next
    BY <1>2, <1>p, <2>3 DEF Locked!H!Lend, Locked!H!Return, H!Lend, H!Return, H!Next
  <2>4. ASSUME Locked!H!Close \/ Locked!H!Free PROVE H!Next
    BY <1>2, <1>p, <2>4 DEF Locked!H!Close, Locked!H!Free, H!Close, H!Free, H!Next
  <2>5. ASSUME UNCHANGED Locked!H!vars PROVE UNCHANGED H!vars
    BY <1>2, <1>p, <2>5 DEF Locked!H!vars, H!vars
  <2> QED
    BY <2>2, <2>3, <2>4, <2>5 DEF Locked!H!Next
<1>3. CASE part = "callback"
  <2>1. CallbackInv /\ [Callback!Next]_(Callback!vars)
    BY <1>3 DEF IInv, vars, Next, Callback!vars, Awaits
  <2>2. [Callback!H!Next]_(Callback!H!vars)
    BY <2>1, CallbackStepRefines
  <2>3. ASSUME NEW c \in 1..MaxCalls, Callback!H!Lend(c) \/ Callback!H!Return(c) PROVE H!Next
    BY <1>3, <1>p, <2>3 DEF Callback!H!Lend, Callback!H!Return, H!Lend, H!Return, H!Next
  <2>4. ASSUME Callback!H!Close \/ Callback!H!Free PROVE H!Next
    BY <1>3, <1>p, <2>4 DEF Callback!H!Close, Callback!H!Free, H!Close, H!Free, H!Next
  <2>5. ASSUME UNCHANGED Callback!H!vars PROVE UNCHANGED H!vars
    BY <1>3, <1>p, <2>5 DEF Callback!H!vars, H!vars
  <2> QED
    BY <2>2, <2>3, <2>4, <2>5 DEF Callback!H!Next
<1>4. CASE part \notin {"atomic", "locked", "callback"}
  <2>1. frees' = frees
    BY <1>4 DEF vars, Next, OnlyCall, OnlyError
  <2> QED
    BY <1>4, <1>p, <2>1 DEF H!vars
<1> QED
  BY <1>1, <1>2, <1>3, <1>4

(* A wrapper's reference (Go, Kotlin, Python, Ruby) and a callback's       *)
(* implementation, its methods run in place or as messages to an isolate,  *)
(* are handles: no call borrows one that was closed, and it is freed once, *)
(* never under a call.                                                     *)
THEOREM HandlesKeepTheirPromise == Spec => HandlePromise
BY InitHandle, InitInv, StepInv, StepHandle, PTL DEF Spec, HandlePromise, H!Spec

-----------------------------------------------------------------------------
(* The asynchronous calls.                                                 *)

LEMMA InitAwait == Init => P!Init
<1> USE DEF P!Init, Awaits
<1>1. ASSUME Call!StartsWith(call) PROVE P!Init
  BY <1>1 DEF Call!StartsWith, Call!Users
<1>2. ASSUME part \notin Awaits, NoCall PROVE P!Init
  BY <1>2 DEF NoCall
<1>3. ASSUME KotlinCall!Init \/ DotnetCall!Init \/ PythonCall!Init \/ GoCall!Init
      PROVE  Call!StartsWith(call)
  BY <1>3 DEF Call!StartsWith, KotlinCall!Init, KotlinCall!StartsWith, DotnetCall!Init,
       DotnetCall!StartsWith, PythonCall!Init, PythonCall!StartsWith, GoCall!Init,
       GoCall!StartsWith
<1> QED
  BY <1>1, <1>2, <1>3 DEF Init

LEMMA AwaitSteps ==
  ASSUME IInv, [Next]_vars, part \in Awaits
  PROVE  [Call!P!Next]_(Call!P!vars)
<1>1. ASSUME UNCHANGED vars
      PROVE  /\ UNCHANGED KotlinCall!vars /\ UNCHANGED DotnetCall!vars
             /\ UNCHANGED PythonCall!vars /\ UNCHANGED GoCall!vars
  BY <1>1 DEF vars, KotlinCall!vars, KotlinCall!shared, KotlinCall!threads,
       DotnetCall!vars, DotnetCall!shared, DotnetCall!threads, PythonCall!vars,
       PythonCall!shared, PythonCall!threads, GoCall!vars, GoCall!shared, GoCall!threads
<1>2. CASE part = "kotlin call"
  <2>1. KotlinInv /\ (KotlinCall!Next \/ UNCHANGED KotlinCall!vars)
    BY <1>1, <1>2 DEF IInv, Next
  <2> QED
    BY <2>1, KotlinStepPromise, KotlinStutters
<1>3. CASE part = "dotnet call"
  <2>1. DotnetInv /\ (DotnetCall!Next \/ UNCHANGED DotnetCall!vars)
    BY <1>1, <1>3 DEF IInv, Next
  <2> QED
    BY <2>1, DotnetStepPromise, DotnetStutters
<1>4. CASE part = "python call"
  <2>1. PythonInv /\ (PythonCall!Next \/ UNCHANGED PythonCall!vars)
    BY <1>1, <1>4 DEF IInv, Next
  <2> QED
    BY <2>1, PythonStepPromise, PythonStutters
<1>5. CASE part = "go call"
  <2>1. GoInv /\ (GoCall!Next \/ UNCHANGED GoCall!vars)
    BY <1>1, <1>5 DEF IInv, Next
  <2> QED
    BY <2>1, GoStepPromise, GoStutters
<1> QED
  BY <1>2, <1>3, <1>4, <1>5 DEF Awaits

LEMMA StepAwait == IInv /\ [Next]_vars => [P!Next]_(P!vars)
<1> SUFFICES ASSUME IInv, [Next]_vars PROVE [P!Next]_(P!vars)
  OBVIOUS
<1>p. part' = part
  BY DEF vars, Next, OnlyAtomic, OnlyLocked, OnlyCallback, OnlyCall, OnlyError
<1>1. CASE part \in Awaits
  <2>1. [Call!P!Next]_(Call!P!vars)
    BY <1>1, AwaitSteps
  <2>2. ASSUME Call!P!Refuse \/ Call!P!Begin \/ Call!P!Launch \/ Call!P!Fail PROVE P!Next
    BY <1>1, <1>p, <2>2 DEF P!Next, Call!P!Refuse, P!Refuse, Call!P!Begin, P!Begin,
         Call!P!Launch, P!Launch, Call!P!Fail, P!Fail
  <2>3. ASSUME Call!P!Fire \/ Call!P!Find \/ Call!P!Take PROVE P!Next
    BY <1>1, <1>p, <2>3 DEF P!Next, Call!P!Fire, P!Fire, Call!P!Find, P!Find,
         Call!P!Take, P!Take, Call!P!Outcomes, P!Outcomes
  <2>4. ASSUME Call!P!Cancel \/ Call!P!Cancelled PROVE P!Next
    BY <1>1, <1>p, <2>4 DEF P!Next, Call!P!Cancel, P!Cancel, Call!P!Cancelled, P!Cancelled
  <2>5. ASSUME Call!P!Destroy \/ Call!P!End PROVE P!Next
    BY <1>1, <1>p, <2>5 DEF P!Next, Call!P!Destroy, P!Destroy, Call!P!End, P!End
  <2>6. ASSUME UNCHANGED Call!P!vars PROVE UNCHANGED P!vars
    BY <1>1, <1>p, <2>6 DEF Call!P!vars, P!vars
  <2> QED
    BY <2>1, <2>2, <2>3, <2>4, <2>5, <2>6 DEF Call!P!Next
<1>2. CASE part \notin Awaits
  <2>1. KeepCall
    BY <1>2 DEF vars, KeepCall, Next, Awaits, OnlyAtomic, OnlyLocked, OnlyCallback, OnlyError
  <2> QED
    BY <1>2, <1>p, <2>1 DEF KeepCall, P!vars
<1> QED
  BY <1>1, <1>2

(* The calls of Go, Kotlin, Python and .NET: the completion finds its call *)
(* and takes its outcome before the wait ends with it, and the token of    *)
(* the call is destroyed once, never under the call that cancels it.       *)
THEOREM AwaitsKeepTheirPromise == Spec => AwaitPromise
BY InitAwait, InitInv, StepInv, StepAwait, PTL DEF Spec, AwaitPromise, P!Spec

================================================================================

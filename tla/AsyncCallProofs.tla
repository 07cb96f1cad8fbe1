---------------------------- MODULE AsyncCallProofs ----------------------------
(***************************************************************************)
(* For every set of calls: the completion of an async export fires at most *)
(* once and is never lost, and AsyncCall implements CompletionPromise.     *)
(***************************************************************************)
EXTENDS AsyncCall, TLAPS

(* A call's completion is one ticket: the shared Completion, the launcher, *)
(* the task or the consumer holds it, and only one of them.                *)
InTask(c) == task[c] \in {"firing", "dropping"}

OneTicket(c) ==
  /\ fired[c] \in {0, 1}
  /\ complete[c] => launcher[c] # "firing" /\ ~InTask(c) /\ fired[c] = 0
  /\ launcher[c] = "firing" => ~InTask(c) /\ fired[c] = 0
  /\ InTask(c) => fired[c] = 0
  /\ launcher[c] # "idle" => \/ complete[c] \/ launcher[c] = "firing"
                             \/ InTask(c) \/ fired[c] = 1

(* Where the launcher is fixes what the shared state can be; a completion  *)
(* left behind by a finished task is the launcher's to take.               *)
Phases(c) ==
  /\ launcher[c] = "idle" => task[c] = "none" /\ fired[c] = 0 /\ verdict[c] = "none"
  /\ task[c] = "none" => ~complete[c] /\ launcher[c] \in {"idle", "firing", "done"}
  /\ launching[c] <=> launcher[c] \in {"spawning", "deciding"}
  /\ complete[c] /\ task[c] = "gone" => dropped[c] /\ launching[c]
  /\ task[c] = "dropping" => ~launching[c]
  /\ task[c] = "finished" => ~complete[c]
  /\ launcher[c] = "firing" => error[c] # "none"
  /\ error[c] \notin P!Results
  /\ task[c] \in {"resolved", "firing"} => verdict[c] # "none"

(* A token that had fired before the launch keeps the future unpolled.     *)
Doomed(c) ==
  doomed[c] => /\ cancelled[c]
               /\ task[c] # "polling"
               /\ verdict[c] \in {"none", "cancelled"}

(* A cancelled outcome goes back to the consumer's cancel or to an executor*)
(* that dropped the task; a task dropped by a refusal is the launcher's.   *)
Reason(c) == cancelled[c] \/ abandoned[c]

Reasons(c) ==
  /\ task[c] = "cancelling" => cancelled[c]
  /\ verdict[c] = "cancelled" => cancelled[c]
  /\ launcher[c] = "idle" => ~dropped[c] /\ ~refused[c] /\ spawned[c] = "none"
  /\ launcher[c] = "spawning" => spawned[c] = "none"
  /\ launcher[c] = "deciding" => spawned[c] # "none"
  /\ refused[c] => /\ task[c] \in {"unfinished", "gone"}
                   /\ task[c] = "unfinished" => launcher[c] = "spawning"
                   /\ holder[c] = "spawner"
                   /\ spawned[c] # "ok"
  /\ task[c] # "none" /\ holder[c] = "spawner"
       => launcher[c] = "spawning" \/ task[c] = "gone"
  /\ task[c] = "unfinished" => Reason(c) \/ refused[c]
  /\ complete[c] /\ dropped[c] => task[c] = "gone" /\ (Reason(c) \/ refused[c])
  /\ task[c] = "dropping" => Reason(c)
  /\ launcher[c] = "firing" /\ error[c] = "cancelled" => Reason(c)
  /\ fired[c] = 1 /\ outcome[c] = "cancelled" => Reason(c)

CallInv(c) == OneTicket(c) /\ Phases(c) /\ Doomed(c) /\ Reasons(c)

IInv == TypeOK /\ \A c \in Calls : CallInv(c)

(* Types are preserved by every action on its own.                         *)
LEMMA TypeInit == Init => TypeOK
<1> SUFFICES ASSUME Init PROVE TypeOK
  OBVIOUS
<1>1. \A c \in Calls : fired[c] = 0
  BY DEF Init
<1>2. default \in Executors /\ spawner \in BOOLEAN
  BY DEF Init
<1>3. /\ via \in [Calls -> {"none", "custom"} \cup Executors]
      /\ launcher \in [Calls -> {"idle", "spawning", "deciding", "firing", "done"}]
      /\ spawned \in [Calls -> {"none", "ok", "failed"}]
      /\ task \in [Calls -> {"none", "ready", "polling", "parked", "resolved",
                             "firing", "finished", "unfinished", "cancelling",
                             "dropping", "gone"}]
      /\ holder \in [Calls -> {"none", "spawner", "worker"}]
  BY DEF Init
<1>4. /\ verdict \in [Calls -> P!Outcomes \cup {"none"}]
      /\ error \in [Calls -> P!Outcomes \cup {"none"}]
      /\ outcome \in [Calls -> P!Outcomes \cup {"none"}]
      /\ fired \in [Calls -> Nat]
  BY DEF Init
<1>5. /\ complete \in [Calls -> BOOLEAN]
      /\ launching \in [Calls -> BOOLEAN]
      /\ dropped \in [Calls -> BOOLEAN]
      /\ refused \in [Calls -> BOOLEAN]
      /\ cancelled \in [Calls -> BOOLEAN]
      /\ doomed \in [Calls -> BOOLEAN]
      /\ abandoned \in [Calls -> BOOLEAN]
      /\ unwound \in [Calls -> BOOLEAN]
  BY DEF Init
<1> QED
  BY <1>1, <1>2, <1>3, <1>4, <1>5 DEF TypeOK

LEMMA IndInit == Init => IInv
  BY TypeInit DEF Init, IInv, CallInv, OneTicket, Phases, Doomed, InTask,
                  Reasons, P!Results

LEMMA TypeStep == IInv /\ [Next]_vars => TypeOK'
<1> SUFFICES ASSUME IInv, [Next]_vars PROVE TypeOK'
  OBVIOUS
<1> USE DEF TypeOK, P!Outcomes, P!Results, shared, history
<1> TypeOK
  BY DEF IInv
<1>s. CASE SetSpawner
  BY <1>s DEF SetSpawner
<1>u. CASE UNCHANGED vars
  BY <1>u DEF vars
<1>1. ASSUME NEW c \in Calls, Cancel(c)
     PROVE  TypeOK'
  BY <1>1 DEF Cancel
<1>2. ASSUME NEW c \in Calls, Launch(c)
     PROVE  TypeOK'
  BY <1>2 DEF Launch
<1>3. ASSUME NEW c \in Calls, \E e \in P!Outcomes : PrepareFails(c, e)
     PROVE  TypeOK'
  BY <1>3 DEF PrepareFails
<1>4. ASSUME NEW c \in Calls, SpawnOk(c)
     PROVE  TypeOK'
  BY <1>4 DEF SpawnOk, SpawnReturns, Placed
<1>5. ASSUME NEW c \in Calls, SpawnFails(c)
     PROVE  TypeOK'
  BY <1>5 DEF SpawnFails, SpawnReturns, Placed
<1>6. ASSUME NEW c \in Calls, LauncherDecides(c)
     PROVE  TypeOK'
  BY <1>6 DEF LauncherDecides, LauncherDecidesWith
<1>7. ASSUME NEW c \in Calls, LauncherFires(c)
     PROVE  TypeOK'
  BY <1>7 DEF LauncherFires, IInv, CallInv, Phases
<1>8. ASSUME NEW c \in Calls, HandOff(c)
     PROVE  TypeOK'
  BY <1>8 DEF HandOff
<1>9. ASSUME NEW c \in Calls, Refuse(c)
     PROVE  TypeOK'
  BY <1>9 DEF Refuse
<1>10. ASSUME NEW c \in Calls, ExecutorDrops(c)
     PROVE  TypeOK'
  BY <1>10 DEF ExecutorDrops
<1>11. ASSUME NEW c \in Calls, Wake(c)
     PROVE  TypeOK'
  BY <1>11 DEF Wake
<1>12. ASSUME NEW c \in Calls, BeginPoll(c)
     PROVE  TypeOK'
  BY <1>12 DEF BeginPoll, TaskMoves, Pollable
<1>13. ASSUME NEW c \in Calls, ObserveCancel(c)
     PROVE  TypeOK'
  BY <1>13 DEF ObserveCancel, TaskMoves, Pollable
<1>14. ASSUME NEW c \in Calls, DropsInner(c)
     PROVE  TypeOK'
  BY <1>14 DEF DropsInner, TaskMoves
<1>15. ASSUME NEW c \in Calls, DropPanics(c)
     PROVE  TypeOK'
  BY <1>15 DEF DropPanics, TaskMoves
<1>16. ASSUME NEW c \in Calls, PollPending(c)
     PROVE  TypeOK'
  BY <1>16 DEF PollPending, TaskMoves
<1>17. ASSUME NEW c \in Calls, \E v \in P!Outcomes : PollReady(c, v)
     PROVE  TypeOK'
  BY <1>17 DEF PollReady, TaskMoves
<1>18. ASSUME NEW c \in Calls, TakeCompletion(c)
     PROVE  TypeOK'
  BY <1>18 DEF TakeCompletion
<1>19. ASSUME NEW c \in Calls, \E o \in P!Outcomes : TaskFires(c, o)
     PROVE  TypeOK'
  BY <1>19 DEF TaskFires, Lowered, IInv, CallInv, Phases
<1>20. ASSUME NEW c \in Calls, GuardDrops(c)
     PROVE  TypeOK'
  BY <1>20 DEF GuardDrops
<1>21. ASSUME NEW c \in Calls, GuardFires(c)
     PROVE  TypeOK'
  BY <1>21 DEF GuardFires
<1> QED
  BY <1>1, <1>2, <1>3, <1>4, <1>5, <1>6, <1>7, <1>8, <1>9, <1>10, <1>11, <1>12, <1>13, <1>14, <1>15, <1>16, <1>17, <1>18, <1>19, <1>20, <1>21, <1>s, <1>u
  DEF Next, LauncherStep, ExecutorStep, TaskStep

LEMMA CallStep == IInv /\ [Next]_vars => \A d \in Calls : CallInv(d)'
<1> SUFFICES ASSUME IInv, [Next]_vars, NEW d \in Calls PROVE CallInv(d)'
  OBVIOUS
<1> USE DEF CallInv, OneTicket, Phases, Doomed, InTask, P!Outcomes, P!Results,
            Reasons, Reason, shared, history
<1>t. TypeOK /\ CallInv(d)
  BY DEF IInv
<1>s. CASE SetSpawner
  BY <1>t, <1>s DEF SetSpawner
<1>u. CASE UNCHANGED vars
  BY <1>t, <1>u DEF vars
<1>1. ASSUME NEW c \in Calls, Cancel(c)
     PROVE  CallInv(d)'
  BY <1>t, <1>1 DEF Cancel, TypeOK
<1>2. ASSUME NEW c \in Calls, Launch(c)
     PROVE  CallInv(d)'
  BY <1>t, <1>2 DEF Launch, TypeOK
<1>3. ASSUME NEW c \in Calls, \E e \in P!Outcomes : PrepareFails(c, e)
     PROVE  CallInv(d)'
  <2>1. PICK e \in P!Outcomes : PrepareFails(c, e)
    BY <1>3
  <2>2. CASE c = d
    BY <1>t, <2>1, <2>2 DEF PrepareFails, TypeOK
  <2>3. CASE c # d
    BY <1>t, <2>1, <2>3 DEF PrepareFails, TypeOK
  <2> QED
    BY <2>2, <2>3
<1>4. ASSUME NEW c \in Calls, SpawnOk(c)
     PROVE  CallInv(d)'
  BY <1>t, <1>4 DEF SpawnOk, SpawnReturns, Placed, TypeOK
<1>5. ASSUME NEW c \in Calls, SpawnFails(c)
     PROVE  CallInv(d)'
  BY <1>t, <1>5 DEF SpawnFails, SpawnReturns, Placed, TypeOK
<1>6. ASSUME NEW c \in Calls, LauncherDecides(c)
     PROVE  CallInv(d)'
  <2>1. CASE c # d
    BY <1>t, <1>6, <2>1 DEF LauncherDecides, LauncherDecidesWith, TypeOK
  <2>2. CASE c = d /\ spawned[c] = "failed"
    BY <1>t, <1>6, <2>2 DEF LauncherDecides, LauncherDecidesWith, TypeOK
  <2>3. CASE c = d /\ spawned[c] = "ok" /\ dropped[c]
    BY <1>t, <1>6, <2>3 DEF LauncherDecides, LauncherDecidesWith, TypeOK
  <2>4. CASE c = d /\ spawned[c] = "ok" /\ ~dropped[c]
    BY <1>t, <1>6, <2>4 DEF LauncherDecides, LauncherDecidesWith, TypeOK
  <2> QED
    BY <1>t, <1>6, <2>1, <2>2, <2>3, <2>4
    DEF LauncherDecides, LauncherDecidesWith, TypeOK
<1>7. ASSUME NEW c \in Calls, LauncherFires(c)
     PROVE  CallInv(d)'
  BY <1>t, <1>7 DEF LauncherFires, TypeOK
<1>8. ASSUME NEW c \in Calls, HandOff(c)
     PROVE  CallInv(d)'
  BY <1>t, <1>8 DEF HandOff, TypeOK
<1>9. ASSUME NEW c \in Calls, Refuse(c)
     PROVE  CallInv(d)'
  BY <1>t, <1>9 DEF Refuse, TypeOK
<1>10. ASSUME NEW c \in Calls, ExecutorDrops(c)
     PROVE  CallInv(d)'
  BY <1>t, <1>10 DEF ExecutorDrops, TypeOK
<1>11. ASSUME NEW c \in Calls, Wake(c)
     PROVE  CallInv(d)'
  BY <1>t, <1>11 DEF Wake, TypeOK
<1>12. ASSUME NEW c \in Calls, BeginPoll(c)
     PROVE  CallInv(d)'
  BY <1>t, <1>12 DEF BeginPoll, TaskMoves, Pollable, TypeOK
<1>13. ASSUME NEW c \in Calls, ObserveCancel(c)
     PROVE  CallInv(d)'
  BY <1>t, <1>13 DEF ObserveCancel, TaskMoves, Pollable, TypeOK
<1>14. ASSUME NEW c \in Calls, DropsInner(c)
     PROVE  CallInv(d)'
  BY <1>t, <1>14 DEF DropsInner, TaskMoves, TypeOK
<1>15. ASSUME NEW c \in Calls, DropPanics(c)
     PROVE  CallInv(d)'
  BY <1>t, <1>15 DEF DropPanics, TaskMoves, TypeOK
<1>16. ASSUME NEW c \in Calls, PollPending(c)
     PROVE  CallInv(d)'
  BY <1>t, <1>16 DEF PollPending, TaskMoves, TypeOK
<1>17. ASSUME NEW c \in Calls, \E v \in P!Outcomes : PollReady(c, v)
     PROVE  CallInv(d)'
  BY <1>t, <1>17 DEF PollReady, TaskMoves, TypeOK
<1>18. ASSUME NEW c \in Calls, TakeCompletion(c)
     PROVE  CallInv(d)'
  BY <1>t, <1>18 DEF TakeCompletion, TypeOK
<1>19. ASSUME NEW c \in Calls, \E o \in P!Outcomes : TaskFires(c, o)
     PROVE  CallInv(d)'
  BY <1>t, <1>19 DEF TaskFires, Lowered, TypeOK
<1>20. ASSUME NEW c \in Calls, GuardDrops(c)
     PROVE  CallInv(d)'
  BY <1>t, <1>20 DEF GuardDrops, TypeOK
<1>21. ASSUME NEW c \in Calls, GuardFires(c)
     PROVE  CallInv(d)'
  BY <1>t, <1>21 DEF GuardFires, TypeOK
<1> QED
  BY <1>1, <1>2, <1>3, <1>4, <1>5, <1>6, <1>7, <1>8, <1>9, <1>10, <1>11, <1>12, <1>13, <1>14, <1>15, <1>16, <1>17, <1>18, <1>19, <1>20, <1>21, <1>s, <1>u
  DEF Next, LauncherStep, ExecutorStep, TaskStep

-----------------------------------------------------------------------------
THEOREM Invariance == Spec => []IInv
<1>1. Init => IInv
  BY IndInit
<1>2. IInv /\ [Next]_vars => IInv'
  BY TypeStep, CallStep DEF IInv
<1> QED
  BY <1>1, <1>2, PTL DEF Spec

(* Every variable keeps its type, and a completion that fired had one of   *)
(* the codes a launch can end with.                                        *)
THEOREM TypeCorrect == Spec => []TypeOK
  BY Invariance, PTL DEF IInv

(* However the launcher, the task and the Guard's drop interleave, the     *)
(* completion never fires twice.                                           *)
THEOREM FiresAtMostOnce == Spec => []AtMostOnce
<1>1. IInv => AtMostOnce
  BY DEF IInv, CallInv, OneTicket, AtMostOnce
<1> QED
  BY <1>1, Invariance, PTL

(* Nor is it lost between a launcher that has returned and a task that is  *)
(* gone.                                                                   *)
THEOREM NeverLost == Spec => []NoLostCompletion
<1>1. IInv => NoLostCompletion
  BY DEF IInv, CallInv, OneTicket, Phases, InTask, NoLostCompletion
<1> QED
  BY <1>1, Invariance, PTL

(* No race turns a result into a cancellation.                             *)
THEOREM CancelledOnlyForAReason == Spec => []CancelledForAReason
<1>1. IInv => CancelledForAReason
  BY DEF IInv, CallInv, Reasons, Reason, CancelledForAReason
<1> QED
  BY <1>1, Invariance, PTL

-----------------------------------------------------------------------------
(* The refinement: a launch maps to P!Launch, a completion to P!Complete,  *)
(* the consumer's cancel to P!Cancel, and every other step stutters.       *)
LEMMA PromiseInit == Init => P!Init
<1> SUFFICES ASSUME Init PROVE P!Init
  OBVIOUS
<1>1. Launched = [c \in Calls |-> FALSE]
  BY DEF Init, Launched
<1> QED
  BY <1>1 DEF Init, P!Init

LEMMA PromiseStep == IInv /\ [Next]_vars => [P!Next]_(P!vars)
<1> SUFFICES ASSUME IInv, [Next]_vars PROVE P!Next \/ UNCHANGED P!vars
  OBVIOUS
<1> USE DEF shared, history, P!vars
<1>t. TypeOK /\ \A c \in Calls : CallInv(c)
  BY DEF IInv
<1>s. CASE SetSpawner
  BY <1>s DEF SetSpawner, Launched
<1>u. CASE UNCHANGED vars
  BY <1>u DEF vars, Launched
<1>1. ASSUME NEW c \in Calls, Cancel(c)
     PROVE  P!Next \/ UNCHANGED P!vars
  <2>1. P!Cancel(c)
    BY <1>1 DEF Cancel, P!Cancel, Launched
  <2> QED
    BY <2>1 DEF P!Next
<1>2. ASSUME NEW c \in Calls, Launch(c)
     PROVE  P!Next \/ UNCHANGED P!vars
  <2>1. Launched' = [Launched EXCEPT ![c] = TRUE]
    BY <1>t, <1>2 DEF Launch, Launched, TypeOK
  <2>2. P!Launch(c)
    BY <2>1, <1>2 DEF Launch, Launched, P!Launch
  <2> QED
    BY <2>2 DEF P!Next
<1>3. ASSUME NEW c \in Calls, \E e \in P!Outcomes : PrepareFails(c, e)
     PROVE  P!Next \/ UNCHANGED P!vars
  <2> PICK e \in P!Outcomes : PrepareFails(c, e)
    BY <1>3
  <2>1. Launched' = [Launched EXCEPT ![c] = TRUE]
    BY <1>t DEF PrepareFails, Launched, TypeOK
  <2>2. P!Launch(c)
    BY <2>1 DEF PrepareFails, Launched, P!Launch
  <2> QED
    BY <2>2 DEF P!Next
<1>4. ASSUME NEW c \in Calls, SpawnOk(c)
     PROVE  P!Next \/ UNCHANGED P!vars
  <2>1. Launched' = Launched
    BY <1>t, <1>4 DEF SpawnOk, SpawnReturns, Placed, Launched, TypeOK
  <2> QED
    BY <2>1, <1>4 DEF SpawnOk, SpawnReturns, Placed, Launched
<1>5. ASSUME NEW c \in Calls, SpawnFails(c)
     PROVE  P!Next \/ UNCHANGED P!vars
  <2>1. Launched' = Launched
    BY <1>t, <1>5 DEF SpawnFails, SpawnReturns, Placed, Launched, TypeOK
  <2> QED
    BY <2>1, <1>5 DEF SpawnFails, SpawnReturns, Placed, Launched
<1>6. ASSUME NEW c \in Calls, LauncherDecides(c)
     PROVE  P!Next \/ UNCHANGED P!vars
  <2>1. Launched' = Launched
    BY <1>t, <1>6 DEF LauncherDecides, LauncherDecidesWith, Launched, TypeOK
  <2> QED
    BY <2>1, <1>6 DEF LauncherDecides, LauncherDecidesWith, Launched
<1>7. ASSUME NEW c \in Calls, LauncherFires(c)
     PROVE  P!Next \/ UNCHANGED P!vars
  <2>1. Launched' = Launched /\ Launched[c]
    BY <1>t, <1>7 DEF LauncherFires, Launched, TypeOK
  <2>2. fired[c] = 0 /\ error[c] \in P!Outcomes /\ error[c] \notin P!Results
    BY <1>t, <1>7 DEF LauncherFires, CallInv, OneTicket, Phases, TypeOK
  <2>3. P!Complete(c, error[c])
    BY <2>1, <2>2, <1>7 DEF LauncherFires, Launched, P!Complete
  <2> QED
    BY <2>2, <2>3 DEF P!Next
<1>8. ASSUME NEW c \in Calls, HandOff(c)
     PROVE  P!Next \/ UNCHANGED P!vars
  BY <1>8 DEF HandOff, Launched
<1>9. ASSUME NEW c \in Calls, Refuse(c)
     PROVE  P!Next \/ UNCHANGED P!vars
  BY <1>9 DEF Refuse, Launched
<1>10. ASSUME NEW c \in Calls, ExecutorDrops(c)
     PROVE  P!Next \/ UNCHANGED P!vars
  BY <1>10 DEF ExecutorDrops, Launched
<1>11. ASSUME NEW c \in Calls, Wake(c)
     PROVE  P!Next \/ UNCHANGED P!vars
  BY <1>11 DEF Wake, Launched
<1>12. ASSUME NEW c \in Calls, BeginPoll(c)
     PROVE  P!Next \/ UNCHANGED P!vars
  BY <1>12 DEF BeginPoll, TaskMoves, Launched
<1>13. ASSUME NEW c \in Calls, ObserveCancel(c)
     PROVE  P!Next \/ UNCHANGED P!vars
  BY <1>13 DEF ObserveCancel, TaskMoves, Launched
<1>14. ASSUME NEW c \in Calls, DropsInner(c)
     PROVE  P!Next \/ UNCHANGED P!vars
  BY <1>14 DEF DropsInner, TaskMoves, Launched
<1>15. ASSUME NEW c \in Calls, DropPanics(c)
     PROVE  P!Next \/ UNCHANGED P!vars
  BY <1>15 DEF DropPanics, TaskMoves, Launched
<1>16. ASSUME NEW c \in Calls, PollPending(c)
     PROVE  P!Next \/ UNCHANGED P!vars
  BY <1>16 DEF PollPending, TaskMoves, Launched
<1>17. ASSUME NEW c \in Calls, \E v \in P!Outcomes : PollReady(c, v)
     PROVE  P!Next \/ UNCHANGED P!vars
  BY <1>17 DEF PollReady, TaskMoves, Launched
<1>18. ASSUME NEW c \in Calls, TakeCompletion(c)
     PROVE  P!Next \/ UNCHANGED P!vars
  BY <1>18 DEF TakeCompletion, Launched
<1>19. ASSUME NEW c \in Calls, \E o \in P!Outcomes : TaskFires(c, o)
     PROVE  P!Next \/ UNCHANGED P!vars
  <2>1. PICK o \in P!Outcomes : TaskFires(c, o)
    BY <1>19
  <2>2. fired[c] = 0 /\ launcher[c] # "idle"
    BY <1>t, <2>1 DEF TaskFires, CallInv, OneTicket, Phases, InTask
  <2>3. o \in P!Results => ~doomed[c]
    BY <1>t, <2>1 DEF TaskFires, Lowered, CallInv, Doomed, Phases, P!Results
  <2>4. Launched' = Launched /\ Launched[c]
    BY <2>1, <2>2 DEF TaskFires, Launched
  <2>5. fired' = [fired EXCEPT ![c] = 1]
    BY <1>t, <2>1, <2>2 DEF TaskFires, TypeOK
  <2>6. P!Complete(c, o)
    BY <2>1, <2>2, <2>3, <2>4, <2>5 DEF TaskFires, P!Complete
  <2> QED
    BY <2>6 DEF P!Next
<1>20. ASSUME NEW c \in Calls, GuardDrops(c)
     PROVE  P!Next \/ UNCHANGED P!vars
  BY <1>20 DEF GuardDrops, Launched
<1>21. ASSUME NEW c \in Calls, GuardFires(c)
     PROVE  P!Next \/ UNCHANGED P!vars
  <2>1. fired[c] = 0 /\ launcher[c] # "idle"
    BY <1>t, <1>21 DEF GuardFires, CallInv, OneTicket, Phases, InTask
  <2>2. Launched' = Launched /\ Launched[c]
    BY <2>1, <1>21 DEF GuardFires, Launched
  <2>3. fired' = [fired EXCEPT ![c] = 1]
    BY <1>t, <2>1, <1>21 DEF GuardFires, TypeOK
  <2>4. P!Complete(c, "cancelled")
    BY <2>1, <2>2, <2>3, <1>21 DEF GuardFires, P!Complete, P!Results
  <2> QED
    BY <2>4 DEF P!Next, P!Outcomes
<1> QED
  BY <1>1, <1>2, <1>3, <1>4, <1>5, <1>6, <1>7, <1>8, <1>9, <1>10, <1>11, <1>12, <1>13, <1>14, <1>15, <1>16, <1>17, <1>18, <1>19, <1>20, <1>21, <1>s, <1>u
  DEF Next, LauncherStep, ExecutorStep, TaskStep

(* The whole launcher, executor and Guard protocol is, to a consumer, one  *)
(* completion per launch.                                                  *)
THEOREM ImplementsPromise == Spec => Promise
<1>1. Init => P!Init
  BY PromiseInit
<1>2. IInv /\ [Next]_vars => [P!Next]_(P!vars)
  BY PromiseStep
<1> QED
  BY <1>1, <1>2, Invariance, PTL DEF Spec, Promise, P!Spec

===============================================================================

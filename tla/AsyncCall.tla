------------------------------- MODULE AsyncCall -------------------------------
(***************************************************************************)
(* One async export from launch to completion: the launcher (launch_async, *)
(* run_async), the executor it hands the task to (a custom Spawner or one  *)
(* of the default executors), and the task's Guard, in rt/spawn.rs.  The   *)
(* launcher thread and the executor thread share a Completion behind a     *)
(* mutex; each action below is one critical section, one poll of the       *)
(* producer's future, or one callback into the consumer.                   *)
(*                                                                         *)
(* The cancel token is its flag here; module CancelToken has the protocol  *)
(* that wakes a task once the flag is set.                                 *)
(***************************************************************************)
EXTENDS Naturals

CONSTANTS Calls, Tokened

VARIABLES
  default,    \* the executor compiled in: "tokio", "thread" or "wasm"
  spawner,    \* a custom Spawner has been installed (the SPAWNER OnceLock)
  via,        \* via[c]: the executor the call's task was given to
  launcher,   \* launcher[c]: where the launcher thread is
  spawned,    \* spawned[c]: what spawn returned: "none", "ok", "failed"
  complete,   \* complete[c]: CompletionState.complete is Some
  launching,  \* launching[c]: CompletionState.launching
  dropped,    \* dropped[c]: CompletionState.dropped
  task,       \* task[c]: where the spawned async block is
  holder,     \* holder[c]: "spawner" while the launcher is inside spawn and
              \*   the task is its own, "worker" once another thread has it
  refused,    \* refused[c]: the default executor could not take the task
  verdict,    \* verdict[c]: the outcome the task is about to deliver
  error,      \* error[c]: the outcome the launcher is about to deliver
  cancelled,  \* cancelled[c]: the call's token has fired
  doomed,     \* history: it had fired when the launcher was entered
  abandoned,  \* history: the executor dropped the task unfinished
  unwound,    \* history: a panic left the task's poll
  fired,      \* history: how many times the completion ran
  outcome     \* history: what the last one was given

Launched == [c \in Calls |-> launcher[c] # "idle"]

P == INSTANCE CompletionPromise WITH launched <- Launched

ASSUME CallsAssumption == Tokened \subseteq Calls

shared == <<complete, launching, dropped>>
history == <<doomed, abandoned, unwound, fired, outcome>>
vars == <<default, spawner, via, launcher, spawned, shared, task, holder,
          refused, verdict, error, cancelled, history>>

Executors == {"tokio", "thread", "wasm"}

TypeOK ==
  /\ default \in Executors
  /\ spawner \in BOOLEAN
  /\ via \in [Calls -> {"none", "custom"} \cup Executors]
  /\ launcher \in [Calls -> {"idle", "spawning", "deciding", "firing", "done"}]
  /\ spawned \in [Calls -> {"none", "ok", "failed"}]
  /\ complete \in [Calls -> BOOLEAN]
  /\ launching \in [Calls -> BOOLEAN]
  /\ dropped \in [Calls -> BOOLEAN]
  /\ task \in [Calls -> {"none", "ready", "polling", "parked", "resolved",
                         "firing", "finished", "unfinished", "cancelling",
                         "dropping", "gone"}]
  /\ holder \in [Calls -> {"none", "spawner", "worker"}]
  /\ refused \in [Calls -> BOOLEAN]
  /\ verdict \in [Calls -> P!Outcomes \cup {"none"}]
  /\ error \in [Calls -> P!Outcomes \cup {"none"}]
  /\ cancelled \in [Calls -> BOOLEAN]
  /\ doomed \in [Calls -> BOOLEAN]
  /\ abandoned \in [Calls -> BOOLEAN]
  /\ unwound \in [Calls -> BOOLEAN]
  /\ fired \in [Calls -> Nat]
  /\ outcome \in [Calls -> P!Outcomes \cup {"none"}]
  /\ \A c \in Calls : fired[c] > 0 => outcome[c] # "none"

Init ==
  /\ default \in Executors
  /\ spawner = FALSE
  /\ via = [c \in Calls |-> "none"]
  /\ launcher = [c \in Calls |-> "idle"]
  /\ spawned = [c \in Calls |-> "none"]
  /\ complete = [c \in Calls |-> FALSE]
  /\ launching = [c \in Calls |-> FALSE]
  /\ dropped = [c \in Calls |-> FALSE]
  /\ task = [c \in Calls |-> "none"]
  /\ holder = [c \in Calls |-> "none"]
  /\ refused = [c \in Calls |-> FALSE]
  /\ verdict = [c \in Calls |-> "none"]
  /\ error = [c \in Calls |-> "none"]
  /\ cancelled = [c \in Calls |-> FALSE]
  /\ doomed = [c \in Calls |-> FALSE]
  /\ abandoned = [c \in Calls |-> FALSE]
  /\ unwound = [c \in Calls |-> FALSE]
  /\ fired = [c \in Calls |-> 0]
  /\ outcome = [c \in Calls |-> "none"]

(* catch_unwind does nothing on wasm32, whose panics abort the instance:   *)
(* no panic is ever reported there.                                        *)
PanicsUnwind == default # "wasm"

-----------------------------------------------------------------------------
(* The consumer and the producer's start-up code.                          *)

(* set_spawner: the OnceLock keeps the first spawner.                      *)
SetSpawner ==
  /\ ~spawner
  /\ spawner' = TRUE
  /\ UNCHANGED <<default, via, launcher, spawned, shared, task, holder,
                 refused, verdict, error, cancelled, history>>

Cancel(c) ==
  /\ c \in Tokened
  /\ ~cancelled[c]
  /\ cancelled' = [cancelled EXCEPT ![c] = TRUE]
  /\ UNCHANGED <<default, spawner, via, launcher, spawned, shared, task,
                 holder, refused, verdict, error, history>>

-----------------------------------------------------------------------------
(* The launcher, on the consumer's thread.                                 *)

(* launch_async: prepare lifted every input; run_async builds the shared   *)
(* completion and the task, and spawn picks the executor.                  *)
Launch(c) ==
  /\ launcher[c] = "idle"
  /\ launcher' = [launcher EXCEPT ![c] = "spawning"]
  /\ via' = [via EXCEPT ![c] = IF spawner THEN "custom" ELSE default]
  /\ complete' = [complete EXCEPT ![c] = TRUE]
  /\ launching' = [launching EXCEPT ![c] = TRUE]
  /\ task' = [task EXCEPT ![c] = "ready"]
  /\ holder' = [holder EXCEPT ![c] = "spawner"]
  /\ doomed' = [doomed EXCEPT ![c] = cancelled[c]]
  /\ UNCHANGED <<default, spawner, spawned, dropped, refused, verdict, error,
                 cancelled, abandoned, unwound, fired, outcome>>

(* launch_async: an input failed to lift, or lifting panicked; the         *)
(* launcher finishes the call itself.                                      *)
PrepareFails(c, e) ==
  /\ launcher[c] = "idle"
  /\ e \in {"marshal", "panic"}
  /\ e = "panic" => PanicsUnwind
  /\ launcher' = [launcher EXCEPT ![c] = "firing"]
  /\ error' = [error EXCEPT ![c] = e]
  /\ doomed' = [doomed EXCEPT ![c] = cancelled[c]]
  /\ UNCHANGED <<default, spawner, via, spawned, shared, task, holder,
                 refused, verdict, cancelled, abandoned, unwound, fired,
                 outcome>>

(* The executor still has the task, or is done with it: spawn may return.  *)
Placed(c) == holder[c] = "worker" \/ task[c] = "gone"

SpawnReturns(c, result) ==
  /\ launcher[c] = "spawning"
  /\ Placed(c)
  /\ launcher' = [launcher EXCEPT ![c] = "deciding"]
  /\ spawned' = [spawned EXCEPT ![c] = result]
  /\ UNCHANGED <<default, spawner, via, shared, task, holder, refused,
                 verdict, error, cancelled, history>>

SpawnOk(c) == ~refused[c] /\ SpawnReturns(c, "ok")

(* A default executor that refused the task, or a custom spawner that      *)
(* panicked, wherever it left the task before it did.                      *)
SpawnFails(c) == /\ refused[c] \/ (via[c] = "custom" /\ PanicsUnwind)
                 /\ SpawnReturns(c, "failed")

(* run_async after spawn: one critical section clears launching and decides*)
(* whether the launcher takes the completion, to deliver e.                *)
LauncherDecidesWith(c, takes, e) ==
  /\ launcher[c] = "deciding"
  /\ launcher' = [launcher EXCEPT ![c] =
                    IF takes /\ complete[c] THEN "firing" ELSE "done"]
  /\ complete' = [complete EXCEPT ![c] = complete[c] /\ ~takes]
  /\ error' = [error EXCEPT ![c] = e]
  /\ launching' = [launching EXCEPT ![c] = FALSE]
  /\ UNCHANGED <<default, spawner, via, spawned, dropped, task, holder,
                 refused, verdict, cancelled, history>>

(* Three defects: the error is never set, a task dropped while launching   *)
(* is forgotten, a task still running is taken for a dropped one.          *)
DecidesWithoutError(c) ==
  LauncherDecidesWith(c, spawned[c] = "failed" \/ dropped[c], error[c])
DecidesIgnoringDrop(c) ==
  LauncherDecidesWith(c, spawned[c] = "failed", "generic")
DecidesTooEagerly(c) == LauncherDecidesWith(c, TRUE, "cancelled")

(* It takes the completion of a task the executor did not take, or one     *)
(* dropped unfinished while launching.                                     *)
LauncherDecides(c) ==
  LauncherDecidesWith(c, spawned[c] = "failed" \/ dropped[c],
                      IF spawned[c] = "failed" THEN "generic" ELSE "cancelled")

LauncherFires(c) ==
  /\ launcher[c] = "firing"
  /\ launcher' = [launcher EXCEPT ![c] = "done"]
  /\ fired' = [fired EXCEPT ![c] = @ + 1]
  /\ outcome' = [outcome EXCEPT ![c] = error[c]]
  /\ UNCHANGED <<default, spawner, via, spawned, shared, task, holder,
                 refused, verdict, error, cancelled, doomed, abandoned,
                 unwound>>

-----------------------------------------------------------------------------
(* The executor: what it may do with the task it was given.                *)

(* Another thread gets the task: a worker, a run queue, a thread per call. *)
HandOff(c) ==
  /\ launcher[c] = "spawning"
  /\ holder[c] = "spawner"
  /\ task[c] \in {"ready", "parked"}
  /\ via[c] # "wasm"
  /\ holder' = [holder EXCEPT ![c] = "worker"]
  /\ UNCHANGED <<default, spawner, via, launcher, spawned, shared, task,
                 refused, verdict, error, cancelled, history>>

(* default_spawn drops the task and returns an error: no thread, no Tokio  *)
(* runtime, or (wasm32) a future pending with nothing left to wake it.     *)
Refuse(c) ==
  /\ holder[c] = "spawner"
  /\ \/ via[c] \in {"tokio", "thread"} /\ task[c] = "ready"
     \/ via[c] = "wasm" /\ task[c] = "parked"
  /\ refused' = [refused EXCEPT ![c] = TRUE]
  /\ task' = [task EXCEPT ![c] = "unfinished"]
  /\ UNCHANGED <<default, spawner, via, launcher, spawned, shared, holder,
                 verdict, error, cancelled, history>>

(* A custom spawner or a shut-down Tokio runtime drops the task.  The      *)
(* thread-per-call and wasm32 executors never drop one they have started.  *)
ExecutorDrops(c) ==
  /\ task[c] \in {"ready", "parked"}
  /\ \/ via[c] = "custom"
     \/ via[c] = "tokio" /\ holder[c] = "worker"
  /\ task' = [task EXCEPT ![c] = "unfinished"]
  /\ abandoned' = [abandoned EXCEPT ![c] = TRUE]
  /\ UNCHANGED <<default, spawner, via, launcher, spawned, shared, holder,
                 refused, verdict, error, cancelled, doomed, unwound, fired,
                 outcome>>

(* The producer or the token wakes the task's waker.                       *)
Wake(c) ==
  /\ task[c] = "parked"
  /\ via[c] # "wasm"
  /\ task' = [task EXCEPT ![c] = "ready"]
  /\ UNCHANGED <<default, spawner, via, launcher, spawned, shared, holder,
                 refused, verdict, error, cancelled, history>>

-----------------------------------------------------------------------------
(* The task: the async block of run_async, polled by whoever holds it.     *)

(* A custom spawner and wasm32 may poll before spawn returns.              *)
Pollable(c) == /\ task[c] = "ready"
               /\ holder[c] = "worker" \/ via[c] \in {"custom", "wasm"}

TaskMoves(c, from, to) ==
  /\ task[c] = from
  /\ task' = [task EXCEPT ![c] = to]
  /\ UNCHANGED <<default, spawner, via, launcher, spawned, shared, holder,
                 refused, error, cancelled, doomed, abandoned, fired, outcome>>

(* A defect: the producer's future is polled before the flag is read.      *)
BeginPollUnchecked(c) ==
  /\ Pollable(c)
  /\ TaskMoves(c, "ready", "polling")
  /\ UNCHANGED <<verdict, unwound>>

(* Cancellable::poll reads the flag; unset, it polls the producer's future.*)
BeginPoll(c) ==
  /\ Pollable(c)
  /\ ~cancelled[c]
  /\ TaskMoves(c, "ready", "polling")
  /\ UNCHANGED <<verdict, unwound>>

(* Set, it drops the producer's future before it resolves to None.         *)
ObserveCancel(c) ==
  /\ Pollable(c)
  /\ cancelled[c]
  /\ TaskMoves(c, "ready", "cancelling")
  /\ UNCHANGED <<verdict, unwound>>

DropsInner(c) ==
  /\ TaskMoves(c, "cancelling", "resolved")
  /\ verdict' = [verdict EXCEPT ![c] = "cancelled"]
  /\ UNCHANGED unwound

(* That drop runs outside CatchUnwind: a panic in it unwinds out of the    *)
(* task's poll, dropping the Guard on the way.                             *)
DropPanics(c) ==
  /\ PanicsUnwind
  /\ TaskMoves(c, "cancelling", "unfinished")
  /\ unwound' = [unwound EXCEPT ![c] = TRUE]
  /\ UNCHANGED verdict

(* The future suspends; it may have woken itself while it was polled.      *)
PollPending(c) ==
  /\ \E to \in {"ready", "parked"} : TaskMoves(c, "polling", to)
  /\ UNCHANGED <<verdict, unwound>>

(* It resolves, or CatchUnwind catches its panic.                          *)
PollReady(c, v) ==
  /\ v \in P!Results \cup {"panic"}
  /\ v = "panic" => PanicsUnwind
  /\ TaskMoves(c, "polling", "resolved")
  /\ verdict' = [verdict EXCEPT ![c] = v]
  /\ UNCHANGED unwound

(* A defect: the completion is copied, not taken.                          *)
CopyCompletion(c) ==
  /\ task[c] = "resolved"
  /\ task' = [task EXCEPT ![c] = IF complete[c] THEN "firing" ELSE "finished"]
  /\ UNCHANGED <<default, spawner, via, launcher, spawned, shared, holder,
                 refused, verdict, error, cancelled, history>>

(* Guard::complete: take the completion under the lock.                    *)
TakeCompletion(c) ==
  /\ task[c] = "resolved"
  /\ task' = [task EXCEPT ![c] = IF complete[c] THEN "firing" ELSE "finished"]
  /\ complete' = [complete EXCEPT ![c] = FALSE]
  /\ UNCHANGED <<default, spawner, via, launcher, spawned, launching, dropped,
                 holder, refused, verdict, error, cancelled, history>>

(* finish: a value is lowered under catch_unwind before it is delivered.   *)
Lowered(v) == IF v = "ok" THEN {"ok", "marshal"} \cup
                               (IF PanicsUnwind THEN {"panic"} ELSE {})
                          ELSE {v}

(* Guard::complete outside the lock: run the completion.                   *)
TaskFires(c, o) ==
  /\ task[c] = "firing"
  /\ o \in Lowered(verdict[c])
  /\ task' = [task EXCEPT ![c] = "finished"]
  /\ fired' = [fired EXCEPT ![c] = @ + 1]
  /\ outcome' = [outcome EXCEPT ![c] = o]
  /\ UNCHANGED <<default, spawner, via, launcher, spawned, shared, holder,
                 refused, verdict, error, cancelled, doomed, abandoned,
                 unwound>>

(* A defect: a Guard dropped after the launch tells nobody.                *)
GuardDropsSilently(c) ==
  /\ task[c] \in {"finished", "unfinished"}
  /\ task' = [task EXCEPT ![c] = "gone"]
  /\ dropped' = [dropped EXCEPT ![c] = dropped[c] \/ launching[c]]
  /\ UNCHANGED <<default, spawner, via, launcher, spawned, complete, launching,
                 holder, refused, verdict, error, cancelled, history>>

(* Guard::drop: inside the spawner it leaves the call to the launcher;     *)
(* afterwards it takes the completion, if that is still there.             *)
GuardDrops(c) ==
  /\ task[c] \in {"finished", "unfinished"}
  /\ LET takes == ~launching[c] /\ complete[c]
     IN  /\ task' = [task EXCEPT ![c] = IF takes THEN "dropping" ELSE "gone"]
         /\ complete' = [complete EXCEPT ![c] = complete[c] /\ ~takes]
  /\ dropped' = [dropped EXCEPT ![c] = dropped[c] \/ launching[c]]
  /\ UNCHANGED <<default, spawner, via, launcher, spawned, launching, holder,
                 refused, verdict, error, cancelled, history>>

(* A completion taken by Guard::drop is given the cancelled code.          *)
GuardFires(c) ==
  /\ task[c] = "dropping"
  /\ task' = [task EXCEPT ![c] = "gone"]
  /\ fired' = [fired EXCEPT ![c] = @ + 1]
  /\ outcome' = [outcome EXCEPT ![c] = "cancelled"]
  /\ UNCHANGED <<default, spawner, via, launcher, spawned, shared, holder,
                 refused, verdict, error, cancelled, doomed, abandoned,
                 unwound>>

-----------------------------------------------------------------------------
TaskStep(c) ==
  \/ BeginPoll(c) \/ ObserveCancel(c) \/ DropsInner(c) \/ DropPanics(c)
  \/ PollPending(c)
  \/ \E v \in P!Outcomes : PollReady(c, v)
  \/ TakeCompletion(c)
  \/ \E o \in P!Outcomes : TaskFires(c, o)
  \/ GuardDrops(c) \/ GuardFires(c)

LauncherStep(c) ==
  \/ Launch(c)
  \/ \E e \in P!Outcomes : PrepareFails(c, e)
  \/ SpawnOk(c) \/ SpawnFails(c) \/ LauncherDecides(c) \/ LauncherFires(c)

ExecutorStep(c) == HandOff(c) \/ Refuse(c) \/ ExecutorDrops(c) \/ Wake(c)

Next == \/ SetSpawner
        \/ \E c \in Calls : \/ Cancel(c) \/ LauncherStep(c)
                            \/ ExecutorStep(c) \/ TaskStep(c)

Spec == Init /\ [][Next]_vars

(* A spawner must not block, and an executor polls a woken task or drops   *)
(* it (Spawner::spawn); the token wakes a task it has cancelled            *)
(* (module CancelToken).  The producer's future need not resolve.          *)
Fairness ==
  \A c \in Calls :
    /\ WF_vars(SpawnOk(c) \/ SpawnFails(c))
    /\ WF_vars(HandOff(c) \/ Refuse(c))
    /\ WF_vars(LauncherDecides(c) \/ LauncherFires(c))
    /\ WF_vars(TaskStep(c))
    /\ WF_vars(cancelled[c] /\ Wake(c))

FairSpec == Spec /\ Fairness

-----------------------------------------------------------------------------
(* The completion never fires twice, whichever of the launcher, the task   *)
(* and the Guard's drop reach it and in whatever order ("exactly once",    *)
(* the Completion struct and run_async).                                   *)
AtMostOnce == \A c \in Calls : fired[c] \in {0, 1}

(* Nor is it lost: once the launcher has returned and the task is gone,    *)
(* it has fired, even when each side left the call to the other.           *)
NoLostCompletion ==
  \A c \in Calls : launcher[c] = "done" /\ task[c] \in {"none", "gone"}
                     => fired[c] = 1

(* A consumer that is told its call was cancelled either cancelled it or   *)
(* had an executor that dropped the task: a race between the launcher and  *)
(* a task that ran never turns a result into a cancellation.               *)
CancelledForAReason ==
  \A c \in Calls : fired[c] = 1 /\ outcome[c] = "cancelled"
                     => cancelled[c] \/ abandoned[c]

(* A launch step, and nothing else, starts a call; the completion fires    *)
(* once, with a result only when the token had not fired before the launch.*)
Promise == P!Spec

(* A cancelled call completes even if its future never resolves.           *)
CancelCompletes ==
  \A c \in Calls : (launcher[c] # "idle" /\ cancelled[c]) ~> fired[c] = 1

(* Every call completes, unless its future stays pending for ever.         *)
EveryLaunchCompletes ==
  \A c \in Calls : <>(launcher[c] # "idle")
                     => <>(fired[c] = 1) \/ []<>(task[c] \in {"polling", "parked"})

(* "A spawner never observes an unwinding future" (rt/spawn.rs:38).        *)
NeverUnwinds == \A c \in Calls : ~unwound[c]

===============================================================================

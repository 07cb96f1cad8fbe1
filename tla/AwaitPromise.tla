------------------------------ MODULE AwaitPromise ------------------------------
(***************************************************************************)
(* What a consumer's asynchronous call promises: the completion finds the  *)
(* call that it completes and takes the outcome it is given, the cancel    *)
(* token of the call is destroyed once and never under a native call that  *)
(* cancels it, and the wait ends, with the outcome only after it was taken.*)
(***************************************************************************)
EXTENDS Naturals

VARIABLES token,    \* the call's reference to its native cancel token
          users,    \* the threads in a native call that cancels the token
          native,   \* the native call
          entry,    \* what the completion finds its call by
          taken,    \* the completion took its outcome
          wait      \* how the caller waits

vars == <<token, users, native, entry, taken, wait>>

Outcomes == {"value", "failed", "cancelled"}

Init ==
  /\ token = "none"
  /\ users = {}
  /\ native = "idle"
  /\ entry = "none"
  /\ taken = FALSE
  /\ wait = "idle"

(* The call is refused before anything is made for it.                     *)
Refuse ==
  /\ wait = "idle"
  /\ wait' = "cancelled"
  /\ UNCHANGED <<token, users, native, entry, taken>>

Begin ==
  /\ wait = "idle"
  /\ wait' = "waiting"
  /\ token' \in {"none", "held"}
  /\ entry' = "kept"
  /\ UNCHANGED <<users, native, taken>>

Launch ==
  /\ native = "idle"
  /\ entry = "kept"
  /\ token # "destroyed"
  /\ native' = "running"
  /\ UNCHANGED <<token, users, entry, taken, wait>>

(* The launcher failed before the native call began.                       *)
Fail ==
  /\ native = "idle"
  /\ entry = "kept"
  /\ native' = "never"
  /\ entry' = "gone"
  /\ UNCHANGED <<token, users, taken, wait>>

Fire ==
  /\ native = "running"
  /\ entry = "kept"
  /\ native' \in Outcomes
  /\ UNCHANGED <<token, users, entry, taken, wait>>

Find ==
  /\ native \in Outcomes
  /\ entry = "kept"
  /\ entry' = "gone"
  /\ UNCHANGED <<token, users, native, taken, wait>>

Take ==
  /\ native \in Outcomes
  /\ ~taken
  /\ taken' = TRUE
  /\ UNCHANGED <<token, users, native, entry, wait>>

Cancel ==
  /\ token = "held"
  /\ \E u \in SUBSET {"caller", "canceller"} :
        users \subseteq u /\ users' = u
  /\ UNCHANGED <<token, native, entry, taken, wait>>

Cancelled ==
  /\ users' \subseteq users
  /\ UNCHANGED <<token, native, entry, taken, wait>>

Destroy ==
  /\ token = "held"
  /\ users = {}
  /\ native # "idle"
  /\ token' = "destroyed"
  /\ UNCHANGED <<users, native, entry, taken, wait>>

(* The wait ends as the outcome says, or it was cancelled or never began.  *)
End ==
  /\ wait = "waiting"
  /\ \/ wait' = "cancelled"
     \/ wait' = "threw" /\ native = "never"
     \/ wait' \in {"value", "failed"} /\ taken /\ native \in {"value", wait'}
  /\ UNCHANGED <<token, users, native, entry, taken>>

Next == \/ Refuse \/ Begin \/ Launch \/ Fail \/ Fire \/ Find \/ Take
        \/ Cancel \/ Cancelled \/ Destroy \/ End

Spec == Init /\ [][Next]_vars

(* The native call fired, or never began.                                  *)
Over == native \in Outcomes \cup {"never"}

(* Everything that was made for the call is released.                      *)
Settled ==
  /\ token # "held"
  /\ entry = "gone"
  /\ taken \/ native = "never"

===============================================================================

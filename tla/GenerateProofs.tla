----------------------------- MODULE GenerateProofs -----------------------------
(***************************************************************************)
(* For every set of targets, paths and APIs, whatever a run is interrupted *)
(* by and the user edits: a run changes its own files only; and where paths*)
(* that differ name different files, a run that completed leaves its       *)
(* targets up to date and without stale files.                             *)
(***************************************************************************)
EXTENDS Generate, TLAPS

USE PathsAssumption, FoldAssumption, ApisAssumption, NoneAssumption

Pending(t) == t \in selected \/ t = target

(* The plan of a target that is yet to be applied or under way: it writes  *)
(* what its API renders and removes what its record lists beyond that.     *)
Planned ==
  /\ selected # {} => api # NoApi
  /\ \A t \in Targets : Pending(t) => /\ In(t, writes) \subseteq Renders[api]
                                      /\ removes[t] \subseteq Previous(t) \ Renders[api]

PlanInv == TypeOK /\ Planned

-----------------------------------------------------------------------------
(* The plan, wherever paths name the same file.                            *)

LEMMA InitPlan == Init => PlanInv
BY DEF Init, PlanInv, TypeOK, Planned, Pending, Files, In, Previous

LEMMA StepPlan == PlanInv /\ [Next]_vars => PlanInv'
<1> SUFFICES ASSUME PlanInv, [Next]_vars PROVE PlanInv'
  OBVIOUS
<1> USE DEF PlanInv, vars, records, run, history
<1>1. ASSUME NEW a \in Apis, NEW ts \in SUBSET Targets, NothingToDo(a, ts)
      PROVE  PlanInv'
  <2>1. TypeOK'
    BY <1>1 DEF NothingToDo, TypeOK
  <2>2. Planned'
    BY <1>1 DEF NothingToDo, Planned, Pending, In, Previous
  <2> QED
    BY <2>1, <2>2
<1>2. ASSUME NEW a \in Apis, NEW ts \in SUBSET Targets, Plan(a, ts)
      PROVE  PlanInv'
  <2>1. TypeOK'
    <3>1. \A t \in Targets : Writes(a, t) \subseteq Paths /\ Removes(a, t) \subseteq Paths
      BY DEF Writes, Removes, In, Previous, TypeOK
    <3>2. writes' \subseteq Paths /\ removes' \in [Targets -> SUBSET Paths]
      BY <1>2, <3>1 DEF Plan
    <3>3. unrecorded' \subseteq Targets /\ touched' \in BOOLEAN
      BY <1>2 DEF Plan
    <3> QED
      BY <1>2, <3>2, <3>3 DEF Plan, TypeOK
  <2>2. \A t \in Targets : ~(t = target')
    BY <1>2 DEF Plan, TypeOK
  <2>3. Planned'
    BY <1>2, <2>2 DEF Plan, Planned, Pending, Writes, Removes, In, Previous
  <2> QED
    BY <2>1, <2>3
<1>3. ASSUME NEW t \in Targets, Apply(t)
      PROVE  PlanInv'
  <2>1. api \in Apis
    BY <1>3 DEF Apply, Planned, TypeOK
  <2>2. TypeOK'
    BY <1>3, <2>1 DEF Apply, TypeOK
  <2>3. Planned'
    BY <1>3 DEF Apply, Planned, Pending, In, Previous
  <2> QED
    BY <2>2, <2>3
<1>4. ASSUME NEW t \in Targets, Finish(t)
      PROVE  PlanInv'
  <2>1. api \in Apis /\ t \notin selected /\ target' = NoTarget /\ selected' = selected
    BY <1>4 DEF Finish, TypeOK
  <2>2. In(t, Renders[api]) \subseteq Paths
    BY <2>1 DEF In
  <2>3. /\ recorded' \in [Targets -> BOOLEAN]
        /\ record' \in [Targets -> SUBSET Paths]
        /\ \A s \in Targets : s # t => record'[s] = record[s]
    <3>1. CASE t \in unrecorded
      <4>1. /\ recorded' = [recorded EXCEPT ![t] = TRUE]
            /\ record' = [record EXCEPT ![t] = In(t, Renders[api])]
        BY <1>4, <3>1 DEF Finish, Records
      <4> QED
        BY <2>2, <4>1 DEF TypeOK
    <3>2. CASE t \notin unrecorded
      BY <1>4, <3>2 DEF Finish, Records, TypeOK
    <3> QED
      BY <3>1, <3>2
  <2>4. TypeOK'
    <3>1. /\ current' \in [Targets -> Apis \cup {NoApi}]
          /\ begun' \in [Targets -> SUBSET Apis]
          /\ mixed' \in [Targets -> BOOLEAN]
      BY <1>4, <2>1 DEF Finish, Completes, TypeOK
    <3>2. UNCHANGED <<disk, writes, removes, touched, edited>>
      BY <1>4 DEF Finish, Completes
    <3>3. api' \in Apis \cup {NoApi} /\ unrecorded' \subseteq Targets
      BY <1>4, <2>1 DEF Finish, TypeOK
    <3> QED
      BY <2>1, <2>3, <3>1, <3>2, <3>3 DEF TypeOK
  <2>5. Planned'
    BY <1>4, <2>1, <2>3 DEF Finish, Planned, Pending, In, Previous
  <2> QED
    BY <2>4, <2>5
<1>5. ASSUME Stop, TypeOK'
      PROVE  PlanInv'
  BY <1>5 DEF Stop, Planned, Pending
<1>6. ASSUME NEW t \in Targets, RecordInterrupted(t)
      PROVE  PlanInv'
  <2>1. TypeOK'
    BY <1>6 DEF RecordInterrupted, Stop, TypeOK
  <2> QED
    BY <1>5, <1>6, <2>1 DEF RecordInterrupted
<1>7. ASSUME NEW p \in Paths, Write(p)
      PROVE  PlanInv'
  <2>1. target \in Targets /\ api \in Apis /\ Text[api][p] \in Texts /\ Fold[p] \in Files
    BY <1>7 DEF Write, In, TypeOK, Files
  <2>2. TypeOK'
    BY <1>7, <2>1 DEF Write, TypeOK
  <2>3. Planned'
    BY <1>7 DEF Write, Planned, Pending, In, Previous
  <2> QED
    BY <2>2, <2>3
<1>8. ASSUME NEW p \in Paths, Remove(p)
      PROVE  PlanInv'
  <2>1. target \in Targets /\ Fold[p] \in Files
    BY <1>8 DEF Remove, TypeOK, Files
  <2>2. TypeOK'
    BY <1>8, <2>1 DEF Remove, TypeOK
  <2>3. Planned'
    BY <1>8, <2>1 DEF Remove, Planned, Pending, In, Previous, TypeOK
  <2> QED
    BY <2>2, <2>3
<1>9. ASSUME NEW p \in Paths, WriteInterrupted(p)
      PROVE  PlanInv'
  <2>1. TypeOK'
    BY <1>9 DEF WriteInterrupted, Stop, TypeOK, Files
  <2> QED
    BY <1>5, <1>9, <2>1 DEF WriteInterrupted
<1>10. ASSUME Interrupted
       PROVE  PlanInv'
  <2>1. TypeOK'
    BY <1>10 DEF Interrupted, Stop, TypeOK
  <2> QED
    BY <1>5, <1>10, <2>1 DEF Interrupted
<1>11. ASSUME NEW f \in Files, NEW text \in {"user", "absent"}, UserWrites(f, text)
       PROVE  PlanInv'
  <2>1. TypeOK'
    BY <1>11 DEF UserWrites, TypeOK
  <2>2. Planned'
    BY <1>11 DEF UserWrites, Planned, Pending, In, Previous
  <2> QED
    BY <2>1, <2>2
<1>12. ASSUME NEW t \in Targets, NEW known \in BOOLEAN, NEW ps \in SUBSET Paths,
              UserEditsRecord(t, known, ps)
       PROVE  PlanInv'
  <2>1. TypeOK'
    BY <1>12 DEF UserEditsRecord, TypeOK
  <2>2. selected' = {} /\ \A s \in Targets : s # target'
    BY <1>12 DEF UserEditsRecord, Planned, TypeOK
  <2>3. Planned'
    BY <2>2 DEF Planned, Pending
  <2> QED
    BY <2>1, <2>3
<1>13. ASSUME UNCHANGED vars PROVE PlanInv'
  BY <1>13 DEF TypeOK, Planned, Pending, In, Previous
<1> QED
  BY <1>1, <1>2, <1>3, <1>4, <1>6, <1>7, <1>8, <1>9, <1>10, <1>11, <1>12, <1>13
     DEF Next, GenerateStep, UserStep

LEMMA SpecPlan == Spec => []PlanInv
BY InitPlan, StepPlan, PTL DEF Spec

(* Disk, records and the plan keep their types.                            *)
THEOREM TypeCorrect == Spec => []TypeOK
<1>1. PlanInv => TypeOK
  BY DEF PlanInv
<1> QED
  BY <1>1, SpecPlan, PTL

(* Changeset::apply writes and removes files of the targets the run was    *)
(* asked for, that the API renders or the record lists in the target's own *)
(* directory: never a file of the user's, nor through a corrupted record.  *)
THEOREM OwnFiles == Spec => OwnFilesOnly
<1> DEFINE Own == UserStep \/ \A f \in Files : disk'[f] # disk[f] => Owned(f)
<1>1. PlanInv /\ [Next]_vars => [Own]_vars
  <2> SUFFICES ASSUME PlanInv, GenerateStep PROVE \A f \in Files : disk'[f] # disk[f] => Owned(f)
    BY DEF Next
  <2> USE DEF PlanInv
  <2>1. ASSUME NEW p \in Paths, Write(p)
        PROVE  \A f \in Files : disk'[f] # disk[f] => Owned(f)
    <3>1. target \in Targets /\ TargetOf[p] = target /\ p \in Renders[api]
      BY <2>1 DEF Write, In, Planned, Pending
    <3>2. \A f \in Files : disk'[f] # disk[f] => f = Fold[p]
      BY <2>1 DEF Write, TypeOK
    <3> QED
      BY <3>1, <3>2 DEF Owned
  <2>2. ASSUME NEW p \in Paths, WriteInterrupted(p)
        PROVE  \A f \in Files : disk'[f] # disk[f] => Owned(f)
    <3>1. target \in Targets /\ TargetOf[p] = target /\ p \in Renders[api]
      BY <2>2 DEF WriteInterrupted, In, Planned, Pending
    <3>2. \A f \in Files : disk'[f] # disk[f] => f = Fold[p]
      BY <2>2 DEF WriteInterrupted, TypeOK
    <3> QED
      BY <3>1, <3>2 DEF Owned
  <2>3. ASSUME NEW p \in Paths, Remove(p)
        PROVE  \A f \in Files : disk'[f] # disk[f] => Owned(f)
    <3>1. target \in Targets
      BY <2>3 DEF Remove, TypeOK
    <3>2. TargetOf[p] = target /\ p \in record[target]
      BY <2>3, <3>1 DEF Remove, Planned, Pending, Previous, In
    <3>3. \A f \in Files : disk'[f] # disk[f] => f = Fold[p]
      BY <2>3 DEF Remove, TypeOK
    <3> QED
      BY <3>2, <3>3 DEF Owned
  <2>4. UNCHANGED disk \/ \E p \in Paths : Write(p) \/ Remove(p) \/ WriteInterrupted(p)
    BY DEF GenerateStep, NothingToDo, Plan, Apply, Finish, RecordInterrupted, Interrupted
  <2> QED
    BY <2>1, <2>2, <2>3, <2>4
<1> QED
  BY <1>1, SpecPlan, PTL DEF Spec, OwnFilesOnly

-----------------------------------------------------------------------------
(* What a run leaves, where paths that differ name different files.        *)

DistinctFiles == \A p \in Paths : Fold[p] = p

(* A target whose last run completed has no interrupted run behind it and  *)
(* is not under way; one under way has its API among those begun.          *)
Quiet == \A t \in Targets : /\ current[t] # NoApi => begun[t] = {} /\ t # target
                            /\ t = target => api \in begun[t]

(* What the plan of a pending target does not name is as it should be: the *)
(* files not to be written, unless the user edits them, those no longer    *)
(* rendered, and the record.                                               *)
Rest(t) ==
  /\ ~touched => \A p \in In(t, Renders[api]) \ writes : disk[p] = Text[api][p]
  /\ \A p \in Previous(t) \ (Renders[api] \cup removes[t]) : disk[p] \in {"absent", "user"}
  /\ t \notin unrecorded => recorded[t] /\ Previous(t) = In(t, Renders[api])

(* A generated file is listed by its target's record, or by an API whose   *)
(* run began since the target was completed.                               *)
Covered(t) ==
  \A p \in In(t, Paths) : disk[p] \notin {"absent", "user"} =>
    p \in record[t] \/ \E b \in begun[t] : p \in Renders[b]

(* What Current(a, t) comes to: the files and the record are those of a.   *)
Complete(a, t) ==
  /\ \A p \in In(t, Renders[a]) : disk[p] = Text[a][p]
  /\ recorded[t] /\ Previous(t) = In(t, Renders[a])

RunInv ==
  /\ Quiet
  /\ \A t \in Targets : Pending(t) => Rest(t)
  /\ \A t \in Targets : ~edited[t] /\ ~mixed[t] => Covered(t)
  /\ \A t \in Targets : current[t] # NoApi => Complete(current[t], t)

LEMMA CurrentIsComplete ==
  ASSUME DistinctFiles, PlanInv, NEW a \in Apis, NEW t \in Targets
  PROVE  Current(a, t) <=> Complete(a, t)
<1>1. Writes(a, t) = {} <=> \A p \in In(t, Renders[a]) : disk[p] = Text[a][p]
  BY DEF Writes, In, DistinctFiles
<1>2. RecordChanges(a, t) <=> ~(recorded[t] /\ Previous(t) = In(t, Renders[a]))
  BY DEF RecordChanges
<1>3. Previous(t) = In(t, Renders[a]) => Removes(a, t) = {}
  BY DEF Removes
<1> QED
  BY <1>1, <1>2, <1>3 DEF Current, Complete

LEMMA InitRun == DistinctFiles /\ Init => RunInv
<1> SUFFICES ASSUME DistinctFiles, Init PROVE RunInv
  OBVIOUS
<1>1. Quiet
  BY DEF Init, Quiet
<1>2. \A t \in Targets : ~Pending(t) /\ current[t] = NoApi
  BY DEF Init, Pending
<1>3. \A t \in Targets : Covered(t)
  BY DEF Init, Covered, Files, In, DistinctFiles
<1> QED
  BY <1>1, <1>2, <1>3 DEF RunInv

LEMMA StepRun ==
  ASSUME DistinctFiles, PlanInv, RunInv, [Next]_vars
  PROVE  RunInv'
<1> USE DEF PlanInv, RunInv, vars, records, run, history
<1>0. Files = Paths
  BY DEF Files, DistinctFiles
<1>1. ASSUME NEW a \in Apis, NEW ts \in SUBSET Targets, NothingToDo(a, ts)
      PROVE  RunInv'
  <2>1. target = NoTarget /\ \A t \in ts : Complete(a, t)
    BY <1>1, CurrentIsComplete DEF NothingToDo, TypeOK
  <2>2. Quiet'
    BY <1>1, <2>1 DEF NothingToDo, Quiet, TypeOK
  <2>3. \A t \in Targets : Pending(t)' => Rest(t)'
    BY <1>1 DEF NothingToDo, Pending, Rest, In, Previous
  <2>4. ASSUME NEW t \in Targets, ~edited'[t], ~mixed'[t]
        PROVE  Covered(t)'
    <3>1. Covered(t) /\ UNCHANGED <<disk, record>>
      BY <1>1, <2>4 DEF NothingToDo, TypeOK
    <3>2. CASE t \in ts
      <4>1. begun[t] \subseteq {a} /\ Previous(t) = In(t, Renders[a])
        BY <1>1, <2>1, <2>4, <3>2 DEF NothingToDo, Complete, TypeOK
      <4> QED
        BY <3>1, <4>1 DEF Covered, Previous, In
    <3>3. CASE t \notin ts
      <4>1. begun'[t] = begun[t]
        BY <1>1, <3>3 DEF NothingToDo
      <4> QED
        BY <3>1, <4>1 DEF Covered
    <3> QED
      BY <3>2, <3>3
  <2>5. \A t \in Targets : current'[t] # NoApi => Complete(current'[t], t)
    BY <1>1, <2>1 DEF NothingToDo
  <2>6. UNCHANGED <<disk, recorded, record>>
    BY <1>1 DEF NothingToDo
  <2>7. \A t \in Targets : current'[t] # NoApi => Complete(current[t], t)'
    BY <2>5, <2>6 DEF Complete, Previous, In
  <2> QED
    BY <2>2, <2>3, <2>4, <2>7
<1>2. ASSUME NEW a \in Apis, NEW ts \in SUBSET Targets, Plan(a, ts)
      PROVE  RunInv'
  <2>1. target' = NoTarget /\ Quiet'
    BY <1>2 DEF Plan, Quiet, TypeOK
  <2>2. ASSUME NEW t \in Targets, Pending(t)'
        PROVE  Rest(t)'
    <3>1. t \in ts /\ api' = a /\ Writes(a, t) \subseteq writes' /\ removes'[t] = Removes(a, t)
      BY <1>2, <2>1, <2>2 DEF Plan, Pending
    <3>2. UNCHANGED <<disk, recorded, record>>
      BY <1>2 DEF Plan
    <3>3. \A p \in In(t, Renders[a]) \ writes' : disk[p] = Text[a][p]
      BY <3>1 DEF Writes, In, DistinctFiles
    <3>4. \A p \in Previous(t) \ (Renders[a] \cup removes'[t]) : disk[p] \in {"absent", "user"}
      BY <3>1 DEF Removes, Previous, In, DistinctFiles, TypeOK
    <3>5. t \notin unrecorded' => recorded[t] /\ Previous(t) = In(t, Renders[a])
      BY <1>2, <3>1 DEF Plan, RecordChanges
    <3> QED
      BY <3>1, <3>2, <3>3, <3>4, <3>5 DEF Rest, Previous, In
  <2>3. \A t \in Targets : ~edited'[t] /\ ~mixed'[t] => Covered(t)'
    BY <1>2 DEF Plan, Covered
  <2>4. \A t \in Targets : current'[t] # NoApi => Complete(current[t], t)'
    BY <1>2 DEF Plan, Complete, Previous, In
  <2> QED
    BY <2>1, <2>2, <2>3, <2>4
<1>3. ASSUME NEW t \in Targets, Apply(t)
      PROVE  RunInv'
  <2>1. Quiet'
    BY <1>3 DEF Apply, Quiet, TypeOK
  <2>2. \A s \in Targets : Pending(s)' => Rest(s)'
    BY <1>3 DEF Apply, Pending, Rest, Previous, In
  <2>3. \A s \in Targets : ~edited'[s] /\ ~mixed'[s] => Covered(s)'
    <3>1. \A s \in Targets : begun[s] \subseteq begun'[s]
      BY <1>3 DEF Apply, TypeOK
    <3> QED
      BY <1>3, <3>1 DEF Apply, Covered
  <2>4. \A s \in Targets : current'[s] # NoApi => Complete(current[s], s)'
    <3>1. \A s \in Targets : current'[s] # NoApi => current'[s] = current[s]
      BY <1>3 DEF Apply, TypeOK
    <3> QED
      BY <1>3, <3>1 DEF Apply, Complete, Previous, In
  <2> QED
    BY <2>1, <2>2, <2>3, <2>4
<1>4. ASSUME NEW t \in Targets, Finish(t)
      PROVE  RunInv'
  <2>1. /\ target = t /\ target' = NoTarget /\ t \notin selected /\ api \in Apis
        /\ In(t, writes) = {} /\ removes[t] = {}
        /\ UNCHANGED <<disk, selected, writes, removes, touched, edited>>
    BY <1>4 DEF Finish, Completes, TypeOK
  <2>2. /\ current' = [current EXCEPT ![t] = IF touched THEN NoApi ELSE api]
        /\ begun' = [begun EXCEPT ![t] = {}]
        /\ mixed' = [mixed EXCEPT ![t] = @ \/ ~(begun[t] \subseteq {api})]
    BY <1>4 DEF Finish, Completes
  <2>3. Rest(t)
    BY <2>1 DEF Pending
  <2>4. /\ \A s \in Targets : s # t => recorded'[s] = recorded[s] /\ record'[s] = record[s]
        /\ recorded'[t]
        /\ Previous(t)' = In(t, Renders[api])
    <3>1. CASE t \in unrecorded
      <4>1. /\ recorded' = [recorded EXCEPT ![t] = TRUE]
            /\ record' = [record EXCEPT ![t] = In(t, Renders[api])]
        BY <1>4, <3>1 DEF Finish, Records
      <4> QED
        BY <4>1 DEF TypeOK, Previous, In
    <3>2. CASE t \notin unrecorded
      <4>1. UNCHANGED <<recorded, record>>
        BY <1>4, <3>2 DEF Finish, Records
      <4> QED
        BY <2>3, <3>2, <4>1 DEF Rest, Previous, In
    <3> QED
      BY <3>1, <3>2
  <2>5. Quiet'
    BY <2>1, <2>2 DEF Quiet, TypeOK
  <2>6. ASSUME NEW s \in Targets, Pending(s)'
        PROVE  Rest(s)'
    <3>1. s \in selected /\ s # t /\ api' = api /\ unrecorded' = unrecorded \ {t}
      BY <1>4, <2>1, <2>6 DEF Finish, Pending
    <3>2. Rest(s)
      BY <3>1 DEF Pending
    <3> QED
      BY <2>1, <2>4, <3>1, <3>2 DEF Rest, Previous, In
  <2>7. ASSUME NEW s \in Targets, ~edited'[s], ~mixed'[s]
        PROVE  Covered(s)'
    <3>1. Covered(s)
      BY <2>1, <2>2, <2>7 DEF TypeOK
    <3>2. CASE s = t
      <4>1. begun[t] \subseteq {api}
        BY <2>2, <2>7, <3>2 DEF TypeOK
      <4>2. \A p \in In(t, Paths) : disk[p] \notin {"absent", "user"} => p \in Renders[api]
        BY <2>1, <2>3, <3>1, <3>2, <4>1 DEF Covered, Rest, Previous, In
      <4>3. \A p \in In(t, Renders[api]) : p \in record'[t]
        BY <2>4 DEF Previous, In
      <4> QED
        BY <2>1, <3>2, <4>2, <4>3 DEF Covered, In
    <3>3. CASE s # t
      BY <2>1, <2>2, <2>4, <3>1, <3>3 DEF Covered, TypeOK
    <3> QED
      BY <3>2, <3>3
  <2>8. ASSUME NEW s \in Targets, current'[s] # NoApi
        PROVE  Complete(current[s], s)'
    <3>1. CASE s = t
      <4>1. ~touched /\ current'[t] = api
        BY <2>2, <2>8, <3>1 DEF TypeOK
      <4>2. \A p \in In(t, Renders[api]) : disk'[p] = Text[api][p]
        BY <2>1, <2>3, <4>1 DEF Rest, In
      <4> QED
        BY <2>4, <3>1, <4>1, <4>2 DEF Complete
    <3>2. CASE s # t
      <4>1. current'[s] = current[s] /\ Complete(current[s], s)
        BY <2>2, <2>8, <3>2 DEF TypeOK
      <4> QED
        BY <2>1, <2>4, <3>2, <4>1 DEF Complete, Previous, In
    <3> QED
      BY <3>1, <3>2
  <2> QED
    BY <2>5, <2>6, <2>7, <2>8
<1>5. ASSUME NEW p \in Paths, Write(p)
      PROVE  RunInv'
  <2>1. /\ target \in Targets /\ TargetOf[p] = target /\ p \in Renders[api] /\ api \in Apis
        /\ disk' = [disk EXCEPT ![p] = Text[api][p]] /\ writes' = writes \ {p}
        /\ UNCHANGED <<records, api, selected, target, removes, unrecorded, history>>
    <3>1. target \in Targets /\ TargetOf[p] = target /\ api \in Apis
      BY <1>5 DEF Write, In, TypeOK
    <3>2. p \in Renders[api]
      BY <1>5, <3>1 DEF Write, Planned, Pending
    <3>3. Fold[p] = p
      BY DEF DistinctFiles
    <3> QED
      BY <1>5, <3>1, <3>2, <3>3 DEF Write
  <2>2. disk'[p] = Text[api][p] /\ \A r \in Paths : r # p => disk'[r] = disk[r]
    BY <1>0, <2>1 DEF TypeOK
  <2>3. Quiet'
    BY <2>1 DEF Quiet
  <2>4. ASSUME NEW s \in Targets, Pending(s)'
        PROVE  Rest(s)'
    <3>1. Rest(s)
      BY <2>1, <2>4 DEF Pending
    <3>2. ~touched => \A r \in In(s, Renders[api]) \ writes' : disk'[r] = Text[api][r]
      BY <2>1, <2>2, <3>1 DEF Rest, In
    <3>3. \A r \in Previous(s) \ (Renders[api] \cup removes[s]) : disk'[r] \in {"absent", "user"}
      BY <2>1, <2>2, <3>1 DEF Rest, Previous, In, TypeOK
    <3> QED
      BY <2>1, <3>1, <3>2, <3>3 DEF Rest, Previous, In
  <2>5. ASSUME NEW s \in Targets, ~edited'[s], ~mixed'[s]
        PROVE  Covered(s)'
    <3>1. Covered(s) /\ UNCHANGED <<record, begun>>
      BY <2>1, <2>5
    <3>2. s = target => p \in Renders[api] /\ api \in begun[s]
      BY <2>1 DEF Quiet
    <3> QED
      BY <2>1, <2>2, <3>1, <3>2 DEF Covered, In
  <2>6. ASSUME NEW s \in Targets, current'[s] # NoApi
        PROVE  Complete(current[s], s)'
    <3>1. Complete(current[s], s) /\ s # target /\ current[s] \in Apis
      BY <2>1, <2>6 DEF Quiet, TypeOK
    <3>2. \A r \in In(s, Renders[current[s]]) : disk'[r] = disk[r]
      BY <2>1, <2>2, <3>1 DEF In
    <3> QED
      BY <2>1, <3>1, <3>2 DEF Complete, Previous, In
  <2> QED
    BY <2>3, <2>4, <2>5, <2>6
<1>6. ASSUME NEW p \in Paths, Remove(p)
      PROVE  RunInv'
  <2>1. /\ target \in Targets /\ TargetOf[p] = target /\ p \in removes[target]
        /\ disk' = [disk EXCEPT ![p] = "absent"]
        /\ removes' = [removes EXCEPT ![target] = @ \ {p}]
        /\ UNCHANGED <<records, api, selected, target, writes, unrecorded, history>>
    <3>1. target \in Targets /\ p \in removes[target]
      BY <1>6 DEF Remove, TypeOK
    <3>2. TargetOf[p] = target
      BY <3>1 DEF Planned, Pending, Previous, In
    <3>3. Fold[p] = p
      BY DEF DistinctFiles
    <3> QED
      BY <1>6, <3>1, <3>2, <3>3 DEF Remove
  <2>2. disk'[p] = "absent" /\ \A r \in Paths : r # p => disk'[r] = disk[r]
    BY <1>0, <2>1 DEF TypeOK
  <2>3. p \notin Renders[api]
    BY <2>1 DEF Planned, Pending
  <2>4. Quiet'
    BY <2>1 DEF Quiet
  <2>5. ASSUME NEW s \in Targets, Pending(s)'
        PROVE  Rest(s)'
    <3>1. Rest(s)
      BY <2>1, <2>5 DEF Pending
    <3>2. ~touched => \A r \in In(s, Renders[api]) \ writes : disk'[r] = Text[api][r]
      BY <2>1, <2>2, <2>3, <3>1 DEF Rest, In, TypeOK
    <3>3. removes[s] \ {p} \subseteq removes'[s]
      BY <2>1 DEF TypeOK
    <3>4. \A r \in Previous(s) \ (Renders[api] \cup removes'[s]) : disk'[r] \in {"absent", "user"}
      BY <2>1, <2>2, <3>1, <3>3 DEF Rest, Previous, In, TypeOK
    <3> QED
      BY <2>1, <3>1, <3>2, <3>4 DEF Rest, Previous, In
  <2>6. ASSUME NEW s \in Targets, ~edited'[s], ~mixed'[s]
        PROVE  Covered(s)'
    <3>1. Covered(s) /\ UNCHANGED <<record, begun>>
      BY <2>1, <2>6
    <3> QED
      BY <2>2, <3>1 DEF Covered, In
  <2>7. ASSUME NEW s \in Targets, current'[s] # NoApi
        PROVE  Complete(current[s], s)'
    <3>1. Complete(current[s], s) /\ s # target /\ current[s] \in Apis
      BY <2>1, <2>7 DEF Quiet, TypeOK
    <3>2. \A r \in In(s, Renders[current[s]]) : disk'[r] = disk[r]
      BY <2>1, <2>2, <3>1 DEF In
    <3> QED
      BY <2>1, <3>1, <3>2 DEF Complete, Previous, In
  <2> QED
    BY <2>4, <2>5, <2>6, <2>7
<1>7. ASSUME Stop, UNCHANGED history
      PROVE  Quiet' /\ \A s \in Targets : ~Pending(s)'
  BY <1>7 DEF Stop, Quiet, Pending
<1>8. ASSUME NEW p \in Paths, WriteInterrupted(p)
      PROVE  RunInv'
  <2>1. /\ target \in Targets /\ TargetOf[p] = target /\ p \in Renders[api]
        /\ disk' = [disk EXCEPT ![p] = "torn"]
        /\ UNCHANGED <<records, history>>
    <3>1. target \in Targets /\ TargetOf[p] = target
      BY <1>8 DEF WriteInterrupted, In, TypeOK
    <3>2. p \in Renders[api]
      BY <1>8, <3>1 DEF WriteInterrupted, Planned, Pending
    <3>3. Fold[p] = p
      BY DEF DistinctFiles
    <3> QED
      BY <1>8, <3>1, <3>2, <3>3 DEF WriteInterrupted
  <2>2. \A r \in Paths : r # p => disk'[r] = disk[r]
    BY <1>0, <2>1 DEF TypeOK
  <2>3. Quiet' /\ \A s \in Targets : ~Pending(s)'
    BY <1>7, <1>8 DEF WriteInterrupted
  <2>4. ASSUME NEW s \in Targets, ~edited'[s], ~mixed'[s]
        PROVE  Covered(s)'
    <3>1. Covered(s) /\ UNCHANGED <<record, begun>>
      BY <2>1, <2>4
    <3>2. s = target => p \in Renders[api] /\ api \in begun[s]
      BY <2>1 DEF Quiet
    <3> QED
      BY <2>1, <2>2, <3>1, <3>2 DEF Covered, In
  <2>5. ASSUME NEW s \in Targets, current'[s] # NoApi
        PROVE  Complete(current[s], s)'
    <3>1. Complete(current[s], s) /\ s # target /\ current[s] \in Apis
      BY <2>1, <2>5 DEF Quiet, TypeOK
    <3>2. \A r \in In(s, Renders[current[s]]) : disk'[r] = disk[r]
      BY <2>1, <2>2, <3>1 DEF In
    <3> QED
      BY <2>1, <3>1, <3>2 DEF Complete, Previous, In
  <2> QED
    BY <2>3, <2>4, <2>5
<1>9. ASSUME NEW t \in Targets, RecordInterrupted(t)
      PROVE  RunInv'
  <2>1. /\ target = t /\ removes[t] = {}
        /\ recorded' = [recorded EXCEPT ![t] = FALSE]
        /\ record' = [record EXCEPT ![t] = {}]
        /\ UNCHANGED <<disk, history>>
    BY <1>9 DEF RecordInterrupted
  <2>2. Quiet' /\ \A s \in Targets : ~Pending(s)'
    BY <1>7, <1>9 DEF RecordInterrupted
  <2>3. ASSUME NEW s \in Targets, ~edited'[s], ~mixed'[s]
        PROVE  Covered(s)'
    <3>1. Covered(s)
      BY <2>1, <2>3
    <3>2. CASE s = t
      <4>1. Rest(t) /\ api \in begun[t]
        BY <2>1 DEF Pending, Quiet
      <4>2. \A p \in In(t, Paths) : disk[p] \notin {"absent", "user"} =>
              \E b \in begun[t] : p \in Renders[b]
        BY <2>1, <3>1, <3>2, <4>1 DEF Covered, Rest, Previous, In
      <4> QED
        BY <2>1, <3>2, <4>2 DEF Covered
    <3>3. CASE s # t
      BY <2>1, <3>1, <3>3 DEF Covered, TypeOK
    <3> QED
      BY <3>2, <3>3
  <2>4. ASSUME NEW s \in Targets, current'[s] # NoApi
        PROVE  Complete(current[s], s)'
    <3>1. Complete(current[s], s) /\ s # t
      BY <2>1, <2>4 DEF Quiet
    <3> QED
      BY <2>1, <3>1 DEF Complete, Previous, In, TypeOK
  <2> QED
    BY <2>2, <2>3, <2>4
<1>10. ASSUME Interrupted
       PROVE  RunInv'
  <2>1. Quiet' /\ \A s \in Targets : ~Pending(s)'
    BY <1>7, <1>10 DEF Interrupted
  <2>2. UNCHANGED <<disk, recorded, record, current, begun, mixed, edited>>
    BY <1>10 DEF Interrupted
  <2> QED
    BY <2>1, <2>2 DEF Covered, Complete, Previous, In
<1>11. ASSUME NEW f \in Files, NEW text \in {"user", "absent"}, UserWrites(f, text)
       PROVE  RunInv'
  <2>1. /\ touched' /\ \A t \in Targets : current'[t] = NoApi
        /\ UNCHANGED <<records, run, begun, mixed, edited>>
    BY <1>11 DEF UserWrites
  <2>2. \A r \in Paths : disk'[r] = disk[r] \/ disk'[r] \in {"absent", "user"}
    BY <1>0, <1>11 DEF UserWrites, TypeOK
  <2>3. Quiet'
    BY <2>1 DEF Quiet
  <2>4. \A s \in Targets : Pending(s)' => Rest(s)'
    BY <2>1, <2>2 DEF Pending, Rest, Previous, In, TypeOK
  <2>5. \A s \in Targets : ~edited'[s] /\ ~mixed'[s] => Covered(s)'
    BY <2>1, <2>2 DEF Covered, In
  <2> QED
    BY <2>1, <2>3, <2>4, <2>5
<1>12. ASSUME NEW t \in Targets, NEW known \in BOOLEAN, NEW ps \in SUBSET Paths,
              UserEditsRecord(t, known, ps)
       PROVE  RunInv'
  <2>1. /\ \A s \in Targets : current'[s] = NoApi /\ ~Pending(s)'
        /\ UNCHANGED <<disk, begun, mixed, target, api>>
    BY <1>12 DEF UserEditsRecord, Pending, Planned, TypeOK
  <2>2. /\ edited'[t]
        /\ \A s \in Targets : s # t => edited'[s] = edited[s] /\ record'[s] = record[s]
    BY <1>12 DEF UserEditsRecord, TypeOK
  <2>3. Quiet'
    BY <2>1 DEF Quiet
  <2>4. \A s \in Targets : ~edited'[s] /\ ~mixed'[s] => Covered(s)'
    BY <2>1, <2>2 DEF Covered
  <2> QED
    BY <2>1, <2>3, <2>4
<1>13. ASSUME UNCHANGED vars PROVE RunInv'
  BY <1>13 DEF Quiet, Pending, Rest, Covered, Complete, Previous, In
<1> QED
  BY <1>1, <1>2, <1>3, <1>4, <1>5, <1>6, <1>8, <1>9, <1>10, <1>11, <1>12, <1>13
     DEF Next, GenerateStep, UserStep

LEMMA SpecRun == ASSUME DistinctFiles PROVE Spec => []RunInv
BY DistinctFiles, SpecPlan, InitRun, StepRun, PTL DEF Spec

(* After a run that completed with no edit of the user's since it was      *)
(* planned, generate --check passes, whatever runs stopped before it.      *)
THEOREM CompletedIsUpToDate == ASSUME DistinctFiles PROVE Spec => []UpToDate
<1>1. PlanInv /\ RunInv => UpToDate
  BY CurrentIsComplete DEF RunInv, PlanInv, TypeOK, UpToDate
<1> QED
  BY <1>1, SpecPlan, SpecRun, PTL

(* "A renamed type never leaves a stale file behind", also after runs that *)
(* were interrupted, if they were for the same API.                        *)
THEOREM StaleFilesGo == ASSUME DistinctFiles PROVE Spec => []NoStaleFile
<1>1. PlanInv /\ RunInv => NoStaleFile
  <2> SUFFICES ASSUME PlanInv, RunInv, NEW t \in Targets, ~edited[t], ~mixed[t],
                      current[t] # NoApi, NEW f \in FilesOf(t), Generated(f)
               PROVE  \E p \in Renders[current[t]] : Fold[p] = f
    BY DEF NoStaleFile, StaleRemoved
  <2>1. f \in In(t, Paths) /\ Fold[f] = f
    BY DEF FilesOf, Files, In, DistinctFiles
  <2>2. f \in record[t]
    BY <2>1 DEF RunInv, Covered, Quiet, Generated
  <2>3. f \in Previous(t)
    BY <2>1, <2>2 DEF Previous, In
  <2>4. f \in Renders[current[t]]
    BY <2>3 DEF RunInv, Complete, In
  <2> QED
    BY <2>1, <2>4
<1> QED
  BY <1>1, SpecPlan, SpecRun, PTL

===============================================================================

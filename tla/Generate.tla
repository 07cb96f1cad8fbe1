------------------------------- MODULE Generate -------------------------------
(***************************************************************************)
(* weaveffi generate: planning every target against the output directory,  *)
(* writing the plan and recording it (weaveffi-cli/src/codegen/mod.rs and  *)
(* record.rs).  A run may stop between any two writes, or in the middle of *)
(* one, and the user edits the directory between runs and during them.     *)
(*                                                                         *)
(* A path is one that some API renders, in its target's directory, and has *)
(* the texts APIs render for it.  The file system may fold the case of     *)
(* paths (macOS, Windows): Fold gives the file a path names.               *)
(***************************************************************************)
EXTENDS FiniteSets

CONSTANTS Targets,   \* the languages a run may select
          Paths,     \* the paths the APIs render
          TargetOf,  \* the target whose directory a path is in
          Fold,      \* the file a path names
          Apis,      \* the APIs the project goes through
          Renders,   \* the paths the targets render for an API
          Texts,     \* the texts of rendered files
          Text,      \* the text of a path rendered for an API
          NoApi,
          NoTarget

ASSUME PathsAssumption == TargetOf \in [Paths -> Targets]
ASSUME FoldAssumption ==
  /\ Fold \in [Paths -> Paths]
  /\ \A p \in Paths : Fold[Fold[p]] = Fold[p] /\ TargetOf[Fold[p]] = TargetOf[p]
ASSUME ApisAssumption ==
  /\ Renders \in [Apis -> SUBSET Paths]
  /\ Text \in [Apis -> [Paths -> Texts]]
ASSUME NoneAssumption ==
  /\ NoApi \notin Apis
  /\ NoTarget \notin Targets
  /\ {"absent", "user", "torn"} \cap Texts = {}

VARIABLES
  disk,      \* disk[Fold[p]]: what the file holds
  recorded,  \* recorded[t]: the target's generation record can be read
  record,    \* record[t]: the paths it lists
  api,       \* the API of the run under way, or NoApi
  selected,  \* its targets yet to be applied
  target,    \* the one being applied, or NoTarget
  writes,    \* its plan: the paths to write ...
  removes,   \* ... removes[t], the stale ones to remove for t ...
  unrecorded,\* ... and the targets whose record changes
  touched,   \* history: the user edited a file since the run was planned
  current,   \* history: current[t], the API of the last run that completed t
             \*   with no edit by the user since it was planned, or NoApi
  begun,     \* history: begun[t], the APIs of the runs begun on t since then
  mixed,     \* history: mixed[t], t was completed after an interrupted run
             \*   for another API
  edited     \* history: edited[t], the user edited the record

run == <<api, selected, target, writes, removes, unrecorded>>
records == <<recorded, record>>
history == <<touched, current, begun, mixed, edited>>
vars == <<disk, records, run, history>>

Files == {Fold[p] : p \in Paths}
FilesOf(t) == {f \in Files : TargetOf[f] = t}

TypeOK ==
  /\ disk \in [Files -> {"absent", "user", "torn"} \cup Texts]
  /\ recorded \in [Targets -> BOOLEAN]
  /\ record \in [Targets -> SUBSET Paths]
  /\ api \in Apis \cup {NoApi}
  /\ selected \subseteq Targets
  /\ target \in Targets \cup {NoTarget}
  /\ writes \subseteq Paths
  /\ removes \in [Targets -> SUBSET Paths]
  /\ unrecorded \subseteq Targets
  /\ touched \in BOOLEAN
  /\ current \in [Targets -> Apis \cup {NoApi}]
  /\ begun \in [Targets -> SUBSET Apis]
  /\ mixed \in [Targets -> BOOLEAN]
  /\ edited \in [Targets -> BOOLEAN]
  /\ target # NoTarget => api # NoApi /\ target \notin selected

Init ==
  /\ disk = [f \in Files |-> "absent"]
  /\ recorded = [t \in Targets |-> FALSE]
  /\ record = [t \in Targets |-> {}]
  /\ api = NoApi
  /\ selected = {}
  /\ target = NoTarget
  /\ writes = {}
  /\ removes = [t \in Targets |-> {}]
  /\ unrecorded = {}
  /\ touched = FALSE
  /\ current = [t \in Targets |-> NoApi]
  /\ begun = [t \in Targets |-> {}]
  /\ mixed = [t \in Targets |-> FALSE]
  /\ edited = [t \in Targets |-> FALSE]

-----------------------------------------------------------------------------
(* plan_target.                                                            *)

In(t, ps) == {p \in ps : TargetOf[p] = t}

(* Two defects: the record's entries are taken on trust; the record is not *)
(* read at all.                                                            *)
ReadUnfiltered(t) == record[t]
ReadNothing(t) == {}

(* read_record keeps the entries inside the target's own directory.        *)
Previous(t) == In(t, record[t])

Writes(a, t) == {p \in In(t, Renders[a]) : disk[Fold[p]] # Text[a][p]}

Removes(a, t) == {p \in Previous(t) \ In(t, Renders[a]) : disk[Fold[p]] # "absent"}

RecordChanges(a, t) == ~recorded[t] \/ Previous(t) # In(t, Renders[a])

Current(a, t) == Writes(a, t) = {} /\ Removes(a, t) = {} /\ ~RecordChanges(a, t)

-----------------------------------------------------------------------------
(* The run completes target t: what a reader of the code expects of it.    *)
Completes(t, a) ==
  /\ current' = [current EXCEPT ![t] = IF touched THEN NoApi ELSE a]
  /\ begun' = [begun EXCEPT ![t] = {}]
  /\ mixed' = [mixed EXCEPT ![t] = @ \/ ~(begun[t] \subseteq {a})]
  /\ UNCHANGED <<touched, edited>>

(* Orchestrator::plan, then apply, which has nothing to do.                *)
NothingToDo(a, ts) ==
  /\ api = NoApi
  /\ \A t \in ts : Current(a, t)
  /\ current' = [t \in Targets |-> IF t \in ts THEN a ELSE current[t]]
  /\ begun' = [t \in Targets |-> IF t \in ts THEN {} ELSE begun[t]]
  /\ mixed' = [t \in Targets |-> mixed[t] \/ (t \in ts /\ ~(begun[t] \subseteq {a}))]
  /\ UNCHANGED <<disk, records, run, touched, edited>>

Plan(a, ts) ==
  /\ api = NoApi
  /\ \E t \in ts : ~Current(a, t)
  /\ api' = a
  /\ selected' = ts
  /\ writes' = UNION {Writes(a, t) : t \in ts}
  /\ removes' = [t \in Targets |-> IF t \in ts THEN Removes(a, t) ELSE {}]
  /\ unrecorded' = {t \in ts : RecordChanges(a, t)}
  /\ touched' = FALSE
  /\ UNCHANGED <<disk, records, target, current, begun, mixed, edited>>

(* Changeset::apply goes on to the next target.                            *)
Apply(t) ==
  /\ target = NoTarget
  /\ t \in selected
  /\ selected' = selected \ {t}
  /\ target' = t
  /\ begun' = [begun EXCEPT ![t] = @ \cup {api}]
  /\ current' = [current EXCEPT ![t] = NoApi]
  /\ UNCHANGED <<disk, records, api, writes, removes, unrecorded, touched,
                 mixed, edited>>

Write(p) ==
  /\ p \in In(target, writes)
  /\ disk' = [disk EXCEPT ![Fold[p]] = Text[api][p]]
  /\ writes' = writes \ {p}
  /\ UNCHANGED <<records, api, selected, target, removes, unrecorded, history>>

(* The stale files go once the new ones are written, the record after both.*)
Remove(p) ==
  /\ target # NoTarget
  /\ In(target, writes) = {}
  /\ p \in removes[target]
  /\ disk[Fold[p]] # "absent"
  /\ disk' = [disk EXCEPT ![Fold[p]] = "absent"]
  /\ removes' = [removes EXCEPT ![target] = @ \ {p}]
  /\ UNCHANGED <<records, api, selected, target, writes, unrecorded, history>>

(* A defect: a record that is there is kept.                               *)
RecordsOnce(t) ==
  IF ~recorded[t]
  THEN /\ recorded' = [recorded EXCEPT ![t] = TRUE]
       /\ record' = [record EXCEPT ![t] = In(t, Renders[api])]
  ELSE UNCHANGED records

Records(t) ==
  IF t \in unrecorded
  THEN /\ recorded' = [recorded EXCEPT ![t] = TRUE]
       /\ record' = [record EXCEPT ![t] = In(t, Renders[api])]
  ELSE UNCHANGED records

(* The target is done, and with the last one the run.                      *)
Finish(t) ==
  /\ target = t
  /\ In(t, writes) = {}
  /\ removes[t] = {}
  /\ Records(t)
  /\ target' = NoTarget
  /\ unrecorded' = unrecorded \ {t}
  /\ api' = IF selected = {} THEN NoApi ELSE api
  /\ Completes(t, api)
  /\ UNCHANGED <<disk, selected, writes, removes>>

-----------------------------------------------------------------------------
(* A run that stops early: it is killed, or a call of it fails.            *)
Stop == /\ api' = NoApi
        /\ selected' = {}
        /\ target' = NoTarget
        /\ writes' = {}
        /\ removes' = [t \in Targets |-> {}]
        /\ unrecorded' = {}

Interrupted == api # NoApi /\ Stop /\ UNCHANGED <<disk, records, history>>

(* In the middle of fs::write, which truncates the file first.             *)
WriteInterrupted(p) ==
  /\ p \in In(target, writes)
  /\ disk' = [disk EXCEPT ![Fold[p]] = "torn"]
  /\ Stop
  /\ UNCHANGED <<records, history>>

(* A record cut short does not parse: the target was "never generated".    *)
RecordInterrupted(t) ==
  /\ target = t
  /\ In(t, writes) = {}
  /\ removes[t] = {}
  /\ t \in unrecorded
  /\ recorded' = [recorded EXCEPT ![t] = FALSE]
  /\ record' = [record EXCEPT ![t] = {}]
  /\ Stop
  /\ UNCHANGED <<disk, history>>

-----------------------------------------------------------------------------
(* The user adds, edits and deletes files, and between runs edits and      *)
(* deletes records.                                                        *)
UserWrites(f, text) ==
  /\ f \in Files
  /\ text \in {"user", "absent"}
  /\ disk[f] # text
  /\ disk' = [disk EXCEPT ![f] = text]
  /\ touched' = TRUE
  /\ current' = [t \in Targets |-> NoApi]
  /\ UNCHANGED <<records, run, begun, mixed, edited>>

UserEditsRecord(t, known, ps) ==
  /\ api = NoApi
  /\ known = FALSE => ps = {}
  /\ recorded' = [recorded EXCEPT ![t] = known]
  /\ record' = [record EXCEPT ![t] = ps]
  /\ edited' = [edited EXCEPT ![t] = TRUE]
  /\ current' = [s \in Targets |-> NoApi]
  /\ UNCHANGED <<disk, run, touched, begun, mixed>>

UserStep ==
  \/ \E f \in Files, text \in {"user", "absent"} : UserWrites(f, text)
  \/ \E t \in Targets, known \in BOOLEAN, ps \in SUBSET Paths :
       UserEditsRecord(t, known, ps)

GenerateStep ==
  \/ \E a \in Apis, ts \in (SUBSET Targets) \ {{}} : NothingToDo(a, ts) \/ Plan(a, ts)
  \/ \E t \in Targets : Apply(t) \/ Finish(t) \/ RecordInterrupted(t)
  \/ \E p \in Paths : Write(p) \/ Remove(p) \/ WriteInterrupted(p)
  \/ Interrupted

Next == GenerateStep \/ UserStep

Spec == Init /\ [][Next]_vars

(* The same without record edits, which leave little to be said of stale   *)
(* files.                                                                  *)
Commits == GenerateStep \/ \E f \in Files, text \in {"user", "absent"} : UserWrites(f, text)

RecordsKept == Init /\ [][Commits]_vars

-----------------------------------------------------------------------------
Generated(f) == disk[f] \notin {"absent", "user"}

(* After a run that completed, generate --check passes: the next run for   *)
(* the same API and target has nothing to write, to remove or to record.   *)
UpToDate == \A t \in Targets : current[t] # NoApi => Current(current[t], t)

(* "A renamed type never leaves a stale file behind": once a run completed,*)
(* whatever else a generation wrote in the target's directory is gone, also*)
(* after interrupted runs for that API.                                    *)
StaleRemoved(t) ==
  current[t] # NoApi => \A f \in FilesOf(t) :
                          Generated(f) => \E p \in Renders[current[t]] : Fold[p] = f

NoStaleFile == \A t \in Targets : ~edited[t] /\ ~mixed[t] => StaleRemoved(t)

(* The same, after interrupted runs for other APIs too (record.rs:4-7).    *)
NeverStale == \A t \in Targets : ~edited[t] => StaleRemoved(t)

(* "Files the user added are never touched", not even through a corrupted  *)
(* record: a run changes only files of its own targets, those it renders   *)
(* and those a record lists.                                               *)
Owned(f) == \E p \in Paths : /\ Fold[p] = f
                             /\ TargetOf[p] = target
                             /\ p \in Renders[api] \cup record[target]

OwnFilesOnly == [][UserStep \/ \A f \in Files : disk'[f] # disk[f] => Owned(f)]_vars

===============================================================================

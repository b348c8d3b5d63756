--------------------------- MODULE ReportingSnapshots ---------------------------
(***************************************************************************)
(* A report of the effective Grades of several students, and the snapshot  *)
(* it is frozen into.                                                      *)
(*                                                                         *)
(* A row is explained from stores that change while they are read: the     *)
(* selected Grade result, the activated policy and the evidence that tell  *)
(* whether it is current, and the selected override, of which              *)
(* OverrideDecisions says how it moves.  Nothing is locked: a row is       *)
(* captured twice and refused if the captures differ                       *)
(* (current_grade_preview.py, effective_grade.py), a report is a row after *)
(* a row (grade_report_preview.py), and a freeze observes the whole report *)
(* twice before it writes (reporting_snapshot_workflow.py,                 *)
(* reporting_snapshot_freeze.py, reporting_snapshot_storage.py).           *)
(***************************************************************************)
EXTENDS Naturals, Sequences

CONSTANTS N,           \* rows of the report
          Results,     \* Grade results of a student
          Calculated,  \* those whose status is "calculated"
          Activations, \* activation decisions of the class and period
          Evidence,    \* what the evidence of a student may be
          BasisOf,     \* the activation and the evidence a result was calculated from
          Start,       \* what the stores hold at first
          Movable,     \* the stores that change, of Stores
          MaxOverride, \* bound on the override decisions of a student
          MaxChanges,  \* bound on the changes of the stores
          MaxFailures, \* bound on the crashes and the system calls that fail
          Absent       \* no result, no override, no snapshot, no preview

Stores == {"result", "activation", "evidence", "override", "publication"}

Rows == 1 .. N

\* The selected decision of an override family.
Overrides == [revision : 0 .. MaxOverride, kind : {"none", "override", "withdraw"},
              source : Results \cup {Absent}]
NoOverride == [revision |-> 0, kind |-> "none", source |-> Absent]

\* What the stores hold.
Worlds == [base : [Rows -> Results \cup {Absent}], activation : Activations,
           evidence : [Rows -> Evidence], override : [Rows -> Overrides],
           moved : BOOLEAN]

ASSUME ReportingAssumption ==
  /\ N \in Nat \ {0}
  /\ Calculated \subseteq Results /\ Absent \notin Results
  /\ BasisOf \in [Results -> Activations \X Evidence]
  /\ Start \in Worlds /\ Movable \subseteq Stores
  /\ MaxOverride \in Nat /\ MaxChanges \in Nat /\ MaxFailures \in Nat

-----------------------------------------------------------------------------
(* One row *)

\* assess_..._grade_result_freshness: the current inputs are those of the result.
Fresh(result, activation, evidence) == BasisOf[result] = <<activation, evidence>>

\* Faulty variant: an override stays in force when its source result is stale.
ApplicabilityThoughStale(result, fresh, override) ==
  CASE override.kind = "none" -> "no_override"
    [] override.kind = "withdraw" -> "withdrawn"
    [] override.kind = "override" /\ override.source # result -> "source_result_changed"
    [] OTHER -> "applicable"

\* assess_teacher_grade_override_applicability
Applicability(result, fresh, override) ==
  CASE override.kind = "none" -> "no_override"
    [] override.kind = "withdraw" -> "withdrawn"
    [] override.kind = "override" /\ override.source # result -> "source_result_changed"
    [] override.kind = "override" /\ override.source = result /\ ~fresh -> "source_result_stale"
    [] OTHER -> "applicable"

\* resolve_effective_grade: where the effective Grade comes from.
EffectiveSource(result, fresh, override) ==
  IF Applicability(result, fresh, override) = "applicable" THEN "override"
  ELSE IF fresh /\ result \in Calculated THEN "base" ELSE "none"

\* _CurrentGradePreviewWitness, filled step by step.
Witnesses == [base : Results \cup {Absent}, activation : Activations \cup {Absent},
              evidence : Evidence \cup {Absent}, override : Overrides]
NoWitness == [base |-> Absent, activation |-> Absent, evidence |-> Absent,
              override |-> NoOverride]

\* GradeReportPreviewRow: without a selected result it is unavailable.
ReportRows == [base : Results \cup {Absent}, fresh : BOOLEAN, override : Overrides,
               grade : {"override", "base", "none"}]
Unavailable == [base |-> Absent, fresh |-> FALSE, override |-> NoOverride, grade |-> "none"]
RowOf(witness) ==
  LET fresh == Fresh(witness.base, witness.activation, witness.evidence)
  IN  [base |-> witness.base, fresh |-> fresh, override |-> witness.override,
       grade |-> EffectiveSource(witness.base, fresh, witness.override)]

VARIABLES world,    \* what the stores hold
          json,     \* the rows in the snapshot's JSON file, or Absent
          digest,   \* its digest file exists, whole or torn
          lock,     \* .write.lock: "free", "held", or "orphan" of a killed process
          pc,       \* the reporter's next step
          my,       \* its call
          reviewed, \* the report the teacher has reviewed, or Absent
          moments,  \* history: what the stores have held since the call began
          back,     \* history: a store has returned to what it held since then
          changes, failures

files == <<json, digest, lock>>
history == <<moments, back>>
counters == <<changes, failures>>
vars == <<world, files, pc, my, reviewed, history, counters>>

Reads == {"base", "activation", "evidence", "activation again", "override",
          "override again", "base again"}
Writes == {"lock", "existing", "json", "digest", "unlock"}
Steps == {"idle", "report", "verify"} \cup Reads \cup Writes

\* round counts the captures of a row; kept is the first observation of a freeze.
Locals == [pass : {"none", "prepare", "commit", "initial", "final"}, round : {1, 2},
           read : Witnesses, first : Witnesses,
           rows : Seq(ReportRows), kept : Seq(ReportRows)]
NoCall == [pass |-> "none", round |-> 1, read |-> NoWitness, first |-> NoWitness,
           rows |-> <<>>, kept |-> <<>>]

Init ==
  /\ world = Start
  /\ json = Absent /\ digest = FALSE /\ lock = "free"
  /\ pc = "idle" /\ my = NoCall /\ reviewed = Absent
  /\ moments = {} /\ back = FALSE
  /\ changes = 0 /\ failures = 0

-----------------------------------------------------------------------------
(* The stores change *)

\* Something takes a value again that it had before, in this call.
Returns(w) ==
  \E m \in moments :
    \/ w.activation # world.activation /\ w.activation = m.activation
    \/ \E r \in Rows : \/ w.base[r] # world.base[r] /\ w.base[r] = m.base[r]
                       \/ w.evidence[r] # world.evidence[r] /\ w.evidence[r] = m.evidence[r]

Change(store, w) ==
  /\ store \in Movable /\ changes < MaxChanges /\ changes' = changes + 1
  /\ world' = w
  /\ moments' = IF pc = "idle" THEN moments ELSE moments \cup {w}
  /\ back' = (back \/ Returns(w))
  /\ UNCHANGED <<files, pc, my, reviewed, failures>>

\* Results and activations are selected by compare-and-swap, older ones too.
SelectResult ==
  \E r \in Rows : \E result \in Results \ {world.base[r]} :
    Change("result", [world EXCEPT !.base[r] = result])

SelectActivation ==
  \E activation \in Activations \ {world.activation} :
    Change("activation", [world EXCEPT !.activation = activation])

ChangeEvidence ==
  \E r \in Rows : \E evidence \in Evidence \ {world.evidence[r]} :
    Change("evidence", [world EXCEPT !.evidence[r] = evidence])

\* OverrideDecisions!Select: a later decision, of a result that was selected.
SelectOverride ==
  \E r \in Rows : \E kind \in {"override", "withdraw"}, source \in Results :
    /\ world.override[r].revision < MaxOverride
    /\ Change("override", [world EXCEPT !.override[r] =
         [revision |-> world.override[r].revision + 1, kind |-> kind, source |-> source]])

\* A publication the evidence comes from is withdrawn or superseded.
MovePublication == ~world.moved /\ Change("publication", [world EXCEPT !.moved = TRUE])

-----------------------------------------------------------------------------
(* The report *)

Goto(step) == pc' = step
End == /\ Goto("idle") /\ my' = NoCall /\ moments' = {} /\ back' = FALSE
       /\ UNCHANGED <<world, files, counters>>
Refuse == End /\ UNCHANGED reviewed
Step(to, local) ==
  /\ Goto(to) /\ my' = local
  /\ UNCHANGED <<world, files, reviewed, history, counters>>

Row == Len(my.rows) + 1

Begin(pass) ==
  /\ pc = "idle" /\ Goto("base") /\ my' = [NoCall EXCEPT !.pass = pass]
  /\ moments' = {world}
  /\ UNCHANGED <<world, files, back, counters>>

\* prepare_reporting_snapshot_freeze and commit_reporting_snapshot_freeze_preview
Prepare == Begin("prepare") /\ reviewed' = Absent
Commit == reviewed # Absent /\ Begin("commit") /\ UNCHANGED reviewed

\* Faulty variant: the next row continues with the second capture.
NextRowSecond(row) == [my EXCEPT !.rows = Append(@, row), !.read = NoWitness,
                                 !.first = NoWitness]

NextRow(row) == [my EXCEPT !.rows = Append(@, row), !.round = 1,
                           !.read = NoWitness, !.first = NoWitness]

AfterRow == IF Row = N THEN "report" ELSE "base"

\* The selected result; without one there is no Grade to show.
ReadBase ==
  /\ pc = "base"
  /\ IF world.base[Row] = Absent THEN Step(AfterRow, NextRow(Unavailable))
     ELSE Step("activation", [my EXCEPT !.read.base = world.base[Row]])

\* assemble_..._grade_calculation: the activated policy, then the evidence.
ReadActivation ==
  /\ pc = "activation"
  /\ Step("evidence", [my EXCEPT !.read.activation = world.activation])

ReadEvidence ==
  /\ pc = "evidence"
  /\ Step("activation again", [my EXCEPT !.read.evidence = world.evidence[Row]])

\* _require_current_activation_unchanged
ActivationAgain ==
  /\ pc = "activation again"
  /\ IF world.activation = my.read.activation THEN Step("override", my) ELSE Refuse

ReadOverride ==
  /\ pc = "override"
  /\ Step("override again", [my EXCEPT !.read.override = world.override[Row]])

\* _require_override_selection_unchanged
OverrideAgain ==
  /\ pc = "override again"
  /\ IF world.override[Row] = my.read.override THEN Step("base again", my) ELSE Refuse

\* Faulty variant: one capture is enough.
BaseAgainOnce ==
  /\ pc = "base again"
  /\ IF world.base[Row] # my.read.base THEN Refuse ELSE Step(AfterRow, NextRow(RowOf(my.read)))

\* _require_..._selection_unchanged ends a capture; the second has to equal the first.
BaseAgain ==
  /\ pc = "base again"
  /\ \/ world.base[Row] # my.read.base /\ Refuse
     \/ /\ world.base[Row] = my.read.base /\ my.round = 1
        /\ Step("base", [my EXCEPT !.round = 2, !.first = my.read, !.read = NoWitness])
     \/ /\ world.base[Row] = my.read.base /\ my.round = 2
        /\ IF my.read = my.first THEN Step(AfterRow, NextRow(RowOf(my.read))) ELSE Refuse

-----------------------------------------------------------------------------
(* The freeze *)

\* Faulty variant: the second observation of the whole report is not compared.
ReportOnce ==
  /\ pc = "report"
  /\ CASE my.pass = "prepare" -> reviewed' = my.rows /\ End
       [] my.pass = "commit" /\ my.rows = reviewed ->
            Step("verify", [my EXCEPT !.pass = "initial", !.rows = <<>>])
       [] my.pass = "initial" -> Step("verify", [my EXCEPT !.pass = "final", !.rows = <<>>,
                                                           !.kept = my.rows])
       [] my.pass = "final" -> Step("lock", my)
       [] OTHER -> Refuse

\* The report is complete: it is shown, is the reviewed one still, is the candidate, or
\* confirms the candidate.
Report ==
  /\ pc = "report"
  /\ CASE my.pass = "prepare" -> reviewed' = my.rows /\ End
       [] my.pass = "commit" /\ my.rows = reviewed ->
            Step("verify", [my EXCEPT !.pass = "initial", !.rows = <<>>])
       [] my.pass = "initial" -> Step("verify", [my EXCEPT !.pass = "final", !.rows = <<>>,
                                                           !.kept = my.rows])
       [] my.pass = "final" /\ my.rows = my.kept -> Step("lock", my)
       [] OTHER -> Refuse

\* _verify_live_publication_provenance, before both observations
Verify ==
  /\ pc = "verify"
  /\ IF world.moved THEN Refuse ELSE Step("base", my)

\* write_reporting_snapshot.  The candidate is the observation that was kept.
Lock ==
  /\ pc = "lock"
  /\ \/ lock # "free" /\ Refuse
     \/ /\ lock = "free" /\ lock' = "held" /\ Goto("existing")
        /\ UNCHANGED <<world, json, digest, my, reviewed, history, counters>>

\* Faulty variant: half a pair is taken for nothing.
ExistingPair ==
  /\ pc = "existing"
  /\ Step(IF json # Absent /\ digest THEN "unlock" ELSE "json", my)

\* Whatever has the identity already is left alone, identical or not, complete or not.
Existing ==
  /\ pc = "existing"
  /\ Step(IF json # Absent \/ digest THEN "unlock" ELSE "json", my)

\* The exclusive creation of the two files, a second fence behind the lock, is left out.
WriteJson ==
  /\ pc = "json" /\ Goto("digest") /\ json' = my.kept
  /\ UNCHANGED <<world, digest, lock, my, reviewed, history, counters>>

WriteDigest ==
  /\ pc = "digest" /\ Goto("unlock") /\ digest' = TRUE
  /\ UNCHANGED <<world, json, lock, my, reviewed, history, counters>>

Unlock ==
  /\ pc = "unlock" /\ lock' = "free"
  /\ Goto("idle") /\ my' = NoCall /\ moments' = {} /\ back' = FALSE
  /\ UNCHANGED <<world, json, digest, reviewed, counters>>

\* A failing call removes what it created, the digest and then the JSON, unless that fails
\* too: what is left, whole or torn, has the file's name.  A lock stays that could be created
\* but not written, or that cannot be removed.
Raise ==
  /\ failures < MaxFailures /\ failures' = failures + 1
  /\ \/ /\ \/ pc = "json" /\ json' \in {Absent, my.kept} /\ UNCHANGED digest
           \/ pc = "digest" /\ json' \in {Absent, json} /\ digest' \in {digest, TRUE}
        /\ Goto("unlock") /\ UNCHANGED <<lock, my, history>>
     \/ /\ \/ pc = "lock" /\ lock = "free" /\ lock' \in {"free", "orphan"}
           \/ pc = "unlock" /\ lock' = "orphan"
        /\ Goto("idle") /\ my' = NoCall /\ moments' = {} /\ back' = FALSE
        /\ UNCHANGED <<json, digest>>
  /\ UNCHANGED <<world, reviewed, changes>>

\* A killed process forgets the reviewed report.  Before it holds the lock it leaves
\* nothing behind, and is one that takes no further step.
Crash ==
  /\ lock = "held" /\ failures < MaxFailures /\ failures' = failures + 1
  /\ lock' = "orphan" /\ reviewed' = Absent
  /\ Goto("idle") /\ my' = NoCall /\ moments' = {} /\ back' = FALSE
  /\ UNCHANGED <<world, json, digest, changes>>

Capture == \/ ReadBase \/ ReadActivation \/ ReadEvidence \/ ActivationAgain
           \/ ReadOverride \/ OverrideAgain \/ BaseAgain
Freeze == Report \/ Verify \/ Lock \/ Existing \/ WriteJson \/ WriteDigest \/ Unlock

Next ==
  \/ SelectResult \/ SelectActivation \/ ChangeEvidence \/ SelectOverride \/ MovePublication
  \/ Prepare \/ Commit \/ Capture \/ Freeze \/ Raise \/ Crash

Spec == Init /\ [][Next]_vars

-----------------------------------------------------------------------------
(* What a report and a snapshot promise *)

TypeOK ==
  /\ world \in Worlds
  /\ json \in Seq(ReportRows) \cup {Absent} /\ digest \in BOOLEAN
  /\ lock \in {"free", "held", "orphan"}
  /\ pc \in Steps /\ my \in Locals
  /\ my.pass = "none" <=> pc = "idle"
  /\ Len(my.rows) <= N /\ (my.round = 2 <=> my.first # NoWitness)
  /\ reviewed \in Seq(ReportRows) \cup {Absent}
  /\ moments \subseteq Worlds /\ back \in BOOLEAN
  /\ changes \in 0 .. MaxChanges /\ failures \in 0 .. MaxFailures

\* What a row of the report would have been, had the stores held w and stood still.
RowIn(w, r) ==
  IF w.base[r] = Absent THEN Unavailable
  ELSE RowOf([base |-> w.base[r], activation |-> w.activation, evidence |-> w.evidence[r],
              override |-> w.override[r]])

\* row was true in w: the decision that overrides it was selected, and the row is what w
\* has to show, unless a store was back at an older value in the meantime.
TrueIn(w, r, row) == /\ row # Unavailable => row.override = w.override[r]
                     /\ back \/ row = RowIn(w, r)

\* Whatever moves while a row is explained, the explained Grade, freshness and override
\* were those of one moment of the call, though each store is read on its own.
RowsWereTrue ==
  \A r \in 1 .. Len(my.rows) : \E w \in moments : TrueIn(w, r, my.rows[r])

\* An overriding Grade is reported only if at one moment the override was selected, of the
\* result that was selected then, and that result was current; a base Grade only if it is one.
EffectiveWasInForce ==
  \A r \in 1 .. Len(my.rows) : LET row == my.rows[r] IN
    /\ row.grade = "override" => \E w \in moments :
         /\ w.override[r] = row.override /\ row.override.kind = "override"
         /\ \/ back
            \/ /\ w.base[r] = row.override.source
               /\ BasisOf[w.base[r]] = <<w.activation, w.evidence[r]>>
    /\ row.grade = "base" => row.base \in Calculated

\* What row shows of w: its result and override are the selected ones, and so is its Grade
\* if it is reported as current.
ShownIn(w, r, row) == /\ row # Unavailable => row.override = w.override[r]
                      /\ back \/ (row.base = w.base[r] /\ (row.fresh => row = RowIn(w, r)))

\* docs/architecture/reporting-snapshots.md:185: a report does not splice its rows around a
\* change of the stores.  All results, overrides and Grades of a committed snapshot were in
\* force at one and the same moment of the commit, when its publications were.  (A row reported
\* as stale was so before and after it, RowsWereTrue; what made it stale is not compared.)
\* That holds of the pair a failing commit leaves behind, too.
FrozenWasOneState ==
  [][digest' # digest /\ json' # Absent =>
       \E w \in moments : ~w.moved /\ \A r \in Rows : ShownIn(w, r, json[r])]_vars

\* What a snapshot's file holds is final, committed or torn: a crash, a failure or a retry
\* removes it only in the call that created it.
NothingReplaced ==
  [][json # Absent /\ json' # json => json' = Absent /\ pc \in {"json", "digest"}]_vars

\* docs/decisions/0005-v03-grade-preview-and-reporting-snapshot-architecture.md:429: "This was
\* what the teacher previewed."  A committed snapshot holds the reviewed report.
FrozenWasReviewed == [][digest' # digest /\ json' # Absent => json = reviewed]_vars
=============================================================================

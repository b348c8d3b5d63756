------------------------------ MODULE TeacherAction ------------------------------
(***************************************************************************)
(* The kernel that applies one reviewed teacher decision                   *)
(* (meridian/teacher_action_orchestration.py), with its durable receipts   *)
(* and recovery table (teacher_action_receipts.py).                        *)
(*                                                                         *)
(* An action was reviewed when the history held Given revisions and the    *)
(* pointer named Baseline.  Applying it writes the next revision, makes it *)
(* current and journals every stage in the action's receipt.  Calls of     *)
(* several processes, for the same action or for another one, interleave   *)
(* between the steps below; other teachers write and select revisions, the *)
(* reviewed sources change, processes die, and any step may raise.         *)
(*                                                                         *)
(* The canonical store is the abstract one that GradeItemStorage is shown  *)
(* to implement, and each of its operations is one step here.              *)
(***************************************************************************)
EXTENDS Naturals, FiniteSets

CONSTANTS Procs,           \* processes that apply or resume actions
          Authored,        \* reviewed actions that write a new revision
          Existing,        \* reviewed selections of a policy that exists already
          Given,           \* length of the history at review time
          Baseline,        \* the selected revision at review time, 0 for none
          MaxRev,          \* bound on revision numbers
          MaxCheckpoints,  \* limit on the checkpoints of one receipt
          MaxOthers,       \* bound on the steps of other teachers
          MaxCrashes,      \* bound on the crashes of a behaviour
          MaxFaults,       \* bound on the steps that raise
          Other,           \* a content some other teacher wrote
          Absent           \* no revision of that number

Actions == Authored \cup Existing
Contents == Authored \cup {Other}

ASSUME KernelAssumption ==
  /\ MaxRev \in Nat /\ Given \in 0 .. MaxRev - 1 /\ Baseline \in 0 .. Given
  /\ Existing # {} => Given > 0 /\ Baseline # Given
  /\ MaxCheckpoints \in Nat \ {0}
  /\ MaxOthers \in Nat /\ MaxCrashes \in Nat /\ MaxFaults \in Nat
  /\ Authored \cap Existing = {}
  /\ Other \notin Authored /\ Absent \notin Contents

VARIABLES revision,   \* canonical history: revision number -> content, or Absent
          selected,   \* canonical pointer: the selected revision number, or 0
          basis,      \* whether the reviewed sources are still what was reviewed
          receipt,    \* the journal file of each action
          pc,         \* the next step of each process
          stage,      \* the stage of the action that step belongs to
          req,        \* the call each process is executing, or its last one
          held,       \* the receipt it loaded or saved last
          found,      \* its preflight met an effect no journal accounts for
          viewed,     \* the history length its selection preview recorded
          outcome,    \* the TeacherActionResult of the last call
          touched,    \* history variable: the last call changed the store
          made,       \* history variable: the actions whose target was current
          others, crashes, faults

canonical == <<revision, selected>>
local == <<held, found, viewed>>
bounds == <<others, crashes, faults>>
vars == <<canonical, basis, receipt, pc, stage, req, local, outcome, touched, made, bounds>>

Store == INSTANCE GradeItemHistory WITH Transition <- Contents \X Contents
Revs == Store!Revs

\* _STAGE_ORDER: the rank of every stage.
Stages == {"preflight", "receipt_prepared", "write", "selection_preview",
           "selection_commit", "verification", "receipt_finalized"}
Rank == [s \in Stages |->
           CASE s = "preflight" -> 0
             [] s = "receipt_prepared" -> 1
             [] s = "write" -> 2
             [] s = "selection_preview" -> 3
             [] s = "selection_commit" -> 4
             [] s = "verification" -> 5
             [] s = "receipt_finalized" -> 6]

\* A receipt's generation counts its checkpoints; stage is that of the last one.
\* recorded: observed_records holds the target.  Generation 0: there is no file.
Receipts == [generation : 0 .. MaxCheckpoints, stage : Stages, recorded : BOOLEAN]
NoReceipt == [generation |-> 0, stage |-> "preflight", recorded |-> FALSE]

Statuses == {"none", "crashed", "applied", "already_applied", "blocked_before_write",
             "written_not_current", "current_unverified",
             "conflict_requires_review", "recovery_required"}
\* persisted: the result claims that the exact target is in the history.
Results == [status : Statuses, persisted : BOOLEAN]
Result(s, claim) == [status |-> s, persisted |-> claim]

Requests == [call : {"apply", "resume"}, action : Actions]

Steps == {"idle", "revalidate", "observe", "load", "prepare", "journal", "persist",
          "create", "view", "recheck", "select", "fail", "logfail", "audit",
          "weighload", "weigh", "assessload", "assess"}

TypeOK ==
  /\ revision \in [Revs -> Contents \cup {Absent}]
  /\ selected \in 0 .. MaxRev
  /\ basis \in {"current", "stale", "unknown"}
  /\ receipt \in [Actions -> Receipts]
  /\ pc \in [Procs -> Steps]
  /\ stage \in [Procs -> Stages]
  /\ req \in [Procs -> Requests]
  /\ held \in [Procs -> Receipts]
  /\ found \in [Procs -> BOOLEAN]
  /\ viewed \in [Procs -> 0 .. MaxRev]
  /\ outcome \in [Procs -> Results]
  /\ touched \in [Procs -> BOOLEAN]
  /\ made \subseteq Actions
  /\ others \in 0 .. MaxOthers /\ crashes \in 0 .. MaxCrashes /\ faults \in 0 .. MaxFaults

Init ==
  /\ revision = [r \in Revs |-> IF r <= Given THEN Other ELSE Absent]
  /\ selected = Baseline
  /\ basis = "current"
  /\ receipt = [a \in Actions |-> NoReceipt]
  /\ pc = [p \in Procs |-> "idle"]
  /\ stage = [p \in Procs |-> "preflight"]
  /\ \E q \in Requests : req = [p \in Procs |-> q]
  /\ held = [p \in Procs |-> NoReceipt]
  /\ found = [p \in Procs |-> FALSE]
  /\ viewed = [p \in Procs |-> 0]
  /\ outcome = [p \in Procs |-> Result("none", FALSE)]
  /\ touched = [p \in Procs |-> FALSE]
  /\ made = {}
  /\ others = 0 /\ crashes = 0 /\ faults = 0

-----------------------------------------------------------------------------
(* What the domain port reads *)

Target(a) == IF a \in Existing THEN Given ELSE Given + 1
Candidate(a) == IF a \in Existing THEN Other ELSE a

HistoryIs(n) == \A r \in Revs : revision[r] # Absent <=> r <= n

\* The exact reviewed revision is in the history, or another one has its number.
Present(a) == revision[Target(a)] = Candidate(a)
Mismatch(a) == revision[Target(a)] \notin {Absent, Candidate(a)}

\* The actions whose exact target revision r is.
TargetedBy(r) == {a \in Actions : Target(a) = r /\ Present(a)}

\* revalidate_basis: the sources are unchanged and the history is the reviewed
\* one, with or without the target; a policy's port also checks its pointer.
Valid(a) ==
  /\ basis = "current"
  /\ HistoryIs(Given) \/ HistoryIs(Target(a))
  /\ a \in Existing => selected \in {Baseline, Target(a)}

\* observe: whether the basis is current.  A policy's port revalidates for it.
BasisRead(a) == IF a \in Existing /\ ~Valid(a) THEN "stale" ELSE basis

Pointer(a) ==
  CASE BasisRead(a) = "unknown" -> "unknown"
    [] BasisRead(a) # "unknown" /\ selected = Target(a) /\ Present(a) -> "target"
    [] BasisRead(a) # "unknown" /\ selected = Baseline -> "baseline"
    [] OTHER -> "diverged"

\* _inspect finds what the stage of process p needs.
Satisfied(p) ==
  LET a == req[p].action
  IN /\ ~Mismatch(a)
     /\ BasisRead(a) = "current"
     /\ CASE stage[p] = "preflight" /\ req[p].call = "apply" ->
               Pointer(a) \in {"baseline", "target"} /\ (a \in Existing => Present(a))
          [] stage[p] = "write" -> Pointer(a) = "baseline" /\ (Present(a) <=> a \in Existing)
          [] stage[p] = "verification" -> Pointer(a) = "target" /\ Present(a)
          [] OTHER -> Pointer(a) = "baseline" /\ Present(a)

-----------------------------------------------------------------------------
(* Moving a call *)

Move(p, s, step) ==
  /\ stage' = [stage EXCEPT ![p] = s]
  /\ pc' = [pc EXCEPT ![p] = step]
  /\ UNCHANGED outcome

Keep(p, s, step, result) ==
  /\ stage' = [stage EXCEPT ![p] = s]
  /\ pc' = [pc EXCEPT ![p] = step]
  /\ outcome' = [outcome EXCEPT ![p] = result]

Return(p, s, claim) ==
  /\ Keep(p, "preflight", "idle", Result(s, claim))
  /\ held' = [held EXCEPT ![p] = NoReceipt]
  /\ found' = [found EXCEPT ![p] = FALSE]
  /\ viewed' = [viewed EXCEPT ![p] = 0]

Fault == faults < MaxFaults /\ faults' = faults + 1 /\ UNCHANGED <<others, crashes>>
Quiet == UNCHANGED <<canonical, basis, receipt, req, touched, made>>

Call(p) ==
  /\ pc[p] = "idle"
  /\ \E q \in Requests : req' = [req EXCEPT ![p] = q]
  /\ Keep(p, "preflight", "revalidate", Result("none", FALSE))
  /\ touched' = [touched EXCEPT ![p] = FALSE]
  /\ UNCHANGED <<canonical, basis, receipt, local, made, bounds>>

-----------------------------------------------------------------------------
(* Revalidating the basis and observing the canonical store *)

\* Where a call goes when revalidation or observation does not support its stage.
Refusal(p) ==
  \/ /\ stage[p] = "preflight"
     /\ Return(p, IF req[p].call = "resume" /\ pc[p] = "revalidate"
                  THEN "recovery_required" ELSE "conflict_requires_review", FALSE)
  \/ /\ stage[p] = "write" /\ req[p].action \in Authored
     /\ Return(p, "conflict_requires_review", FALSE)
  \/ /\ stage[p] = "write" /\ req[p].action \in Existing
     /\ Keep(p, "selection_preview", "logfail", Result("blocked_before_write", FALSE))
     /\ UNCHANGED local
  \/ /\ stage[p] \in {"selection_preview", "verification"}
     /\ Move(p, stage[p], "fail") /\ UNCHANGED local

Revalidate(p) ==
  /\ pc[p] = "revalidate"
  /\ IF ~Valid(req[p].action) THEN Refusal(p)
     ELSE /\ Move(p, stage[p],
                  IF stage[p] = "preflight" /\ req[p].call = "resume" THEN "weighload" ELSE "observe")
          /\ UNCHANGED local
  /\ Quiet /\ UNCHANGED bounds

\* The preflight of an apply remembers whether the target is there already, or, for
\* an existing policy, whether the pointer has moved.
Observe(p) ==
  /\ pc[p] = "observe"
  /\ LET a == req[p].action
     IN \/ ~Satisfied(p) /\ Refusal(p)
        \/ /\ Satisfied(p) /\ stage[p] = "preflight" /\ req[p].call = "apply"
           /\ found' = [found EXCEPT ![p] = IF a \in Existing THEN Pointer(a) # "baseline"
                                            ELSE Present(a)]
           /\ Move(p, "preflight", "load") /\ UNCHANGED <<held, viewed>>
        \/ /\ Satisfied(p) /\ stage[p] = "preflight" /\ req[p].call = "resume"
           /\ Move(p, "selection_preview", "revalidate") /\ UNCHANGED local
        \/ /\ Satisfied(p) /\ stage[p] = "write" /\ a \in Authored
           /\ Move(p, "write", "persist") /\ UNCHANGED local
        \/ /\ Satisfied(p) /\ stage[p] = "write" /\ a \in Existing
           /\ Move(p, "selection_preview", "revalidate") /\ UNCHANGED local
        \/ /\ Satisfied(p) /\ stage[p] \in {"selection_preview", "verification"}
           /\ Move(p, stage[p], "journal") /\ UNCHANGED local
  /\ Quiet /\ UNCHANGED bounds

\* The port raises something that is not a conflict.
ReadRaises(p) ==
  /\ pc[p] \in {"revalidate", "observe"}
  /\ IF stage[p] = "preflight" /\ req[p].call = "apply"
     THEN Return(p, "blocked_before_write", FALSE)
     ELSE Refusal(p)
  /\ Fault /\ Quiet

-----------------------------------------------------------------------------
(* The receipt *)

\* Faulty variant: a claim that recorded no write is taken for one that only was prepared.
LoadUnrecorded(p) ==
  /\ pc[p] = "load"
  /\ LET a == req[p].action
         fresh == receipt[a].generation = 0 \/ (~receipt[a].recorded /\ a \in Authored)
     IN \/ /\ req[p].call = "resume"
           /\ held' = [held EXCEPT ![p] = receipt[a]]
           /\ Move(p, "preflight", "observe") /\ UNCHANGED <<found, viewed>>
        \/ /\ req[p].call = "apply" /\ ~fresh
           /\ Move(p, "preflight", "assessload") /\ UNCHANGED local
        \/ /\ req[p].call = "apply" /\ fresh
           /\ Move(p, "preflight", "prepare") /\ UNCHANGED local
  /\ Quiet /\ UNCHANGED bounds

\* store.load: an apply goes on without a receipt, or with one that only was
\* prepared; anything else is assessed.  A resume inspects once more.
Load(p) ==
  /\ pc[p] = "load"
  /\ LET a == req[p].action
         fresh == receipt[a].generation = 0 \/ (receipt[a].generation = 1 /\ a \in Authored)
     IN \/ /\ req[p].call = "resume"
           /\ held' = [held EXCEPT ![p] = receipt[a]]
           /\ Move(p, "preflight", "observe") /\ UNCHANGED <<found, viewed>>
        \/ /\ req[p].call = "apply" /\ ~fresh
           /\ Move(p, "preflight", "assessload") /\ UNCHANGED local
        \/ /\ req[p].call = "apply" /\ fresh /\ found[p]
           /\ Return(p, "recovery_required", a \in Authored)
        \/ /\ req[p].call = "apply" /\ fresh /\ ~found[p]
           /\ Move(p, "preflight", "prepare") /\ UNCHANGED local
  /\ Quiet /\ UNCHANGED bounds

LoadRaises(p) ==
  /\ pc[p] = "load"
  /\ Return(p, IF req[p].call = "resume" THEN "conflict_requires_review" ELSE "recovery_required", FALSE)
  /\ Fault /\ Quiet

Prepared == [generation |-> 1, stage |-> "receipt_prepared", recorded |-> FALSE]

\* Faulty variant: the call goes on to write without claiming the receipt.
PrepareUnclaimed(p) ==
  /\ pc[p] = "prepare"
  /\ LET a == req[p].action
         r == IF receipt[a].generation = 0 THEN Prepared ELSE receipt[a]
     IN receipt' = [receipt EXCEPT ![a] = r] /\ held' = [held EXCEPT ![p] = r]
  /\ Move(p, "write", "revalidate")
  /\ UNCHANGED <<canonical, basis, req, found, viewed, touched, made, bounds>>

\* A receipt that exists by now is returned as it is, whatever its progress.
Prepare(p) ==
  /\ pc[p] = "prepare"
  /\ LET a == req[p].action
         r == IF receipt[a].generation = 0 THEN Prepared ELSE receipt[a]
     IN receipt' = [receipt EXCEPT ![a] = r] /\ held' = [held EXCEPT ![p] = r]
  /\ Move(p, "receipt_prepared", "journal")
  /\ UNCHANGED <<canonical, basis, req, found, viewed, touched, made, bounds>>

\* The lock is busy, or saving fails before or after the file was replaced.
PrepareRaises(p) ==
  /\ pc[p] = "prepare"
  /\ \/ UNCHANGED receipt
     \/ /\ receipt[req[p].action].generation = 0
        /\ receipt' = [receipt EXCEPT ![req[p].action] = Prepared]
  /\ Return(p, "blocked_before_write", FALSE)
  /\ Fault /\ UNCHANGED <<canonical, basis, req, touched, made>>

\* A checkpoint of an earlier stage than the receipt's last one is left out.
Earlier(p) == Rank[stage[p]] < Rank[held[p].stage]

\* Faulty variant: the limit on checkpoints is not enforced.
AcceptsUnbounded(p) == receipt[req[p].action].generation = held[p].generation

\* record_checkpoint under the journal lock: the generation is the expected one
\* and the receipt has room.
Accepts(p) ==
  /\ receipt[req[p].action].generation = held[p].generation
  /\ held[p].generation < MaxCheckpoints

\* The receipt with one more checkpoint: this call's stage, what it observed.
Checkpoint(p, observed) == [generation |-> held[p].generation + 1, stage |-> stage[p],
                            recorded |-> held[p].recorded \/ observed]

Save(p, observed) ==
  receipt' = [receipt EXCEPT ![req[p].action] = Checkpoint(p, observed)]

NextStage == [receipt_prepared |-> "write", write |-> "selection_preview",
              selection_preview |-> "selection_commit",
              selection_commit |-> "verification", verification |-> "receipt_finalized"]
FirstStep == [write |-> "revalidate", selection_preview |-> "revalidate",
              selection_commit |-> "view", verification |-> "revalidate",
              receipt_finalized |-> "journal"]

Journal(p) ==
  /\ pc[p] = "journal" /\ stage[p] # "receipt_finalized"
  /\ \/ Earlier(p) /\ UNCHANGED <<receipt, held>>
     \/ /\ ~Earlier(p) /\ Accepts(p) /\ Save(p, stage[p] # "receipt_prepared")
        /\ held' = [held EXCEPT ![p] = Checkpoint(p, stage[p] # "receipt_prepared")]
  /\ Move(p, NextStage[stage[p]], FirstStep[NextStage[stage[p]]])
  /\ UNCHANGED <<canonical, basis, req, found, viewed, touched, made, bounds>>

\* The last checkpoint is saved and the call reports success.
Finalize(p) ==
  /\ pc[p] = "journal" /\ stage[p] = "receipt_finalized" /\ Accepts(p)
  /\ Save(p, TRUE)
  /\ Return(p, "applied", TRUE)
  /\ UNCHANGED <<canonical, basis, req, touched, made, bounds>>

\* Before the write that blocks the call, after it the audit decides.
Unjournaled(p) ==
  IF stage[p] = "receipt_prepared" THEN Return(p, "blocked_before_write", FALSE)
  ELSE Move(p, stage[p], "audit") /\ UNCHANGED local

JournalRefuses(p) ==
  /\ pc[p] = "journal" /\ ~Earlier(p) /\ ~Accepts(p)
  /\ Unjournaled(p)
  /\ Quiet /\ UNCHANGED bounds

\* The lock is busy, or saving fails before or after the file was replaced.
JournalRaises(p) ==
  /\ pc[p] = "journal" /\ ~Earlier(p)
  /\ \/ UNCHANGED receipt
     \/ Accepts(p) /\ Save(p, stage[p] # "receipt_prepared")
  /\ Unjournaled(p)
  /\ Fault /\ UNCHANGED <<canonical, basis, req, touched, made>>

-----------------------------------------------------------------------------
(* Writing the target and making it current *)

\* The authoring commit: the history is still the reviewed one.
Persist(p) ==
  /\ pc[p] = "persist"
  /\ Move(p, "write", IF HistoryIs(Given) THEN "create" ELSE "fail")
  /\ UNCHANGED local /\ Quiet /\ UNCHANGED bounds

\* Faulty variant: whatever has the target's number is taken for the target.
CreateAnyContent(p) ==
  /\ pc[p] = "create"
  /\ LET a == req[p].action
     IN \/ /\ revision[Target(a)] = Absent
           /\ Store!Append(Target(a), Candidate(a))
           /\ touched' = [touched EXCEPT ![p] = TRUE]
        \/ revision[Target(a)] # Absent /\ UNCHANGED <<canonical, touched>>
  /\ Move(p, "write", "journal")
  /\ UNCHANGED <<basis, receipt, req, local, made, bounds>>

Create(p) ==
  /\ pc[p] = "create"
  /\ LET a == req[p].action
     IN \/ /\ revision[Target(a)] = Absent
           /\ Store!Append(Target(a), Candidate(a))
           /\ touched' = [touched EXCEPT ![p] = TRUE]
           /\ Move(p, "write", "journal")
        \/ /\ Present(a)
           /\ Move(p, "write", "journal") /\ UNCHANGED <<canonical, touched>>
        \/ /\ Mismatch(a)
           /\ Move(p, "write", "fail") /\ UNCHANGED <<canonical, touched>>
  /\ UNCHANGED <<basis, receipt, req, local, made, bounds>>

\* Faulty variant: the reviewed baseline is not compared.
ViewLatest(p) ==
  /\ pc[p] = "view"
  /\ \E n \in Revs :
       /\ HistoryIs(n)
       /\ viewed' = [viewed EXCEPT ![p] = n]
  /\ Move(p, "selection_commit", IF Present(req[p].action) THEN "recheck" ELSE "fail")
  /\ UNCHANGED <<held, found>> /\ Quiet /\ UNCHANGED bounds

\* select_exact builds the selection preview of the exact target.
View(p) ==
  /\ pc[p] = "view"
  /\ LET a == req[p].action
     IN \E n \in Revs :
          /\ HistoryIs(n)
          /\ viewed' = [viewed EXCEPT ![p] = n]
          /\ Move(p, "selection_commit",
                  IF Present(a) /\ selected = Baseline /\ (a \in Existing => n = Target(a))
                  THEN "recheck" ELSE "fail")
  /\ UNCHANGED <<held, found>> /\ Quiet /\ UNCHANGED bounds

\* The selection commit: history and pointer are those of the selection preview.
Recheck(p) ==
  /\ pc[p] = "recheck"
  /\ Move(p, "selection_commit",
          IF HistoryIs(viewed[p]) /\ selected = Baseline THEN "select" ELSE "fail")
  /\ UNCHANGED local /\ Quiet /\ UNCHANGED bounds

\* Faulty variant: the pointer is replaced without comparing it.
SelectUncompared(p) ==
  /\ pc[p] = "select"
  /\ Store!Select(Target(req[p].action), selected)
  /\ touched' = [touched EXCEPT ![p] = TRUE]
  /\ made' = made \cup TargetedBy(Target(req[p].action))
  /\ Move(p, "selection_commit", "journal")
  /\ UNCHANGED <<basis, receipt, req, local, bounds>>

Select(p) ==
  /\ pc[p] = "select"
  /\ LET a == req[p].action
     IN \/ /\ Store!Select(Target(a), Baseline)
           /\ touched' = [touched EXCEPT ![p] = TRUE]
           /\ made' = made \cup TargetedBy(Target(a))
           /\ Move(p, "selection_commit", "journal")
        \/ /\ selected # Baseline
           /\ Move(p, "selection_commit", "fail") /\ UNCHANGED <<canonical, touched, made>>
  /\ UNCHANGED <<basis, receipt, req, local, bounds>>

\* The store, or a step before it, raises; what it did may be on disk.
StoreRaises(p) ==
  /\ pc[p] \in {"persist", "create", "view", "recheck", "select"}
  /\ LET a == req[p].action
     IN \/ UNCHANGED <<canonical, touched, made>>
        \/ /\ pc[p] = "create" /\ revision[Target(a)] = Absent
           /\ Store!Append(Target(a), Candidate(a))
           /\ touched' = [touched EXCEPT ![p] = TRUE] /\ UNCHANGED made
        \/ /\ pc[p] = "select" /\ Store!Select(Target(a), Baseline)
           /\ touched' = [touched EXCEPT ![p] = TRUE]
           /\ made' = made \cup TargetedBy(Target(a))
  /\ Move(p, stage[p], "fail")
  /\ Fault /\ UNCHANGED <<basis, receipt, req, local>>

-----------------------------------------------------------------------------
(* A step failed: canonical truth first, then the journal *)

\* Faulty variant: a write or selection that raised is taken to have been undone.
FailureOfRollback(a) ==
  IF Pointer(a) = "baseline" THEN Result("blocked_before_write", FALSE)
  ELSE Result("current_unverified", Present(a))

\* _failure after an attempted mutation.
Failure(a) ==
  CASE Mismatch(a) -> Result("conflict_requires_review", FALSE)
    [] ~Mismatch(a) /\ ~Present(a) -> Result("recovery_required", FALSE)
    [] Present(a) /\ BasisRead(a) = "stale" -> Result("conflict_requires_review", TRUE)
    [] OTHER -> CASE Pointer(a) = "baseline" -> Result("written_not_current", TRUE)
                  [] Pointer(a) = "diverged" -> Result("conflict_requires_review", TRUE)
                  [] OTHER -> Result("current_unverified", TRUE)

Fail(p) ==
  /\ pc[p] = "fail"
  /\ Keep(p, stage[p], "logfail", Failure(req[p].action))
  /\ UNCHANGED local /\ Quiet /\ UNCHANGED bounds

FailRaises(p) ==
  /\ pc[p] = "fail"
  /\ Keep(p, stage[p], "logfail", Result("recovery_required", FALSE))
  /\ UNCHANGED local /\ Fault /\ Quiet

\* The result stands as it is.
Report(p) == Return(p, outcome[p].status, outcome[p].persisted)

\* The failed stage is journaled with disposition blocked or unknown.
LogFailure(p) ==
  /\ pc[p] = "logfail"
  /\ \/ Earlier(p) /\ UNCHANGED receipt
     \/ ~Earlier(p) /\ Accepts(p) /\ Save(p, outcome[p].persisted)
  /\ Report(p)
  /\ UNCHANGED <<canonical, basis, req, touched, made, bounds>>

Unlogged(p) ==
  IF outcome[p].status = "blocked_before_write" THEN Report(p)
  ELSE Move(p, stage[p], "audit") /\ UNCHANGED local

LogFailureRefused(p) ==
  /\ pc[p] = "logfail" /\ ~Earlier(p) /\ ~Accepts(p)
  /\ Unlogged(p)
  /\ Quiet /\ UNCHANGED bounds

LogFailureRaises(p) ==
  /\ pc[p] = "logfail" /\ ~Earlier(p)
  /\ \/ UNCHANGED receipt
     \/ Accepts(p) /\ Save(p, outcome[p].persisted)
  /\ Unlogged(p)
  /\ Fault /\ UNCHANGED <<canonical, basis, req, touched, made>>

\* _failure with audit_failure: success is never claimed without its receipt.
Audit(p) ==
  /\ pc[p] = "audit"
  /\ LET a == req[p].action
     IN Return(p, IF Mismatch(a) THEN "conflict_requires_review" ELSE "recovery_required", Present(a))
  /\ Quiet /\ UNCHANGED bounds

AuditRaises(p) ==
  /\ pc[p] = "audit"
  /\ Return(p, "recovery_required", FALSE)
  /\ Fault /\ Quiet

-----------------------------------------------------------------------------
(* Recovery: the receipt is loaded first, then the canonical store is read *)

\* Faulty variant: a recorded write is taken for success wherever the pointer is.
VerdictOfJournal(a, h) ==
  IF h.recorded THEN "already_applied" ELSE "recovery_required"

\* assess_teacher_action_recovery with receipt h.
Verdict(a, h) ==
  CASE Mismatch(a) -> "conflict_requires_review"
    [] ~Mismatch(a) /\ (h = NoReceipt \/ (h.recorded /\ ~Present(a))) -> "recovery_required"
    [] OTHER ->
         CASE BasisRead(a) = "unknown" -> IF Present(a) THEN "current_unverified" ELSE "recovery_required"
           [] BasisRead(a) = "stale" -> "conflict_requires_review"
           [] OTHER ->
                IF ~Present(a)
                THEN IF Rank[h.stage] < Rank["write"] THEN "blocked_before_write" ELSE "recovery_required"
                ELSE CASE Pointer(a) = "target" -> "already_applied"
                       [] Pointer(a) = "baseline" -> "written_not_current"
                       [] OTHER -> "conflict_requires_review"

AssessLoad(p) ==
  /\ pc[p] \in {"weighload", "assessload"}
  /\ held' = [held EXCEPT ![p] = receipt[req[p].action]]
  /\ Move(p, "preflight", IF pc[p] = "weighload" THEN "weigh" ELSE "assess")
  /\ UNCHANGED <<found, viewed>> /\ Quiet /\ UNCHANGED bounds

\* Faulty variant: a resume needs a receipt that recorded the write.
WeighRecorded(p) ==
  /\ pc[p] = "weigh"
  /\ Move(p, "preflight", IF /\ Verdict(req[p].action, held[p]) = "written_not_current"
                             /\ held[p].recorded
                          THEN "load" ELSE "assessload")
  /\ UNCHANGED local /\ Quiet /\ UNCHANGED bounds

\* A resume goes on only from a verified target under an unmoved pointer.
Weigh(p) ==
  /\ pc[p] = "weigh"
  /\ Move(p, "preflight", IF Verdict(req[p].action, held[p]) = "written_not_current"
                          THEN "load" ELSE "assessload")
  /\ UNCHANGED local /\ Quiet /\ UNCHANGED bounds

\* _recovery_outcome reports the assessment.
Assess(p) ==
  /\ pc[p] = "assess"
  /\ LET a == req[p].action
     IN Return(p, Verdict(a, held[p]), Present(a) /\ Verdict(a, held[p]) # "blocked_before_write")
  /\ Quiet /\ UNCHANGED bounds

\* The receipt is unreadable, or the canonical reader raises.
AssessRaises(p) ==
  /\ \/ /\ pc[p] \in {"weighload", "weigh"}
        /\ Move(p, "preflight", "assessload") /\ UNCHANGED local
     \/ pc[p] = "assessload" /\ Return(p, "recovery_required", Present(req[p].action))
     \/ pc[p] = "assess" /\ Return(p, "recovery_required", FALSE)
  /\ Fault /\ Quiet

-----------------------------------------------------------------------------
(* Everyone else *)

Crash(p) ==
  /\ pc[p] # "idle" /\ crashes < MaxCrashes
  /\ Return(p, "crashed", FALSE)
  /\ crashes' = crashes + 1
  /\ Quiet /\ UNCHANGED <<others, faults>>

OtherStep == others < MaxOthers /\ others' = others + 1 /\ UNCHANGED <<crashes, faults>>

OtherWrites ==
  /\ \E r \in Revs : Store!Append(r, Other)
  /\ OtherStep
  /\ UNCHANGED <<basis, receipt, pc, stage, req, local, outcome, touched, made>>

OtherSelects ==
  /\ \E r \in Revs \ {selected} :
       /\ Store!Select(r, selected)
       /\ made' = made \cup TargetedBy(r)
  /\ OtherStep
  /\ UNCHANGED <<basis, receipt, pc, stage, req, local, outcome, touched>>

\* A profile, class, calendar, membership or policy changes, or changes back.
BasisChanges ==
  /\ basis' \in {"current", "stale", "unknown"} \ {basis}
  /\ OtherStep
  /\ UNCHANGED <<canonical, receipt, pc, stage, req, local, outcome, touched, made>>

Run(p) ==
  \/ Revalidate(p) \/ Observe(p) \/ Load(p) \/ Prepare(p)
  \/ Journal(p) \/ Finalize(p) \/ JournalRefuses(p)
  \/ Persist(p) \/ Create(p) \/ View(p) \/ Recheck(p) \/ Select(p)
  \/ Fail(p) \/ LogFailure(p) \/ LogFailureRefused(p) \/ Audit(p)
  \/ AssessLoad(p) \/ Weigh(p) \/ Assess(p)

Raise(p) ==
  \/ ReadRaises(p) \/ LoadRaises(p) \/ PrepareRaises(p) \/ JournalRaises(p)
  \/ StoreRaises(p) \/ FailRaises(p) \/ LogFailureRaises(p) \/ AuditRaises(p)
  \/ AssessRaises(p)

Next ==
  \/ \E p \in Procs : Call(p) \/ Run(p) \/ Raise(p) \/ Crash(p)
  \/ OtherWrites \/ OtherSelects \/ BasisChanges

Spec == Init /\ [][Next]_vars

\* A started call runs until it returns, and the teacher who finds an interrupted
\* action in the recovery inbox keeps choosing RESUME.
Resume(p) == Call(p) /\ req'[p].call = "resume"
FairSpec == Spec /\ \A p \in Procs : WF_vars(Run(p)) /\ SF_vars(Resume(p))
-----------------------------------------------------------------------------
(* What the kernel guarantees *)

\* A revision this action wrote is always covered by a claimed receipt, whenever the
\* process that wrote it dies: a restart never takes a written decision for one
\* that was not started.
WritesAreClaimed ==
  \A a \in Authored : Present(a) => receipt[a].generation >= 2

\* Neither a result nor a receipt ever claims a revision the history does not hold:
\* "never infer successful commit from return or journal alone".
ClaimsArePersisted ==
  /\ \A p \in Procs : outcome[p].persisted => Present(req[p].action)
  /\ \A a \in Actions : receipt[a].recorded => Present(a)

\* Success is only reported, and a receipt only finalized, for an action whose exact
\* target has been current.
SuccessIsTrue ==
  /\ \A p \in Procs :
       outcome[p].status \in {"applied", "already_applied"} => req[p].action \in made
  /\ \A a \in Actions : receipt[a].stage = "receipt_finalized" => a \in made

\* "Blocked before writing. No action record was changed.": a call that reports this
\* wrote no revision and moved no pointer, whatever raised on its way.
BlockedChangedNothing ==
  \A p \in Procs : outcome[p].status = "blocked_before_write" => ~touched[p]

\* "Different/newer selected revision: never overwrite another teacher's later
\* choice": a call moves the pointer only from the reviewed baseline to its own
\* verified target, once its receipt announces the selection.
NoChoiceOverwritten ==
  [][\A p \in Procs : pc[p] = "select" /\ selected' # selected /\ pc'[p] # "select" =>
       LET a == req[p].action
       IN /\ selected = Baseline /\ selected' = Target(a) /\ Present(a)
          /\ Rank[receipt[a].stage] >= Rank["selection_preview"]]_vars

\* "Competing attempts for the same action ID do not start a second write."
OneWriter ==
  \A p, q \in Procs :
    pc[p] = "create" /\ pc[q] = "create" /\ req[p].action = req[q].action => p = q

\* A call that may still write the revision of action a: it found a receipt nobody had
\* claimed, or claimed it itself.
MayWrite(p, a) ==
  /\ req[p].action = a
  /\ \/ pc[p] = "prepare"
     \/ pc[p] = "journal" /\ stage[p] = "receipt_prepared"
     \/ stage[p] = "write" /\ pc[p] \in {"revalidate", "observe", "persist", "create"}

\* Action a was claimed, and every call that might have written it is over.
Abandoned(a) ==
  receipt[a].generation >= 2 /\ ~Present(a) /\ \A p \in Procs : ~MayWrite(p, a)

\* "The claim makes a restart conservative, rather than rewriting history": an action
\* that was claimed and not written is never written later, whichever calls of it, apply
\* or resume, follow and whatever the receipt says of its progress.
ClaimsAreConservative ==
  [][\A a \in Authored : Abandoned(a) => Abandoned(a)']_vars

\* Whatever died or raised after the write, a decision that was written becomes
\* current as long as nobody else touches the item and the teacher resumes it.
WrittenBecomesCurrent ==
  \A a \in Authored : Present(a) ~> selected = Target(a)
=============================================================================

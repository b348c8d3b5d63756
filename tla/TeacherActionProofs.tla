--------------------------- MODULE TeacherActionProofs ---------------------------
(* Machine-checked proofs about TeacherAction, for every value of its constants. *)
EXTENDS TeacherAction, TLAPS

Step(p) == Call(p) \/ Run(p) \/ Raise(p) \/ Crash(p)
World == OtherWrites \/ OtherSelects \/ BasisChanges

-----------------------------------------------------------------------------
(* The inductive invariant *)

\* The reviewed history stays, the pointer names a revision, and an action whose
\* target it names has been made current.
HistoryInv ==
  /\ \A r \in Revs : r <= Given => revision[r] = Other
  /\ selected # 0 => revision[selected] # Absent
  /\ TargetedBy(selected) \subseteq made

\* A receipt that only was prepared shows no progress; what it records is there,
\* and when it is finalized the target has been current.
ReceiptInv ==
  \A a \in Actions :
    /\ receipt[a].generation = 0 => receipt[a] = NoReceipt
    /\ Rank[receipt[a].stage] >= 2 => receipt[a].generation >= 2
    /\ receipt[a].recorded => Present(a)
    /\ receipt[a].stage = "receipt_finalized" => a \in made
    /\ a \in Authored /\ Present(a) => receipt[a].generation >= 2

\* A call holds the receipt as it is, or as it was some generations ago.
HeldInv(p) ==
  LET r == receipt[req[p].action]
      h == held[p]
  IN /\ h.generation <= r.generation
     /\ h.generation = r.generation => h = r
     /\ h.generation = 0 => h = NoReceipt
     /\ Rank[h.stage] <= Rank[r.stage]
     /\ h.recorded => r.recorded
     /\ Rank[h.stage] >= 2 => h.generation >= 2

\* The steps a call can be at in each stage.
StepsOf == [preflight |-> {"idle", "revalidate", "observe", "load", "prepare",
                           "weighload", "weigh", "assessload", "assess"},
            receipt_prepared |-> {"journal"},
            write |-> {"revalidate", "observe", "persist", "create", "journal",
                       "fail", "logfail", "audit"},
            selection_preview |-> {"revalidate", "observe", "journal", "fail", "logfail", "audit"},
            selection_commit |-> {"view", "recheck", "select", "journal", "fail", "logfail", "audit"},
            verification |-> {"revalidate", "observe", "journal", "fail", "logfail", "audit"},
            receipt_finalized |-> {"journal", "audit"}]

\* What the stage of a call says about the store and about the receipt.
StageInv(p) ==
  LET a == req[p].action
      s == stage[p]
  IN /\ pc[p] \in StepsOf[s]
     /\ pc[p] = "idle" => held[p] = NoReceipt /\ ~found[p]
     /\ s = "preflight" /\ req[p].call = "resume" /\ pc[p] = "load" => receipt[a].generation >= 1
     /\ s = "preflight" /\ req[p].call = "resume" /\ pc[p] = "observe" => held[p].generation >= 1
     /\ Rank[s] >= 1 => held[p].generation >= 1
     /\ s = "write" => receipt[a].generation >= 2
     /\ s = "write" /\ pc[p] \notin {"revalidate", "observe"} => a \in Authored
     /\ s = "write" /\ pc[p] = "journal" => Present(a)
     /\ Rank[s] >= 3 => Present(a)
     /\ Rank[s] >= 4 => Rank[receipt[a].stage] >= 3
     /\ s = "selection_commit" /\ pc[p] = "journal" => a \in made
     /\ Rank[s] >= 5 => a \in made
     /\ found[p] /\ a \in Authored => Present(a)

\* What a call may say: it has changed nothing before its write, and a result
\* claims only what holds.
TruthInv(p) ==
  LET a == req[p].action
      s == outcome[p].status
  IN /\ pc[p] # "idle" /\ Rank[stage[p]] <= 1 => ~touched[p]
     /\ stage[p] = "write" /\ pc[p] \in {"revalidate", "observe", "persist", "create"} => ~touched[p]
     /\ pc[p] \notin {"idle", "logfail", "audit"} => outcome[p] = Result("none", FALSE)
     /\ s = "blocked_before_write" => ~touched[p]
     /\ outcome[p].persisted => Present(a)
     /\ s \in {"applied", "already_applied"} => a \in made

CallInv(p) == HeldInv(p) /\ StageInv(p) /\ TruthInv(p)

IInv == TypeOK /\ HistoryInv /\ ReceiptInv /\ \A p \in Procs : CallInv(p)

-----------------------------------------------------------------------------
(* Ranks, constants and the pure operators *)

LEMMA RankValues ==
  /\ Rank["preflight"] = 0 /\ Rank["receipt_prepared"] = 1 /\ Rank["write"] = 2
  /\ Rank["selection_preview"] = 3 /\ Rank["selection_commit"] = 4
  /\ Rank["verification"] = 5 /\ Rank["receipt_finalized"] = 6
BY DEF Rank, Stages

LEMMA RankType == \A s \in Stages : Rank[s] \in 0 .. 6
BY RankValues DEF Stages

\* The order of the stages, without the numbers.
LEMMA RankOrder ==
  ASSUME NEW s \in Stages
  PROVE  /\ Rank[s] >= 1 <=> s # "preflight"
         /\ Rank[s] <= 1 <=> s \in {"preflight", "receipt_prepared"}
         /\ Rank[s] >= 2 <=> s \notin {"preflight", "receipt_prepared"}
         /\ Rank[s] >= 3 <=> s \notin {"preflight", "receipt_prepared", "write"}
         /\ Rank[s] >= 4 <=> s \in {"selection_commit", "verification", "receipt_finalized"}
         /\ Rank[s] >= 5 <=> s \in {"verification", "receipt_finalized"}
BY RankValues DEF Stages

LEMMA TargetType ==
  ASSUME NEW a \in Actions
  PROVE  /\ Target(a) \in Revs /\ Candidate(a) \in Contents
         /\ a \in Existing => Target(a) = Given /\ Candidate(a) = Other
         /\ a \in Authored => Target(a) = Given + 1 /\ Candidate(a) = a
BY KernelAssumption DEF Target, Candidate, Contents, Actions, Store!Revs, Revs

LEMMA NoReceiptType == NoReceipt \in Receipts /\ Prepared \in Receipts
BY KernelAssumption DEF NoReceipt, Prepared, Receipts, Stages

LEMMA ResultType ==
  ASSUME NEW s \in Statuses, NEW claim \in BOOLEAN
  PROVE  /\ Result(s, claim) \in Results
         /\ Result(s, claim).status = s /\ Result(s, claim).persisted = claim
BY DEF Result, Results

LEMMA FailureTrue ==
  ASSUME NEW a \in Actions
  PROVE  /\ Failure(a) \in Results
         /\ Failure(a).status \notin {"none", "applied", "already_applied", "blocked_before_write"}
         /\ Failure(a).persisted => Present(a)
<1> DEFINE S == {"conflict_requires_review", "recovery_required", "written_not_current",
                 "current_unverified"}
<1>1. \E s \in S, claim \in BOOLEAN : Failure(a) = Result(s, claim) /\ (claim => Present(a))
  <2>1. CASE Mismatch(a)
    <3>1. Failure(a) = Result("conflict_requires_review", FALSE)
      BY <2>1 DEF Failure, Mismatch, Present
    <3>. QED BY <3>1
  <2>2. CASE ~Mismatch(a) /\ ~Present(a)
    BY <2>2 DEF Failure
  <2>3. CASE ~Mismatch(a) /\ Present(a) /\ BasisRead(a) = "stale"
    BY <2>3 DEF Failure
  <2>4. CASE ~Mismatch(a) /\ Present(a) /\ BasisRead(a) # "stale"
    BY <2>4 DEF Failure
  <2>. QED BY <2>1, <2>2, <2>3, <2>4
<1>2. S \subseteq Statuses
  BY DEF Statuses
<1>. QED BY <1>1, <1>2, ResultType

LEMMA VerdictTrue ==
  ASSUME NEW a \in Actions, NEW h
  PROVE  /\ Verdict(a, h) \in Statuses \ {"none", "crashed", "applied"}
         /\ Verdict(a, h) = "already_applied" => Present(a) /\ selected = Target(a)
         /\ Verdict(a, h) = "written_not_current" => Present(a) /\ h # NoReceipt
<1>1. CASE Mismatch(a) \/ h = NoReceipt \/ (h.recorded /\ ~Present(a))
  BY <1>1 DEF Verdict, Statuses
<1>2. CASE ~(Mismatch(a) \/ h = NoReceipt \/ (h.recorded /\ ~Present(a)))
  <2>1. CASE BasisRead(a) \in {"unknown", "stale"}
    BY <1>2, <2>1 DEF Verdict, Statuses
  <2>2. CASE BasisRead(a) \notin {"unknown", "stale"} /\ ~Present(a)
    BY <1>2, <2>2 DEF Verdict, Statuses
  <2>3. CASE BasisRead(a) \notin {"unknown", "stale"} /\ Present(a)
    <3>1. Pointer(a) = "target" => selected = Target(a)
      BY DEF Pointer
    <3>. QED BY <1>2, <2>3, <3>1 DEF Verdict, Statuses
  <2>. QED BY <2>1, <2>2, <2>3
<1>. QED BY <1>1, <1>2

LEMMA CheckpointType ==
  ASSUME TypeOK, NEW p \in Procs, NEW observed \in BOOLEAN, Accepts(p)
  PROVE  /\ Checkpoint(p, observed) \in Receipts
         /\ req[p] \in Requests /\ req[p].action \in Actions
         /\ Checkpoint(p, observed).generation = receipt[req[p].action].generation + 1
         /\ Checkpoint(p, observed).stage = stage[p]
         /\ Checkpoint(p, observed).recorded = (held[p].recorded \/ observed)
<1>1. held[p] \in Receipts /\ stage[p] \in Stages /\ req[p] \in Requests
  BY DEF TypeOK
<1>2. held[p].generation \in 0 .. MaxCheckpoints /\ held[p].recorded \in BOOLEAN
  BY <1>1 DEF Receipts
<1>3. held[p].generation + 1 \in 0 .. MaxCheckpoints
  BY <1>2, KernelAssumption DEF Accepts
<1>4. req[p].action \in Actions
  BY <1>1 DEF Requests
<1>5. (held[p].recorded \/ observed) \in BOOLEAN
  BY <1>2
<1>. QED BY <1>1, <1>3, <1>4, <1>5 DEF Checkpoint, Receipts, Accepts

-----------------------------------------------------------------------------
(* Types *)

LEMMA BoundsType ==
  ASSUME TypeOK,
         \/ UNCHANGED bounds
         \/ Fault
         \/ OtherStep
         \/ crashes < MaxCrashes /\ crashes' = crashes + 1 /\ UNCHANGED <<others, faults>>
  PROVE  /\ others' \in 0 .. MaxOthers /\ crashes' \in 0 .. MaxCrashes
         /\ faults' \in 0 .. MaxFaults
BY KernelAssumption DEF TypeOK, bounds, Fault, OtherStep

\* What a step of a call writes, whatever it is: the types of the variables of calls.
CallTypes ==
  /\ pc' \in [Procs -> Steps] /\ stage' \in [Procs -> Stages] /\ held' \in [Procs -> Receipts]
  /\ found' \in [Procs -> BOOLEAN] /\ viewed' \in [Procs -> 0 .. MaxRev]
  /\ outcome' \in [Procs -> Results]

LEMMA ReturnType ==
  ASSUME TypeOK, NEW p \in Procs, NEW s \in Statuses, NEW claim \in BOOLEAN, Return(p, s, claim)
  PROVE  CallTypes
<1>1. Result(s, claim) \in Results
  BY ResultType
<1>2. 0 \in 0 .. MaxRev
  BY KernelAssumption
<1>. QED BY <1>1, <1>2, NoReceiptType DEF TypeOK, CallTypes, Return, Keep, Steps, Stages

LEMMA MoveType ==
  ASSUME TypeOK, NEW p \in Procs, NEW s \in Stages, NEW step \in Steps, Move(p, s, step),
         UNCHANGED local
  PROVE  CallTypes
BY DEF TypeOK, CallTypes, Move, local

LEMMA KeepType ==
  ASSUME TypeOK, NEW p \in Procs, NEW s \in Stages, NEW step \in Steps, NEW result \in Results,
         Keep(p, s, step, result), UNCHANGED local
  PROVE  CallTypes
BY DEF TypeOK, CallTypes, Keep, local

LEMMA RefusalType ==
  ASSUME TypeOK, NEW p \in Procs, Refusal(p)
  PROVE  CallTypes
<1>1. stage[p] \in Stages
  BY DEF TypeOK
<1>2. Result("blocked_before_write", FALSE) \in Results
  BY ResultType DEF Statuses
<1>3. CASE \E s \in {"recovery_required", "conflict_requires_review"} : Return(p, s, FALSE)
  BY <1>3, ReturnType DEF Statuses
<1>4. CASE Keep(p, "selection_preview", "logfail", Result("blocked_before_write", FALSE)) /\ UNCHANGED local
  BY <1>2, <1>4, KeepType DEF Stages, Steps
<1>5. CASE Move(p, stage[p], "fail") /\ UNCHANGED local
  BY <1>1, <1>5, MoveType DEF Steps
<1>. QED BY <1>3, <1>4, <1>5 DEF Refusal

\* The types of the store, of the receipts and of the requests.
SharedTypes ==
  /\ revision' \in [Revs -> Contents \cup {Absent}] /\ selected' \in 0 .. MaxRev
  /\ basis' \in {"current", "stale", "unknown"}
  /\ receipt' \in [Actions -> Receipts]
  /\ req' \in [Procs -> Requests] /\ touched' \in [Procs -> BOOLEAN] /\ made' \subseteq Actions

LEMMA QuietType ==
  ASSUME TypeOK, Quiet PROVE SharedTypes
BY DEF TypeOK, Quiet, SharedTypes, canonical

LEMMA ReceiptTypes ==
  ASSUME TypeOK, NEW p \in Procs, UNCHANGED <<canonical, basis, req, touched, made>>,
         \/ UNCHANGED receipt
         \/ \E r \in Receipts : receipt' = [receipt EXCEPT ![req[p].action] = r]
  PROVE  SharedTypes
BY DEF TypeOK, SharedTypes, canonical

LEMMA SavedType ==
  ASSUME TypeOK, NEW p \in Procs, NEW observed \in BOOLEAN, Accepts(p), Save(p, observed)
  PROVE  \E r \in Receipts : receipt' = [receipt EXCEPT ![req[p].action] = r]
BY CheckpointType DEF Save

LEMMA StoreTypes ==
  ASSUME TypeOK, NEW p \in Procs, UNCHANGED <<basis, receipt, req>>,
         \/ UNCHANGED <<canonical, touched, made>>
         \/ /\ Store!Append(Target(req[p].action), Candidate(req[p].action))
            /\ touched' = [touched EXCEPT ![p] = TRUE] /\ UNCHANGED made
         \/ /\ \E expected : Store!Select(Target(req[p].action), expected)
            /\ touched' = [touched EXCEPT ![p] = TRUE]
            /\ made' = made \cup TargetedBy(Target(req[p].action))
  PROVE  SharedTypes
<1> DEFINE a == req[p].action
<1>1. a \in Actions
  BY DEF TypeOK, Requests
<1>2. Target(a) \in Revs /\ Candidate(a) \in Contents /\ Target(a) \in 0 .. MaxRev
  BY <1>1, TargetType, KernelAssumption DEF Revs, Store!Revs
<1>3. TargetedBy(Target(a)) \subseteq Actions
  BY DEF TargetedBy
<1>. QED BY <1>2, <1>3 DEF TypeOK, SharedTypes, canonical, Store!Append, Store!Select

LEMMA StepsInside ==
  ASSUME TypeOK, NEW p \in Procs
  PROVE  pc[p] \in Steps /\ stage[p] \in Stages /\ req[p] \in Requests
         /\ req[p].action \in Actions /\ outcome[p] \in Results /\ held[p] \in Receipts
BY DEF TypeOK, Requests

LEMMA CallStepTypes ==
  ASSUME IInv, NEW p \in Procs, Step(p)
  PROVE  CallTypes /\ SharedTypes
<1> USE DEF IInv
<1>1. CASE Call(p)
  <2>1. CallTypes
    BY <1>1, KeepType, ResultType DEF Call, local, Stages, Steps, Statuses
  <2>2. SharedTypes
    BY <1>1 DEF Call, TypeOK, SharedTypes, canonical, Requests
  <2>. QED BY <1>1, <2>1, <2>2 DEF Call
<1>2. CASE Revalidate(p)
  <2>1. CallTypes
    <3>1. CASE Refusal(p)
      BY <3>1, RefusalType
    <3>2. CASE ~Refusal(p)
      BY <1>2, <3>2, MoveType, StepsInside DEF Revalidate, Steps
    <3>. QED BY <3>1, <3>2
  <2>. QED BY <1>2, <2>1, QuietType DEF Revalidate
<1>3. CASE Observe(p)
  <2>1. CallTypes
    <3>1. CASE Refusal(p)
      BY <3>1, RefusalType
    <3>2. CASE /\ found' = [found EXCEPT ![p] = IF req[p].action \in Existing
                                               THEN Pointer(req[p].action) # "baseline"
                                               ELSE Present(req[p].action)]
               /\ Move(p, "preflight", "load") /\ UNCHANGED <<held, viewed>>
      <4>1. Present(req[p].action) \in BOOLEAN
        BY DEF Present
      <4>. QED BY <3>2, <4>1 DEF TypeOK, CallTypes, Move, Stages, Steps
    <3>3. CASE \E s \in Stages, step \in Steps : Move(p, s, step) /\ UNCHANGED local
      BY <3>3, MoveType
    <3>. QED BY <1>3, <3>1, <3>2, <3>3, StepsInside DEF Observe, Stages, Steps
  <2>. QED BY <1>3, <2>1, QuietType DEF Observe
<1>4. CASE Load(p)
  <2>1. CallTypes
    <3>1. CASE /\ held' = [held EXCEPT ![p] = receipt[req[p].action]]
               /\ Move(p, "preflight", "observe") /\ UNCHANGED <<found, viewed>>
      BY <3>1, StepsInside DEF TypeOK, CallTypes, Move, Stages, Steps
    <3>2. CASE \E step \in Steps : Move(p, "preflight", step) /\ UNCHANGED local
      BY <3>2, MoveType DEF Stages
    <3>3. CASE Return(p, "recovery_required", req[p].action \in Authored)
      <4>1. (req[p].action \in Authored) \in BOOLEAN
        OBVIOUS
      <4>2. "recovery_required" \in Statuses
        BY DEF Statuses
      <4>. QED BY <3>3, <4>1, <4>2, ReturnType
    <3>. QED BY <1>4, <3>1, <3>2, <3>3 DEF Load, Steps
  <2>. QED BY <1>4, <2>1, QuietType DEF Load
<1>5. CASE Prepare(p)
  <2> DEFINE r == IF receipt[req[p].action].generation = 0 THEN Prepared ELSE receipt[req[p].action]
  <2>1. r \in Receipts
    BY StepsInside, NoReceiptType DEF TypeOK
  <2>2. CallTypes
    BY <1>5, <2>1 DEF Prepare, TypeOK, CallTypes, Move, Stages, Steps
  <2>3. SharedTypes
    BY <1>5, <2>1, ReceiptTypes DEF Prepare
  <2>. QED BY <1>5, <2>2, <2>3 DEF Prepare
<1>6. CASE Journal(p)
  <2>1. NextStage[stage[p]] \in Stages /\ FirstStep[NextStage[stage[p]]] \in Steps
    <3>1. stage[p] \in DOMAIN NextStage
      BY <1>6 DEF Journal, NextStage, IInv, CallInv, StageInv, StepsOf, TypeOK, Stages
    <3>. QED BY <3>1 DEF NextStage, FirstStep, Stages, Steps
  <2>2. CallTypes /\ SharedTypes
    <3>1. CASE Earlier(p) /\ UNCHANGED <<receipt, held>>
      BY <1>6, <2>1, <3>1, MoveType, ReceiptTypes DEF Journal, local
    <3>2. CASE /\ Accepts(p) /\ Save(p, stage[p] # "receipt_prepared")
               /\ held' = [held EXCEPT ![p] = Checkpoint(p, stage[p] # "receipt_prepared")]
      <4>1. SharedTypes
        BY <1>6, <3>2, SavedType, ReceiptTypes DEF Journal
      <4>2. CallTypes
        BY <1>6, <2>1, <3>2, CheckpointType DEF Journal, TypeOK, CallTypes, Move
      <4>. QED BY <4>1, <4>2
    <3>. QED BY <1>6, <3>1, <3>2 DEF Journal
  <2>. QED BY <1>6, <2>2 DEF Journal
<1>7. CASE Finalize(p)
  <2>. QED BY <1>7, ReturnType, SavedType, ReceiptTypes DEF Finalize, Statuses
<1>8. CASE JournalRefuses(p)
  <2>1. CallTypes
    <3>1. CASE Return(p, "blocked_before_write", FALSE)
      BY <3>1, ReturnType DEF Statuses
    <3>2. CASE Move(p, stage[p], "audit") /\ UNCHANGED local
      BY <3>2, MoveType, StepsInside DEF Steps
    <3>. QED BY <1>8, <3>1, <3>2 DEF JournalRefuses, Unjournaled
  <2>. QED BY <1>8, <2>1, QuietType DEF JournalRefuses
<1>9. CASE Persist(p)
  <2>1. CallTypes
    BY <1>9, MoveType DEF Persist, Stages, Steps
  <2>. QED BY <1>9, <2>1, QuietType DEF Persist
<1>10. CASE Create(p)
  <2>1. CallTypes
    <3>1. \E step \in Steps : Move(p, "write", step) /\ UNCHANGED local
      BY <1>10 DEF Create, Steps
    <3>. QED BY <3>1, MoveType DEF Stages
  <2>2. SharedTypes
    BY <1>10, StoreTypes DEF Create
  <2>. QED BY <1>10, <2>1, <2>2 DEF Create
<1>11. CASE View(p)
  <2>1. CallTypes
    <3>1. PICK n \in Revs, step \in {"recheck", "fail"} :
            /\ viewed' = [viewed EXCEPT ![p] = n]
            /\ Move(p, "selection_commit", step) /\ UNCHANGED <<held, found>>
      BY <1>11 DEF View
    <3>2. n \in 0 .. MaxRev
      BY KernelAssumption DEF Revs, Store!Revs
    <3>. QED BY <3>1, <3>2 DEF TypeOK, CallTypes, Move, Stages, Steps
  <2>. QED BY <1>11, <2>1, QuietType DEF View
<1>12. CASE Recheck(p)
  <2>1. CallTypes
    BY <1>12, MoveType DEF Recheck, Stages, Steps
  <2>. QED BY <1>12, <2>1, QuietType DEF Recheck
<1>13. CASE Select(p)
  <2>1. CallTypes
    <3>1. \E step \in Steps : Move(p, "selection_commit", step) /\ UNCHANGED local
      BY <1>13 DEF Select, Steps
    <3>. QED BY <3>1, MoveType DEF Stages
  <2>2. SharedTypes
    BY <1>13, StoreTypes DEF Select
  <2>. QED BY <1>13, <2>1, <2>2 DEF Select
<1>14. CASE Fail(p)
  <2>1. CallTypes
    BY <1>14, KeepType, FailureTrue, StepsInside DEF Fail, Steps
  <2>. QED BY <1>14, <2>1, QuietType DEF Fail
<1>15. CASE LogFailure(p)
  <2>1. outcome[p].status \in Statuses /\ outcome[p].persisted \in BOOLEAN
    BY StepsInside DEF Results
  <2>2. CallTypes
    BY <1>15, <2>1, ReturnType DEF LogFailure, Report
  <2>3. SharedTypes
    BY <1>15, <2>1, SavedType, ReceiptTypes DEF LogFailure
  <2>. QED BY <1>15, <2>2, <2>3 DEF LogFailure
<1>16. CASE LogFailureRefused(p)
  <2>1. outcome[p].status \in Statuses /\ outcome[p].persisted \in BOOLEAN
    BY StepsInside DEF Results
  <2>2. CallTypes
    <3>1. CASE Report(p)
      BY <2>1, <3>1, ReturnType DEF Report
    <3>2. CASE Move(p, stage[p], "audit") /\ UNCHANGED local
      BY <3>2, MoveType, StepsInside DEF Steps
    <3>. QED BY <1>16, <3>1, <3>2 DEF LogFailureRefused, Unlogged
  <2>. QED BY <1>16, <2>2, QuietType DEF LogFailureRefused
<1>17. CASE Audit(p)
  <2>1. CallTypes
    <3>1. Present(req[p].action) \in BOOLEAN
      BY DEF Present
    <3>. QED BY <1>17, <3>1, ReturnType DEF Audit, Statuses
  <2>. QED BY <1>17, <2>1, QuietType DEF Audit
<1>18. CASE AssessLoad(p)
  <2>1. CallTypes
    BY <1>18, StepsInside DEF AssessLoad, TypeOK, CallTypes, Move, Stages, Steps
  <2>. QED BY <1>18, <2>1, QuietType DEF AssessLoad
<1>19. CASE Weigh(p)
  <2>1. CallTypes
    BY <1>19, MoveType DEF Weigh, Stages, Steps
  <2>. QED BY <1>19, <2>1, QuietType DEF Weigh
<1>20. CASE Assess(p)
  <2>1. CallTypes
    <3>1. Verdict(req[p].action, held[p]) \in Statuses
      BY VerdictTrue, StepsInside
    <3>. QED BY <1>20, <3>1, ReturnType DEF Assess, Present
  <2>. QED BY <1>20, <2>1, QuietType DEF Assess
<1>21. CASE ReadRaises(p)
  <2>1. CallTypes
    <3>1. CASE Refusal(p)
      BY <3>1, RefusalType
    <3>2. CASE Return(p, "blocked_before_write", FALSE)
      BY <3>2, ReturnType DEF Statuses
    <3>. QED BY <1>21, <3>1, <3>2 DEF ReadRaises
  <2>. QED BY <1>21, <2>1, QuietType DEF ReadRaises
<1>22. CASE LoadRaises(p)
  <2>1. CallTypes
    BY <1>22, ReturnType DEF LoadRaises, Statuses
  <2>. QED BY <1>22, <2>1, QuietType DEF LoadRaises
<1>23. CASE PrepareRaises(p)
  <2>1. CallTypes
    BY <1>23, ReturnType DEF PrepareRaises, Statuses
  <2>2. SharedTypes
    BY <1>23, NoReceiptType, ReceiptTypes DEF PrepareRaises
  <2>. QED BY <1>23, <2>1, <2>2 DEF PrepareRaises
<1>24. CASE JournalRaises(p)
  <2>1. CallTypes
    <3>1. CASE Return(p, "blocked_before_write", FALSE)
      BY <3>1, ReturnType DEF Statuses
    <3>2. CASE Move(p, stage[p], "audit") /\ UNCHANGED local
      BY <3>2, MoveType, StepsInside DEF Steps
    <3>. QED BY <1>24, <3>1, <3>2 DEF JournalRaises, Unjournaled
  <2>2. SharedTypes
    BY <1>24, SavedType, ReceiptTypes DEF JournalRaises
  <2>. QED BY <1>24, <2>1, <2>2 DEF JournalRaises
<1>25. CASE StoreRaises(p)
  <2>1. CallTypes
    BY <1>25, MoveType, StepsInside DEF StoreRaises, Steps
  <2>2. SharedTypes
    BY <1>25, StoreTypes DEF StoreRaises
  <2>. QED BY <1>25, <2>1, <2>2 DEF StoreRaises
<1>26. CASE FailRaises(p)
  <2>1. CallTypes
    BY <1>26, KeepType, ResultType, StepsInside DEF FailRaises, Steps, Statuses
  <2>. QED BY <1>26, <2>1, QuietType DEF FailRaises
<1>27. CASE LogFailureRaises(p)
  <2>1. outcome[p].status \in Statuses /\ outcome[p].persisted \in BOOLEAN
    BY StepsInside DEF Results
  <2>2. CallTypes
    <3>1. CASE Report(p)
      BY <2>1, <3>1, ReturnType DEF Report
    <3>2. CASE Move(p, stage[p], "audit") /\ UNCHANGED local
      BY <3>2, MoveType, StepsInside DEF Steps
    <3>. QED BY <1>27, <3>1, <3>2 DEF LogFailureRaises, Unlogged
  <2>3. SharedTypes
    BY <1>27, <2>1, SavedType, ReceiptTypes DEF LogFailureRaises
  <2>. QED BY <1>27, <2>2, <2>3 DEF LogFailureRaises
<1>28. CASE AuditRaises(p)
  <2>. QED BY <1>28, ReturnType, QuietType DEF AuditRaises, Statuses
<1>29. CASE AssessRaises(p)
  <2>1. CallTypes
    <3>1. CASE Move(p, "preflight", "assessload") /\ UNCHANGED local
      BY <3>1, MoveType DEF Stages, Steps
    <3>2. CASE \E claim \in BOOLEAN : Return(p, "recovery_required", claim)
      BY <3>2, ReturnType DEF Statuses
    <3>. QED BY <1>29, <3>1, <3>2 DEF AssessRaises, Present
  <2>. QED BY <1>29, <2>1, QuietType DEF AssessRaises
<1>30. CASE Crash(p)
  <2>. QED BY <1>30, ReturnType, QuietType DEF Crash, Statuses
<1>. QED BY <1>1, <1>2, <1>3, <1>4, <1>5, <1>6, <1>7, <1>8, <1>9, <1>10, <1>11, <1>12, <1>13, <1>14, <1>15, <1>16, <1>17, <1>18, <1>19, <1>20, <1>21, <1>22, <1>23, <1>24, <1>25, <1>26, <1>27, <1>28, <1>29, <1>30 DEF Step, Run, Raise

LEMMA StepBounds ==
  ASSUME IInv, NEW p \in Procs, Step(p)
  PROVE  /\ others' \in 0 .. MaxOthers /\ crashes' \in 0 .. MaxCrashes
         /\ faults' \in 0 .. MaxFaults
<1>1. CASE Call(p)
  BY <1>1, BoundsType DEF IInv, Call
<1>2. CASE Run(p)
  <2>1. UNCHANGED bounds
    BY <1>2 DEF Run, Revalidate, Observe, Load, Prepare, Journal, Finalize, JournalRefuses,
                Persist, Create, View, Recheck, Select, Fail, LogFailure, LogFailureRefused,
                Audit, AssessLoad, Weigh, Assess
  <2>. QED BY <2>1, BoundsType DEF IInv
<1>3. CASE Raise(p)
  <2>1. Fault
    BY <1>3 DEF Raise, ReadRaises, LoadRaises, PrepareRaises, JournalRaises, StoreRaises,
                FailRaises, LogFailureRaises, AuditRaises, AssessRaises
  <2>. QED BY <2>1, BoundsType DEF IInv
<1>4. CASE Crash(p)
  BY <1>4, BoundsType DEF IInv, Crash
<1>. QED BY <1>1, <1>2, <1>3, <1>4 DEF Step

LEMMA WorldTypes ==
  ASSUME TypeOK, World
  PROVE  TypeOK'
<1>1. /\ others' \in 0 .. MaxOthers /\ crashes' \in 0 .. MaxCrashes
      /\ faults' \in 0 .. MaxFaults
  BY BoundsType DEF World, OtherWrites, OtherSelects, BasisChanges
<1>2. UNCHANGED <<pc, stage, req, local, outcome, touched, receipt>>
  BY DEF World, OtherWrites, OtherSelects, BasisChanges
<1>3. /\ revision' \in [Revs -> Contents \cup {Absent}] /\ selected' \in 0 .. MaxRev
      /\ basis' \in {"current", "stale", "unknown"} /\ made' \subseteq Actions
  <2>1. CASE OtherWrites
    <3>1. Other \in Contents
      BY DEF Contents
    <3>. QED BY <2>1, <3>1 DEF OtherWrites, Store!Append, TypeOK
  <2>2. CASE OtherSelects
    <3>1. Revs \subseteq 0 .. MaxRev
      BY KernelAssumption DEF Revs, Store!Revs
    <3>2. PICK r \in Revs : Store!Select(r, selected) /\ made' = made \cup TargetedBy(r)
      BY <2>2 DEF OtherSelects
    <3>3. TargetedBy(r) \subseteq Actions
      BY DEF TargetedBy
    <3>. QED BY <2>2, <3>1, <3>2, <3>3 DEF OtherSelects, Store!Select, TypeOK
  <2>3. CASE BasisChanges
    BY <2>3 DEF BasisChanges, canonical, TypeOK
  <2>. QED BY <2>1, <2>2, <2>3 DEF World
<1>. QED BY <1>1, <1>2, <1>3 DEF TypeOK, local

LEMMA TypeStep ==
  ASSUME IInv, NEW p \in Procs, Step(p) PROVE TypeOK'
BY CallStepTypes, StepBounds DEF TypeOK, CallTypes, SharedTypes

-----------------------------------------------------------------------------
(* What every step leaves alone *)

\* A call is where it was, with the same request, receipt and result.
Same(q) ==
  /\ pc'[q] = pc[q] /\ stage'[q] = stage[q] /\ req'[q] = req[q] /\ held'[q] = held[q]
  /\ found'[q] = found[q] /\ outcome'[q] = outcome[q] /\ touched'[q] = touched[q]

LEMMA WorldSame ==
  ASSUME World, NEW q \in Procs PROVE Same(q)
BY DEF World, OtherWrites, OtherSelects, BasisChanges, Same, local

LEMMA MoveSame ==
  ASSUME TypeOK, NEW p \in Procs, UNCHANGED <<req, touched>>,
         \/ Refusal(p) \/ Unjournaled(p)
         \/ \E s, step : Move(p, s, step) /\ UNCHANGED local,
         NEW q \in Procs, q # p
  PROVE  Same(q)
<1> USE DEF TypeOK, Same, local
<1>1. CASE \E s, claim : Return(p, s, claim)
  BY <1>1 DEF Return, Keep
<1>2. CASE \E s, step : Move(p, s, step) /\ UNCHANGED local
  BY <1>2 DEF Move
<1>3. CASE \E s, step, result : Keep(p, s, step, result) /\ UNCHANGED local
  BY <1>3 DEF Keep
<1>4. CASE Refusal(p)
  BY <1>1, <1>2, <1>3, <1>4 DEF Refusal
<1>5. CASE Unjournaled(p)
  BY <1>1, <1>2, <1>5 DEF Unjournaled
<1>. QED BY <1>2, <1>4, <1>5

LEMMA StepSame ==
  ASSUME IInv, NEW p \in Procs, Step(p), NEW q \in Procs, q # p PROVE Same(q)
<1> USE DEF IInv, TypeOK, Same, local, Quiet, Return, Move, Keep, Report
<1>1. CASE Call(p)
  BY <1>1 DEF Call
<1>2. CASE Revalidate(p)
  <2>1. Refusal(p) \/ \E s, step : Move(p, s, step) /\ UNCHANGED local
    BY <1>2 DEF Revalidate
  <2>2. UNCHANGED <<req, touched>>
    BY <1>2 DEF Revalidate
  <2>. QED BY <2>1, <2>2, MoveSame
<1>3. CASE Observe(p)
  BY <1>3 DEF Observe, Refusal
<1>4. CASE Load(p)
  BY <1>4 DEF Load
<1>5. CASE Prepare(p)
  BY <1>5 DEF Prepare
<1>6. CASE Journal(p)
  BY <1>6 DEF Journal
<1>7. CASE Finalize(p)
  BY <1>7 DEF Finalize
<1>8. CASE JournalRefuses(p)
  <2>1. Unjournaled(p) /\ UNCHANGED <<req, touched>>
    BY <1>8 DEF JournalRefuses
  <2>. QED BY <2>1, MoveSame
<1>9. CASE Persist(p)
  BY <1>9 DEF Persist
<1>10. CASE Create(p)
  BY <1>10 DEF Create
<1>11. CASE View(p)
  BY <1>11 DEF View
<1>12. CASE Recheck(p)
  BY <1>12 DEF Recheck
<1>13. CASE Select(p)
  BY <1>13 DEF Select
<1>14. CASE Fail(p)
  BY <1>14 DEF Fail
<1>15. CASE LogFailure(p)
  BY <1>15 DEF LogFailure
<1>16. CASE LogFailureRefused(p)
  BY <1>16 DEF LogFailureRefused, Unlogged
<1>17. CASE Audit(p)
  BY <1>17 DEF Audit
<1>18. CASE AssessLoad(p)
  BY <1>18 DEF AssessLoad
<1>19. CASE Weigh(p)
  BY <1>19 DEF Weigh
<1>20. CASE Assess(p)
  BY <1>20 DEF Assess
<1>21. CASE ReadRaises(p)
  <2>1. UNCHANGED <<req, touched>>
    BY <1>21 DEF ReadRaises
  <2>2. CASE Refusal(p)
    BY <2>1, <2>2, MoveSame
  <2>3. CASE Return(p, "blocked_before_write", FALSE)
    BY <2>1, <2>3
  <2>. QED BY <1>21, <2>2, <2>3 DEF ReadRaises
<1>22. CASE LoadRaises(p)
  BY <1>22 DEF LoadRaises
<1>23. CASE PrepareRaises(p)
  BY <1>23 DEF PrepareRaises
<1>24. CASE JournalRaises(p)
  <2>1. Unjournaled(p) /\ UNCHANGED <<req, touched>>
    BY <1>24 DEF JournalRaises
  <2>. QED BY <2>1, MoveSame
<1>25. CASE StoreRaises(p)
  BY <1>25 DEF StoreRaises
<1>26. CASE FailRaises(p)
  BY <1>26 DEF FailRaises
<1>27. CASE LogFailureRaises(p)
  BY <1>27 DEF LogFailureRaises, Unlogged
<1>28. CASE AuditRaises(p)
  BY <1>28 DEF AuditRaises
<1>29. CASE AssessRaises(p)
  BY <1>29 DEF AssessRaises
<1>30. CASE Crash(p)
  BY <1>30 DEF Crash
<1>. QED BY <1>1, <1>2, <1>3, <1>4, <1>5, <1>6, <1>7, <1>8, <1>9, <1>10, <1>11, <1>12, <1>13, <1>14, <1>15, <1>16, <1>17, <1>18, <1>19, <1>20, <1>21, <1>22, <1>23, <1>24, <1>25, <1>26, <1>27, <1>28, <1>29, <1>30 DEF Step, Run, Raise

\* A receipt stays as it is or gains a checkpoint: its generation grows, its stage
\* never goes back, and what it recorded stays recorded.
ReceiptGrows(a) ==
  \/ receipt'[a] = receipt[a]
  \/ /\ receipt'[a].generation > receipt[a].generation
     /\ Rank[receipt'[a].stage] >= Rank[receipt[a].stage]
     /\ receipt[a].recorded => receipt'[a].recorded

\* Revisions, receipts and the record of what was current only grow.
Grows ==
  /\ \A a \in Actions : Present(a) => Present(a)'
  /\ made \subseteq made'
  /\ \A a \in Actions : ReceiptGrows(a)

LEMMA SameHeld ==
  ASSUME TypeOK, TypeOK', Grows, NEW q \in Procs, HeldInv(q),
         req'[q] = req[q], held'[q] = held[q]
  PROVE  HeldInv(q)'
<1> DEFINE a == req[q].action
<1>1. a \in Actions /\ ReceiptGrows(a)
  BY StepsInside DEF Grows
<1>2. /\ receipt[a] \in Receipts /\ receipt'[a] \in Receipts /\ held[q] \in Receipts
  BY <1>1 DEF TypeOK
<1>3. /\ receipt[a].generation \in Nat /\ receipt'[a].generation \in Nat
      /\ held[q].generation \in Nat
      /\ Rank[receipt[a].stage] \in Nat /\ Rank[receipt'[a].stage] \in Nat
      /\ Rank[held[q].stage] \in Nat
  BY <1>2, RankType DEF Receipts
<1>. QED BY <1>1, <1>3 DEF HeldInv, ReceiptGrows

LEMMA GrowsKeeps ==
  ASSUME TypeOK, TypeOK', Grows, NEW a \in Actions
  PROVE  /\ Present(a) => Present(a)'
         /\ a \in made => a \in made'
         /\ receipt[a].generation >= 1 => receipt'[a].generation >= 1
         /\ receipt[a].generation >= 2 => receipt'[a].generation >= 2
         /\ Rank[receipt[a].stage] >= 3 => Rank[receipt'[a].stage] >= 3
<1>1. receipt[a] \in Receipts /\ receipt'[a] \in Receipts
  BY DEF TypeOK
<1>2. /\ receipt[a].generation \in Nat /\ receipt'[a].generation \in Nat
      /\ Rank[receipt[a].stage] \in Nat /\ Rank[receipt'[a].stage] \in Nat
  BY <1>1, RankType DEF Receipts
<1>3. ReceiptGrows(a)
  BY DEF Grows
<1>4. /\ receipt[a].generation >= 1 => receipt'[a].generation >= 1
      /\ receipt[a].generation >= 2 => receipt'[a].generation >= 2
      /\ Rank[receipt[a].stage] >= 3 => Rank[receipt'[a].stage] >= 3
  BY <1>2, <1>3 DEF ReceiptGrows
<1>. QED BY <1>4 DEF Grows

LEMMA SameKept ==
  ASSUME TypeOK, TypeOK', Grows, NEW q \in Procs, CallInv(q), Same(q)
  PROVE  CallInv(q)'
<1> DEFINE a == req[q].action
<1>1. a \in Actions
  BY StepsInside
<1>2. HeldInv(q)'
  BY SameHeld DEF CallInv, Same
<1>3. StageInv(q)'
  BY <1>1, GrowsKeeps DEF CallInv, Same, StageInv
<1>4. TruthInv(q)'
  BY <1>1, GrowsKeeps DEF CallInv, Same, TruthInv
<1>. QED BY <1>2, <1>3, <1>4 DEF CallInv

-----------------------------------------------------------------------------
(* Revisions, receipts and the record of what was current only grow *)

LEMMA AppendGrows ==
  ASSUME TypeOK, NEW r \in Revs, NEW c \in Contents, Store!Append(r, c), NEW a \in Actions
  PROVE  /\ Present(a) => Present(a)'
         /\ Present(a)' => Present(a) \/ (r = Target(a) /\ c = Candidate(a))
<1>1. revision[r] = Absent
  BY KernelAssumption DEF Store!Append, Revs, Store!Revs
<1>2. Target(a) \in Revs /\ Candidate(a) # Absent
  BY TargetType, KernelAssumption
<1>3. revision' = [revision EXCEPT ![r] = c]
  BY DEF Store!Append
<1>. QED BY <1>1, <1>2, <1>3 DEF Present, TypeOK, Target, Candidate

LEMMA UnchangedGrows ==
  ASSUME UNCHANGED <<revision, receipt>>, made \subseteq made'
  PROVE  Grows
BY DEF Grows, ReceiptGrows, Present

LEMMA StoreGrows ==
  ASSUME TypeOK, made \subseteq made', UNCHANGED receipt,
         \/ UNCHANGED revision
         \/ \E r \in Revs, c \in Contents : Store!Append(r, c)
  PROVE  Grows
BY AppendGrows DEF Grows, ReceiptGrows, Present

\* A checkpoint of a stage that is not earlier than the receipt's last one.
LEMMA SavedGrows ==
  ASSUME IInv, NEW p \in Procs, NEW observed \in BOOLEAN, Accepts(p), ~Earlier(p),
         Save(p, observed), UNCHANGED <<revision, made>>
  PROVE  /\ Grows
         /\ receipt'[req[p].action] = Checkpoint(p, observed)
         /\ \A a \in Actions \ {req[p].action} : receipt'[a] = receipt[a]
<1> DEFINE b == req[p].action
<1>1. TypeOK /\ CallInv(p) /\ b \in Actions
  BY StepsInside DEF IInv
<1>2. /\ receipt'[b] = Checkpoint(p, observed)
      /\ \A a \in Actions \ {b} : receipt'[a] = receipt[a]
  BY <1>1 DEF Save, TypeOK
<1>3. held[p] = receipt[b]
  BY <1>1 DEF Accepts, CallInv, HeldInv
<1>4. receipt[b] \in Receipts /\ stage[p] \in Stages
  BY <1>1 DEF TypeOK
<1>5. /\ Rank[stage[p]] \in Nat /\ Rank[receipt[b].stage] \in Nat
      /\ receipt[b].generation \in Nat
  BY <1>4, RankType DEF Receipts
<1>6. Rank[stage[p]] >= Rank[receipt[b].stage]
  BY <1>3, <1>5 DEF Earlier
<1>7. ReceiptGrows(b)
  <2>1. /\ receipt'[b].generation = receipt[b].generation + 1
        /\ receipt'[b].stage = stage[p]
        /\ receipt'[b].recorded = (held[p].recorded \/ observed)
    BY <1>1, <1>2, CheckpointType
  <2>2. receipt'[b].generation > receipt[b].generation
    BY <1>5, <2>1
  <2>. QED BY <1>3, <1>6, <2>1, <2>2 DEF ReceiptGrows
<1>8. \A a \in Actions : Present(a)' = Present(a)
  BY DEF Present, Target, Candidate
<1>. QED BY <1>2, <1>7, <1>8 DEF Grows, ReceiptGrows

LEMMA PreparedGrows ==
  ASSUME IInv, NEW b \in Actions, receipt[b].generation = 0,
         receipt' = [receipt EXCEPT ![b] = Prepared], UNCHANGED <<revision, made>>
  PROVE  Grows
<1>1. receipt[b] = NoReceipt /\ receipt \in [Actions -> Receipts]
  BY DEF IInv, ReceiptInv, TypeOK
<1>2. ReceiptGrows(b)
  BY <1>1, RankValues DEF ReceiptGrows, Prepared, NoReceipt
<1>3. \A a \in Actions : Present(a)' = Present(a)
  BY DEF Present, Target, Candidate
<1>. QED BY <1>1, <1>2, <1>3 DEF Grows, ReceiptGrows

LEMMA WorldGrows ==
  ASSUME TypeOK, World PROVE Grows
<1>1. CASE OtherWrites
  BY <1>1, StoreGrows DEF OtherWrites, Contents
<1>2. CASE OtherSelects
  BY <1>2, UnchangedGrows DEF OtherSelects, Store!Select
<1>3. CASE BasisChanges
  BY <1>3, UnchangedGrows DEF BasisChanges, canonical
<1>. QED BY <1>1, <1>2, <1>3 DEF World

LEMMA StepGrows ==
  ASSUME IInv, NEW p \in Procs, Step(p) PROVE Grows
<1> DEFINE a == req[p].action
<1>1. TypeOK /\ a \in Actions /\ stage[p] \in Stages
  BY StepsInside DEF IInv
<1>2. Target(a) \in Revs /\ Candidate(a) \in Contents
  BY <1>1, TargetType
<1>3. outcome[p].persisted \in BOOLEAN
  BY <1>1 DEF TypeOK, Results
<1>4. CASE Quiet \/ Call(p)
  BY <1>4, UnchangedGrows DEF Quiet, Call, canonical
<1>5. CASE Prepare(p) \/ PrepareRaises(p)
  <2>1. \/ receipt' = receipt
        \/ receipt[a].generation = 0 /\ receipt' = [receipt EXCEPT ![a] = Prepared]
    BY <1>1, <1>5 DEF Prepare, PrepareRaises, TypeOK
  <2>2. UNCHANGED <<revision, made>>
    BY <1>5 DEF Prepare, PrepareRaises, canonical
  <2>. QED BY <1>1, <2>1, <2>2, PreparedGrows, UnchangedGrows
<1>6. CASE Journal(p) \/ Finalize(p) \/ JournalRaises(p) \/ LogFailure(p) \/ LogFailureRaises(p)
  <2>1. UNCHANGED <<revision, made>>
    BY <1>6 DEF Journal, Finalize, JournalRaises, LogFailure, LogFailureRaises, canonical
  <2>2. \/ receipt' = receipt
        \/ ~Earlier(p) /\ Accepts(p) /\ \E observed \in BOOLEAN : Save(p, observed)
    <3>1. CASE Finalize(p)
      <4>1. held[p].stage \in Stages
        BY <1>1 DEF TypeOK, Receipts
      <4>2. ~Earlier(p)
        BY <3>1, <4>1, RankValues, RankType DEF Finalize, Earlier
      <4>. QED BY <3>1, <4>2 DEF Finalize
    <3>2. CASE Journal(p) \/ JournalRaises(p)
      BY <3>2 DEF Journal, JournalRaises
    <3>3. CASE LogFailure(p) \/ LogFailureRaises(p)
      BY <1>3, <3>3 DEF LogFailure, LogFailureRaises
    <3>. QED BY <1>6, <3>1, <3>2, <3>3
  <2>. QED BY <2>1, <2>2, SavedGrows, UnchangedGrows
<1>7. CASE Create(p) \/ Select(p) \/ StoreRaises(p)
  <2>1. made \subseteq made' /\ UNCHANGED receipt
    BY <1>7 DEF Create, Select, StoreRaises
  <2>2. \/ UNCHANGED revision
        \/ Store!Append(Target(a), Candidate(a))
    BY <1>7 DEF Create, Select, StoreRaises, canonical, Store!Select
  <2>. QED BY <1>1, <1>2, <2>1, <2>2, StoreGrows
<1>8. Step(p) => \/ Quiet \/ Call(p) \/ Prepare(p) \/ PrepareRaises(p)
                 \/ Journal(p) \/ Finalize(p) \/ JournalRaises(p) \/ LogFailure(p)
                 \/ LogFailureRaises(p) \/ Create(p) \/ Select(p) \/ StoreRaises(p)
  BY DEF Step, Run, Raise, Revalidate, Observe, Load, JournalRefuses, Persist, View, Recheck,
         Fail, LogFailureRefused, Audit, AssessLoad, Weigh, Assess, ReadRaises, LoadRaises,
         FailRaises, AuditRaises, AssessRaises, Crash
<1>. QED BY <1>4, <1>5, <1>6, <1>7, <1>8

-----------------------------------------------------------------------------
(* The history and the receipts *)

LEMMA StageOf ==
  ASSUME IInv, NEW p \in Procs
  PROVE  /\ pc[p] \in {"idle", "load", "prepare", "weighload", "weigh", "assessload", "assess"}
              => stage[p] = "preflight"
         /\ pc[p] \in {"persist", "create"} => stage[p] = "write"
         /\ pc[p] \in {"view", "recheck", "select"} => stage[p] = "selection_commit"
         /\ pc[p] \in {"journal", "fail", "logfail", "audit"} => stage[p] # "preflight"
         /\ pc[p] \in {"fail", "logfail"} => stage[p] \notin {"receipt_prepared", "receipt_finalized"}
         /\ pc[p] \in {"revalidate", "observe"} =>
              stage[p] \in {"preflight", "write", "selection_preview", "verification"}
<1>1. stage[p] \in Stages /\ pc[p] \in StepsOf[stage[p]]
  BY DEF IInv, TypeOK, CallInv, StageInv
<1>. QED BY <1>1 DEF StepsOf, Stages

LEMMA HistoryKept ==
  ASSUME TypeOK, HistoryInv, made \subseteq made',
         \/ UNCHANGED canonical
         \/ \E r \in Revs, c \in Contents : Store!Append(r, c)
         \/ \E r \in Revs : \E expected : Store!Select(r, expected) /\ TargetedBy(r) \subseteq made'
  PROVE  HistoryInv'
<1>1. CASE UNCHANGED canonical
  BY <1>1 DEF HistoryInv, TargetedBy, Present, Target, Candidate, canonical
<1>2. CASE \E r \in Revs, c \in Contents : Store!Append(r, c)
  <2>1. PICK r \in Revs, c \in Contents : Store!Append(r, c)
    BY <1>2
  <2>2. revision[r] = Absent /\ revision' = [revision EXCEPT ![r] = c] /\ selected' = selected
    BY <2>1, KernelAssumption DEF Store!Append, Revs, Store!Revs
  <2>3. \A q \in Revs : q <= Given => revision'[q] = Other
    BY <2>2, KernelAssumption DEF HistoryInv, TypeOK, Contents
  <2>4. selected' # 0 => revision'[selected'] # Absent
    BY <2>2, KernelAssumption DEF HistoryInv, TypeOK
  <2>5. ASSUME NEW a \in Actions, Target(a) = selected, Present(a)'
        PROVE  a \in made
    <3>1. revision[selected] # Absent
      BY <2>5, TargetType, KernelAssumption DEF HistoryInv, Revs, Store!Revs
    <3>2. Present(a)
      BY <2>1, <2>2, <2>5, <3>1, AppendGrows
    <3>. QED BY <2>5, <3>2 DEF HistoryInv, TargetedBy
  <2>6. TargetedBy(selected)' \subseteq made'
    <3>1. \A a \in Actions : Target(a)' = Target(a)
      BY DEF Target
    <3>. QED BY <2>2, <2>5, <3>1 DEF TargetedBy
  <2>. QED BY <2>3, <2>4, <2>6 DEF HistoryInv
<1>3. CASE \E r \in Revs : \E expected : Store!Select(r, expected) /\ TargetedBy(r) \subseteq made'
  <2>1. PICK r \in Revs : /\ revision[r] # Absent /\ selected' = r /\ revision' = revision
                          /\ TargetedBy(r) \subseteq made'
    BY <1>3 DEF Store!Select
  <2>2. TargetedBy(selected)' \subseteq made'
    BY <2>1 DEF TargetedBy, Present, Target, Candidate
  <2>. QED BY <2>1, <2>2 DEF HistoryInv
<1>. QED BY <1>1, <1>2, <1>3

LEMMA HistoryStep ==
  ASSUME IInv, World \/ \E p \in Procs : Step(p)
  PROVE  HistoryInv'
<1>1. TypeOK /\ HistoryInv
  BY DEF IInv
<1>2. CASE World
  <2>1. CASE OtherWrites
    BY <1>1, <2>1, HistoryKept DEF OtherWrites, Contents
  <2>2. CASE OtherSelects
    BY <1>1, <2>2, HistoryKept DEF OtherSelects
  <2>3. CASE BasisChanges
    BY <1>1, <2>3, HistoryKept DEF BasisChanges
  <2>. QED BY <1>2, <2>1, <2>2, <2>3 DEF World
<1>3. ASSUME NEW p \in Procs, Step(p) PROVE HistoryInv'
  <2> DEFINE a == req[p].action
  <2>1. Target(a) \in Revs /\ Candidate(a) \in Contents
    BY <1>1, StepsInside, TargetType
  <2>2. CASE UNCHANGED <<canonical, made>>
    BY <1>1, <2>2, HistoryKept
  <2>3. CASE Create(p) \/ Select(p) \/ StoreRaises(p)
    <3>1. made \subseteq made'
      BY <2>3 DEF Create, Select, StoreRaises
    <3>2. \/ UNCHANGED canonical
          \/ Store!Append(Target(a), Candidate(a))
          \/ Store!Select(Target(a), Baseline) /\ TargetedBy(Target(a)) \subseteq made'
      BY <2>3 DEF Create, Select, StoreRaises
    <3>. QED BY <1>1, <2>1, <3>1, <3>2, HistoryKept
  <2>4. Step(p) => \/ UNCHANGED <<canonical, made>> \/ Create(p) \/ Select(p) \/ StoreRaises(p)
    BY DEF Step, Run, Raise, Revalidate, Observe, Load, JournalRefuses, Persist, View, Recheck,
           Fail, LogFailureRefused, Audit, AssessLoad, Weigh, Assess, ReadRaises, LoadRaises,
           FailRaises, AuditRaises, AssessRaises, Crash, Quiet, Call, Prepare, PrepareRaises,
           Journal, Finalize, JournalRaises, LogFailure, LogFailureRaises
  <2>. QED BY <1>3, <2>2, <2>3, <2>4
<1>. QED BY <1>2, <1>3

LEMMA SavedReceipt ==
  ASSUME IInv, NEW p \in Procs, NEW observed \in BOOLEAN, Accepts(p), ~Earlier(p),
         Save(p, observed), UNCHANGED <<revision, made>>, pc[p] \in {"journal", "logfail"},
         observed => Present(req[p].action)
  PROVE  ReceiptInv'
<1> DEFINE b == req[p].action
<1>1. /\ TypeOK /\ ReceiptInv /\ HeldInv(p) /\ StageInv(p) /\ b \in Actions
      /\ stage[p] \in Stages /\ stage[p] # "preflight"
  BY StepsInside, StageOf DEF IInv, CallInv
<1>2. /\ receipt'[b] = Checkpoint(p, observed)
      /\ \A a \in Actions \ {b} : receipt'[a] = receipt[a]
  BY SavedGrows
<1>3. held[p] = receipt[b] /\ receipt[b].generation \in Nat
  BY <1>1 DEF Accepts, HeldInv, TypeOK, Receipts
<1>4. held[p].generation >= 1
  BY <1>1, RankOrder DEF StageInv
<1>5. /\ receipt'[b].generation = receipt[b].generation + 1
      /\ receipt'[b].stage = stage[p]
      /\ receipt'[b].recorded = (held[p].recorded \/ observed)
  BY <1>1, <1>2, CheckpointType
<1>6. receipt'[b].generation >= 2 /\ receipt'[b].generation # 0
  BY <1>3, <1>4, <1>5
<1>7. receipt'[b].recorded => Present(b)
  BY <1>1, <1>3, <1>5 DEF ReceiptInv
<1>8. receipt'[b].stage = "receipt_finalized" => b \in made
  BY <1>1, <1>5, RankOrder DEF StageInv
<1>9. \A a \in Actions : Present(a)' = Present(a)
  BY DEF Present, Target, Candidate
<1>. QED BY <1>1, <1>2, <1>6, <1>7, <1>8, <1>9 DEF ReceiptInv

\* Where the receipts stay, every new target has a claimed receipt.
LEMMA SameReceipts ==
  ASSUME ReceiptInv, Grows, UNCHANGED receipt,
         \A a \in Authored : Present(a)' /\ ~Present(a) => receipt[a].generation >= 2
  PROVE  ReceiptInv'
BY DEF ReceiptInv, Grows

LEMMA StoreReceipts ==
  ASSUME IInv, NEW p \in Procs, Create(p) \/ Select(p) \/ StoreRaises(p)
  PROVE  ReceiptInv'
<1> DEFINE b == req[p].action
<1>1. TypeOK /\ ReceiptInv /\ StageInv(p) /\ b \in Actions /\ Grows /\ UNCHANGED receipt
  BY StepsInside, StepGrows DEF IInv, CallInv, Create, Select, StoreRaises, Step, Run, Raise
<1>2. CASE UNCHANGED revision
  <2>1. \A a \in Actions : Present(a)' = Present(a)
    BY <1>2 DEF Present, Target, Candidate
  <2>. QED BY <1>1, <2>1, SameReceipts DEF Actions
<1>3. CASE pc[p] = "create" /\ Store!Append(Target(b), Candidate(b))
  <2>1. receipt[b].generation >= 2
    BY <1>1, <1>3, StageOf DEF StageInv
  <2>2. ASSUME NEW a \in Authored, Present(a)', ~Present(a) PROVE a = b
    <3>1. a \in Actions /\ Candidate(a) = a /\ a # Other
      BY TargetType, KernelAssumption DEF Actions
    <3>2. Candidate(b) = Candidate(a)
      BY <1>1, <1>3, <2>2, <3>1, AppendGrows, TargetType
    <3>. QED BY <1>1, <3>1, <3>2, TargetType DEF Actions
  <2>. QED BY <1>1, <2>1, <2>2, SameReceipts
<1>. QED BY <1>2, <1>3 DEF Create, Select, StoreRaises, canonical, Store!Select

LEMMA WorldReceipts ==
  ASSUME IInv, World PROVE ReceiptInv'
<1>1. TypeOK /\ ReceiptInv /\ Grows /\ UNCHANGED receipt
  BY WorldGrows DEF IInv, World, OtherWrites, OtherSelects, BasisChanges
<1>2. CASE UNCHANGED revision
  <2>1. \A a \in Actions : Present(a)' = Present(a)
    BY <1>2 DEF Present, Target, Candidate
  <2>. QED BY <1>1, <2>1, SameReceipts DEF Actions
<1>3. CASE OtherWrites
  <2>1. PICK r \in Revs : Store!Append(r, Other)
    BY <1>3 DEF OtherWrites
  <2>2. ASSUME NEW a \in Authored, Present(a)' PROVE Present(a)
    <3>1. a \in Actions /\ Candidate(a) # Other
      BY TargetType, KernelAssumption DEF Actions
    <3>. QED BY <1>1, <2>1, <2>2, <3>1, AppendGrows DEF Contents
  <2>. QED BY <1>1, <2>2, SameReceipts
<1>. QED BY <1>2, <1>3 DEF World, OtherSelects, BasisChanges, Store!Select, canonical

LEMMA JournalReceipts ==
  ASSUME IInv, NEW p \in Procs, NEW observed \in BOOLEAN, pc[p] = "journal",
         observed => stage[p] # "receipt_prepared"
  PROVE  observed => Present(req[p].action)
<1>1. stage[p] \in Stages /\ stage[p] # "preflight" /\ StageInv(p)
  BY StageOf DEF IInv, TypeOK, CallInv
<1>. QED BY <1>1, RankOrder DEF StageInv

LEMMA StepReceipts ==
  ASSUME IInv, NEW p \in Procs, Step(p) PROVE ReceiptInv'
<1> DEFINE a == req[p].action
<1>1. TypeOK /\ ReceiptInv /\ TruthInv(p) /\ a \in Actions
  BY StepsInside DEF IInv, CallInv
<1>2. CASE UNCHANGED <<revision, receipt, made>>
  <2>1. \A b \in Actions : Present(b)' = Present(b)
    BY <1>2 DEF Present, Target, Candidate
  <2>. QED BY <1>1, <1>2, <2>1 DEF ReceiptInv
<1>3. CASE Prepare(p) \/ PrepareRaises(p)
  <2>1. UNCHANGED <<revision, made>>
    BY <1>3 DEF Prepare, PrepareRaises, canonical
  <2>2. \/ receipt' = receipt
        \/ receipt[a].generation = 0 /\ receipt' = [receipt EXCEPT ![a] = Prepared]
    BY <1>1, <1>3 DEF Prepare, PrepareRaises, TypeOK
  <2>3. \A b \in Actions : Present(b)' = Present(b)
    BY <2>1 DEF Present, Target, Candidate
  <2>4. CASE receipt[a].generation = 0 /\ receipt' = [receipt EXCEPT ![a] = Prepared]
    <3>1. \A b \in Actions : receipt'[b] = IF b = a THEN Prepared ELSE receipt[b]
      BY <1>1, <2>4 DEF TypeOK
    <3>2. a \in Authored => ~Present(a)
      BY <1>1, <2>4 DEF ReceiptInv
    <3>. QED BY <1>1, <2>1, <2>3, <3>1, <3>2, RankValues DEF ReceiptInv, Prepared
  <2>. QED BY <1>2, <2>1, <2>2, <2>4
<1>4. CASE Journal(p) \/ Finalize(p) \/ JournalRaises(p)
  <2>1. UNCHANGED <<revision, made>> /\ pc[p] = "journal"
    BY <1>4 DEF Journal, Finalize, JournalRaises, canonical
  <2>2. \/ receipt' = receipt
        \/ /\ ~Earlier(p) /\ Accepts(p)
           /\ Save(p, stage[p] # "receipt_prepared")
    <3>1. CASE Finalize(p)
      <4>1. held[p].stage \in Stages
        BY <1>1 DEF TypeOK, Receipts
      <4>2. ~Earlier(p)
        BY <3>1, <4>1, RankValues, RankType DEF Finalize, Earlier
      <4>. QED BY <3>1, <4>2 DEF Finalize
    <3>2. CASE Journal(p) \/ JournalRaises(p)
      BY <3>2 DEF Journal, JournalRaises
    <3>. QED BY <1>4, <3>1, <3>2
  <2>3. stage[p] # "receipt_prepared" => Present(a)
    BY <2>1, JournalReceipts
  <2>. QED BY <1>2, <2>1, <2>2, <2>3, SavedReceipt
<1>5. CASE LogFailure(p) \/ LogFailureRaises(p)
  <2>1. UNCHANGED <<revision, made>> /\ pc[p] = "logfail"
    BY <1>5 DEF LogFailure, LogFailureRaises, canonical
  <2>2. \/ receipt' = receipt
        \/ ~Earlier(p) /\ Accepts(p) /\ Save(p, outcome[p].persisted)
    BY <1>5 DEF LogFailure, LogFailureRaises
  <2>3. outcome[p].persisted \in BOOLEAN /\ (outcome[p].persisted => Present(a))
    BY <1>1 DEF TypeOK, Results, TruthInv
  <2>. QED BY <1>2, <2>1, <2>2, <2>3, SavedReceipt
<1>6. CASE Create(p) \/ Select(p) \/ StoreRaises(p)
  BY <1>6, StoreReceipts
<1>7. Step(p) => \/ UNCHANGED <<revision, receipt, made>> \/ Prepare(p) \/ PrepareRaises(p)
                 \/ Journal(p) \/ Finalize(p) \/ JournalRaises(p) \/ LogFailure(p)
                 \/ LogFailureRaises(p) \/ Create(p) \/ Select(p) \/ StoreRaises(p)
  BY DEF Step, Run, Raise, Revalidate, Observe, Load, JournalRefuses, Persist, View, Recheck,
         Fail, LogFailureRefused, Audit, AssessLoad, Weigh, Assess, ReadRaises, LoadRaises,
         FailRaises, AuditRaises, AssessRaises, Crash, Quiet, Call, canonical
<1>. QED BY <1>2, <1>3, <1>4, <1>5, <1>6, <1>7

-----------------------------------------------------------------------------
(* Each step of a call keeps the invariant of that call *)

LEMMA Before ==
  ASSUME IInv, NEW p \in Procs, Step(p)
  PROVE  /\ TypeOK /\ TypeOK' /\ Grows /\ HistoryInv /\ ReceiptInv /\ ReceiptInv'
         /\ HeldInv(p) /\ StageInv(p) /\ TruthInv(p)
         /\ req[p] \in Requests /\ req[p].action \in Actions /\ stage[p] \in Stages
         /\ outcome[p] \in Results /\ held[p] \in Receipts
BY TypeStep, StepGrows, StepReceipts, StepsInside DEF IInv, CallInv

\* A call that returns keeps nothing, and its result has to be true.
LEMMA ReturnLocal ==
  ASSUME TypeOK, TypeOK', ReceiptInv', NEW p \in Procs, NEW s, NEW claim,
         Return(p, s, claim), req'[p] = req[p], touched'[p] = touched[p],
         s = "blocked_before_write" => ~touched[p],
         claim => Present(req[p].action)',
         s \in {"applied", "already_applied"} => req[p].action \in made'
  PROVE  CallInv(p)'
<1> DEFINE a == req[p].action
<1>1. /\ stage'[p] = "preflight" /\ pc'[p] = "idle" /\ held'[p] = NoReceipt
      /\ found'[p] = FALSE /\ outcome'[p] = Result(s, claim)
  BY DEF Return, Keep, TypeOK
<1>2. a \in Actions /\ receipt'[a] \in Receipts
  BY StepsInside DEF TypeOK
<1>3. receipt'[a].generation \in Nat /\ Rank[receipt'[a].stage] \in Nat
  BY <1>2, RankType DEF Receipts
<1>4. HeldInv(p)'
  BY <1>1, <1>2, <1>3, RankValues DEF HeldInv, ReceiptInv, NoReceipt
<1>5. StageInv(p)'
  BY <1>1, RankValues DEF StageInv, StepsOf
<1>6. TruthInv(p)'
  BY <1>1 DEF TruthInv, Result
<1>. QED BY <1>4, <1>5, <1>6 DEF CallInv

\* A call that moves on with what it held.
LEMMA MoveLocal ==
  ASSUME TypeOK, TypeOK', Grows, NEW p \in Procs, HeldInv(p), NEW s, NEW step,
         Move(p, s, step), UNCHANGED local, req'[p] = req[p]
  PROVE  /\ stage'[p] = s /\ pc'[p] = step /\ held'[p] = held[p]
         /\ found'[p] = found[p] /\ outcome'[p] = outcome[p]
         /\ HeldInv(p)'
<1>1. held'[p] = held[p]
  BY DEF local
<1>. QED BY <1>1, SameHeld DEF Move, TypeOK, local

LEMMA KeepLocal ==
  ASSUME TypeOK, TypeOK', Grows, NEW p \in Procs, HeldInv(p), NEW s, NEW step, NEW result,
         Keep(p, s, step, result), UNCHANGED local, req'[p] = req[p]
  PROVE  /\ stage'[p] = s /\ pc'[p] = step /\ held'[p] = held[p]
         /\ found'[p] = found[p] /\ outcome'[p] = result
         /\ HeldInv(p)'
<1>1. held'[p] = held[p]
  BY DEF local
<1>. QED BY <1>1, SameHeld DEF Keep, TypeOK, local

LEMMA CallLocal ==
  ASSUME IInv, NEW p \in Procs, Call(p)
  PROVE  CallInv(p)'
<1> DEFINE a == req[p].action
<1>1. Step(p)
  BY DEF Step, Run, Raise
<1>2. /\ TypeOK /\ TypeOK' /\ Grows /\ HistoryInv /\ ReceiptInv /\ ReceiptInv'
      /\ HeldInv(p) /\ StageInv(p) /\ TruthInv(p)
      /\ req[p] \in Requests /\ a \in Actions /\ stage[p] \in Stages
  BY <1>1, Before
<1>3. /\ pc[p] = "idle" /\ pc'[p] = "revalidate" /\ stage'[p] = "preflight"
      /\ held'[p] = held[p] /\ found'[p] = found[p] /\ touched'[p] = FALSE
      /\ outcome'[p] = Result("none", FALSE)
  BY <1>2 DEF Call, Keep, TypeOK, local
<1>4. held[p] = NoReceipt /\ ~found[p]
  BY <1>2, <1>3 DEF StageInv
<1>5. req'[p].action \in Actions /\ receipt'[req'[p].action] \in Receipts
  BY <1>2 DEF TypeOK, Requests
<1>6. receipt'[req'[p].action].generation \in Nat /\ Rank[receipt'[req'[p].action].stage] \in Nat
  BY <1>5, RankType DEF Receipts
<1>7. HeldInv(p)'
  BY <1>2, <1>3, <1>4, <1>5, <1>6, RankValues DEF HeldInv, ReceiptInv, NoReceipt
<1>8. StageInv(p)'
  BY <1>3, <1>4, RankValues DEF StageInv, StepsOf
<1>9. TruthInv(p)'
  BY <1>3 DEF TruthInv, Result
<1>. QED BY <1>7, <1>8, <1>9 DEF CallInv

LEMMA RefusalLocal ==
  ASSUME IInv, NEW p \in Procs, Step(p), pc[p] \in {"revalidate", "observe"}, Refusal(p),
         UNCHANGED <<canonical, req, touched, made>>
  PROVE  CallInv(p)'
<1> DEFINE a == req[p].action
<1>2. /\ TypeOK /\ TypeOK' /\ Grows /\ HistoryInv /\ ReceiptInv /\ ReceiptInv'
      /\ HeldInv(p) /\ StageInv(p) /\ TruthInv(p)
      /\ req[p] \in Requests /\ a \in Actions /\ stage[p] \in Stages
  BY Before
<1>3. CASE \E s \in {"recovery_required", "conflict_requires_review"} : Return(p, s, FALSE)
  BY <1>2, <1>3, ReturnLocal
<1>4. CASE /\ stage[p] = "write" /\ a \in Existing
           /\ Keep(p, "selection_preview", "logfail", Result("blocked_before_write", FALSE))
           /\ UNCHANGED local
  <2>1. /\ stage'[p] = "selection_preview" /\ pc'[p] = "logfail" /\ held'[p] = held[p]
        /\ found'[p] = found[p] /\ outcome'[p] = Result("blocked_before_write", FALSE)
        /\ HeldInv(p)'
    BY <1>2, <1>4, KeepLocal
  <2>2. revision[Given] = Other /\ Target(a) = Given /\ Candidate(a) = Other
    BY <1>2, <1>4, TargetType, KernelAssumption DEF HistoryInv, Revs, Store!Revs
  <2>3. Present(a)'
    BY <1>2, <2>2 DEF Present, Grows
  <2>4. held[p].generation >= 1 /\ a \notin Authored /\ ~touched[p]
    BY <1>2, <1>4, RankValues, KernelAssumption DEF StageInv, TruthInv
  <2>5. StageInv(p)'
    BY <2>1, <2>3, <2>4, RankValues DEF StageInv, StepsOf
  <2>6. TruthInv(p)'
    BY <2>1, <2>4 DEF TruthInv, Result
  <2>. QED BY <2>1, <2>5, <2>6 DEF CallInv
<1>5. CASE /\ stage[p] \in {"selection_preview", "verification"}
           /\ Move(p, stage[p], "fail") /\ UNCHANGED local
  <2>1. /\ stage'[p] = stage[p] /\ pc'[p] = "fail" /\ held'[p] = held[p]
        /\ found'[p] = found[p] /\ outcome'[p] = outcome[p] /\ HeldInv(p)'
    BY <1>2, <1>5, MoveLocal
  <2>2. StageInv(p)'
    BY <1>2, <1>5, <2>1, GrowsKeeps DEF StageInv, StepsOf
  <2>3. TruthInv(p)'
    BY <1>2, <1>5, <2>1, RankValues DEF TruthInv, Result
  <2>. QED BY <2>1, <2>2, <2>3 DEF CallInv
<1>. QED BY <1>3, <1>4, <1>5 DEF Refusal

LEMMA RevalidateLocal ==
  ASSUME IInv, NEW p \in Procs, Revalidate(p)
  PROVE  CallInv(p)'
<1> DEFINE a == req[p].action
<1>1. Step(p)
  BY DEF Step, Run, Raise
<1>2. /\ TypeOK /\ TypeOK' /\ Grows /\ HistoryInv /\ ReceiptInv /\ ReceiptInv'
      /\ HeldInv(p) /\ StageInv(p) /\ TruthInv(p)
      /\ req[p] \in Requests /\ a \in Actions /\ stage[p] \in Stages
  BY <1>1, Before
<1>3. UNCHANGED <<canonical, req, touched, made>> /\ pc[p] = "revalidate"
  BY DEF Revalidate, Quiet
<1>4. CASE Refusal(p)
  BY <1>1, <1>3, <1>4, RefusalLocal
<1>5. CASE \E step \in {"weighload", "observe"} :
             /\ Move(p, stage[p], step) /\ UNCHANGED local
             /\ step = "weighload" => stage[p] = "preflight"
             /\ stage[p] = "preflight" /\ req[p].call = "resume" => step = "weighload"
  <2>1. PICK step \in {"weighload", "observe"} :
          /\ stage'[p] = stage[p] /\ pc'[p] = step /\ held'[p] = held[p]
          /\ found'[p] = found[p] /\ outcome'[p] = outcome[p] /\ HeldInv(p)'
          /\ step = "weighload" => stage[p] = "preflight"
          /\ stage[p] = "preflight" /\ req[p].call = "resume" => step = "weighload"
    BY <1>2, <1>3, <1>5, MoveLocal
  <2>2. stage[p] \in {"preflight", "write", "selection_preview", "verification"}
    BY <1>3, StageOf
  <2>3. StageInv(p)'
    BY <1>2, <1>3, <2>1, <2>2, GrowsKeeps DEF StageInv, StepsOf
  <2>4. TruthInv(p)'
    BY <1>2, <1>3, <2>1, RankValues DEF TruthInv, Result
  <2>. QED BY <2>1, <2>3, <2>4 DEF CallInv
<1>. QED BY <1>4, <1>5 DEF Revalidate

LEMMA ObserveLocal ==
  ASSUME IInv, NEW p \in Procs, Observe(p)
  PROVE  CallInv(p)'
<1> DEFINE a == req[p].action
<1>1. Step(p)
  BY DEF Step, Run, Raise
<1>2. /\ TypeOK /\ TypeOK' /\ Grows /\ HistoryInv /\ ReceiptInv /\ ReceiptInv'
      /\ HeldInv(p) /\ StageInv(p) /\ TruthInv(p)
      /\ req[p] \in Requests /\ a \in Actions /\ stage[p] \in Stages
  BY <1>1, Before
<1>3. UNCHANGED <<canonical, req, touched, made>> /\ pc[p] = "observe" /\ touched'[p] = touched[p]
  BY DEF Observe, Quiet
<1>4. CASE Refusal(p)
  BY <1>1, <1>3, <1>4, RefusalLocal
<1>5. CASE /\ stage[p] = "preflight" /\ req[p].call = "apply"
           /\ found' = [found EXCEPT ![p] = IF a \in Existing THEN Pointer(a) # "baseline"
                                            ELSE Present(a)]
           /\ Move(p, "preflight", "load") /\ UNCHANGED <<held, viewed>>
  <2>1. /\ stage'[p] = "preflight" /\ pc'[p] = "load" /\ held'[p] = held[p]
        /\ found'[p] /\ a \notin Existing => Present(a)
        /\ outcome'[p] = outcome[p] /\ HeldInv(p)'
    BY <1>2, <1>3, <1>5, SameHeld DEF Move, TypeOK
  <2>2. req'[p] = req[p] /\ (Present(a) => Present(a)')
    BY <1>2, <1>3 DEF Grows
  <2>3. a \in Authored => a \notin Existing
    BY KernelAssumption
  <2>4. StageInv(p)'
    BY <1>5, <2>1, <2>2, <2>3, RankValues DEF StageInv, StepsOf
  <2>5. TruthInv(p)'
    BY <1>2, <1>3, <1>5, <2>1, RankValues DEF TruthInv, Result
  <2>. QED BY <2>1, <2>4, <2>5 DEF CallInv
<1>6. CASE /\ stage[p] = "preflight" /\ req[p].call = "resume" /\ Satisfied(p)
           /\ Move(p, "selection_preview", "revalidate") /\ UNCHANGED local
  <2>1. /\ stage'[p] = "selection_preview" /\ pc'[p] = "revalidate" /\ held'[p] = held[p]
        /\ found'[p] = found[p] /\ outcome'[p] = outcome[p] /\ HeldInv(p)'
    BY <1>2, <1>3, <1>6, MoveLocal
  <2>2. Present(a)' /\ held[p].generation >= 1
    BY <1>2, <1>3, <1>6 DEF Satisfied, StageInv, Grows
  <2>3. StageInv(p)'
    BY <1>2, <1>3, <2>1, <2>2, RankValues DEF StageInv, StepsOf
  <2>4. TruthInv(p)'
    BY <1>2, <1>3, <1>6, <2>1, RankValues DEF TruthInv, Result
  <2>. QED BY <2>1, <2>3, <2>4 DEF CallInv
<1>7. CASE /\ stage[p] = "write" /\ a \in Authored
           /\ Move(p, "write", "persist") /\ UNCHANGED local
  <2>1. /\ stage'[p] = "write" /\ pc'[p] = "persist" /\ held'[p] = held[p]
        /\ found'[p] = found[p] /\ outcome'[p] = outcome[p] /\ HeldInv(p)'
    BY <1>2, <1>3, <1>7, MoveLocal
  <2>2. StageInv(p)'
    BY <1>2, <1>3, <1>7, <2>1, GrowsKeeps, RankValues DEF StageInv, StepsOf
  <2>3. TruthInv(p)'
    BY <1>2, <1>3, <1>7, <2>1, RankValues DEF TruthInv, Result
  <2>. QED BY <2>1, <2>2, <2>3 DEF CallInv
<1>8. CASE /\ stage[p] = "write" /\ a \in Existing
           /\ Move(p, "selection_preview", "revalidate") /\ UNCHANGED local
  <2>1. /\ stage'[p] = "selection_preview" /\ pc'[p] = "revalidate" /\ held'[p] = held[p]
        /\ found'[p] = found[p] /\ outcome'[p] = outcome[p] /\ HeldInv(p)'
    BY <1>2, <1>3, <1>8, MoveLocal
  <2>2. revision[Given] = Other /\ Target(a) = Given /\ Candidate(a) = Other
    BY <1>2, <1>8, TargetType, KernelAssumption DEF HistoryInv, Revs, Store!Revs
  <2>a. held[p].generation >= 1
    BY <1>2, <1>8, RankValues DEF StageInv
  <2>b. Present(a)
    BY <2>2 DEF Present
  <2>3. Present(a)' /\ held[p].generation >= 1
    BY <1>2, <1>3, <2>a, <2>b DEF Grows
  <2>4. StageInv(p)'
    BY <1>2, <1>3, <2>1, <2>3, RankValues DEF StageInv, StepsOf
  <2>5. TruthInv(p)'
    BY <1>2, <1>3, <1>8, <2>1, RankValues DEF TruthInv, Result
  <2>. QED BY <2>1, <2>4, <2>5 DEF CallInv
<1>9. CASE /\ stage[p] \in {"selection_preview", "verification"}
           /\ Move(p, stage[p], "journal") /\ UNCHANGED local
  <2>1. /\ stage'[p] = stage[p] /\ pc'[p] = "journal" /\ held'[p] = held[p]
        /\ found'[p] = found[p] /\ outcome'[p] = outcome[p] /\ HeldInv(p)'
    BY <1>2, <1>3, <1>9, MoveLocal
  <2>2. StageInv(p)'
    BY <1>2, <1>3, <1>9, <2>1, GrowsKeeps DEF StageInv, StepsOf
  <2>3. TruthInv(p)'
    BY <1>2, <1>3, <1>9, <2>1, RankValues DEF TruthInv, Result
  <2>. QED BY <2>1, <2>2, <2>3 DEF CallInv
<1>. QED BY <1>4, <1>5, <1>6, <1>7, <1>8, <1>9 DEF Observe

LEMMA ReadRaisesLocal ==
  ASSUME IInv, NEW p \in Procs, ReadRaises(p)
  PROVE  CallInv(p)'
<1> DEFINE a == req[p].action
<1>1. Step(p)
  BY DEF Step, Run, Raise
<1>2. /\ TypeOK /\ TypeOK' /\ Grows /\ HistoryInv /\ ReceiptInv /\ ReceiptInv'
      /\ HeldInv(p) /\ StageInv(p) /\ TruthInv(p)
      /\ req[p] \in Requests /\ a \in Actions /\ stage[p] \in Stages
  BY <1>1, Before
<1>3. UNCHANGED <<canonical, req, touched, made>> /\ pc[p] \in {"revalidate", "observe"}
  BY DEF ReadRaises, Quiet
<1>4. CASE Refusal(p)
  BY <1>1, <1>3, <1>4, RefusalLocal
<1>5. CASE stage[p] = "preflight" /\ Return(p, "blocked_before_write", FALSE)
  <2>1. ~touched[p]
    BY <1>2, <1>3, <1>5, RankValues DEF TruthInv
  <2>. QED BY <1>2, <1>3, <1>5, <2>1, ReturnLocal
<1>. QED BY <1>4, <1>5 DEF ReadRaises

LEMMA LoadLocal ==
  ASSUME IInv, NEW p \in Procs, Load(p)
  PROVE  CallInv(p)'
<1> DEFINE a == req[p].action
<1>1. Step(p)
  BY DEF Step, Run, Raise
<1>2. /\ TypeOK /\ TypeOK' /\ Grows /\ HistoryInv /\ ReceiptInv /\ ReceiptInv'
      /\ HeldInv(p) /\ StageInv(p) /\ TruthInv(p)
      /\ req[p] \in Requests /\ a \in Actions /\ stage[p] \in Stages
  BY <1>1, Before
<1>3. UNCHANGED <<canonical, req, receipt, touched, made>> /\ pc[p] = "load"
  BY DEF Load, Quiet
<1>4. stage[p] = "preflight" /\ (Present(a) => Present(a)')
  BY <1>2, <1>3, StageOf DEF Grows
<1>5. CASE /\ req[p].call = "resume" /\ held' = [held EXCEPT ![p] = receipt[a]]
           /\ Move(p, "preflight", "observe") /\ UNCHANGED <<found, viewed>>
  <2>1. /\ stage'[p] = "preflight" /\ pc'[p] = "observe" /\ held'[p] = receipt[a]
        /\ found'[p] = found[p] /\ outcome'[p] = outcome[p]
    BY <1>2, <1>5 DEF Move, TypeOK
  <2>a. receipt[a] \in Receipts
    BY <1>2 DEF TypeOK
  <2>b. receipt[a].generation \in Nat /\ Rank[receipt[a].stage] \in Nat
    BY <2>a, RankType DEF Receipts
  <2>2. receipt[a].generation >= 1 /\ receipt[a].generation \in Nat /\ Rank[receipt[a].stage] \in Nat
    BY <1>2, <1>3, <1>4, <1>5, <2>b DEF StageInv
  <2>3. HeldInv(p)'
    BY <1>2, <1>3, <2>1, <2>2 DEF HeldInv, ReceiptInv
  <2>4. StageInv(p)'
    BY <1>2, <1>3, <1>4, <2>1, <2>2, RankValues DEF StageInv, StepsOf
  <2>5. TruthInv(p)'
    BY <1>2, <1>3, <1>4, <2>1, RankValues DEF TruthInv, Result
  <2>. QED BY <2>3, <2>4, <2>5 DEF CallInv
<1>6. CASE \E step \in {"assessload", "prepare"} : Move(p, "preflight", step) /\ UNCHANGED local
  <2>1. PICK step \in {"assessload", "prepare"} :
          /\ stage'[p] = "preflight" /\ pc'[p] = step /\ held'[p] = held[p]
          /\ found'[p] = found[p] /\ outcome'[p] = outcome[p] /\ HeldInv(p)'
    BY <1>2, <1>3, <1>6, MoveLocal
  <2>2. StageInv(p)'
    BY <1>2, <1>3, <1>4, <2>1, RankValues DEF StageInv, StepsOf
  <2>3. TruthInv(p)'
    BY <1>2, <1>3, <1>4, <2>1, RankValues DEF TruthInv, Result
  <2>. QED BY <2>1, <2>2, <2>3 DEF CallInv
<1>7. CASE found[p] /\ Return(p, "recovery_required", a \in Authored)
  <2>1. a \in Authored => Present(req[p].action)'
    BY <1>2, <1>3, <1>4, <1>7 DEF StageInv
  <2>2. CASE a \in Authored
    <3>1. (a \in Authored) = TRUE
      BY <2>2
    <3>2. Return(p, "recovery_required", TRUE)
      BY <1>7, <3>1, Zenon
    <3>. QED BY <1>2, <1>3, <2>1, <2>2, <3>2, ReturnLocal
  <2>3. CASE a \notin Authored
    <3>1. (a \in Authored) = FALSE
      BY <2>3
    <3>2. Return(p, "recovery_required", FALSE)
      BY <1>7, <3>1, Zenon
    <3>. QED BY <1>2, <1>3, <3>2, ReturnLocal
  <2>. QED BY <2>2, <2>3
<1>. QED BY <1>5, <1>6, <1>7 DEF Load

LEMMA LoadRaisesLocal ==
  ASSUME IInv, NEW p \in Procs, LoadRaises(p)
  PROVE  CallInv(p)'
<1> DEFINE a == req[p].action
<1>1. Step(p)
  BY DEF Step, Run, Raise
<1>2. /\ TypeOK /\ TypeOK' /\ Grows /\ HistoryInv /\ ReceiptInv /\ ReceiptInv'
      /\ HeldInv(p) /\ StageInv(p) /\ TruthInv(p)
      /\ req[p] \in Requests /\ a \in Actions /\ stage[p] \in Stages
  BY <1>1, Before
<1>3. UNCHANGED <<req, touched>> /\ (Present(a) => Present(a)')
  BY <1>2 DEF LoadRaises, Quiet, Grows
<1>. QED BY <1>2, <1>3, ReturnLocal DEF LoadRaises

LEMMA PrepareLocal ==
  ASSUME IInv, NEW p \in Procs, Prepare(p)
  PROVE  CallInv(p)'
<1> DEFINE a == req[p].action
<1>1. Step(p)
  BY DEF Step, Run, Raise
<1>2. /\ TypeOK /\ TypeOK' /\ Grows /\ HistoryInv /\ ReceiptInv /\ ReceiptInv'
      /\ HeldInv(p) /\ StageInv(p) /\ TruthInv(p)
      /\ req[p] \in Requests /\ a \in Actions /\ stage[p] \in Stages
  BY <1>1, Before
<1> DEFINE r == IF receipt[a].generation = 0 THEN Prepared ELSE receipt[a]
<1>3. /\ UNCHANGED <<canonical, req, touched, made>> /\ pc[p] = "prepare"
      /\ receipt'[a] = r /\ held'[p] = r /\ found'[p] = found[p] /\ outcome'[p] = outcome[p]
      /\ stage'[p] = "receipt_prepared" /\ pc'[p] = "journal"
  BY <1>2 DEF Prepare, Move, TypeOK
<1>4. stage[p] = "preflight" /\ (Present(a) => Present(a)')
  BY <1>2, <1>3, StageOf DEF Grows
<1>5. r \in Receipts
  BY <1>2, NoReceiptType DEF TypeOK
<1>6. r.generation \in Nat /\ Rank[r.stage] \in Nat
  BY <1>5, RankType DEF Receipts
<1>7. r.generation >= 1
  BY <1>6 DEF Prepared
<1>8. HeldInv(p)'
  BY <1>2, <1>3, <1>6, <1>7 DEF HeldInv, ReceiptInv
<1>9. StageInv(p)'
  BY <1>2, <1>3, <1>4, <1>7, RankValues DEF StageInv, StepsOf
<1>10. TruthInv(p)'
  BY <1>2, <1>3, <1>4, RankValues DEF TruthInv, Result
<1>. QED BY <1>8, <1>9, <1>10 DEF CallInv

LEMMA PrepareRaisesLocal ==
  ASSUME IInv, NEW p \in Procs, PrepareRaises(p)
  PROVE  CallInv(p)'
<1> DEFINE a == req[p].action
<1>1. Step(p)
  BY DEF Step, Run, Raise
<1>2. /\ TypeOK /\ TypeOK' /\ Grows /\ HistoryInv /\ ReceiptInv /\ ReceiptInv'
      /\ HeldInv(p) /\ StageInv(p) /\ TruthInv(p)
      /\ req[p] \in Requests /\ a \in Actions /\ stage[p] \in Stages
  BY <1>1, Before
<1>3. UNCHANGED <<req, touched>> /\ (Present(a) => Present(a)')
  BY <1>2 DEF PrepareRaises, Quiet, Grows
<1>4. ~touched[p]
  BY <1>2, StageOf, RankValues DEF PrepareRaises, TruthInv
<1>. QED BY <1>2, <1>3, <1>4, ReturnLocal DEF PrepareRaises

LEMMA JournalLocal ==
  ASSUME IInv, NEW p \in Procs, Journal(p)
  PROVE  CallInv(p)'
<1> DEFINE a == req[p].action
<1>1. Step(p)
  BY DEF Step, Run, Raise
<1>2. /\ TypeOK /\ TypeOK' /\ Grows /\ HistoryInv /\ ReceiptInv /\ ReceiptInv'
      /\ HeldInv(p) /\ StageInv(p) /\ TruthInv(p)
      /\ req[p] \in Requests /\ a \in Actions /\ stage[p] \in Stages
  BY <1>1, Before
<1> DEFINE n == NextStage[stage[p]]
<1>3. /\ UNCHANGED <<canonical, req, touched, made>> /\ pc[p] = "journal"
      /\ found'[p] = found[p] /\ outcome'[p] = outcome[p]
      /\ stage'[p] = n /\ pc'[p] = FirstStep[n]
  BY <1>2 DEF Journal, Move, TypeOK
<1>4. stage[p] \in {"receipt_prepared", "write", "selection_preview", "selection_commit", "verification"}
  BY <1>2, <1>3, StageOf DEF Journal, Stages
<1>5. \/ stage[p] = "receipt_prepared" /\ n = "write" /\ FirstStep[n] = "revalidate"
      \/ stage[p] = "write" /\ n = "selection_preview" /\ FirstStep[n] = "revalidate"
      \/ stage[p] = "selection_preview" /\ n = "selection_commit" /\ FirstStep[n] = "view"
      \/ stage[p] = "selection_commit" /\ n = "verification" /\ FirstStep[n] = "revalidate"
      \/ stage[p] = "verification" /\ n = "receipt_finalized" /\ FirstStep[n] = "journal"
  BY <1>4 DEF NextStage, FirstStep
<1>6. /\ held[p].generation >= 1 /\ held[p].generation \in Nat /\ receipt[a].generation \in Nat
      /\ receipt'[a].generation \in Nat /\ Rank[held[p].stage] \in Nat /\ Rank[stage[p]] \in Nat
      /\ Rank[receipt[a].stage] \in Nat
  <2>1. held[p] \in Receipts /\ receipt[a] \in Receipts /\ receipt'[a] \in Receipts
    BY <1>2 DEF TypeOK
  <2>2. held[p].generation >= 1
    BY <1>2, <1>4, RankOrder DEF StageInv
  <2>. QED BY <1>2, <2>1, <2>2, RankType DEF Receipts
\* Whether its checkpoint was saved or left out, the receipt is at this stage or a later one.
<1>7. /\ HeldInv(p)' /\ held'[p].generation >= 1
      /\ receipt'[a].generation >= 2
      /\ stage[p] = "selection_preview" => Rank[receipt'[a].stage] >= 3
  <2>1. CASE Earlier(p) /\ UNCHANGED <<receipt, held>>
    <3>1. HeldInv(p)'
      BY <1>2, <1>3, <2>1, SameHeld
    <3>2. Rank[held[p].stage] >= 2
      BY <1>4, <1>6, <2>1, RankValues DEF Earlier
    <3>3. receipt[a].generation >= 2
      BY <1>2, <1>6, <3>2 DEF HeldInv
    <3>4. stage[p] = "selection_preview" => Rank[receipt[a].stage] >= 3
      BY <1>2, <1>6, <2>1, RankValues DEF Earlier, HeldInv
    <3>. QED BY <1>6, <2>1, <3>1, <3>3, <3>4
  <2>2. CASE /\ ~Earlier(p) /\ Accepts(p) /\ Save(p, stage[p] # "receipt_prepared")
             /\ held' = [held EXCEPT ![p] = Checkpoint(p, stage[p] # "receipt_prepared")]
    <3>1. receipt'[a] = Checkpoint(p, stage[p] # "receipt_prepared") /\ held'[p] = receipt'[a]
      BY <1>2, <2>2 DEF Save, TypeOK
    <3>2. receipt'[a].generation = receipt[a].generation + 1 /\ receipt'[a].stage = stage[p]
      BY <1>2, <2>2, <3>1, CheckpointType
    <3>3. receipt'[a].generation >= 2
      BY <1>6, <2>2, <3>2 DEF Accepts
    <3>4. HeldInv(p)'
      BY <1>2, <1>3, <1>6, <3>1, <3>2, <3>3 DEF HeldInv
    <3>. QED BY <1>6, <3>1, <3>2, <3>3, <3>4, RankValues
  <2>. QED BY <1>4, <2>1, <2>2 DEF Journal
<1>8. Rank[stage[p]] >= 4 => Rank[receipt'[a].stage] >= 3
  BY <1>2, GrowsKeeps DEF StageInv
<1>9. StageInv(p)'
  <2>1. stage[p] # "receipt_prepared" => Present(a)
    BY <1>2, <1>3, <1>4, RankOrder DEF StageInv
  <2>2. Present(a) => Present(a)'
    BY <1>2, <1>3 DEF Grows
  <2>3. stage[p] \in {"selection_commit", "verification"} => a \in made
    BY <1>2, <1>3, RankOrder DEF StageInv
  <2>4. found[p] /\ a \in Authored => Present(a)
    BY <1>2 DEF StageInv
  <2>. QED BY <1>3, <1>5, <1>7, <1>8, <2>1, <2>2, <2>3, <2>4, RankValues DEF StageInv, StepsOf
<1>10. TruthInv(p)'
  <2>1. outcome[p] = Result("none", FALSE) /\ (stage[p] = "receipt_prepared" => ~touched[p])
    <3>1. outcome[p] = Result("none", FALSE)
      BY <1>2, <1>3 DEF TruthInv
    <3>2. stage[p] = "receipt_prepared" => ~touched[p]
      BY <1>2, <1>3, RankValues DEF TruthInv
    <3>. QED BY <3>1, <3>2
  <2>. QED BY <1>3, <1>5, <2>1, RankValues DEF TruthInv, Result
<1>. QED BY <1>7, <1>9, <1>10 DEF CallInv

LEMMA FinalizeLocal ==
  ASSUME IInv, NEW p \in Procs, Finalize(p)
  PROVE  CallInv(p)'
<1> DEFINE a == req[p].action
<1>1. Step(p)
  BY DEF Step, Run, Raise
<1>2. /\ TypeOK /\ TypeOK' /\ Grows /\ HistoryInv /\ ReceiptInv /\ ReceiptInv'
      /\ HeldInv(p) /\ StageInv(p) /\ TruthInv(p)
      /\ req[p] \in Requests /\ a \in Actions /\ stage[p] \in Stages
  BY <1>1, Before
<1>3. UNCHANGED <<req, touched>> /\ stage[p] = "receipt_finalized"
  BY DEF Finalize
<1>4. Present(a)' /\ a \in made'
  BY <1>2, <1>3, RankValues DEF StageInv, Grows
<1>. QED BY <1>2, <1>3, <1>4, ReturnLocal DEF Finalize

LEMMA ToAuditLocal ==
  ASSUME IInv, NEW p \in Procs, Step(p), UNCHANGED <<req, touched>>,
         pc[p] \in {"journal", "logfail"}, outcome[p].status # "blocked_before_write",
         Move(p, stage[p], "audit"), UNCHANGED local, stage[p] # "receipt_prepared"
  PROVE  CallInv(p)'
<1> DEFINE a == req[p].action
<1>2. /\ TypeOK /\ TypeOK' /\ Grows /\ HistoryInv /\ ReceiptInv /\ ReceiptInv'
      /\ HeldInv(p) /\ StageInv(p) /\ TruthInv(p)
      /\ req[p] \in Requests /\ a \in Actions /\ stage[p] \in Stages
  BY Before
<1>3. /\ stage'[p] = stage[p] /\ pc'[p] = "audit" /\ held'[p] = held[p]
      /\ found'[p] = found[p] /\ outcome'[p] = outcome[p] /\ HeldInv(p)'
  BY <1>2, MoveLocal
<1>4. stage[p] # "preflight"
  BY StageOf
<1>5. StageInv(p)'
  BY <1>2, <1>3, <1>4, GrowsKeeps DEF StageInv, StepsOf, Stages
<1>6. TruthInv(p)'
  BY <1>2, <1>3, <1>4, GrowsKeeps, RankOrder DEF TruthInv
<1>. QED BY <1>3, <1>5, <1>6 DEF CallInv

LEMMA JournalRefusesLocal ==
  ASSUME IInv, NEW p \in Procs, JournalRefuses(p)
  PROVE  CallInv(p)'
<1> DEFINE a == req[p].action
<1>1. Step(p)
  BY DEF Step, Run, Raise
<1>2. /\ TypeOK /\ TypeOK' /\ Grows /\ HistoryInv /\ ReceiptInv /\ ReceiptInv'
      /\ HeldInv(p) /\ StageInv(p) /\ TruthInv(p)
      /\ req[p] \in Requests /\ a \in Actions /\ stage[p] \in Stages
  BY <1>1, Before
<1>3. UNCHANGED <<req, touched>> /\ pc[p] = "journal"
  BY DEF JournalRefuses, Quiet
<1>4. CASE stage[p] = "receipt_prepared" /\ Return(p, "blocked_before_write", FALSE)
  <2>1. ~touched[p]
    BY <1>2, <1>3, <1>4, RankValues DEF TruthInv
  <2>. QED BY <1>2, <1>3, <1>4, <2>1, ReturnLocal
<1>5. CASE stage[p] # "receipt_prepared" /\ Move(p, stage[p], "audit") /\ UNCHANGED local
  <2>1. outcome[p].status # "blocked_before_write"
    BY <1>2, <1>3 DEF TruthInv, Result
  <2>. QED BY <1>1, <1>3, <1>5, <2>1, ToAuditLocal
<1>. QED BY <1>4, <1>5 DEF JournalRefuses, Unjournaled

LEMMA JournalRaisesLocal ==
  ASSUME IInv, NEW p \in Procs, JournalRaises(p)
  PROVE  CallInv(p)'
<1> DEFINE a == req[p].action
<1>1. Step(p)
  BY DEF Step, Run, Raise
<1>2. /\ TypeOK /\ TypeOK' /\ Grows /\ HistoryInv /\ ReceiptInv /\ ReceiptInv'
      /\ HeldInv(p) /\ StageInv(p) /\ TruthInv(p)
      /\ req[p] \in Requests /\ a \in Actions /\ stage[p] \in Stages
  BY <1>1, Before
<1>3. UNCHANGED <<req, touched>> /\ pc[p] = "journal"
  BY DEF JournalRaises, Quiet
<1>4. CASE stage[p] = "receipt_prepared" /\ Return(p, "blocked_before_write", FALSE)
  <2>1. ~touched[p]
    BY <1>2, <1>3, <1>4, RankValues DEF TruthInv
  <2>. QED BY <1>2, <1>3, <1>4, <2>1, ReturnLocal
<1>5. CASE stage[p] # "receipt_prepared" /\ Move(p, stage[p], "audit") /\ UNCHANGED local
  <2>1. outcome[p].status # "blocked_before_write"
    BY <1>2, <1>3 DEF TruthInv, Result
  <2>. QED BY <1>1, <1>3, <1>5, <2>1, ToAuditLocal
<1>. QED BY <1>4, <1>5 DEF JournalRaises, Unjournaled

LEMMA PersistLocal ==
  ASSUME IInv, NEW p \in Procs, Persist(p)
  PROVE  CallInv(p)'
<1> DEFINE a == req[p].action
<1>1. Step(p)
  BY DEF Step, Run, Raise
<1>2. /\ TypeOK /\ TypeOK' /\ Grows /\ HistoryInv /\ ReceiptInv /\ ReceiptInv'
      /\ HeldInv(p) /\ StageInv(p) /\ TruthInv(p)
      /\ req[p] \in Requests /\ a \in Actions /\ stage[p] \in Stages
  BY <1>1, Before
<1>3. UNCHANGED <<req, touched>> /\ pc[p] = "persist"
  BY DEF Persist, Quiet
<1>4. stage[p] = "write"
  BY <1>3, StageOf
<1>5. PICK step \in {"create", "fail"} :
        /\ stage'[p] = "write" /\ pc'[p] = step /\ held'[p] = held[p]
        /\ found'[p] = found[p] /\ outcome'[p] = outcome[p] /\ HeldInv(p)'
  BY <1>2, <1>3, MoveLocal DEF Persist
<1>6. StageInv(p)'
  BY <1>2, <1>3, <1>4, <1>5, GrowsKeeps, RankValues DEF StageInv, StepsOf
<1>7. TruthInv(p)'
  BY <1>2, <1>3, <1>4, <1>5, RankValues DEF TruthInv, Result
<1>. QED BY <1>5, <1>6, <1>7 DEF CallInv

LEMMA CreateLocal ==
  ASSUME IInv, NEW p \in Procs, Create(p)
  PROVE  CallInv(p)'
<1> DEFINE a == req[p].action
<1>1. Step(p)
  BY DEF Step, Run, Raise
<1>2. /\ TypeOK /\ TypeOK' /\ Grows /\ HistoryInv /\ ReceiptInv /\ ReceiptInv'
      /\ HeldInv(p) /\ StageInv(p) /\ TruthInv(p)
      /\ req[p] \in Requests /\ a \in Actions /\ stage[p] \in Stages
  BY <1>1, Before
<1>3. UNCHANGED req /\ pc[p] = "create"
  BY DEF Create
<1>4. stage[p] = "write" /\ Target(a) \in Revs
  BY <1>2, <1>3, StageOf, TargetType
<1>5. PICK step \in {"journal", "fail"} :
        /\ Move(p, "write", step) /\ UNCHANGED local
        /\ step = "journal" => \/ Present(a)
                               \/ Store!Append(Target(a), Candidate(a))
  BY DEF Create
<1>6. /\ stage'[p] = "write" /\ pc'[p] = step /\ held'[p] = held[p]
      /\ found'[p] = found[p] /\ outcome'[p] = outcome[p] /\ HeldInv(p)'
  BY <1>2, <1>3, <1>5, MoveLocal
<1>7. step = "journal" => Present(req[p].action)'
  <2>1. Present(a) => Present(req[p].action)'
    BY <1>2, <1>3 DEF Grows
  <2>2. Store!Append(Target(a), Candidate(a)) => Present(req[p].action)'
    BY <1>2, <1>3, <1>4 DEF Store!Append, TypeOK, Present, Target, Candidate
  <2>. QED BY <1>5, <2>1, <2>2
<1>8. StageInv(p)'
  BY <1>2, <1>3, <1>4, <1>6, <1>7, GrowsKeeps, RankValues DEF StageInv, StepsOf
<1>9. TruthInv(p)'
  <2>1. outcome[p] = Result("none", FALSE)
    BY <1>2, <1>3 DEF TruthInv
  <2>. QED BY <1>6, <2>1, RankValues DEF TruthInv, Result
<1>. QED BY <1>6, <1>8, <1>9 DEF CallInv

LEMMA ViewLocal ==
  ASSUME IInv, NEW p \in Procs, View(p)
  PROVE  CallInv(p)'
<1> DEFINE a == req[p].action
<1>1. Step(p)
  BY DEF Step, Run, Raise
<1>2. /\ TypeOK /\ TypeOK' /\ Grows /\ HistoryInv /\ ReceiptInv /\ ReceiptInv'
      /\ HeldInv(p) /\ StageInv(p) /\ TruthInv(p)
      /\ req[p] \in Requests /\ a \in Actions /\ stage[p] \in Stages
  BY <1>1, Before
<1>3. UNCHANGED <<req, touched, held, found>> /\ pc[p] = "view"
  BY DEF View, Quiet
<1>4. stage[p] = "selection_commit"
  BY <1>3, StageOf
<1>5. PICK step \in {"recheck", "fail"} :
        /\ stage'[p] = "selection_commit" /\ pc'[p] = step /\ outcome'[p] = outcome[p]
  BY <1>2 DEF View, Move, TypeOK
<1>6. HeldInv(p)'
  BY <1>2, <1>3, SameHeld
<1>7. StageInv(p)'
  BY <1>2, <1>3, <1>4, <1>5, GrowsKeeps, RankValues DEF StageInv, StepsOf
<1>8. TruthInv(p)'
  BY <1>2, <1>3, <1>4, <1>5, RankValues DEF TruthInv, Result
<1>. QED BY <1>6, <1>7, <1>8 DEF CallInv

LEMMA RecheckLocal ==
  ASSUME IInv, NEW p \in Procs, Recheck(p)
  PROVE  CallInv(p)'
<1> DEFINE a == req[p].action
<1>1. Step(p)
  BY DEF Step, Run, Raise
<1>2. /\ TypeOK /\ TypeOK' /\ Grows /\ HistoryInv /\ ReceiptInv /\ ReceiptInv'
      /\ HeldInv(p) /\ StageInv(p) /\ TruthInv(p)
      /\ req[p] \in Requests /\ a \in Actions /\ stage[p] \in Stages
  BY <1>1, Before
<1>3. UNCHANGED <<req, touched>> /\ pc[p] = "recheck"
  BY DEF Recheck, Quiet
<1>4. stage[p] = "selection_commit"
  BY <1>3, StageOf
<1>5. PICK step \in {"select", "fail"} :
        /\ stage'[p] = "selection_commit" /\ pc'[p] = step /\ held'[p] = held[p]
        /\ found'[p] = found[p] /\ outcome'[p] = outcome[p] /\ HeldInv(p)'
  BY <1>2, <1>3, MoveLocal DEF Recheck
<1>6. StageInv(p)'
  BY <1>2, <1>3, <1>4, <1>5, GrowsKeeps, RankValues DEF StageInv, StepsOf
<1>7. TruthInv(p)'
  BY <1>2, <1>3, <1>4, <1>5, RankValues DEF TruthInv, Result
<1>. QED BY <1>5, <1>6, <1>7 DEF CallInv

LEMMA SelectLocal ==
  ASSUME IInv, NEW p \in Procs, Select(p)
  PROVE  CallInv(p)'
<1> DEFINE a == req[p].action
<1>1. Step(p)
  BY DEF Step, Run, Raise
<1>2. /\ TypeOK /\ TypeOK' /\ Grows /\ HistoryInv /\ ReceiptInv /\ ReceiptInv'
      /\ HeldInv(p) /\ StageInv(p) /\ TruthInv(p)
      /\ req[p] \in Requests /\ a \in Actions /\ stage[p] \in Stages
  BY <1>1, Before
<1>3. UNCHANGED req /\ pc[p] = "select"
  BY DEF Select
<1>4. stage[p] = "selection_commit"
  BY <1>3, StageOf
<1>5. PICK step \in {"journal", "fail"} :
        /\ stage'[p] = "selection_commit" /\ pc'[p] = step /\ held'[p] = held[p]
        /\ found'[p] = found[p] /\ outcome'[p] = outcome[p] /\ HeldInv(p)'
        /\ step = "journal" => made' = made \cup TargetedBy(Target(a))
  BY <1>2, <1>3, MoveLocal DEF Select
<1>6. Present(a)
  BY <1>2, <1>4, RankValues DEF StageInv
<1>7. step = "journal" => a \in made'
  BY <1>2, <1>5, <1>6 DEF TargetedBy
<1>8. StageInv(p)'
  BY <1>2, <1>3, <1>4, <1>5, <1>7, GrowsKeeps, RankValues DEF StageInv, StepsOf
<1>9. TruthInv(p)'
  <2>1. outcome[p] = Result("none", FALSE)
    BY <1>2, <1>3 DEF TruthInv
  <2>. QED BY <1>5, <2>1, RankValues DEF TruthInv, Result
<1>. QED BY <1>5, <1>8, <1>9 DEF CallInv

LEMMA StoreRaisesLocal ==
  ASSUME IInv, NEW p \in Procs, StoreRaises(p)
  PROVE  CallInv(p)'
<1> DEFINE a == req[p].action
<1>1. Step(p)
  BY DEF Step, Run, Raise
<1>2. /\ TypeOK /\ TypeOK' /\ Grows /\ HistoryInv /\ ReceiptInv /\ ReceiptInv'
      /\ HeldInv(p) /\ StageInv(p) /\ TruthInv(p)
      /\ req[p] \in Requests /\ a \in Actions /\ stage[p] \in Stages
  BY <1>1, Before
<1>3. UNCHANGED req /\ pc[p] \in {"persist", "create", "view", "recheck", "select"}
  BY DEF StoreRaises
<1>4. stage[p] \in {"write", "selection_commit"}
  BY <1>3, StageOf
<1>5. /\ stage'[p] = stage[p] /\ pc'[p] = "fail" /\ held'[p] = held[p]
      /\ found'[p] = found[p] /\ outcome'[p] = outcome[p] /\ HeldInv(p)'
  BY <1>2, <1>3, MoveLocal DEF StoreRaises
<1>6. StageInv(p)'
  BY <1>2, <1>3, <1>4, <1>5, GrowsKeeps, RankValues DEF StageInv, StepsOf
<1>7. TruthInv(p)'
  <2>1. outcome[p] = Result("none", FALSE)
    BY <1>2, <1>3 DEF TruthInv
  <2>. QED BY <1>4, <1>5, <2>1, RankValues DEF TruthInv, Result
<1>. QED BY <1>5, <1>6, <1>7 DEF CallInv

LEMMA FailLocal ==
  ASSUME IInv, NEW p \in Procs, Fail(p)
  PROVE  CallInv(p)'
<1> DEFINE a == req[p].action
<1>1. Step(p)
  BY DEF Step, Run, Raise
<1>2. /\ TypeOK /\ TypeOK' /\ Grows /\ HistoryInv /\ ReceiptInv /\ ReceiptInv'
      /\ HeldInv(p) /\ StageInv(p) /\ TruthInv(p)
      /\ req[p] \in Requests /\ a \in Actions /\ stage[p] \in Stages
  BY <1>1, Before
<1> DEFINE result == Failure(a)
<1>3. UNCHANGED <<canonical, req, touched, made>> /\ pc[p] = "fail"
  BY DEF Fail, Quiet
<1>4. stage[p] \notin {"preflight", "receipt_prepared", "receipt_finalized"}
  BY <1>3, StageOf
<1>5. /\ stage'[p] = stage[p] /\ pc'[p] = "logfail" /\ held'[p] = held[p]
      /\ found'[p] = found[p] /\ outcome'[p] = result /\ HeldInv(p)'
  BY <1>2, <1>3, KeepLocal DEF Fail
<1>6. /\ result.status \notin {"blocked_before_write", "applied", "already_applied"}
      /\ result.persisted => Present(a)
  BY <1>2, FailureTrue DEF Result
<1>7. StageInv(p)'
  BY <1>2, <1>3, <1>4, <1>5, GrowsKeeps DEF StageInv, StepsOf, Stages
<1>8. TruthInv(p)'
  <2>1. Present(a) => Present(req[p].action)'
    BY <1>2, <1>3 DEF Grows
  <2>2. ~(Rank[stage[p]] <= 1)
    BY <1>2, <1>4, RankOrder
  <2>. QED BY <1>3, <1>5, <1>6, <2>1, <2>2 DEF TruthInv
<1>. QED BY <1>5, <1>7, <1>8 DEF CallInv

LEMMA FailRaisesLocal ==
  ASSUME IInv, NEW p \in Procs, FailRaises(p)
  PROVE  CallInv(p)'
<1> DEFINE a == req[p].action
<1>1. Step(p)
  BY DEF Step, Run, Raise
<1>2. /\ TypeOK /\ TypeOK' /\ Grows /\ HistoryInv /\ ReceiptInv /\ ReceiptInv'
      /\ HeldInv(p) /\ StageInv(p) /\ TruthInv(p)
      /\ req[p] \in Requests /\ a \in Actions /\ stage[p] \in Stages
  BY <1>1, Before
<1> DEFINE result == Result("recovery_required", FALSE)
<1>3. UNCHANGED <<canonical, req, touched, made>> /\ pc[p] = "fail"
  BY DEF FailRaises, Quiet
<1>4. stage[p] \notin {"preflight", "receipt_prepared", "receipt_finalized"}
  BY <1>3, StageOf
<1>5. /\ stage'[p] = stage[p] /\ pc'[p] = "logfail" /\ held'[p] = held[p]
      /\ found'[p] = found[p] /\ outcome'[p] = result /\ HeldInv(p)'
  BY <1>2, <1>3, KeepLocal DEF FailRaises
<1>6. /\ result.status \notin {"blocked_before_write", "applied", "already_applied"}
      /\ result.persisted => Present(a)
  BY <1>2, FailureTrue DEF Result
<1>7. StageInv(p)'
  BY <1>2, <1>3, <1>4, <1>5, GrowsKeeps DEF StageInv, StepsOf, Stages
<1>8. TruthInv(p)'
  <2>1. Present(a) => Present(req[p].action)'
    BY <1>2, <1>3 DEF Grows
  <2>2. ~(Rank[stage[p]] <= 1)
    BY <1>2, <1>4, RankOrder
  <2>. QED BY <1>3, <1>5, <1>6, <2>1, <2>2 DEF TruthInv
<1>. QED BY <1>5, <1>7, <1>8 DEF CallInv

LEMMA LogFailureLocal ==
  ASSUME IInv, NEW p \in Procs, LogFailure(p)
  PROVE  CallInv(p)'
<1> DEFINE a == req[p].action
<1>1. Step(p)
  BY DEF Step, Run, Raise
<1>2. /\ TypeOK /\ TypeOK' /\ Grows /\ HistoryInv /\ ReceiptInv /\ ReceiptInv'
      /\ HeldInv(p) /\ StageInv(p) /\ TruthInv(p)
      /\ req[p] \in Requests /\ a \in Actions /\ stage[p] \in Stages
  BY <1>1, Before
<1>3. UNCHANGED <<req, touched>>
  BY DEF LogFailure
<1>4. /\ outcome[p].status = "blocked_before_write" => ~touched[p]
      /\ outcome[p].persisted => Present(req[p].action)'
      /\ outcome[p].status \in {"applied", "already_applied"} => req[p].action \in made'
  BY <1>2, <1>3 DEF TruthInv, Grows
<1>. QED BY <1>2, <1>3, <1>4, ReturnLocal DEF LogFailure, Report

LEMMA LogFailureRefusedLocal ==
  ASSUME IInv, NEW p \in Procs, LogFailureRefused(p)
  PROVE  CallInv(p)'
<1> DEFINE a == req[p].action
<1>1. Step(p)
  BY DEF Step, Run, Raise
<1>2. /\ TypeOK /\ TypeOK' /\ Grows /\ HistoryInv /\ ReceiptInv /\ ReceiptInv'
      /\ HeldInv(p) /\ StageInv(p) /\ TruthInv(p)
      /\ req[p] \in Requests /\ a \in Actions /\ stage[p] \in Stages
  BY <1>1, Before
<1>3. UNCHANGED <<req, touched>> /\ pc[p] = "logfail"
  BY DEF LogFailureRefused, Quiet
<1>4. /\ outcome[p].status = "blocked_before_write" => ~touched[p]
      /\ outcome[p].persisted => Present(req[p].action)'
      /\ outcome[p].status \in {"applied", "already_applied"} => req[p].action \in made'
  BY <1>2, <1>3 DEF TruthInv, Grows
<1>5. CASE Report(p)
  BY <1>2, <1>3, <1>4, <1>5, ReturnLocal DEF Report
<1>6. CASE outcome[p].status # "blocked_before_write" /\ Move(p, stage[p], "audit") /\ UNCHANGED local
  BY <1>1, <1>3, <1>6, ToAuditLocal, StageOf
<1>. QED BY <1>5, <1>6 DEF LogFailureRefused, Unlogged

LEMMA LogFailureRaisesLocal ==
  ASSUME IInv, NEW p \in Procs, LogFailureRaises(p)
  PROVE  CallInv(p)'
<1> DEFINE a == req[p].action
<1>1. Step(p)
  BY DEF Step, Run, Raise
<1>2. /\ TypeOK /\ TypeOK' /\ Grows /\ HistoryInv /\ ReceiptInv /\ ReceiptInv'
      /\ HeldInv(p) /\ StageInv(p) /\ TruthInv(p)
      /\ req[p] \in Requests /\ a \in Actions /\ stage[p] \in Stages
  BY <1>1, Before
<1>3. UNCHANGED <<req, touched>> /\ pc[p] = "logfail"
  BY DEF LogFailureRaises, Quiet
<1>4. /\ outcome[p].status = "blocked_before_write" => ~touched[p]
      /\ outcome[p].persisted => Present(req[p].action)'
      /\ outcome[p].status \in {"applied", "already_applied"} => req[p].action \in made'
  BY <1>2, <1>3 DEF TruthInv, Grows
<1>5. CASE Report(p)
  BY <1>2, <1>3, <1>4, <1>5, ReturnLocal DEF Report
<1>6. CASE outcome[p].status # "blocked_before_write" /\ Move(p, stage[p], "audit") /\ UNCHANGED local
  BY <1>1, <1>3, <1>6, ToAuditLocal, StageOf
<1>. QED BY <1>5, <1>6 DEF LogFailureRaises, Unlogged

LEMMA AuditLocal ==
  ASSUME IInv, NEW p \in Procs, Audit(p)
  PROVE  CallInv(p)'
<1> DEFINE a == req[p].action
<1>1. Step(p)
  BY DEF Step, Run, Raise
<1>2. /\ TypeOK /\ TypeOK' /\ Grows /\ HistoryInv /\ ReceiptInv /\ ReceiptInv'
      /\ HeldInv(p) /\ StageInv(p) /\ TruthInv(p)
      /\ req[p] \in Requests /\ a \in Actions /\ stage[p] \in Stages
  BY <1>1, Before
<1>3. UNCHANGED <<req, touched>> /\ (Present(a) => Present(req[p].action)')
  BY <1>2 DEF Audit, Quiet, Grows
<1>4. PICK claim \in BOOLEAN : claim = Present(a)
  BY DEF Present
<1>5. PICK s \in {"conflict_requires_review", "recovery_required"} : Return(p, s, claim)
  BY <1>4 DEF Audit
<1>. QED BY <1>2, <1>3, <1>4, <1>5, ReturnLocal

LEMMA AuditRaisesLocal ==
  ASSUME IInv, NEW p \in Procs, AuditRaises(p)
  PROVE  CallInv(p)'
<1> DEFINE a == req[p].action
<1>1. Step(p)
  BY DEF Step, Run, Raise
<1>2. /\ TypeOK /\ TypeOK' /\ Grows /\ HistoryInv /\ ReceiptInv /\ ReceiptInv'
      /\ HeldInv(p) /\ StageInv(p) /\ TruthInv(p)
      /\ req[p] \in Requests /\ a \in Actions /\ stage[p] \in Stages
  BY <1>1, Before
<1>3. UNCHANGED <<req, touched>> /\ (Present(a) => Present(a)')
  BY <1>2 DEF AuditRaises, Quiet, Grows
<1>. QED BY <1>2, <1>3, ReturnLocal DEF AuditRaises

LEMMA AssessLoadLocal ==
  ASSUME IInv, NEW p \in Procs, AssessLoad(p)
  PROVE  CallInv(p)'
<1> DEFINE a == req[p].action
<1>1. Step(p)
  BY DEF Step, Run, Raise
<1>2. /\ TypeOK /\ TypeOK' /\ Grows /\ HistoryInv /\ ReceiptInv /\ ReceiptInv'
      /\ HeldInv(p) /\ StageInv(p) /\ TruthInv(p)
      /\ req[p] \in Requests /\ a \in Actions /\ stage[p] \in Stages
  BY <1>1, Before
<1>3. UNCHANGED <<canonical, receipt, req, found, touched, made>> /\ pc[p] \in {"weighload", "assessload"}
  BY DEF AssessLoad, Quiet
<1>4. stage[p] = "preflight"
  BY <1>3, StageOf
<1>5. /\ stage'[p] = "preflight" /\ pc'[p] \in {"weigh", "assess"} /\ held'[p] = receipt[a]
      /\ outcome'[p] = outcome[p]
  BY <1>2 DEF AssessLoad, Move, TypeOK
<1>6. receipt[a] \in Receipts
  BY <1>2 DEF TypeOK
<1>7. receipt[a].generation \in Nat /\ Rank[receipt[a].stage] \in Nat
  BY <1>6, RankType DEF Receipts
<1>8. HeldInv(p)'
  BY <1>2, <1>3, <1>5, <1>7 DEF HeldInv, ReceiptInv
<1>9. StageInv(p)'
  BY <1>2, <1>3, <1>4, <1>5, GrowsKeeps, RankValues DEF StageInv, StepsOf
<1>10. TruthInv(p)'
  BY <1>2, <1>3, <1>4, <1>5, RankValues DEF TruthInv, Result
<1>. QED BY <1>8, <1>9, <1>10 DEF CallInv

LEMMA WeighLocal ==
  ASSUME IInv, NEW p \in Procs, Weigh(p)
  PROVE  CallInv(p)'
<1> DEFINE a == req[p].action
<1>1. Step(p)
  BY DEF Step, Run, Raise
<1>2. /\ TypeOK /\ TypeOK' /\ Grows /\ HistoryInv /\ ReceiptInv /\ ReceiptInv'
      /\ HeldInv(p) /\ StageInv(p) /\ TruthInv(p)
      /\ req[p] \in Requests /\ a \in Actions /\ stage[p] \in Stages
  BY <1>1, Before
<1>3. UNCHANGED <<canonical, receipt, req, touched, made>> /\ pc[p] = "weigh"
  BY DEF Weigh, Quiet
<1>4. stage[p] = "preflight"
  BY <1>3, StageOf
<1>5. PICK step \in {"load", "assessload"} :
        /\ stage'[p] = "preflight" /\ pc'[p] = step /\ held'[p] = held[p]
        /\ found'[p] = found[p] /\ outcome'[p] = outcome[p] /\ HeldInv(p)'
        /\ step = "load" => Verdict(a, held[p]) = "written_not_current"
  BY <1>2, <1>3, MoveLocal DEF Weigh
<1>6. step = "load" => receipt[a].generation >= 1
  <2>1. held[p] \in Receipts /\ receipt[a] \in Receipts
    BY <1>2 DEF TypeOK
  <2>2. held[p].generation \in Nat /\ receipt[a].generation \in Nat
    BY <2>1 DEF Receipts
  <2>3. step = "load" => held[p] # NoReceipt
    BY <1>2, <1>5, VerdictTrue
  <2>. QED BY <1>2, <2>2, <2>3 DEF HeldInv
<1>7. StageInv(p)'
  BY <1>2, <1>3, <1>4, <1>5, <1>6, GrowsKeeps, RankValues DEF StageInv, StepsOf
<1>8. TruthInv(p)'
  BY <1>2, <1>3, <1>4, <1>5, RankValues DEF TruthInv, Result
<1>. QED BY <1>5, <1>7, <1>8 DEF CallInv

LEMMA AssessLocal ==
  ASSUME IInv, NEW p \in Procs, Assess(p)
  PROVE  CallInv(p)'
<1> DEFINE a == req[p].action
<1>1. Step(p)
  BY DEF Step, Run, Raise
<1>2. /\ TypeOK /\ TypeOK' /\ Grows /\ HistoryInv /\ ReceiptInv /\ ReceiptInv'
      /\ HeldInv(p) /\ StageInv(p) /\ TruthInv(p)
      /\ req[p] \in Requests /\ a \in Actions /\ stage[p] \in Stages
  BY <1>1, Before
<1> DEFINE verdict == Verdict(a, held[p])
<1>3. UNCHANGED <<req, touched>> /\ (Present(a) => Present(req[p].action)') /\ pc[p] = "assess"
  BY <1>2 DEF Assess, Quiet, Grows
<1>4. ~touched[p]
  BY <1>2, <1>3, StageOf, RankValues DEF TruthInv
<1>5. /\ verdict # "applied"
      /\ verdict = "already_applied" => a \in made'
  <2>1. verdict # "applied" /\ (verdict = "already_applied" => Present(a) /\ selected = Target(a))
    BY <1>2, VerdictTrue
  <2>. QED BY <1>2, <2>1 DEF HistoryInv, TargetedBy, Grows
<1>6. PICK claim \in BOOLEAN : claim = (Present(a) /\ verdict # "blocked_before_write")
  OBVIOUS
<1>7. Return(p, verdict, claim)
  BY <1>6 DEF Assess
<1>. QED BY <1>2, <1>3, <1>4, <1>5, <1>6, <1>7, ReturnLocal

LEMMA AssessRaisesLocal ==
  ASSUME IInv, NEW p \in Procs, AssessRaises(p)
  PROVE  CallInv(p)'
<1> DEFINE a == req[p].action
<1>1. Step(p)
  BY DEF Step, Run, Raise
<1>2. /\ TypeOK /\ TypeOK' /\ Grows /\ HistoryInv /\ ReceiptInv /\ ReceiptInv'
      /\ HeldInv(p) /\ StageInv(p) /\ TruthInv(p)
      /\ req[p] \in Requests /\ a \in Actions /\ stage[p] \in Stages
  BY <1>1, Before
<1>3. /\ UNCHANGED <<canonical, receipt, req, touched, made>>
      /\ (Present(a) => Present(req[p].action)')
      /\ pc[p] \in {"weighload", "weigh", "assessload", "assess"}
  BY <1>2 DEF AssessRaises, Quiet, Grows
<1>4. stage[p] = "preflight"
  BY <1>3, StageOf
<1>5. CASE Move(p, "preflight", "assessload") /\ UNCHANGED local
  <2>1. /\ stage'[p] = "preflight" /\ pc'[p] = "assessload" /\ held'[p] = held[p]
        /\ found'[p] = found[p] /\ outcome'[p] = outcome[p] /\ HeldInv(p)'
    BY <1>2, <1>3, <1>5, MoveLocal
  <2>2. StageInv(p)'
    BY <1>2, <1>3, <1>4, <2>1, GrowsKeeps, RankValues DEF StageInv, StepsOf
  <2>3. TruthInv(p)'
    BY <1>2, <1>3, <1>4, <2>1, RankValues DEF TruthInv, Result
  <2>. QED BY <2>1, <2>2, <2>3 DEF CallInv
<1>6. CASE Return(p, "recovery_required", Present(a))
  <2>1. PICK claim \in BOOLEAN : claim = Present(a)
    BY DEF Present
  <2>2. Return(p, "recovery_required", claim)
    BY <1>6, <2>1
  <2>. QED BY <1>2, <1>3, <2>1, <2>2, ReturnLocal
<1>7. CASE Return(p, "recovery_required", FALSE)
  BY <1>2, <1>3, <1>7, ReturnLocal
<1>. QED BY <1>5, <1>6, <1>7 DEF AssessRaises

LEMMA CrashLocal ==
  ASSUME IInv, NEW p \in Procs, Crash(p)
  PROVE  CallInv(p)'
<1> DEFINE a == req[p].action
<1>1. Step(p)
  BY DEF Step, Run, Raise
<1>2. /\ TypeOK /\ TypeOK' /\ Grows /\ HistoryInv /\ ReceiptInv /\ ReceiptInv'
      /\ HeldInv(p) /\ StageInv(p) /\ TruthInv(p)
      /\ req[p] \in Requests /\ a \in Actions /\ stage[p] \in Stages
  BY <1>1, Before
<1>3. UNCHANGED <<req, touched>> /\ (Present(a) => Present(a)')
  BY <1>2 DEF Crash, Quiet, Grows
<1>. QED BY <1>2, <1>3, ReturnLocal DEF Crash

LEMMA StepLocal ==
  ASSUME IInv, NEW p \in Procs, Step(p) PROVE CallInv(p)'
<1>1. CASE Run(p)
  <2>1. Revalidate(p) => CallInv(p)'
    BY RevalidateLocal
  <2>2. Observe(p) => CallInv(p)'
    BY ObserveLocal
  <2>3. Load(p) => CallInv(p)'
    BY LoadLocal
  <2>4. Prepare(p) => CallInv(p)'
    BY PrepareLocal
  <2>5. Journal(p) => CallInv(p)'
    BY JournalLocal
  <2>6. Finalize(p) => CallInv(p)'
    BY FinalizeLocal
  <2>7. JournalRefuses(p) => CallInv(p)'
    BY JournalRefusesLocal
  <2>8. Persist(p) => CallInv(p)'
    BY PersistLocal
  <2>9. Create(p) => CallInv(p)'
    BY CreateLocal
  <2>10. View(p) => CallInv(p)'
    BY ViewLocal
  <2>11. Recheck(p) => CallInv(p)'
    BY RecheckLocal
  <2>12. Select(p) => CallInv(p)'
    BY SelectLocal
  <2>13. Fail(p) => CallInv(p)'
    BY FailLocal
  <2>14. LogFailure(p) => CallInv(p)'
    BY LogFailureLocal
  <2>15. LogFailureRefused(p) => CallInv(p)'
    BY LogFailureRefusedLocal
  <2>16. Audit(p) => CallInv(p)'
    BY AuditLocal
  <2>17. AssessLoad(p) => CallInv(p)'
    BY AssessLoadLocal
  <2>18. Weigh(p) => CallInv(p)'
    BY WeighLocal
  <2>19. Assess(p) => CallInv(p)'
    BY AssessLocal
  <2>. QED BY <1>1, <2>1, <2>2, <2>3, <2>4, <2>5, <2>6, <2>7, <2>8, <2>9, <2>10, <2>11, <2>12, <2>13, <2>14, <2>15, <2>16, <2>17, <2>18, <2>19 DEF Run
<1>2. CASE Raise(p)
  <2>1. ReadRaises(p) => CallInv(p)'
    BY ReadRaisesLocal
  <2>2. LoadRaises(p) => CallInv(p)'
    BY LoadRaisesLocal
  <2>3. PrepareRaises(p) => CallInv(p)'
    BY PrepareRaisesLocal
  <2>4. JournalRaises(p) => CallInv(p)'
    BY JournalRaisesLocal
  <2>5. StoreRaises(p) => CallInv(p)'
    BY StoreRaisesLocal
  <2>6. FailRaises(p) => CallInv(p)'
    BY FailRaisesLocal
  <2>7. LogFailureRaises(p) => CallInv(p)'
    BY LogFailureRaisesLocal
  <2>8. AuditRaises(p) => CallInv(p)'
    BY AuditRaisesLocal
  <2>9. AssessRaises(p) => CallInv(p)'
    BY AssessRaisesLocal
  <2>. QED BY <1>2, <2>1, <2>2, <2>3, <2>4, <2>5, <2>6, <2>7, <2>8, <2>9 DEF Raise
<1>. QED BY <1>1, <1>2, CallLocal, CrashLocal DEF Step

-----------------------------------------------------------------------------
(* The theorems *)

LEMMA IInit == Init => IInv
<1>. SUFFICES ASSUME Init PROVE IInv
  OBVIOUS
<1> USE KernelAssumption DEF Init
<1>1. TypeOK
  <2>1. Result("none", FALSE) \in Results
    BY ResultType DEF Statuses
  <2>2. /\ revision \in [Revs -> Contents \cup {Absent}] /\ selected \in 0 .. MaxRev
        /\ basis \in {"current", "stale", "unknown"} /\ made \subseteq Actions
        /\ receipt \in [Actions -> Receipts]
    BY NoReceiptType DEF Contents
  <2>3. /\ pc \in [Procs -> Steps] /\ stage \in [Procs -> Stages] /\ req \in [Procs -> Requests]
        /\ held \in [Procs -> Receipts] /\ found \in [Procs -> BOOLEAN]
        /\ viewed \in [Procs -> 0 .. MaxRev] /\ outcome \in [Procs -> Results]
        /\ touched \in [Procs -> BOOLEAN]
    <3>1. "idle" \in Steps /\ "preflight" \in Stages /\ 0 \in 0 .. MaxRev
      BY DEF Steps, Stages
    <3>. QED BY <2>1, <3>1, NoReceiptType
  <2>4. others \in 0 .. MaxOthers /\ crashes \in 0 .. MaxCrashes /\ faults \in 0 .. MaxFaults
    OBVIOUS
  <2>. QED BY <2>2, <2>3, <2>4 DEF TypeOK
<1>2. \A a \in Authored : ~Present(a)
  BY TargetType, <1>1 DEF Present, Actions, Revs, Store!Revs, Contents
<1>3. HistoryInv
  <2>1. \A r \in Revs : r <= Given => revision[r] = Other
    OBVIOUS
  <2>2. selected # 0 => revision[selected] # Absent
    BY DEF Revs, Store!Revs, Contents
  <2>3. ASSUME NEW a \in Actions PROVE Target(a) # selected
    <3>1. CASE a \in Existing
      BY <3>1, TargetType
    <3>2. CASE a \in Authored
      BY <3>2, TargetType
    <3>. QED BY <3>1, <3>2 DEF Actions
  <2>. QED BY <2>1, <2>2, <2>3 DEF HistoryInv, TargetedBy
<1>4. ReceiptInv
  BY <1>2, RankValues DEF ReceiptInv, NoReceipt
<1>5. ASSUME NEW p \in Procs PROVE CallInv(p)
  <2>1. req[p].action \in Actions
    BY <1>1, StepsInside
  <2>2. HeldInv(p)
    BY <2>1, RankValues DEF HeldInv, NoReceipt
  <2>3. StageInv(p)
    BY RankValues DEF StageInv, StepsOf
  <2>4. TruthInv(p)
    BY DEF TruthInv, Result
  <2>. QED BY <2>2, <2>3, <2>4 DEF CallInv
<1>. QED BY <1>1, <1>3, <1>4, <1>5 DEF IInv

LEMMA IStutter == IInv /\ UNCHANGED vars => IInv'
<1>. SUFFICES ASSUME IInv, UNCHANGED vars PROVE IInv'
  OBVIOUS
<1> USE DEF vars, canonical, local, bounds
<1>1. TypeOK'
  BY DEF IInv, TypeOK
<1>2. Grows
  BY UnchangedGrows
<1>3. HistoryInv'
  BY HistoryKept DEF IInv
<1>4. \A a \in Actions : Present(a)' = Present(a)
  BY DEF Present, Target, Candidate
<1>5. ReceiptInv'
  BY <1>4 DEF IInv, ReceiptInv
<1>6. ASSUME NEW q \in Procs PROVE CallInv(q)'
  BY <1>1, <1>2, SameKept DEF IInv, Same
<1>. QED BY <1>1, <1>3, <1>5, <1>6 DEF IInv

LEMMA INext == IInv /\ [Next]_vars => IInv'
<1>. SUFFICES ASSUME IInv, [Next]_vars PROVE IInv'
  OBVIOUS
<1>1. CASE World
  <2>1. TypeOK /\ TypeOK' /\ Grows /\ HistoryInv' /\ ReceiptInv'
    BY <1>1, WorldTypes, WorldGrows, HistoryStep, WorldReceipts DEF IInv
  <2>2. ASSUME NEW q \in Procs PROVE CallInv(q)'
    BY <1>1, <2>1, WorldSame, SameKept DEF IInv
  <2>. QED BY <2>1, <2>2 DEF IInv
<1>2. ASSUME NEW p \in Procs, Step(p) PROVE IInv'
  <2>1. TypeOK /\ TypeOK' /\ Grows /\ HistoryInv' /\ ReceiptInv'
    BY <1>2, TypeStep, StepGrows, HistoryStep, StepReceipts DEF IInv
  <2>2. ASSUME NEW q \in Procs PROVE CallInv(q)'
    <3>1. CASE q = p
      BY <1>2, <3>1, StepLocal
    <3>2. CASE q # p
      BY <1>2, <2>1, <3>2, StepSame, SameKept DEF IInv
    <3>. QED BY <3>1, <3>2
  <2>. QED BY <2>1, <2>2 DEF IInv
<1>3. CASE UNCHANGED vars
  BY <1>3, IStutter
<1>. QED BY <1>1, <1>2, <1>3 DEF Next, Step, World

\* The conjunction of everything the steps of the kernel preserve.
THEOREM Invariance == Spec => []IInv
BY IInit, INext, PTL DEF Spec

\* Every variable keeps its type; in particular no receipt ever holds more than
\* MaxCheckpoints checkpoints, whatever calls, failures and resumptions come together.
THEOREM TypeCorrect == Spec => []TypeOK
<1>1. IInv => TypeOK
  BY DEF IInv
<1>. QED BY <1>1, Invariance, PTL

\* A revision an action wrote is covered by a claimed receipt in every state.
THEOREM WritesClaimed == Spec => []WritesAreClaimed
<1>1. IInv => WritesAreClaimed
  BY DEF IInv, ReceiptInv, WritesAreClaimed, Actions
<1>. QED BY <1>1, Invariance, PTL

\* No result and no receipt claims a revision the history does not hold.
THEOREM ClaimsPersisted == Spec => []ClaimsArePersisted
<1>1. IInv => ClaimsArePersisted
  BY DEF IInv, ReceiptInv, CallInv, TruthInv, ClaimsArePersisted
<1>. QED BY <1>1, Invariance, PTL

\* Success is only reported, and a receipt only finalized, for an action whose
\* target has been current.
THEOREM SuccessTrue == Spec => []SuccessIsTrue
<1>1. IInv => SuccessIsTrue
  BY DEF IInv, ReceiptInv, CallInv, TruthInv, SuccessIsTrue
<1>. QED BY <1>1, Invariance, PTL

\* A call that reports "blocked before writing" changed neither history nor pointer.
THEOREM BlockedUntouched == Spec => []BlockedChangedNothing
<1>1. IInv => BlockedChangedNothing
  BY DEF IInv, CallInv, TruthInv, BlockedChangedNothing
<1>. QED BY <1>1, Invariance, PTL

\* A step that takes a call past its selection leaves the pointer alone or moves it
\* from the reviewed baseline to the call's own target.
LEMMA SelectMoves ==
  ASSUME IInv, NEW p \in Procs, Step(p), pc[p] = "select", selected' # selected
  PROVE  LET a == req[p].action
         IN /\ selected = Baseline /\ selected' = Target(a) /\ Present(a)
            /\ Rank[receipt[a].stage] >= Rank["selection_preview"]
<1> DEFINE a == req[p].action
<1>1. Select(p) \/ StoreRaises(p) \/ Crash(p)
  BY DEF Step, Run, Raise, Call, Revalidate, Observe, Load, Prepare, Journal, Finalize,
         JournalRefuses, Persist, Create, View, Recheck, Fail, LogFailure, LogFailureRefused,
         Audit, AssessLoad, Weigh, Assess, ReadRaises, LoadRaises, PrepareRaises,
         JournalRaises, FailRaises, LogFailureRaises, AuditRaises, AssessRaises
<1>2. Store!Select(Target(a), Baseline)
  BY <1>1 DEF Select, StoreRaises, Crash, Quiet, canonical
<1>3. stage[p] = "selection_commit" /\ StageInv(p)
  BY StageOf DEF IInv, CallInv
<1>4. Present(a) /\ Rank[receipt[a].stage] >= 3
  BY <1>3, RankValues DEF StageInv
<1>. QED BY <1>2, <1>4, RankValues DEF Store!Select

LEMMA ChoiceKept ==
  IInv /\ [Next]_vars =>
    [\A p \in Procs : pc[p] = "select" /\ selected' # selected /\ pc'[p] # "select" =>
       LET a == req[p].action
       IN /\ selected = Baseline /\ selected' = Target(a) /\ Present(a)
          /\ Rank[receipt[a].stage] >= Rank["selection_preview"]]_vars
<1>. SUFFICES ASSUME IInv, [Next]_vars, NEW p \in Procs,
                     pc[p] = "select", selected' # selected, pc'[p] # "select"
              PROVE  LET a == req[p].action
                     IN /\ selected = Baseline /\ selected' = Target(a) /\ Present(a)
                        /\ Rank[receipt[a].stage] >= Rank["selection_preview"]
  OBVIOUS
<1>1. ~World
  BY WorldSame DEF Same
<1>2. PICK q \in Procs : Step(q)
  BY <1>1 DEF Next, Step, World, vars, canonical
<1>3. q = p
  BY <1>2, StepSame DEF Same
<1>. QED BY <1>2, <1>3, SelectMoves

\* No other teacher's later choice is overwritten: a call moves the pointer only from
\* the reviewed baseline to its own verified target.
THEOREM ChoiceSafe == Spec => NoChoiceOverwritten
<1>1. Spec => [][Next]_vars
  BY PTL DEF Spec
<1>. QED BY <1>1, ChoiceKept, Invariance, PTL DEF NoChoiceOverwritten

-----------------------------------------------------------------------------
(* A claimed action that was not written stays unwritten *)

\* Only a load opens the way to a write, and only for a receipt nobody has claimed.
LEMMA MayWriteEntered ==
  ASSUME IInv, NEW p \in Procs, Step(p), NEW a \in Authored, ~MayWrite(p, a), MayWrite(p, a)'
  PROVE  receipt[a].generation \in {0, 1}
<1>1. /\ TypeOK /\ stage[p] \in Stages /\ pc[p] \in StepsOf[stage[p]]
  BY Before DEF StageInv
<1>2. /\ pc \in [Procs -> Steps] /\ stage \in [Procs -> Stages] /\ req \in [Procs -> Requests]
  BY <1>1 DEF TypeOK
<1>3. ASSUME NEW s, NEW claim, Return(p, s, claim) PROVE FALSE
  BY <1>2, <1>3 DEF Return, Keep, MayWrite
<1>4. ASSUME NEW s, NEW step, Move(p, s, step)
      PROVE  stage'[p] = s /\ pc'[p] = step
  BY <1>2, <1>4 DEF Move
<1>5. ASSUME NEW s, NEW step, NEW result, Keep(p, s, step, result)
      PROVE  stage'[p] = s /\ pc'[p] = step
  BY <1>2, <1>5 DEF Keep
<1>6. /\ pc'[p] \in {"prepare", "journal", "revalidate", "observe", "persist", "create"}
      /\ pc'[p] = "journal" => stage'[p] = "receipt_prepared"
      /\ pc'[p] \in {"revalidate", "observe", "persist", "create"} => stage'[p] = "write"
      /\ req'[p].action = a
  BY DEF MayWrite
<1>7. ASSUME NEW s, NEW step \in {"fail", "logfail", "audit", "idle"}, Move(p, s, step)
      PROVE  FALSE
  BY <1>4, <1>6, <1>7
<1>8. ASSUME NEW s, NEW step \in {"fail", "logfail", "audit", "idle"}, NEW result,
             Keep(p, s, step, result)
      PROVE  FALSE
  BY <1>5, <1>6, <1>8
<1>9. ~Refusal(p)
  BY <1>3, <1>7, <1>8 DEF Refusal
<1>10. ~Unjournaled(p) /\ ~Unlogged(p) /\ ~Report(p)
  <2>1. ~Report(p)
    BY <1>3 DEF Report
  <2> QED BY <1>3, <1>7, <2>1 DEF Unjournaled, Unlogged
<1>11. ~Call(p) /\ ~Crash(p)
  BY <1>2, <1>3, <1>5, <1>6 DEF Call, Crash
<1>12. ~Raise(p)
  <2>1. ~(LoadRaises(p) \/ PrepareRaises(p) \/ JournalRaises(p) \/ LogFailureRaises(p) \/ AuditRaises(p))
    BY <1>3, <1>10 DEF LoadRaises, PrepareRaises, JournalRaises, LogFailureRaises, AuditRaises
  <2>2. ~(ReadRaises(p) \/ StoreRaises(p) \/ FailRaises(p) \/ AssessRaises(p))
    <3>1. ~(ReadRaises(p) \/ StoreRaises(p))
      BY <1>3, <1>9, <1>7 DEF ReadRaises, StoreRaises
    <3>2. ~(FailRaises(p) \/ AssessRaises(p))
      BY <1>3, <1>4, <1>6, <1>8 DEF FailRaises, AssessRaises
    <3> QED BY <3>1, <3>2
  <2> QED BY <2>1, <2>2 DEF Raise
<1>13. ASSUME Revalidate(p) \/ Observe(p) PROVE FALSE
  <2>1. req'[p] = req[p]
    BY <1>13 DEF Revalidate, Observe, Quiet
  <2>2. CASE Revalidate(p)
    BY <1>4, <1>6, <1>9, <2>1, <2>2 DEF Revalidate, MayWrite
  <2>3. CASE Observe(p)
    BY <1>4, <1>6, <1>9, <2>1, <2>3 DEF Observe, MayWrite
  <2> QED BY <1>13, <2>2, <2>3
<1>14. ASSUME \/ Prepare(p) \/ Journal(p) \/ Finalize(p) \/ JournalRefuses(p) \/ Persist(p)
              \/ Create(p) \/ View(p) \/ Recheck(p) \/ Select(p)
       PROVE  FALSE
  <2>1. req'[p] = req[p]
    BY <1>14 DEF Prepare, Journal, Finalize, JournalRefuses, Persist, Create, View, Recheck,
                 Select, Quiet
  <2>2. CASE Prepare(p)
    BY <1>6, <2>1, <2>2 DEF Prepare, MayWrite
  <2>3. CASE Journal(p)
    <3>1. stage'[p] = NextStage[stage[p]] /\ pc'[p] = FirstStep[NextStage[stage[p]]]
          /\ pc[p] = "journal" /\ stage[p] # "receipt_finalized"
      BY <1>4, <2>3 DEF Journal
    <3>2. stage[p] \in {"receipt_prepared", "write", "selection_preview", "selection_commit",
                        "verification"}
      BY <1>1, <3>1 DEF StepsOf, Stages
    <3> QED BY <1>6, <2>1, <3>1, <3>2 DEF MayWrite, NextStage, FirstStep
  <2>4. CASE Finalize(p) \/ JournalRefuses(p)
    BY <1>3, <1>10, <2>4 DEF Finalize, JournalRefuses
  <2>5. CASE Persist(p)
    BY <1>1, <1>2, <1>4, <1>6, <2>1, <2>5, StageOf DEF Persist, MayWrite
  <2>6. CASE Create(p) \/ View(p) \/ Recheck(p) \/ Select(p)
    BY <1>4, <1>6, <2>6 DEF Create, View, Recheck, Select
  <2> QED BY <1>14, <2>2, <2>3, <2>4, <2>5, <2>6
<1>15. ASSUME \/ Fail(p) \/ LogFailure(p) \/ LogFailureRefused(p) \/ Audit(p)
              \/ AssessLoad(p) \/ Weigh(p) \/ Assess(p)
       PROVE  FALSE
  BY <1>3, <1>4, <1>5, <1>6, <1>10, <1>15
     DEF Fail, LogFailure, LogFailureRefused, Audit, AssessLoad, Weigh, Assess
<1>16. Load(p)
  BY <1>11, <1>12, <1>13, <1>14, <1>15 DEF Step, Run
<1>17. req[p].action = a
  BY <1>6, <1>16 DEF Load, Quiet
<1>18. \E n \in {0, 1} : receipt[a].generation = n
  BY <1>3, <1>4, <1>6, <1>16, <1>17 DEF Load
<1> QED BY <1>18

\* Only the call that is at its create writes the revision of an authored action.
LEMMA WrittenByCreate ==
  ASSUME IInv, NEW p \in Procs, Step(p), NEW a \in Authored, ~Present(a), Present(a)'
  PROVE  pc[p] = "create" /\ req[p].action = a
<1> DEFINE b == req[p].action
<1>1. TypeOK /\ b \in Actions /\ StageInv(p) /\ a \in Actions
  BY Before DEF Actions
<1>2. revision' # revision
  BY DEF Present, Target, Candidate
<1>3. Create(p) \/ StoreRaises(p)
  BY <1>2 DEF Step, Run, Raise, Revalidate, Observe, Load, JournalRefuses, Persist, View, Recheck,
         Fail, LogFailureRefused, Audit, AssessLoad, Weigh, Assess, ReadRaises, LoadRaises,
         FailRaises, AuditRaises, AssessRaises, Crash, Quiet, Call, Prepare, PrepareRaises,
         Journal, Finalize, JournalRaises, LogFailure, LogFailureRaises, canonical,
         Select, Store!Select
<1>4. pc[p] = "create" /\ Store!Append(Target(b), Candidate(b))
  BY <1>2, <1>3 DEF Create, StoreRaises, canonical, Store!Select
<1>5. b \in Authored
  BY <1>1, <1>4, StageOf DEF StageInv
<1>6. Target(b) \in Revs /\ Candidate(b) \in Contents
  BY <1>1, TargetType
<1>7. Candidate(b) = Candidate(a)
  BY <1>1, <1>4, <1>6, AppendGrows
<1> QED BY <1>1, <1>4, <1>5, <1>7, TargetType

\* An abandoned action stays abandoned.
LEMMA AbandonedStays ==
  ASSUME IInv, NEW a \in Authored, Abandoned(a), World \/ \E p \in Procs : Step(p)
  PROVE  Abandoned(a)'
<1>1. TypeOK /\ TypeOK' /\ a \in Actions
  BY WorldTypes, TypeStep DEF IInv, Actions
<1>2. CASE World
  <2>1. UNCHANGED <<pc, stage, req, receipt>>
    BY <1>2 DEF World, OtherWrites, OtherSelects, BasisChanges
  <2>2. ~Present(a)'
    <3>1. UNCHANGED revision \/ \E r \in Revs : Store!Append(r, Other)
      BY <1>2 DEF World, OtherWrites, OtherSelects, BasisChanges, canonical, Store!Select
    <3>2. Candidate(a) # Other
      BY <1>1, TargetType, KernelAssumption
    <3>3. CASE UNCHANGED revision
      BY <3>3 DEF Abandoned, Present, Target, Candidate
    <3>4. CASE \E r \in Revs : Store!Append(r, Other)
      BY <1>1, <3>2, <3>4, AppendGrows DEF Abandoned, Contents
    <3> QED BY <3>1, <3>3, <3>4
  <2> QED BY <2>1, <2>2 DEF Abandoned, MayWrite
<1>3. ASSUME NEW p \in Procs, Step(p) PROVE Abandoned(a)'
  <2>1. Grows
    BY <1>3, StepGrows
  <2>2. receipt'[a].generation >= 2
    BY <1>1, <2>1, GrowsKeeps DEF Abandoned
  <2>3. ~Present(a)'
    <3>1. pc[p] = "create" => stage[p] = "write"
      BY StageOf
    <3> QED BY <1>3, <3>1, WrittenByCreate DEF Abandoned, MayWrite
  <2>4. ASSUME NEW q \in Procs, MayWrite(q, a)' PROVE FALSE
    <3>1. CASE q = p
      <4>1. receipt[a].generation \in {0, 1}
        BY <1>3, <2>4, <3>1, MayWriteEntered DEF Abandoned
      <4> QED BY <4>1 DEF Abandoned
    <3>2. CASE q # p
      BY <1>3, <2>4, <3>2, StepSame DEF Same, Abandoned, MayWrite
    <3> QED BY <3>1, <3>2
  <2> QED BY <2>2, <2>3, <2>4 DEF Abandoned
<1> QED BY <1>2, <1>3

\* "The claim makes a restart conservative": an action that was claimed and not written
\* is never written by a later call, apply or resume.
THEOREM ClaimsConservative == Spec => ClaimsAreConservative
<1>1. IInv /\ [Next]_vars => [\A a \in Authored : Abandoned(a) => Abandoned(a)']_vars
  <2> SUFFICES ASSUME IInv, Next, NEW a \in Authored, Abandoned(a) PROVE Abandoned(a)'
    OBVIOUS
  <2> QED BY AbandonedStays DEF Next, Step, World
<1> QED BY <1>1, Invariance, PTL DEF Spec, ClaimsAreConservative

-----------------------------------------------------------------------------
(* Receipts only grow, and the store is used as it allows *)

\* record_checkpoint compares generations: no receipt ever loses a checkpoint, goes back
\* to an earlier stage or forgets an observed record, whatever calls race for it.
THEOREM ReceiptsGrow == Spec => [][\A a \in Actions : ReceiptGrows(a)]_vars
<1>1. IInv /\ [Next]_vars => [\A a \in Actions : ReceiptGrows(a)]_vars
  <2> SUFFICES ASSUME IInv, Next PROVE \A a \in Actions : ReceiptGrows(a)
    OBVIOUS
  <2> QED BY StepGrows, WorldGrows DEF Next, Step, World, Grows, IInv
<1> QED BY <1>1, Invariance, PTL DEF Spec

\* The kernel uses the canonical store only as the store allows: every step of every
\* call, of its failures and of other teachers is an append, a compare-and-swap or
\* leaves the store alone.
THEOREM KernelKeepsStore == Spec => [][Store!Next]_canonical
<1>1. ASSUME IInv, [Next]_vars PROVE [Store!Next]_canonical
  <2>1. TypeOK
    BY <1>1 DEF IInv
  <2>2. ASSUME NEW r \in Revs, NEW c \in Contents, Store!Append(r, c) PROVE Store!Next
    BY <2>2 DEF Store!Next, Revs
  <2>3. ASSUME NEW r \in Revs, NEW e \in 0 .. MaxRev, Store!Select(r, e) PROVE Store!Next
    BY <2>3 DEF Store!Next, Revs
  <2>4. CASE World
    <3>1. \/ UNCHANGED canonical
          \/ \E r \in Revs : Store!Append(r, Other)
          \/ \E r \in Revs : Store!Select(r, selected)
      BY <2>4 DEF World, OtherWrites, OtherSelects, BasisChanges
    <3> QED BY <2>1, <2>2, <2>3, <3>1 DEF Contents, TypeOK
  <2>5. ASSUME NEW p \in Procs, Step(p) PROVE UNCHANGED canonical \/ Store!Next
    <3> DEFINE a == req[p].action
    <3>1. Target(a) \in Revs /\ Candidate(a) \in Contents /\ Baseline \in 0 .. MaxRev
      BY <2>1, StepsInside, TargetType, KernelAssumption
    <3>2. \/ UNCHANGED canonical
          \/ Store!Append(Target(a), Candidate(a))
          \/ Store!Select(Target(a), Baseline)
      <4>1. CASE Create(p) \/ Select(p) \/ StoreRaises(p)
        BY <4>1 DEF Create, Select, StoreRaises
      <4>2. CASE ~(Create(p) \/ Select(p) \/ StoreRaises(p))
        BY <2>5, <4>2 DEF Step, Run, Raise, Revalidate, Observe, Load, JournalRefuses,
               Persist, View, Recheck, Fail, LogFailureRefused, Audit, AssessLoad, Weigh,
               Assess, ReadRaises, LoadRaises, FailRaises, AuditRaises, AssessRaises, Crash,
               Quiet, Call, Prepare, PrepareRaises, Journal, Finalize, JournalRaises,
               LogFailure, LogFailureRaises
      <4> QED BY <4>1, <4>2
    <3> QED BY <2>2, <2>3, <3>1, <3>2
  <2>6. CASE UNCHANGED vars
    BY <2>6 DEF vars
  <2> QED BY <1>1, <2>4, <2>5, <2>6 DEF Next, Step, World
<1>2. IInv /\ [Next]_vars => [Store!Next]_canonical
  BY <1>1
<1> QED BY <1>2, Invariance, PTL DEF Spec

-----------------------------------------------------------------------------
(* Every call ends *)

\* Where a step is within its stage, in a call of this kind: going on lowers it.
Place(step, call) ==
  CASE step = "revalidate" -> 12
    [] step = "weighload" -> 11
    [] step = "weigh" -> 10
    [] step = "observe" -> IF call = "apply" THEN 10 ELSE 8
    [] step = "load" -> 9
    [] step \in {"prepare", "persist", "view"} -> 7
    [] step \in {"assessload", "create", "recheck"} -> 6
    [] step \in {"assess", "select"} -> 5
    [] step = "journal" -> 4
    [] step = "fail" -> 3
    [] step = "logfail" -> 2
    [] step = "audit" -> 1
    [] OTHER -> 0

\* The steps a call has left, at most: 91 when it starts.
StepsLeft(p) ==
  IF pc[p] = "idle" THEN 0 ELSE 13 * (6 - Rank[stage[p]]) + Place(pc[p], req[p].call) + 1

\* The call of p returns, enters a later stage or goes on within its stage.
Forward(p) ==
  \/ pc'[p] = "idle"
  \/ Rank[stage'[p]] > Rank[stage[p]]
  \/ /\ stage'[p] = stage[p]
     /\ Place(pc'[p], req[p].call) < Place(pc[p], req[p].call)

LEMMA PlaceType == ASSUME NEW step, NEW call PROVE Place(step, call) \in 0 .. 12
BY DEF Place

LEMMA ReadsForward ==
  ASSUME IInv, NEW p \in Procs, Revalidate(p) \/ Observe(p) \/ ReadRaises(p)
  PROVE  Forward(p)
<1>1. /\ pc \in [Procs -> Steps] /\ stage \in [Procs -> Stages]
      /\ req[p].call \in {"apply", "resume"} /\ pc[p] \in {"revalidate", "observe"}
      /\ stage[p] \in {"preflight", "write", "selection_preview", "verification"}
  BY StageOf, StepsInside DEF IInv, TypeOK, Revalidate, Observe, ReadRaises, Requests
<1>2. ASSUME NEW s, NEW claim, Return(p, s, claim) PROVE Forward(p)
  BY <1>1, <1>2 DEF Return, Keep, Forward
<1>3. ASSUME NEW s, NEW step, Move(p, s, step) PROVE stage'[p] = s /\ pc'[p] = step
  BY <1>1, <1>3 DEF Move
<1>4. ASSUME NEW s, NEW step, NEW result, Keep(p, s, step, result)
      PROVE  stage'[p] = s /\ pc'[p] = step
  BY <1>1, <1>4 DEF Keep
<1>5. ASSUME Refusal(p) PROVE Forward(p)
  <2>1. CASE \E s, claim : Return(p, s, claim)
    BY <1>2, <2>1
  <2>2. CASE stage[p] = "write" /\ \E result : Keep(p, "selection_preview", "logfail", result)
    BY <1>4, <2>2, RankValues DEF Forward
  <2>3. CASE Move(p, stage[p], "fail")
    BY <1>1, <1>3, <2>3 DEF Forward, Place
  <2> QED BY <1>5, <2>1, <2>2, <2>3 DEF Refusal
<1>6. CASE Revalidate(p)
  BY <1>1, <1>3, <1>5, <1>6 DEF Revalidate, Forward, Place
<1>7. CASE Observe(p)
  <2>1. CASE Refusal(p)
    BY <1>5, <2>1
  <2>2. CASE Move(p, "preflight", "load") /\ stage[p] = "preflight" /\ req[p].call = "apply"
    BY <1>3, <1>7, <2>2 DEF Observe, Forward, Place
  <2>3. CASE Move(p, "selection_preview", "revalidate") /\ stage[p] \in {"preflight", "write"}
    BY <1>3, <2>3, RankValues DEF Forward
  <2>4. CASE Move(p, "write", "persist") /\ stage[p] = "write"
    BY <1>1, <1>3, <1>7, <2>4 DEF Observe, Forward, Place
  <2>5. CASE Move(p, stage[p], "journal")
    BY <1>1, <1>3, <1>7, <2>5 DEF Observe, Forward, Place
  <2> QED BY <1>7, <2>1, <2>2, <2>3, <2>4, <2>5 DEF Observe
<1>8. CASE ReadRaises(p)
  BY <1>2, <1>5, <1>8 DEF ReadRaises
<1> QED BY <1>6, <1>7, <1>8

LEMMA ReceiptsForward ==
  ASSUME IInv, NEW p \in Procs,
         \/ Load(p) \/ LoadRaises(p) \/ Prepare(p) \/ PrepareRaises(p) \/ Journal(p)
         \/ Finalize(p) \/ JournalRefuses(p) \/ JournalRaises(p)
  PROVE  Forward(p)
<1>1. /\ pc \in [Procs -> Steps] /\ stage \in [Procs -> Stages] /\ stage[p] \in Stages
      /\ pc[p] \in {"load", "prepare"} => stage[p] = "preflight"
      /\ pc[p] = "journal" => stage[p] # "preflight"
      /\ req[p].call \in {"apply", "resume"}
  BY StageOf, StepsInside DEF IInv, TypeOK, Requests
<1>2. ASSUME NEW s, NEW claim, Return(p, s, claim) PROVE Forward(p)
  BY <1>1, <1>2 DEF Return, Keep, Forward
<1>3. ASSUME NEW s, NEW step, Move(p, s, step) PROVE stage'[p] = s /\ pc'[p] = step
  BY <1>1, <1>3 DEF Move
<1>4. CASE Load(p)
  BY <1>1, <1>2, <1>3, <1>4 DEF Load, Forward, Place
<1>5. CASE Prepare(p)
  BY <1>1, <1>3, <1>5, RankValues DEF Prepare, Forward
<1>6. CASE Journal(p)
  <2>1. /\ stage[p] \in {"receipt_prepared", "write", "selection_preview", "selection_commit",
                         "verification"}
        /\ stage'[p] = NextStage[stage[p]]
    BY <1>1, <1>3, <1>6 DEF Journal, Stages
  <2> QED BY <2>1, RankValues DEF NextStage, Forward
<1>7. CASE JournalRefuses(p) \/ JournalRaises(p)
  <2>1. CASE \E s, claim : Return(p, s, claim)
    BY <1>2, <2>1
  <2>2. CASE Move(p, stage[p], "audit")
    BY <1>3, <1>7, <2>2 DEF Forward, Place, JournalRefuses, JournalRaises
  <2> QED BY <1>7, <2>1, <2>2 DEF JournalRefuses, JournalRaises, Unjournaled
<1>8. CASE LoadRaises(p) \/ PrepareRaises(p) \/ Finalize(p)
  BY <1>2, <1>8 DEF LoadRaises, PrepareRaises, Finalize
<1> QED BY <1>4, <1>5, <1>6, <1>7, <1>8

LEMMA StoreForward ==
  ASSUME IInv, NEW p \in Procs,
         Persist(p) \/ Create(p) \/ View(p) \/ Recheck(p) \/ Select(p) \/ StoreRaises(p)
  PROVE  Forward(p)
<1>1. /\ pc \in [Procs -> Steps] /\ stage \in [Procs -> Stages]
      /\ pc[p] \in {"persist", "create"} => stage[p] = "write"
      /\ pc[p] \in {"view", "recheck", "select"} => stage[p] = "selection_commit"
  BY StageOf DEF IInv, TypeOK
<1>2. ASSUME NEW s, NEW step, Move(p, s, step) PROVE stage'[p] = s /\ pc'[p] = step
  BY <1>1, <1>2 DEF Move
<1>3. CASE Persist(p)
  BY <1>1, <1>2, <1>3 DEF Persist, Forward, Place
<1>4. CASE Create(p)
  BY <1>1, <1>2, <1>4 DEF Create, Forward, Place
<1>5. CASE View(p)
  BY <1>1, <1>2, <1>5 DEF View, Forward, Place
<1>6. CASE Recheck(p)
  BY <1>1, <1>2, <1>6 DEF Recheck, Forward, Place
<1>7. CASE Select(p)
  BY <1>1, <1>2, <1>7 DEF Select, Forward, Place
<1>8. CASE StoreRaises(p)
  BY <1>2, <1>8 DEF StoreRaises, Forward, Place
<1> QED BY <1>3, <1>4, <1>5, <1>6, <1>7, <1>8

LEMMA FailureForward ==
  ASSUME IInv, NEW p \in Procs,
         \/ Fail(p) \/ FailRaises(p) \/ LogFailure(p) \/ LogFailureRefused(p)
         \/ LogFailureRaises(p) \/ Audit(p) \/ AuditRaises(p) \/ Crash(p)
  PROVE  Forward(p)
<1>1. pc \in [Procs -> Steps] /\ stage \in [Procs -> Stages]
  BY DEF IInv, TypeOK
<1>2. ASSUME NEW s, NEW claim, Return(p, s, claim) PROVE Forward(p)
  BY <1>1, <1>2 DEF Return, Keep, Forward
<1>3. CASE Fail(p) \/ FailRaises(p)
  <2>1. stage'[p] = stage[p] /\ pc'[p] = "logfail" /\ pc[p] = "fail"
    BY <1>1, <1>3 DEF Fail, FailRaises, Keep
  <2> QED BY <2>1 DEF Forward, Place
<1>4. CASE LogFailureRefused(p) \/ LogFailureRaises(p)
  <2>1. CASE Report(p)
    BY <1>2, <2>1 DEF Report
  <2>2. CASE Move(p, stage[p], "audit")
    <3>1. stage'[p] = stage[p] /\ pc'[p] = "audit" /\ pc[p] = "logfail"
      BY <1>1, <1>4, <2>2 DEF LogFailureRefused, LogFailureRaises, Move
    <3> QED BY <3>1 DEF Forward, Place
  <2> QED BY <1>4, <2>1, <2>2 DEF LogFailureRefused, LogFailureRaises, Unlogged
<1>5. CASE LogFailure(p)
  BY <1>2, <1>5 DEF LogFailure, Report
<1>6. CASE Audit(p) \/ AuditRaises(p) \/ Crash(p)
  <2>1. \E s, claim : Return(p, s, claim)
    BY <1>6 DEF Audit, AuditRaises, Crash
  <2> QED BY <1>2, <2>1
<1> QED BY <1>3, <1>4, <1>5, <1>6

LEMMA RecoveryForward ==
  ASSUME IInv, NEW p \in Procs,
         AssessLoad(p) \/ Weigh(p) \/ Assess(p) \/ AssessRaises(p)
  PROVE  Forward(p)
<1>1. /\ pc \in [Procs -> Steps] /\ stage \in [Procs -> Stages]
      /\ pc[p] \in {"weighload", "weigh", "assessload", "assess"} => stage[p] = "preflight"
  BY StageOf DEF IInv, TypeOK
<1>2. ASSUME NEW s, NEW claim, Return(p, s, claim) PROVE Forward(p)
  BY <1>1, <1>2 DEF Return, Keep, Forward
<1>3. ASSUME NEW s, NEW step, Move(p, s, step) PROVE stage'[p] = s /\ pc'[p] = step
  BY <1>1, <1>3 DEF Move
<1>4. CASE AssessLoad(p)
  BY <1>1, <1>3, <1>4 DEF AssessLoad, Forward, Place
<1>5. CASE Weigh(p)
  BY <1>1, <1>3, <1>5 DEF Weigh, Forward, Place
<1>6. CASE Assess(p)
  BY <1>2, <1>6 DEF Assess
<1>7. CASE AssessRaises(p)
  <2>1. CASE \E s, claim : Return(p, s, claim)
    BY <1>2, <2>1
  <2>2. CASE Move(p, "preflight", "assessload") /\ pc[p] \in {"weighload", "weigh"}
    BY <1>1, <1>3, <2>2 DEF Forward, Place
  <2> QED BY <1>7, <2>1, <2>2 DEF AssessRaises
<1> QED BY <1>4, <1>5, <1>6, <1>7

LEMMA StepForward ==
  ASSUME IInv, NEW p \in Procs, Run(p) \/ Raise(p) \/ Crash(p)
  PROVE  Forward(p) /\ pc[p] # "idle" /\ req'[p] = req[p]
<1>1. Forward(p)
  BY ReadsForward, ReceiptsForward, StoreForward, FailureForward, RecoveryForward DEF Run, Raise
<1>2. pc[p] # "idle"
  BY DEF Run, Raise, Revalidate, Observe, Load, Prepare, Journal, Finalize, JournalRefuses,
         Persist, Create, View, Recheck, Select, Fail, LogFailure, LogFailureRefused, Audit,
         AssessLoad, Weigh, Assess, ReadRaises, LoadRaises, PrepareRaises, JournalRaises,
         StoreRaises, FailRaises, LogFailureRaises, AuditRaises, AssessRaises, Crash
<1>3. UNCHANGED req
  BY DEF Run, Raise, Revalidate, Observe, Load, Prepare, Journal, Finalize, JournalRefuses,
         Persist, Create, View, Recheck, Select, Fail, LogFailure, LogFailureRefused, Audit,
         AssessLoad, Weigh, Assess, ReadRaises, LoadRaises, PrepareRaises, JournalRaises,
         StoreRaises, FailRaises, LogFailureRaises, AuditRaises, AssessRaises, Crash, Quiet
<1> QED BY <1>1, <1>2, <1>3

LEMMA ForwardLowers ==
  ASSUME IInv, TypeOK', NEW p \in Procs, Forward(p), pc[p] # "idle", req'[p] = req[p]
  PROVE  StepsLeft(p)' \in 0 .. StepsLeft(p) - 1
<1> DEFINE m == Place(pc[p], req[p].call)
           n == Place(pc'[p], req'[p].call)
           i == Rank[stage[p]]
           j == Rank[stage'[p]]
<1>1. m \in 0 .. 12 /\ n \in 0 .. 12
  BY PlaceType
<1>2. stage[p] \in Stages /\ stage'[p] \in Stages
  BY DEF IInv, TypeOK
<1>3. i \in 0 .. 6 /\ j \in 0 .. 6
  BY <1>2, RankType
<1>4. StepsLeft(p) = 13 * (6 - i) + m + 1
  BY DEF StepsLeft
<1>5. StepsLeft(p)' = IF pc'[p] = "idle" THEN 0 ELSE 13 * (6 - j) + n + 1
  BY DEF StepsLeft
<1>6. pc'[p] = "idle" \/ j > i \/ (j = i /\ n < m)
  BY DEF Forward
<1> HIDE DEF m, n, i, j
<1> QED BY <1>1, <1>3, <1>4, <1>5, <1>6

\* Every call of the kernel ends within 91 steps of its own, whatever the other calls, the
\* other teachers and the failures around it do: each of its steps lowers the number that is
\* left, and nobody else's does.
THEOREM CallsAreFinite ==
  Spec => [][\A p \in Procs :
               /\ Call(p) => StepsLeft(p)' = 91
               /\ Run(p) \/ Raise(p) \/ Crash(p) => StepsLeft(p)' \in 0 .. StepsLeft(p) - 1
               /\ ~Step(p) => StepsLeft(p)' = StepsLeft(p)]_vars
<1> DEFINE Counts(p) ==
      /\ Call(p) => StepsLeft(p)' = 91
      /\ Run(p) \/ Raise(p) \/ Crash(p) => StepsLeft(p)' \in 0 .. StepsLeft(p) - 1
      /\ ~Step(p) => StepsLeft(p)' = StepsLeft(p)
<1>1. IInv /\ [Next]_vars => [\A p \in Procs : Counts(p)]_vars
  <2> SUFFICES ASSUME IInv, Next, NEW p \in Procs PROVE Counts(p)
    OBVIOUS
  <2>1. ASSUME Call(p) PROVE StepsLeft(p)' = 91
    <3>1. stage'[p] = "preflight" /\ pc'[p] = "revalidate"
      BY <2>1 DEF IInv, TypeOK, Call, Keep
    <3> QED BY <3>1, RankValues DEF StepsLeft, Place
  <2>2. ASSUME Run(p) \/ Raise(p) \/ Crash(p) PROVE StepsLeft(p)' \in 0 .. StepsLeft(p) - 1
    <3>1. TypeOK'
      BY <2>2, TypeStep DEF Step
    <3> QED BY <2>2, <3>1, StepForward, ForwardLowers
  <2>3. ASSUME ~Step(p) PROVE StepsLeft(p)' = StepsLeft(p)
    <3>1. Same(p)
      BY <2>3, StepSame, WorldSame DEF Next, Step, World
    <3> QED BY <3>1 DEF Same, StepsLeft
  <2> QED BY <2>1, <2>2, <2>3
<1> QED BY <1>1, Invariance, PTL DEF Spec
===================================================================================

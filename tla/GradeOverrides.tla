----------------------------- MODULE GradeOverrides -----------------------------
(***************************************************************************)
(* A teacher's override of one student's Grade: an immutable history of    *)
(* decisions, a pointer to the selected one and a lock file                *)
(* (meridian/teacher_grade_override_storage.py), and the reviewed          *)
(* workflows that author, withdraw and select decisions                    *)
(* (teacher_grade_override_workflow.py, teacher_grade_override_lifecycle   *)
(* .py).  A preview is reviewed by the teacher and may be committed at any *)
(* later time, and again after a commit that failed.                       *)
(*                                                                         *)
(* An override is bound to the selected base Grade result, which belongs   *)
(* to another store with a lock of its own: it may change between any two  *)
(* steps of a call.                                                        *)
(***************************************************************************)
EXTENDS Naturals, Sequences

CONSTANTS Procs,      \* processes that run the workflows
          CallsOf,    \* the calls each of them makes
          Results,    \* revisions of the base Grade result
          MaxRev,     \* bound on the revisions of the override family
          MaxChanges, \* bound on the selections of another base result
          MaxFailures,\* bound on the crashes and the system calls that fail
          Absent,     \* no base result is selected; no process
          Orphan      \* the lock file of a process that was killed

Previews == {"preview author", "preview withdraw", "preview select"}
Commits == {"author", "withdraw", "select"}
Calls == Previews \cup Commits

ASSUME OverrideAssumption ==
  /\ CallsOf \in [Procs -> SUBSET Calls]
  /\ MaxRev \in Nat /\ MaxChanges \in Nat /\ MaxFailures \in Nat
  /\ Absent \notin Results /\ Absent \notin Procs
  /\ Orphan \notin Procs /\ Orphan # Absent

Revs == 1 .. MaxRev
Pointers == 0 .. MaxRev

\* TeacherGradeOverrideDecision: the author stands for actor, rationale and Grade; a
\* withdrawal names the override it withdraws.
Decisions == [kind : {"override", "withdraw"}, source : Results, by : Procs,
              withdraws : Pointers]

\* A reviewed preview: the history it saw, the selected revision it expects, and the
\* decision to write (or, of a selection, the decision to select).
Plans == [op : {"author", "withdraw", "select"}, length : Pointers, current : Pointers,
          decision : Decisions]
NoPlan == [op |-> "none"]

LockedSteps == {"check", "guard", "pair", "digest", "swap", "rename", "reload", "unlock"}
Steps == LockedSteps \cup
         {"idle", "base", "again", "pointer", "list", "confirm", "exists", "lock", "after"}
Outcomes == {"none", "created", "existing", "refused"}

VARIABLES history,  \* the committed decisions, oldest first
          pointer,  \* the selected revision, 0 if there is none
          lock,     \* the owner of .write.lock
          torn,     \* what an unfinished write has left: "none", "revisions" or "pointer"
          base,     \* the selected base Grade result
          pc,       \* the next step of each process
          plan,     \* its reviewed preview
          my,       \* its call: what it has read, and how it ended
          changes, failures

\* base and pointer are what the call has read.  The last three are history variables: the
\* results selected since the call began, whether an older one was selected again, and the
\* one selected when the call wrote its decision.
Locals == [call : Calls \cup {"none"}, base : Results \cup {Absent}, pointer : Pointers,
           replay : BOOLEAN, outcome : Outcomes,
           past : SUBSET (Results \cup {Absent}), back : BOOLEAN, under : Results \cup {Absent}]
NoCall == [call |-> "none", base |-> Absent, pointer |-> 0, replay |-> FALSE, outcome |-> "none",
           past |-> {}, back |-> FALSE, under |-> Absent]

family == <<history, pointer, lock, torn>>
counters == <<changes, failures>>
vars == <<family, base, pc, plan, my, counters>>

Init ==
  /\ history = <<>> /\ pointer = 0 /\ lock = Absent /\ torn = "none"
  /\ base \in Results \cup {Absent}
  /\ pc = [p \in Procs |-> "idle"]
  /\ plan = [p \in Procs |-> NoPlan]
  /\ my = [p \in Procs |-> NoCall]
  /\ changes = 0 /\ failures = 0

-----------------------------------------------------------------------------
(* Previews, and the checks a commit makes before it writes *)

Goto(p, step) == pc' = [pc EXCEPT ![p] = step]
Then(p, step) == Goto(p, step) /\ UNCHANGED my
Call(p) == my[p].call
\* A call that is refused, or is over, is forgotten: only an authoring that was reported as
\* created is remembered, until the next call.
End(p) == Goto(p, "idle") /\ my' = [my EXCEPT ![p] = NoCall]
Refuse(p) == End(p)
\* Out of the locked section, through its finally clause.
Leave(p, result) == Goto(p, "unlock") /\ my' = [my EXCEPT ![p].outcome = result]

\* _load_current_selection: the family directory is only validated when there is a pointer.
PointerReadable == pointer = 0 \/ torn # "pointer"
\* list_teacher_grade_override_revisions
Listable == torn = "none"

FirstStep(c) == IF c = "preview author" THEN "base"
                ELSE IF c = "preview withdraw" THEN "pointer" ELSE "list"

\* A teacher calls for a preview, or commits the one that was reviewed last.
Start(p, c) ==
  /\ pc[p] = "idle" /\ Goto(p, FirstStep(c))
  /\ c \in Commits => plan[p].op = c
  /\ my' = [my EXCEPT ![p] = [NoCall EXCEPT !.call = c,
                               !.past = IF c = "author" THEN {base} ELSE {}]]
  /\ plan' = IF c \in Previews THEN [plan EXCEPT ![p] = NoPlan] ELSE plan
  /\ UNCHANGED <<family, base, counters>>

\* load_selected_teacher_grade_override_source
ReadBase(p) ==
  /\ pc[p] = "base"
  /\ IF base = Absent THEN Refuse(p)
     ELSE Goto(p, "again") /\ my' = [my EXCEPT ![p].base = base]
  /\ UNCHANGED <<family, base, plan, counters>>

\* Its freshness is assessed for the teacher, and it has to be selected still.
BaseAgain(p) ==
  /\ pc[p] = "again"
  /\ IF base = my[p].base THEN Then(p, "list") ELSE Refuse(p)
  /\ UNCHANGED <<family, base, plan, counters>>

\* The selected decision, as the preview of a withdrawal reads it.
ReadActive(p) ==
  /\ pc[p] = "pointer" /\ Call(p) = "preview withdraw"
  /\ IF pointer # 0 /\ PointerReadable /\ history[pointer].kind = "override"
     THEN Goto(p, "list") /\ my' = [my EXCEPT ![p].pointer = pointer]
     ELSE Refuse(p)
  /\ UNCHANGED <<family, base, plan, counters>>

\* The preview of a selection ends with what it would replace.
ReadReplaced(p) ==
  /\ pc[p] = "pointer" /\ Call(p) = "preview select"
  /\ IF PointerReadable
     THEN End(p) /\ plan' = [plan EXCEPT ![p].current = pointer]
     ELSE Refuse(p) /\ plan' = [plan EXCEPT ![p] = NoPlan]
  /\ UNCHANGED <<family, base, counters>>

PlanOf(op, length, current, decision) ==
  [op |-> op, length |-> length, current |-> current, decision |-> decision]
Override(p) == [kind |-> "override", source |-> my[p].base, by |-> p, withdraws |-> 0]
Withdrawal(p) == [kind |-> "withdraw", source |-> history[my[p].pointer].source, by |-> p,
                  withdraws |-> my[p].pointer]

\* The end of an authoring or withdrawal preview.  MaxRev bounds the history.
PreviewWrite(p) ==
  /\ pc[p] = "list" /\ Call(p) \in {"preview author", "preview withdraw"}
  /\ IF Listable /\ Len(history) < MaxRev
     THEN /\ End(p)
          /\ plan' = [plan EXCEPT ![p] =
               IF Call(p) = "preview author" THEN PlanOf("author", Len(history), 0, Override(p))
               ELSE PlanOf("withdraw", Len(history), my[p].pointer, Withdrawal(p))]
     ELSE Refuse(p) /\ UNCHANGED plan
  /\ UNCHANGED <<family, base, counters>>

\* Only the latest authored decision may be selected.
PreviewSelect(p) ==
  /\ pc[p] = "list" /\ Call(p) = "preview select"
  /\ IF Listable /\ history # <<>>
     THEN /\ plan' = [plan EXCEPT ![p] =
                        PlanOf("select", Len(history), 0, history[Len(history)])]
          /\ Then(p, "pointer")
     ELSE Refuse(p) /\ UNCHANGED plan
  /\ UNCHANGED <<family, base, counters>>

\* A commit first compares the history with the reviewed one; a plan that was written
\* already is replayed.
CompareHistory(p) ==
  /\ pc[p] = "list" /\ Call(p) \in {"author", "withdraw", "select"}
  /\ LET same == Len(history) = plan[p].length
         replay == /\ Call(p) # "select" /\ Len(history) = plan[p].length + 1
                   /\ history[Len(history)] = plan[p].decision
     IN  IF Listable /\ (same \/ replay)
         THEN /\ my' = [my EXCEPT ![p].replay = replay]
              /\ Goto(p, IF replay THEN "exists" ELSE "confirm")
         ELSE Refuse(p)
  /\ UNCHANGED <<family, base, plan, counters>>

\* What an override is bound to, what a withdrawal withdraws and what a selection
\* replaces is still selected.
StillSelected(p) ==
  IF Call(p) = "author" THEN base = plan[p].decision.source
  ELSE PointerReadable /\ pointer = plan[p].current

Confirm(p) ==
  /\ pc[p] = "confirm"
  /\ IF StillSelected(p) THEN Then(p, IF Call(p) = "select" THEN "lock" ELSE "exists")
     ELSE Refuse(p)
  /\ UNCHANGED <<family, base, plan, counters>>

-----------------------------------------------------------------------------
(* write_teacher_grade_override_revision and select_teacher_grade_override_revision *)

Written(p) == Len(history) > plan[p].length
Identical(p) == Written(p) /\ history[plan[p].length + 1] = plan[p].decision

\* Before the lock: identical bytes are a replay, other bytes a conflict, half a pair an
\* integrity error.
Exists(p) ==
  /\ pc[p] = "exists"
  /\ \/ torn # "none" /\ Refuse(p)
     \/ Written(p) /\ ~Identical(p) /\ Refuse(p)
     \/ Identical(p) /\ torn # "pointer" /\ Then(p, "after")
     \/ ~Written(p) /\ Then(p, "lock")
  /\ UNCHANGED <<family, base, plan, counters>>

\* Faulty variant: the lock is taken over.
LockShared(p) ==
  /\ pc[p] = "lock" /\ Then(p, "check") /\ lock' = p
  /\ UNCHANGED <<history, pointer, torn, base, plan, counters>>

\* A selection loads its target before the lock.
Lock(p) ==
  /\ pc[p] = "lock"
  /\ IF lock = Absent /\ ~(Call(p) = "select" /\ torn = "pointer")
     THEN Then(p, "check") /\ lock' = p
     ELSE Refuse(p) /\ UNCHANGED lock
  /\ UNCHANGED <<history, pointer, torn, base, plan, counters>>

\* Under the lock: the family directory, a replay, the whole history, the next revision,
\* and the override a withdrawal names.
Check(p) ==
  /\ pc[p] = "check" /\ Call(p) # "select"
  /\ LET d == plan[p].decision
         named == d.kind = "withdraw" =>
                    /\ d.withdraws \in 1 .. Len(history)
                    /\ history[d.withdraws].kind = "override"
                    /\ history[d.withdraws].source = d.source
     IN  IF Identical(p) /\ torn # "pointer" THEN Leave(p, "none")
         ELSE IF Listable /\ Len(history) = plan[p].length /\ named THEN Then(p, "guard")
         ELSE Leave(p, "refused")
  /\ UNCHANGED <<family, base, plan, counters>>

CompareAndSwap(p) ==
  /\ pc[p] = "check" /\ Call(p) = "select"
  /\ IF torn = "pointer" THEN Leave(p, "refused")
     ELSE IF pointer = plan[p].length THEN Leave(p, "existing")
     ELSE IF pointer # plan[p].current THEN Leave(p, "refused")
     ELSE Then(p, "swap")
  /\ UNCHANGED <<family, base, plan, counters>>

\* Faulty variant: the authority checked before the lock is trusted.
GuardTrusted(p) ==
  /\ pc[p] = "guard" /\ Then(p, "pair")
  /\ UNCHANGED <<family, base, plan, counters>>

\* precommit_guard, called under the lock just before the first byte is written.
Guard(p) ==
  /\ pc[p] = "guard"
  /\ IF StillSelected(p) THEN Then(p, "pair") ELSE Leave(p, "refused")
  /\ UNCHANGED <<family, base, plan, counters>>

\* The revision's JSON, by way of a temporary file in the same directory.
CreateJson(p) ==
  /\ pc[p] = "pair" /\ Then(p, "digest") /\ torn' = "revisions"
  /\ UNCHANGED <<history, pointer, lock, base, plan, counters>>

\* Its digest completes the pair.
CreateDigest(p) ==
  /\ pc[p] = "digest" /\ Goto(p, "reload") /\ torn' = "none"
  /\ history' = Append(history, plan[p].decision)
  /\ my' = [my EXCEPT ![p].under = base]
  /\ UNCHANGED <<pointer, lock, base, plan, counters>>

\* The new pointer, in a temporary file beside current.json.
FillPointer(p) ==
  /\ pc[p] = "swap" /\ Then(p, "rename") /\ torn' = "pointer"
  /\ UNCHANGED <<history, pointer, lock, base, plan, counters>>

RenamePointer(p) ==
  /\ pc[p] = "rename" /\ Then(p, "reload") /\ torn' = "none"
  /\ pointer' = plan[p].length
  /\ UNCHANGED <<history, lock, base, plan, counters>>

\* What was written is read back; a write then continues behind the lock.
Reload(p) ==
  /\ pc[p] = "reload" /\ Leave(p, IF Call(p) = "select" THEN "created" ELSE "none")
  /\ UNCHANGED <<family, base, plan, counters>>

Unlock(p) ==
  /\ pc[p] = "unlock" /\ lock' = Absent
  /\ IF my[p].outcome = "none" THEN Then(p, "after") ELSE End(p)
  /\ UNCHANGED <<history, pointer, torn, base, plan, counters>>

\* Faulty variant: nothing is verified once the revision is written.
AfterTrusted(p) ==
  /\ pc[p] = "after" /\ Then(p, "pointer")
  /\ UNCHANGED <<family, base, plan, counters>>

\* The source result of an override has to be selected still; that of a withdrawal only
\* has to be there.
After(p) ==
  /\ pc[p] = "after"
  /\ IF Call(p) = "author" /\ base # plan[p].decision.source THEN Refuse(p)
     ELSE Then(p, "pointer")
  /\ UNCHANGED <<family, base, plan, counters>>

\* A written commit ends with the selected override; that of a withdrawal may not have moved.
ReadSelected(p) ==
  /\ pc[p] = "pointer" /\ Call(p) \in {"author", "withdraw"}
  /\ LET moved == Call(p) = "withdraw" /\ ~my[p].replay /\ pointer # plan[p].current
     IN  IF ~PointerReadable \/ moved \/ my[p].replay \/ Call(p) = "withdraw" THEN End(p)
         ELSE /\ Goto(p, "idle")
              /\ my' = [my EXCEPT ![p].outcome = "created", ![p].past = {}]
  /\ UNCHANGED <<family, base, plan, counters>>

-----------------------------------------------------------------------------
(* Failing system calls, crashes, and the other stores *)

\* A call that fails while a file is created removes what it has left, or fails at that too.
Raise(p) ==
  /\ failures < MaxFailures /\ failures' = failures + 1
  /\ \/ /\ pc[p] \in {"pair", "digest"} /\ Leave(p, "refused")
        /\ torn' \in {"none", "revisions"} /\ UNCHANGED lock
     \/ /\ pc[p] \in {"swap", "rename"} /\ Leave(p, "refused")
        /\ torn' \in {torn, IF torn = "pointer" THEN "none" ELSE "pointer"} /\ UNCHANGED lock
     \/ /\ pc[p] = "reload" /\ Leave(p, "refused") /\ UNCHANGED <<torn, lock>>
     \/ /\ pc[p] = "unlock" /\ Refuse(p) /\ lock' = Orphan /\ UNCHANGED torn
  /\ UNCHANGED <<history, pointer, base, plan, changes>>

\* A process that is killed forgets its preview and leaves its lock file behind.
Crash(p) ==
  /\ pc[p] # "idle" /\ failures < MaxFailures /\ failures' = failures + 1
  /\ Refuse(p)
  /\ lock' = IF lock = p THEN Orphan ELSE lock
  /\ plan' = [plan EXCEPT ![p] = NoPlan]
  /\ UNCHANGED <<history, pointer, torn, base, changes>>

\* The selection of a base result is a compare-and-swap that may return to an older one.
SelectBase ==
  /\ changes < MaxChanges /\ changes' = changes + 1
  /\ base' \in Results \ {base}
  /\ my' = [q \in Procs |->
       IF pc[q] = "idle" \/ my[q].past = {} THEN my[q]
       ELSE [my[q] EXCEPT !.past = @ \cup {base'}, !.back = @ \/ base' \in my[q].past]]
  /\ UNCHANGED <<family, pc, plan, failures>>

Run(p) ==
  \/ ReadBase(p) \/ BaseAgain(p) \/ ReadActive(p) \/ ReadReplaced(p)
  \/ PreviewWrite(p) \/ PreviewSelect(p) \/ CompareHistory(p) \/ Confirm(p)
  \/ Exists(p) \/ Lock(p) \/ Check(p) \/ CompareAndSwap(p) \/ Guard(p)
  \/ CreateJson(p) \/ CreateDigest(p) \/ FillPointer(p) \/ RenamePointer(p)
  \/ Reload(p) \/ Unlock(p) \/ After(p) \/ ReadSelected(p)

Next ==
  \/ SelectBase
  \/ \E p \in Procs : Run(p) \/ Raise(p) \/ Crash(p) \/ \E c \in CallsOf[p] : Start(p, c)

Spec == Init /\ [][Next]_vars

-----------------------------------------------------------------------------
(* What overriding a Grade promises *)

TypeOK ==
  /\ history \in Seq(Decisions) /\ Len(history) \in Pointers
  /\ pointer \in 0 .. Len(history)
  /\ lock \in Procs \cup {Absent, Orphan}
  /\ torn \in {"none", "revisions", "pointer"}
  /\ base \in Results \cup {Absent}
  /\ pc \in [Procs -> Steps]
  /\ plan \in [Procs -> Plans \cup {NoPlan}]
  /\ my \in [Procs -> Locals]
  /\ changes \in 0 .. MaxChanges /\ failures \in 0 .. MaxFailures

\* However the previews, commits, failures and crashes of several teachers interleave, the
\* family is a history that only grows by withdrawals of what is selected and by overrides,
\* and a selection that only moves forward: a superseded decision never comes back, although
\* the latest one is looked up before the lock is taken and the store accepts any revision.
Family == INSTANCE OverrideDecisions

ImplementsDecisions == Family!Spec

\* An override whose authoring was reported as created was written while its source was
\* the selected result, unless an older result was selected again in the meantime: the
\* store of results has another lock, and may change between the guard and the write.
AuthoredOnSelected ==
  \A p \in Procs : Call(p) = "author" /\ my[p].outcome = "created" =>
    my[p].under = plan[p].decision.source \/ my[p].back
=============================================================================

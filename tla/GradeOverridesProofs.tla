-------------------------- MODULE GradeOverridesProofs --------------------------
(***************************************************************************)
(* GradeOverrides implements OverrideDecisions, and an override that was   *)
(* reported as created was written on the selected result.                 *)
(*                                                                         *)
(* Only the owner of the lock changes history or pointer, so what a call   *)
(* finds under the lock still holds when it writes.  The history only      *)
(* grows, so the pointer a selection replaces, which was inside the        *)
(* reviewed history, is below the revision it selects.  The selected       *)
(* result belongs to another store: it was the source before the write and *)
(* again after it, so it was the source at the write or has returned.      *)
(***************************************************************************)
EXTENDS GradeOverrides, TLAPS

\* Which call can be at which step.  Everything a process p knows is stated for a step s, a
\* call m, a reviewed preview d and a state h, ptr, lk, b of family and result.
CallInv(s, m, d) ==
  /\ s = "idle" => m.call = "none" \/ (m.call = "author" /\ m.outcome = "created")
  /\ s \in {"base", "again"} => m.call = "preview author"
  /\ s = "pointer" => m.call \in {"preview withdraw", "preview select", "author", "withdraw"}
  /\ s = "list" => m.call \in Calls
  /\ s \in {"confirm", "lock", "check", "reload", "unlock"} => m.call \in Commits
  /\ s \in {"exists", "guard", "pair", "digest", "after"} => m.call \in {"author", "withdraw"}
  /\ s \in {"swap", "rename"} => m.call = "select"
  /\ m.call \in Commits => d.op = m.call
  /\ s = "pointer" /\ m.call = "preview select" => d.op = "select"
  /\ m.call # "select" /\ m.outcome = "created" => s = "idle"
  /\ m.call = "select" /\ s = "unlock" => m.outcome # "none"

\* A reviewed preview describes a part of the history.
PlanInv(p, d, h) ==
  /\ d.op \in {"author", "withdraw"} =>
       d.length < MaxRev /\ d.length <= Len(h) /\ d.decision.by = p
  /\ d.op = "author" => d.decision.kind = "override"
  /\ d.op = "withdraw" =>
       /\ d.current \in 1 .. Len(h) /\ d.decision.kind = "withdraw"
       /\ d.decision.withdraws = d.current /\ d.decision.source = h[d.current].source
  /\ d.op = "select" => d.length \in 1 .. Len(h) /\ d.current <= Len(h)

\* What a preview has read.
ReadInv(s, m, h) ==
  /\ s \in {"again", "list"} /\ m.call = "preview author" => m.base \in Results
  /\ s = "list" /\ m.call = "preview withdraw" => m.pointer \in 1 .. Len(h)

\* What a writer knows.
WriteInv(p, s, m, d, h, ptr, lk) ==
  /\ s \in LockedSteps => lk = p
  /\ s \in {"guard", "pair", "digest"} => Len(h) = d.length
  /\ s \in {"pair", "digest"} /\ m.call = "withdraw" => ptr = d.current
  /\ m.call = "select" /\ s \in {"confirm", "lock", "check", "swap", "rename"} =>
       d.current <= d.length
  /\ s \in {"swap", "rename"} => ptr = d.current /\ ptr # d.length

\* The decision was written while its source was selected, or an older result has been
\* selected again.
WroteOnSource(m, d) == m.under = d.decision.source \/ m.back

\* What an authoring that is no replay knows about the selected result.
SourceInv(p, s, m, d, h, b) ==
  m.call = "author" =>
  /\ ~m.replay /\ s \in {"confirm", "exists", "lock", "check"} =>
       \A i \in 1 .. Len(h) : i > d.length => h[i].by # p
  /\ s # "idle" => b \in m.past
  /\ s \in {"pair", "digest"} => d.decision.source \in m.past
  /\ ~m.replay /\ (s \in {"reload", "after"} \/ (s = "unlock" /\ m.outcome = "none")) =>
       WroteOnSource(m, d) \/ (b # d.decision.source /\ d.decision.source \in m.past)
  /\ ~m.replay /\ s = "pointer" => WroteOnSource(m, d)
  /\ m.outcome = "created" => WroteOnSource(m, d)

Knows(p, s, m, d, h, ptr, lk, b) ==
  /\ CallInv(s, m, d) /\ PlanInv(p, d, h) /\ ReadInv(s, m, h)
  /\ WriteInv(p, s, m, d, h, ptr, lk) /\ SourceInv(p, s, m, d, h, b)

Mine(p) == Knows(p, pc[p], my[p], plan[p], history, pointer, lock, base)

\* The inductive invariant.
IInv == TypeOK /\ \A p \in Procs : Mine(p)

-----------------------------------------------------------------------------
(* A step of one process *)

\* Appending a decision keeps the older ones.
LEMMA Appended ==
  ASSUME NEW h \in Seq(Decisions), NEW d \in Decisions
  PROVE  /\ Append(h, d) \in Seq(Decisions)
         /\ Len(h) \in Nat /\ Len(Append(h, d)) = Len(h) + 1
         /\ \A i \in 1 .. Len(h) : Append(h, d)[i] = h[i]
         /\ Append(h, d)[Len(h) + 1] = d
  OBVIOUS

\* The fields of a call that a step does not assign.
LEMMA NoCallIsLocal == NoCall \in Locals
  <1>1. 0 \in Pointers BY OverrideAssumption DEF Pointers
  <1>2. "none" \in Outcomes BY DEF Outcomes
  <1>. QED BY <1>1, <1>2 DEF NoCall, Locals

\* The family after a step of p: only the owner of the lock changes it.
FamilyStep(p) ==
  /\ history' = history \/ (lock = p /\ \E d \in Decisions : d.by = p /\ history' = Append(history, d))
  /\ pointer' = pointer \/ lock = p
  /\ \A q \in Procs \ {p} : lock = q => lock' = q

\* What another process knows survives a step of p.
LEMMA OthersKnow ==
  ASSUME TypeOK, NEW p \in Procs, FamilyStep(p), NEW q \in Procs, q # p,
         NEW s, NEW m, NEW d \in Plans \cup {NoPlan},
         Knows(q, s, m, d, history, pointer, lock, base)
  PROVE  Knows(q, s, m, d, history', pointer', lock', base)
  <1>1. /\ Len(history) \in Nat /\ Len(history') \in Nat /\ Len(history) <= Len(history')
        /\ \A i \in 1 .. Len(history) : history'[i] = history[i]
        /\ \A i \in 1 .. Len(history') : i > Len(history) => history'[i].by = p
    <2>1. CASE history' = history BY <2>1 DEF TypeOK
    <2>2. CASE history' # history
      <3>1. PICK e \in Decisions : e.by = p /\ history' = Append(history, e)
        BY <2>2 DEF FamilyStep
      <3>2. history \in Seq(Decisions) BY DEF TypeOK
      <3>3. /\ Len(history) \in Nat /\ Len(history') = Len(history) + 1
            /\ \A i \in 1 .. Len(history) : history'[i] = history[i]
            /\ history'[Len(history) + 1] = e
        BY <3>1, <3>2, Appended
      <3>. QED BY <3>1, <3>3
    <2>. QED BY <2>1, <2>2
  <1>2. s \in LockedSteps => lock = q /\ lock' = q /\ history' = history /\ pointer' = pointer
    BY DEF FamilyStep, Knows, WriteInv
  <1>7. CallInv(s, m, d) BY DEF Knows
  <1>3. ReadInv(s, m, history')
    <2>1. ReadInv(s, m, history) /\ 1 .. Len(history) \subseteq 1 .. Len(history')
      BY <1>1 DEF Knows
    <2>. QED BY <2>1 DEF ReadInv
  <1>6. SourceInv(q, s, m, d, history', base)
    <2>1. ASSUME \A i \in 1 .. Len(history) : i > d.length => history[i].by # q,
                 NEW i \in 1 .. Len(history'), i > d.length
          PROVE  history'[i].by # q
      <3>1. CASE i <= Len(history) BY <1>1, <2>1, <3>1
      <3>2. CASE i > Len(history) BY <1>1, <2>1, <3>2
      <3>. QED BY <1>1, <2>1, <3>1, <3>2
    <2>. QED BY <2>1 DEF Knows, SourceInv
  <1>4. PlanInv(q, d, history')
    <2>1. CASE d = NoPlan BY <2>1 DEF NoPlan, PlanInv
    <2>2. CASE d \in Plans
      <3>. d.length \in Nat /\ d.current \in Nat BY <2>2 DEF Plans, Pointers
      <3>. QED BY <1>1 DEF Knows, PlanInv
    <2>. QED BY <2>1, <2>2
  <1>5. WriteInv(q, s, m, d, history', pointer', lock')
    BY <1>2 DEF Knows, WriteInv, LockedSteps
  <1>. QED BY <1>3, <1>4, <1>5, <1>6, <1>7 DEF Knows

\* The state of the family.
FamilyType ==
  /\ history \in Seq(Decisions) /\ Len(history) \in Pointers
  /\ pointer \in 0 .. Len(history)
  /\ lock \in Procs \cup {Absent, Orphan}
  /\ torn \in {"none", "revisions", "pointer"}
  /\ changes \in 0 .. MaxChanges /\ failures \in 0 .. MaxFailures

\* A step of p preserves the invariant if p knows enough after it.
LEMMA StepKeeps ==
  ASSUME IInv, NEW p \in Procs, FamilyStep(p), FamilyType', base' = base,
         NEW s \in Steps, NEW m \in Locals, NEW d \in Plans \cup {NoPlan},
         pc' = [pc EXCEPT ![p] = s], my' = [my EXCEPT ![p] = m],
         plan' = [plan EXCEPT ![p] = d],
         Knows(p, s, m, d, history', pointer', lock', base)
  PROVE  IInv'
  <1>1. /\ pc \in [Procs -> Steps] /\ my \in [Procs -> Locals]
        /\ plan \in [Procs -> Plans \cup {NoPlan}] /\ TypeOK
    BY DEF IInv, TypeOK
  <1>2. TypeOK' BY <1>1 DEF FamilyType, TypeOK
  <1>3. pc'[p] = s /\ my'[p] = m /\ plan'[p] = d BY <1>1
  <1>4. Mine(p)' BY <1>3 DEF Mine
  <1>5. ASSUME NEW q \in Procs, q # p PROVE Mine(q)'
    <2>1. pc'[q] = pc[q] /\ my'[q] = my[q] /\ plan'[q] = plan[q] BY <1>1, <1>5
    <2>2. Knows(q, pc[q], my[q], plan[q], history, pointer, lock, base)
      BY <1>5 DEF IInv, Mine
    <2>3. plan[q] \in Plans \cup {NoPlan} BY <1>1, <1>5
    <2>4. Knows(q, pc[q], my[q], plan[q], history', pointer', lock', base)
      BY <1>1, <1>5, <2>2, <2>3, OthersKnow
    <2>. QED BY <2>1, <2>4 DEF Mine
  <1>. QED BY <1>2, <1>4, <1>5 DEF IInv

\* The same, of a step that leaves the family alone.
LEMMA QuietStepKeeps ==
  ASSUME IInv, NEW p \in Procs, UNCHANGED <<family, base, counters>>,
         NEW s \in Steps, NEW m \in Locals, NEW d \in Plans \cup {NoPlan},
         pc' = [pc EXCEPT ![p] = s], my' = [my EXCEPT ![p] = m],
         plan' = [plan EXCEPT ![p] = d],
         Knows(p, s, m, d, history, pointer, lock, base)
  PROVE  IInv'
  <1>1. FamilyStep(p) /\ base' = base BY DEF FamilyStep, family
  <1>2. FamilyType' BY DEF FamilyType, family, counters, IInv, TypeOK
  <1>3. Knows(p, s, m, d, history', pointer', lock', base) BY DEF family
  <1>. QED BY <1>1, <1>2, <1>3, StepKeeps

\* What holds of a process before its step.
LEMMA Before ==
  ASSUME IInv, NEW p \in Procs
  PROVE  /\ pc[p] \in Steps /\ my[p] \in Locals /\ plan[p] \in Plans \cup {NoPlan}
         /\ pc = [pc EXCEPT ![p] = pc[p]] /\ my = [my EXCEPT ![p] = my[p]]
         /\ plan = [plan EXCEPT ![p] = plan[p]]
         /\ Knows(p, pc[p], my[p], plan[p], history, pointer, lock, base)
         /\ history \in Seq(Decisions) /\ Len(history) \in 0 .. MaxRev
         /\ pointer \in 0 .. Len(history) /\ pointer \in Pointers
         /\ 0 \in Pointers /\ Len(history) \in Pointers
         /\ \A i \in 1 .. Len(history) : i \in Pointers /\ history[i] \in Decisions
         /\ plan[p].op # "none" => plan[p] \in Plans
  <1>1. /\ history \in Seq(Decisions) /\ Len(history) \in Nat /\ Len(history) \in 0 .. MaxRev
        /\ pointer \in 0 .. Len(history)
    BY DEF IInv, TypeOK, Pointers
  <1>2. \A i \in 0 .. Len(history) : i \in 0 .. MaxRev BY <1>1, OverrideAssumption
  <1>3. \A i \in 1 .. Len(history) : history[i] \in Decisions BY <1>1
  <1>4. \A i \in 1 .. Len(history) : i \in Pointers BY <1>1, <1>2 DEF Pointers
  <1>5. 0 \in Pointers /\ Len(history) \in Pointers /\ pointer \in Pointers
    BY <1>1, <1>2, OverrideAssumption DEF Pointers
  <1>6. /\ pc \in [Procs -> Steps] /\ my \in [Procs -> Locals]
        /\ plan \in [Procs -> Plans \cup {NoPlan}]
    BY DEF IInv, TypeOK
  <1>7. plan[p].op # "none" => plan[p] \in Plans BY <1>6 DEF NoPlan
  <1>8. Knows(p, pc[p], my[p], plan[p], history, pointer, lock, base) BY DEF IInv, Mine
  <1>. QED BY <1>1, <1>3, <1>4, <1>5, <1>6, <1>7, <1>8

\* A call that is over knows nothing but its reviewed preview.
LEMMA EndKnows ==
  ASSUME NEW p, NEW d, NEW h, NEW ptr, NEW lk, NEW b, PlanInv(p, d, h)
  PROVE  Knows(p, "idle", NoCall, d, h, ptr, lk, b)
  BY DEF Knows, CallInv, ReadInv, WriteInv, SourceInv, NoCall, Commits, LockedSteps

\* A call that is refused or over preserves the invariant.
LEMMA EndKeeps ==
  ASSUME IInv, NEW p \in Procs, UNCHANGED <<family, base, plan, counters>>, End(p)
  PROVE  IInv'
  <1>1. "idle" \in Steps /\ NoCall \in Locals BY NoCallIsLocal DEF Steps
  <1>2. Knows(p, "idle", NoCall, plan[p], history, pointer, lock, base)
    BY Before, EndKnows DEF Knows
  <1>3. /\ pc' = [pc EXCEPT ![p] = "idle"] /\ my' = [my EXCEPT ![p] = NoCall]
        /\ plan' = [plan EXCEPT ![p] = plan[p]]
    BY Before DEF End, Goto
  <1>4. plan[p] \in Plans \cup {NoPlan} BY Before
  <1>. QED BY <1>1, <1>2, <1>3, <1>4, QuietStepKeeps

\* A quiet step to s that leaves the call and the preview alone.
LEMMA ThenKeeps ==
  ASSUME IInv, NEW p \in Procs, UNCHANGED <<family, base, plan, counters>>,
         NEW s \in Steps, Then(p, s),
         Knows(p, s, my[p], plan[p], history, pointer, lock, base)
  PROVE  IInv'
  <1>1. /\ pc' = [pc EXCEPT ![p] = s] /\ my' = [my EXCEPT ![p] = my[p]]
        /\ plan' = [plan EXCEPT ![p] = plan[p]]
    BY Before DEF Then, Goto
  <1>. QED BY <1>1, Before, QuietStepKeeps

\* A step out of the locked section.
LEMMA LeaveKnows ==
  ASSUME NEW p, NEW s, NEW m \in Locals, NEW d, NEW h, NEW ptr, NEW lk, NEW b, NEW r \in Outcomes,
         Knows(p, s, m, d, h, ptr, lk, b), m.call \in Commits, lk = p,
         s # "idle", r = "created" => m.call = "select", r = "none" => m.call # "select",
         m.call = "author" /\ ~m.replay /\ r = "none" =>
           WroteOnSource(m, d) \/ (b # d.decision.source /\ d.decision.source \in m.past)
  PROVE  /\ [m EXCEPT !.outcome = r] \in Locals
         /\ Knows(p, "unlock", [m EXCEPT !.outcome = r], d, h, ptr, lk, b)
  <1>. DEFINE n == [m EXCEPT !.outcome = r]
  <1>1. n \in Locals BY DEF Locals
  <1>2. /\ n.call = m.call /\ n.outcome = r /\ n.replay = m.replay /\ n.past = m.past
        /\ n.back = m.back /\ n.under = m.under
    BY DEF Locals
  <1>. HIDE DEF n
  <1>3. CallInv("unlock", n, d) BY <1>2 DEF Knows, CallInv, Commits
  <1>4. ReadInv("unlock", n, h) /\ WriteInv(p, "unlock", n, d, h, ptr, lk)
    BY <1>2 DEF ReadInv, WriteInv
  <1>5. SourceInv(p, "unlock", n, d, h, b)
    BY <1>2 DEF Knows, SourceInv, WroteOnSource
  <1>6. Knows(p, "unlock", n, d, h, ptr, lk, b) BY <1>3, <1>4, <1>5 DEF Knows
  <1>. QED BY <1>1, <1>6 DEF n

LEMMA LeaveKeeps ==
  ASSUME IInv, NEW p \in Procs, UNCHANGED <<family, base, plan, counters>>,
         NEW r \in Outcomes, Leave(p, r), pc[p] \in LockedSteps, Call(p) \in Commits,
         r = "created" => Call(p) = "select", r = "none" => Call(p) # "select",
         Call(p) = "author" /\ ~my[p].replay /\ r = "none" =>
           \/ WroteOnSource(my[p], plan[p])
           \/ base # plan[p].decision.source /\ plan[p].decision.source \in my[p].past
  PROVE  IInv'
  <1>1. lock = p /\ pc[p] # "idle" /\ my[p] \in Locals BY Before DEF Knows, WriteInv, LockedSteps
  <1>2. /\ [my[p] EXCEPT !.outcome = r] \in Locals
        /\ Knows(p, "unlock", [my[p] EXCEPT !.outcome = r], plan[p], history, pointer, lock, base)
    BY <1>1, Before, LeaveKnows DEF Call
  <1>3. /\ pc' = [pc EXCEPT ![p] = "unlock"]
        /\ my' = [my EXCEPT ![p] = [my[p] EXCEPT !.outcome = r]]
        /\ plan' = [plan EXCEPT ![p] = plan[p]]
    BY Before DEF Leave, Goto
  <1>4. "unlock" \in Steps BY DEF Steps, LockedSteps
  <1>. QED BY <1>2, <1>3, <1>4, Before, QuietStepKeeps

-----------------------------------------------------------------------------
(* Previews *)

\* Other calls than an authoring know nothing about the selected result.
LEMMA NotAuthor ==
  ASSUME NEW p, NEW s, NEW m, NEW d, NEW h, NEW b, m.call # "author"
  PROVE  SourceInv(p, s, m, d, h, b)
  BY DEF SourceInv

LEMMA StartKeeps ==
  ASSUME IInv, NEW p \in Procs, NEW c \in Calls, Start(p, c)
  PROVE  IInv'
  <1>. DEFINE m == [NoCall EXCEPT !.call = c, !.past = IF c = "author" THEN {base} ELSE {}]
              d == IF c \in Previews THEN NoPlan ELSE plan[p]
  <1>1. m \in Locals /\ m.call = c /\ m.outcome = "none" /\ ~m.replay
        /\ (c = "author" => base \in m.past)
    <2>1. base \in Results \cup {Absent} BY DEF IInv, TypeOK
    <2>2. NoCall \in Locals BY NoCallIsLocal
    <2>. QED BY <2>1, <2>2 DEF Locals, NoCall
  <1>2. d \in Plans \cup {NoPlan} BY Before
  <1>3. FirstStep(c) \in {"base", "pointer", "list"} /\ FirstStep(c) \in Steps BY DEF FirstStep, Steps
  <1>4. /\ pc' = [pc EXCEPT ![p] = FirstStep(c)] /\ my' = [my EXCEPT ![p] = m]
        /\ plan' = [plan EXCEPT ![p] = d] /\ UNCHANGED <<family, base, counters>>
    BY Before DEF Start, Goto
  <1>. HIDE DEF m
  <1>5. CallInv(FirstStep(c), m, d)
    BY <1>1 DEF Start, FirstStep, CallInv, Commits, Calls, Previews
  <1>6. PlanInv(p, d, history)
    <2>1. PlanInv(p, plan[p], history) BY Before DEF Knows
    <2>2. PlanInv(p, NoPlan, history) BY DEF PlanInv, NoPlan
    <2>. QED BY <2>1, <2>2
  <1>. HIDE DEF d
  <1>7. ReadInv(FirstStep(c), m, history) /\ WriteInv(p, FirstStep(c), m, d, history, pointer, lock)
    BY <1>1 DEF ReadInv, WriteInv, FirstStep, LockedSteps, Calls, Previews, Commits
  <1>8. SourceInv(p, FirstStep(c), m, d, history, base)
    BY <1>1 DEF SourceInv, FirstStep
  <1>9. Knows(p, FirstStep(c), m, d, history, pointer, lock, base)
    BY <1>5, <1>6, <1>7, <1>8 DEF Knows
  <1>. QED BY <1>1, <1>2, <1>3, <1>4, <1>9, QuietStepKeeps

LEMMA ReadBaseKeeps ==
  ASSUME IInv, NEW p \in Procs, ReadBase(p)
  PROVE  IInv'
  <1>1. CASE base = Absent BY <1>1, EndKeeps DEF ReadBase, Refuse
  <1>2. CASE base # Absent
    <2>. DEFINE m == [my[p] EXCEPT !.base = base]
    <2>1. /\ pc[p] = "base" /\ base \in Results /\ my[p].call = "preview author"
      BY <1>2, Before DEF ReadBase, Knows, CallInv, IInv, TypeOK
    <2>2. m \in Locals /\ m.call = my[p].call /\ m.base = base /\ m.outcome = my[p].outcome
      BY <2>1, Before DEF Locals
    <2>3. /\ pc' = [pc EXCEPT ![p] = "again"] /\ my' = [my EXCEPT ![p] = m]
          /\ plan' = [plan EXCEPT ![p] = plan[p]] /\ UNCHANGED <<family, base, counters>>
      BY <1>2, Before DEF ReadBase, Goto
    <2>. HIDE DEF m
    <2>4. CallInv("again", m, plan[p]) BY <2>1, <2>2, Before DEF Knows, CallInv, Commits
    <2>5. ReadInv("again", m, history) BY <2>1, <2>2 DEF ReadInv
    <2>6. WriteInv(p, "again", m, plan[p], history, pointer, lock) BY DEF WriteInv, LockedSteps
    <2>7. SourceInv(p, "again", m, plan[p], history, base) BY <2>1, <2>2, NotAuthor
    <2>8. Knows(p, "again", m, plan[p], history, pointer, lock, base)
      BY <2>4, <2>5, <2>6, <2>7, Before DEF Knows
    <2>9. "again" \in Steps BY DEF Steps
    <2>. QED BY <2>2, <2>3, <2>8, <2>9, Before, QuietStepKeeps
  <1>. QED BY <1>1, <1>2

LEMMA BaseAgainKeeps ==
  ASSUME IInv, NEW p \in Procs, BaseAgain(p)
  PROVE  IInv'
  <1>1. CASE base # my[p].base BY <1>1, EndKeeps DEF BaseAgain, Refuse
  <1>2. CASE base = my[p].base
    <2>1. pc[p] = "again" /\ Then(p, "list") /\ my[p].call = "preview author"
      BY <1>2, Before DEF BaseAgain, Knows, CallInv
    <2>2. Knows(p, "list", my[p], plan[p], history, pointer, lock, base)
      <3>1. CallInv("list", my[p], plan[p])
        BY <2>1, Before DEF Knows, CallInv, Calls, Previews, Commits
      <3>2. ReadInv("list", my[p], history) BY <2>1, Before DEF Knows, ReadInv
      <3>3. WriteInv(p, "list", my[p], plan[p], history, pointer, lock)
        BY DEF WriteInv, LockedSteps
      <3>4. SourceInv(p, "list", my[p], plan[p], history, base) BY <2>1, NotAuthor
      <3>. QED BY <3>1, <3>2, <3>3, <3>4, Before DEF Knows
    <2>3. "list" \in Steps BY DEF Steps
    <2>. QED BY <2>1, <2>2, <2>3, ThenKeeps DEF BaseAgain
  <1>. QED BY <1>1, <1>2

LEMMA ReadActiveKeeps ==
  ASSUME IInv, NEW p \in Procs, ReadActive(p)
  PROVE  IInv'
  <1>1. CASE ~(pointer # 0 /\ PointerReadable /\ history[pointer].kind = "override")
    BY <1>1, EndKeeps DEF ReadActive, Refuse
  <1>2. CASE pointer # 0 /\ PointerReadable /\ history[pointer].kind = "override"
    <2>. DEFINE m == [my[p] EXCEPT !.pointer = pointer]
    <2>1. /\ pc[p] = "pointer" /\ my[p].call = "preview withdraw" /\ pointer \in 1 .. Len(history)
          /\ pointer \in Pointers
      <3>1. pc[p] = "pointer" /\ my[p].call = "preview withdraw" BY DEF ReadActive, Call
      <3>2. pointer \in 1 .. Len(history) BY <1>2, Before
      <3>. QED BY <3>1, <3>2, Before
    <2>2. m \in Locals /\ m.call = my[p].call /\ m.pointer = pointer /\ m.outcome = my[p].outcome
      BY <2>1, Before DEF Locals
    <2>3. /\ pc' = [pc EXCEPT ![p] = "list"] /\ my' = [my EXCEPT ![p] = m]
          /\ plan' = [plan EXCEPT ![p] = plan[p]] /\ UNCHANGED <<family, base, counters>>
      BY <1>2, Before DEF ReadActive, Goto
    <2>. HIDE DEF m
    <2>4. CallInv("list", m, plan[p])
      BY <2>1, <2>2, Before DEF Knows, CallInv, Calls, Previews, Commits
    <2>5. ReadInv("list", m, history) BY <2>1, <2>2 DEF ReadInv
    <2>6. WriteInv(p, "list", m, plan[p], history, pointer, lock) BY DEF WriteInv, LockedSteps
    <2>7. SourceInv(p, "list", m, plan[p], history, base) BY <2>1, <2>2, NotAuthor
    <2>8. Knows(p, "list", m, plan[p], history, pointer, lock, base)
      BY <2>4, <2>5, <2>6, <2>7, Before DEF Knows
    <2>9. "list" \in Steps BY DEF Steps
    <2>. QED BY <2>2, <2>3, <2>8, <2>9, Before, QuietStepKeeps
  <1>. QED BY <1>1, <1>2

\* The end of a preview, with the plan d.
LEMMA PreviewKeeps ==
  ASSUME IInv, NEW p \in Procs, UNCHANGED <<family, base, counters>>, End(p),
         NEW d \in Plans \cup {NoPlan}, plan' = [plan EXCEPT ![p] = d], PlanInv(p, d, history)
  PROVE  IInv'
  <1>1. Knows(p, "idle", NoCall, d, history, pointer, lock, base) BY EndKnows
  <1>2. "idle" \in Steps /\ NoCall \in Locals BY NoCallIsLocal DEF Steps
  <1>. QED BY <1>1, <1>2, QuietStepKeeps DEF End, Goto

LEMMA ReadReplacedKeeps ==
  ASSUME IInv, NEW p \in Procs, ReadReplaced(p)
  PROVE  IInv'
  <1>1. CASE PointerReadable
    <2>. DEFINE d == [plan[p] EXCEPT !.current = pointer]
    <2>1. plan[p].op = "select"
      <3>1. pc[p] = "pointer" /\ my[p].call = "preview select" BY DEF ReadReplaced, Call
      <3>. QED BY <3>1, Before DEF Knows, CallInv
    <2>2. plan[p] \in Plans /\ pointer \in Pointers BY <2>1, Before
    <2>3. /\ d \in Plans /\ d.op = "select" /\ d.length = plan[p].length /\ d.current = pointer
      BY <2>1, <2>2 DEF Plans
    <2>4. PlanInv(p, d, history)
      <3>. HIDE DEF d
      <3>. QED BY <2>1, <2>3, Before DEF Knows, PlanInv
    <2>5. plan' = [plan EXCEPT ![p] = d] BY <1>1 DEF ReadReplaced
    <2>6. End(p) /\ UNCHANGED <<family, base, counters>> BY <1>1 DEF ReadReplaced
    <2>. HIDE DEF d
    <2>. QED BY <2>3, <2>4, <2>5, <2>6, PreviewKeeps
  <1>2. CASE ~PointerReadable
    <2>1. PlanInv(p, NoPlan, history) BY DEF PlanInv, NoPlan
    <2>. QED BY <1>2, <2>1, PreviewKeeps DEF ReadReplaced, Refuse
  <1>. QED BY <1>1, <1>2

LEMMA PreviewWriteKeeps ==
  ASSUME IInv, NEW p \in Procs, PreviewWrite(p)
  PROVE  IInv'
  <1>1. CASE ~(Listable /\ Len(history) < MaxRev) BY <1>1, EndKeeps DEF PreviewWrite, Refuse
  <1>2. CASE Listable /\ Len(history) < MaxRev
    <2>. DEFINE d == IF Call(p) = "preview author"
                     THEN PlanOf("author", Len(history), 0, Override(p))
                     ELSE PlanOf("withdraw", Len(history), my[p].pointer, Withdrawal(p))
    <2>1. /\ pc[p] = "list" /\ my[p].call \in {"preview author", "preview withdraw"}
          /\ plan' = [plan EXCEPT ![p] = d] /\ End(p) /\ UNCHANGED <<family, base, counters>>
      BY <1>2 DEF PreviewWrite, Call
    <2>2. Len(history) \in Pointers /\ 0 \in Pointers BY Before
    <2>3. CASE my[p].call = "preview author"
      <3>1. my[p].base \in Results BY <2>1, <2>3, Before DEF Knows, ReadInv
      <3>2. Override(p) \in Decisions /\ Override(p).by = p /\ Override(p).kind = "override"
        BY <2>2, <3>1 DEF Override, Decisions
      <3>3. d = PlanOf("author", Len(history), 0, Override(p)) BY <2>3 DEF Call
      <3>. HIDE DEF d
      <3>4. d \in Plans /\ d.op = "author" /\ d.length = Len(history) /\ d.decision = Override(p)
        BY <2>2, <3>2, <3>3 DEF PlanOf, Plans
      <3>5. PlanInv(p, d, history) BY <1>2, <3>2, <3>4, Before DEF PlanInv
      <3>. QED BY <2>1, <3>4, <3>5, PreviewKeeps
    <2>4. CASE my[p].call = "preview withdraw"
      <3>1. my[p].pointer \in 1 .. Len(history) BY <2>1, <2>4, Before DEF Knows, ReadInv
      <3>2. my[p].pointer \in Pointers /\ history[my[p].pointer] \in Decisions
        BY <3>1, Before
      <3>3. /\ Withdrawal(p) \in Decisions /\ Withdrawal(p).by = p
            /\ Withdrawal(p).kind = "withdraw" /\ Withdrawal(p).withdraws = my[p].pointer
            /\ Withdrawal(p).source = history[my[p].pointer].source
        BY <3>2 DEF Withdrawal, Decisions
      <3>4. d = PlanOf("withdraw", Len(history), my[p].pointer, Withdrawal(p)) BY <2>4 DEF Call
      <3>. HIDE DEF d
      <3>5. /\ d \in Plans /\ d.op = "withdraw" /\ d.length = Len(history)
            /\ d.current = my[p].pointer /\ d.decision = Withdrawal(p)
        BY <2>2, <3>2, <3>3, <3>4 DEF PlanOf, Plans
      <3>6. PlanInv(p, d, history) BY <1>2, <3>1, <3>3, <3>5, Before DEF PlanInv
      <3>. QED BY <2>1, <3>5, <3>6, PreviewKeeps
    <2>. QED BY <2>1, <2>3, <2>4
  <1>. QED BY <1>1, <1>2

LEMMA PreviewSelectKeeps ==
  ASSUME IInv, NEW p \in Procs, PreviewSelect(p)
  PROVE  IInv'
  <1>1. CASE ~(Listable /\ history # <<>>) BY <1>1, EndKeeps DEF PreviewSelect, Refuse
  <1>2. CASE Listable /\ history # <<>>
    <2>. DEFINE d == PlanOf("select", Len(history), 0, history[Len(history)])
    <2>1. /\ pc[p] = "list" /\ my[p].call = "preview select" /\ plan' = [plan EXCEPT ![p] = d]
          /\ pc' = [pc EXCEPT ![p] = "pointer"] /\ my' = [my EXCEPT ![p] = my[p]]
          /\ UNCHANGED <<family, base, counters>>
      BY <1>2, Before DEF PreviewSelect, Call, Then, Goto
    <2>2. Len(history) \in 1 .. Len(history) /\ Len(history) \in Pointers /\ 0 \in Pointers
          /\ history[Len(history)] \in Decisions
      BY <1>2, Before
    <2>3. d \in Plans /\ d.op = "select" /\ d.length = Len(history) /\ d.current = 0
      BY <2>2 DEF PlanOf, Plans
    <2>. HIDE DEF d
    <2>4. PlanInv(p, d, history) BY <2>2, <2>3 DEF PlanInv
    <2>5. CallInv("pointer", my[p], d)
      BY <2>1, <2>3, Before DEF Knows, CallInv, Commits
    <2>6. ReadInv("pointer", my[p], history) /\ WriteInv(p, "pointer", my[p], d, history, pointer, lock)
      BY DEF ReadInv, WriteInv, LockedSteps
    <2>7. SourceInv(p, "pointer", my[p], d, history, base) BY <2>1, NotAuthor
    <2>8. Knows(p, "pointer", my[p], d, history, pointer, lock, base)
      BY <2>4, <2>5, <2>6, <2>7 DEF Knows
    <2>9. "pointer" \in Steps BY DEF Steps
    <2>. QED BY <2>1, <2>3, <2>8, <2>9, Before, QuietStepKeeps
  <1>. QED BY <1>1, <1>2

-----------------------------------------------------------------------------
(* Commits, before they write *)

LEMMA CompareHistoryKeeps ==
  ASSUME IInv, NEW p \in Procs, CompareHistory(p)
  PROVE  IInv'
  <1>. DEFINE d == plan[p]
              same == Len(history) = d.length
              replay == /\ Call(p) # "select" /\ Len(history) = d.length + 1
                        /\ history[Len(history)] = d.decision
              s == IF replay THEN "exists" ELSE "confirm"
              m == [my[p] EXCEPT !.replay = replay]
  <1>1. CASE ~(Listable /\ (same \/ replay)) BY <1>1, EndKeeps DEF CompareHistory, Refuse
  <1>2. CASE Listable /\ (same \/ replay)
    <2>1. pc[p] = "list" /\ my[p].call \in Commits BY DEF CompareHistory, Call, Commits
    <2>2. /\ m \in Locals /\ m.call = my[p].call /\ m.outcome = my[p].outcome
          /\ m.replay = replay /\ m.past = my[p].past
      <3>1. replay \in BOOLEAN OBVIOUS
      <3>2. my[p] \in Locals BY Before
      <3>. HIDE DEF replay
      <3>. QED BY <3>1, <3>2 DEF Locals
    <2>3. /\ pc' = [pc EXCEPT ![p] = s] /\ my' = [my EXCEPT ![p] = m]
          /\ plan' = [plan EXCEPT ![p] = d] /\ UNCHANGED <<family, base, counters>>
      BY <1>2, Before DEF CompareHistory, Goto
    <2>4. d.op = my[p].call /\ d \in Plans
      BY <2>1, Before DEF Knows, CallInv, Commits
    <2>5. d.op = "select" => s = "confirm" /\ d.length = Len(history)
      BY <1>2, <2>4 DEF Call
    <2>6. s \in {"exists", "confirm"} /\ (s = "exists" => my[p].call \in {"author", "withdraw"})
      BY <2>1 DEF Call, Commits
    <2>7. ~replay => Len(history) = d.length BY <1>2
    <2>8. PlanInv(p, d, history) /\ CallInv("list", my[p], d) /\ SourceInv(p, "list", my[p], d, history, base)
      BY <2>1, Before DEF Knows
    <2>9. s \in Steps BY <2>6 DEF Steps
    <2>. HIDE DEF s, m, replay, d
    <2>10. CallInv(s, m, d) BY <2>1, <2>2, <2>6, <2>8 DEF CallInv, Commits
    <2>11. ReadInv(s, m, history) /\ WriteInv(p, s, m, d, history, pointer, lock)
      BY <2>2, <2>4, <2>5, <2>6, <2>8, Before DEF ReadInv, WriteInv, LockedSteps, PlanInv
    <2>12. SourceInv(p, s, m, d, history, base)
      BY <2>2, <2>6, <2>7, <2>8, <2>10, Before DEF SourceInv, CallInv
    <2>13. Knows(p, s, m, d, history, pointer, lock, base)
      BY <2>8, <2>10, <2>11, <2>12 DEF Knows
    <2>. QED BY <2>2, <2>3, <2>4, <2>9, <2>13, QuietStepKeeps
  <1>. QED BY <1>1, <1>2

LEMMA ConfirmKeeps ==
  ASSUME IInv, NEW p \in Procs, Confirm(p)
  PROVE  IInv'
  <1>. DEFINE s == IF Call(p) = "select" THEN "lock" ELSE "exists"
  <1>1. CASE ~StillSelected(p) BY <1>1, EndKeeps DEF Confirm, Refuse
  <1>2. CASE StillSelected(p)
    <2>1. pc[p] = "confirm" /\ Then(p, s) /\ UNCHANGED <<family, base, plan, counters>>
      BY <1>2 DEF Confirm
    <2>2. Knows(p, "confirm", my[p], plan[p], history, pointer, lock, base)
      BY <2>1, Before
    <2>3. s \in Steps BY DEF Steps
    <2>4. Knows(p, s, my[p], plan[p], history, pointer, lock, base)
      BY <2>2 DEF Knows, CallInv, ReadInv, WriteInv, SourceInv, LockedSteps, Call, Commits
    <2>. QED BY <2>1, <2>3, <2>4, ThenKeeps
  <1>. QED BY <1>1, <1>2

\* What was written beyond the reviewed history is not the reviewed decision, unless the
\* call is a replay.
LEMMA NotIdentical ==
  ASSUME IInv, NEW p \in Procs, pc[p] \in {"exists", "check"}, Call(p) = "author", ~my[p].replay
  PROVE  ~Identical(p)
  <1>1. plan[p].op = "author" /\ plan[p] \in Plans
    BY Before DEF Knows, CallInv, Call, Commits
  <1>2. plan[p].decision.by = p BY <1>1, Before DEF Knows, PlanInv
  <1>3. \A i \in 1 .. Len(history) : i > plan[p].length => history[i].by # p
    BY Before DEF Knows, SourceInv, Call
  <1>4. plan[p].length \in Nat /\ Len(history) \in Nat BY <1>1, Before DEF Plans, Pointers
  <1>5. ASSUME Identical(p) PROVE FALSE
    <2>1. plan[p].length + 1 \in 1 .. Len(history) BY <1>4, <1>5 DEF Identical, Written
    <2>2. history[plan[p].length + 1] = plan[p].decision BY <1>5 DEF Identical
    <2>. QED BY <1>2, <1>3, <1>4, <2>1, <2>2
  <1>. QED BY <1>5

LEMMA ExistsKeeps ==
  ASSUME IInv, NEW p \in Procs, Exists(p)
  PROVE  IInv'
  <1>1. CASE Refuse(p) BY <1>1, EndKeeps DEF Exists, Refuse
  <1>2. CASE Identical(p) /\ Then(p, "after")
    <2>1. pc[p] = "exists" /\ UNCHANGED <<family, base, plan, counters>> BY DEF Exists
    <2>2. Knows(p, "exists", my[p], plan[p], history, pointer, lock, base) BY <2>1, Before
    <2>3. my[p].call = "author" => my[p].replay
      BY <1>2, <2>1, NotIdentical DEF Call
    <2>4. "after" \in Steps BY DEF Steps
    <2>5. Knows(p, "after", my[p], plan[p], history, pointer, lock, base)
      BY <2>2, <2>3 DEF Knows, CallInv, ReadInv, WriteInv, SourceInv, LockedSteps, Commits
    <2>. QED BY <1>2, <2>1, <2>4, <2>5, ThenKeeps
  <1>3. CASE Then(p, "lock")
    <2>1. pc[p] = "exists" /\ UNCHANGED <<family, base, plan, counters>> BY DEF Exists
    <2>2. Knows(p, "exists", my[p], plan[p], history, pointer, lock, base) BY <2>1, Before
    <2>3. "lock" \in Steps BY DEF Steps
    <2>4. Knows(p, "lock", my[p], plan[p], history, pointer, lock, base)
      BY <2>2 DEF Knows, CallInv, ReadInv, WriteInv, SourceInv, LockedSteps, Commits
    <2>. QED BY <1>3, <2>1, <2>3, <2>4, ThenKeeps
  <1>. QED BY <1>1, <1>2, <1>3 DEF Exists

LEMMA LockKeeps ==
  ASSUME IInv, NEW p \in Procs, Lock(p)
  PROVE  IInv'
  <1>1. CASE ~(lock = Absent /\ ~(Call(p) = "select" /\ torn = "pointer"))
    <2>1. UNCHANGED <<family, base, plan, counters>> /\ End(p)
      BY <1>1 DEF Lock, Refuse, family, counters
    <2>. QED BY <2>1, EndKeeps
  <1>2. CASE lock = Absent /\ ~(Call(p) = "select" /\ torn = "pointer")
    <2>1. /\ pc[p] = "lock" /\ lock' = p
          /\ UNCHANGED <<history, pointer, torn, base, plan, counters>>
          /\ pc' = [pc EXCEPT ![p] = "check"] /\ my' = [my EXCEPT ![p] = my[p]]
          /\ plan' = [plan EXCEPT ![p] = plan[p]]
      BY <1>2, Before DEF Lock, Then, Goto
    <2>2. Knows(p, "lock", my[p], plan[p], history, pointer, lock, base) BY <2>1, Before
    <2>3. "check" \in Steps BY DEF Steps, LockedSteps
    <2>4. Knows(p, "check", my[p], plan[p], history', pointer', lock', base)
      BY <2>1, <2>2 DEF Knows, CallInv, ReadInv, WriteInv, SourceInv, LockedSteps, Commits
    <2>5. FamilyStep(p) BY <1>2, <2>1, OverrideAssumption DEF FamilyStep
    <2>6. FamilyType' BY <2>1 DEF FamilyType, IInv, TypeOK, counters
    <2>. QED BY <2>1, <2>3, <2>4, <2>5, <2>6, Before, StepKeeps
  <1>. QED BY <1>1, <1>2

-----------------------------------------------------------------------------
(* Under the lock, and after it *)

LEMMA CheckKeeps ==
  ASSUME IInv, NEW p \in Procs, Check(p)
  PROVE  IInv'
  <1>1. /\ pc[p] = "check" /\ my[p].call \in Commits /\ my[p].call # "select"
        /\ UNCHANGED <<family, base, plan, counters>>
        /\ Knows(p, "check", my[p], plan[p], history, pointer, lock, base)
    BY Before DEF Check, Call, Knows, CallInv
  <1>2. CASE Identical(p) /\ Leave(p, "none")
    <2>1. my[p].call = "author" => my[p].replay BY <1>1, <1>2, NotIdentical DEF Call
    <2>. QED BY <1>1, <1>2, <2>1, LeaveKeeps DEF LockedSteps, Outcomes, Call
  <1>3. CASE Leave(p, "refused")
    BY <1>1, <1>3, LeaveKeeps DEF LockedSteps, Outcomes, Call
  <1>4. CASE Len(history) = plan[p].length /\ Then(p, "guard")
    <2>1. Knows(p, "guard", my[p], plan[p], history, pointer, lock, base)
      BY <1>1, <1>4 DEF Knows, CallInv, ReadInv, WriteInv, SourceInv, LockedSteps, Commits
    <2>2. "guard" \in Steps BY DEF Steps, LockedSteps
    <2>. QED BY <1>1, <1>4, <2>1, <2>2, ThenKeeps
  <1>. QED BY <1>2, <1>3, <1>4 DEF Check

LEMMA CompareAndSwapKeeps ==
  ASSUME IInv, NEW p \in Procs, CompareAndSwap(p)
  PROVE  IInv'
  <1>1. /\ pc[p] = "check" /\ my[p].call = "select"
        /\ UNCHANGED <<family, base, plan, counters>>
        /\ Knows(p, "check", my[p], plan[p], history, pointer, lock, base)
    BY Before DEF CompareAndSwap, Call
  <1>2. CASE Leave(p, "refused") \/ Leave(p, "existing")
    BY <1>1, <1>2, LeaveKeeps DEF LockedSteps, Outcomes, Call, Commits
  <1>3. CASE pointer # plan[p].length /\ pointer = plan[p].current /\ Then(p, "swap")
    <2>1. Knows(p, "swap", my[p], plan[p], history, pointer, lock, base)
      BY <1>1, <1>3 DEF Knows, CallInv, ReadInv, WriteInv, SourceInv, LockedSteps, Commits
    <2>2. "swap" \in Steps BY DEF Steps, LockedSteps
    <2>. QED BY <1>1, <1>3, <2>1, <2>2, ThenKeeps
  <1>. QED BY <1>2, <1>3 DEF CompareAndSwap

LEMMA GuardKeeps ==
  ASSUME IInv, NEW p \in Procs, Guard(p)
  PROVE  IInv'
  <1>1. /\ pc[p] = "guard" /\ my[p].call \in {"author", "withdraw"}
        /\ UNCHANGED <<family, base, plan, counters>>
        /\ Knows(p, "guard", my[p], plan[p], history, pointer, lock, base)
    BY Before DEF Guard, Knows, CallInv
  <1>2. CASE Leave(p, "refused")
    BY <1>1, <1>2, LeaveKeeps DEF LockedSteps, Outcomes, Call, Commits
  <1>3. CASE StillSelected(p) /\ Then(p, "pair")
    <2>1. /\ my[p].call = "author" => base = plan[p].decision.source
          /\ my[p].call = "withdraw" => pointer = plan[p].current
      BY <1>3 DEF StillSelected, Call
    <2>2. Knows(p, "pair", my[p], plan[p], history, pointer, lock, base)
      BY <1>1, <2>1 DEF Knows, CallInv, ReadInv, WriteInv, SourceInv, LockedSteps, Commits
    <2>3. "pair" \in Steps BY DEF Steps, LockedSteps
    <2>. QED BY <1>1, <1>3, <2>2, <2>3, ThenKeeps
  <1>. QED BY <1>2, <1>3 DEF Guard

\* A step that only changes what an unfinished write has left behind.
LEMMA TornKeeps ==
  ASSUME IInv, NEW p \in Procs, UNCHANGED <<history, pointer, lock, base, plan, changes>>,
         torn' \in {"none", "revisions", "pointer"}, failures' \in 0 .. MaxFailures,
         NEW s \in Steps, NEW m \in Locals,
         pc' = [pc EXCEPT ![p] = s], my' = [my EXCEPT ![p] = m],
         Knows(p, s, m, plan[p], history, pointer, lock, base)
  PROVE  IInv'
  <1>1. FamilyStep(p) BY DEF FamilyStep
  <1>2. FamilyType' BY DEF FamilyType, IInv, TypeOK
  <1>3. Knows(p, s, m, plan[p], history', pointer', lock', base) OBVIOUS
  <1>4. plan' = [plan EXCEPT ![p] = plan[p]] BY Before
  <1>. QED BY <1>1, <1>2, <1>3, <1>4, Before, StepKeeps

LEMMA CreateJsonKeeps ==
  ASSUME IInv, NEW p \in Procs, CreateJson(p)
  PROVE  IInv'
  <1>1. /\ pc[p] = "pair" /\ pc' = [pc EXCEPT ![p] = "digest"] /\ my' = [my EXCEPT ![p] = my[p]]
        /\ torn' = "revisions" /\ UNCHANGED <<history, pointer, lock, base, plan, counters>>
    BY Before DEF CreateJson, Then, Goto
  <1>2. Knows(p, "pair", my[p], plan[p], history, pointer, lock, base) BY <1>1, Before
  <1>3. Knows(p, "digest", my[p], plan[p], history, pointer, lock, base)
    BY <1>2 DEF Knows, CallInv, ReadInv, WriteInv, SourceInv, LockedSteps, Commits
  <1>4. "digest" \in Steps /\ failures' \in 0 .. MaxFailures /\ changes' = changes
    BY <1>1 DEF Steps, LockedSteps, counters, IInv, TypeOK
  <1>. QED BY <1>1, <1>3, <1>4, Before, TornKeeps

LEMMA FillPointerKeeps ==
  ASSUME IInv, NEW p \in Procs, FillPointer(p)
  PROVE  IInv'
  <1>1. /\ pc[p] = "swap" /\ pc' = [pc EXCEPT ![p] = "rename"] /\ my' = [my EXCEPT ![p] = my[p]]
        /\ torn' = "pointer" /\ UNCHANGED <<history, pointer, lock, base, plan, counters>>
    BY Before DEF FillPointer, Then, Goto
  <1>2. Knows(p, "swap", my[p], plan[p], history, pointer, lock, base) BY <1>1, Before
  <1>3. Knows(p, "rename", my[p], plan[p], history, pointer, lock, base)
    BY <1>2 DEF Knows, CallInv, ReadInv, WriteInv, SourceInv, LockedSteps, Commits
  <1>4. "rename" \in Steps /\ failures' \in 0 .. MaxFailures /\ changes' = changes
    BY <1>1 DEF Steps, LockedSteps, counters, IInv, TypeOK
  <1>. QED BY <1>1, <1>3, <1>4, Before, TornKeeps

\* A writer appends its reviewed decision where the preview left off.
LEMMA Writing ==
  ASSUME IInv, NEW p \in Procs, CreateDigest(p)
  PROVE  /\ pc[p] = "digest" /\ plan[p] \in Plans /\ plan[p].decision \in Decisions
         /\ plan[p].decision.by = p /\ lock = p
         /\ my[p].call \in {"author", "withdraw"} /\ plan[p].op = my[p].call
         /\ Len(history) = plan[p].length /\ Len(history) < MaxRev
         /\ Knows(p, "digest", my[p], plan[p], history, pointer, lock, base)
  <1>1. pc[p] = "digest" /\ Knows(p, "digest", my[p], plan[p], history, pointer, lock, base)
    BY Before DEF CreateDigest
  <1>2. my[p].call \in {"author", "withdraw"} /\ plan[p].op = my[p].call
    BY <1>1 DEF Knows, CallInv, Commits
  <1>3. plan[p] \in Plans /\ plan[p].decision \in Decisions BY <1>2, Before DEF Plans
  <1>. QED BY <1>1, <1>2, <1>3 DEF Knows, PlanInv, WriteInv, LockedSteps

LEMMA CreateDigestKeeps ==
  ASSUME IInv, NEW p \in Procs, CreateDigest(p)
  PROVE  IInv'
  <1>. DEFINE m == [my[p] EXCEPT !.under = base]
              d == plan[p]
  <1>1. /\ pc' = [pc EXCEPT ![p] = "reload"] /\ my' = [my EXCEPT ![p] = m] /\ torn' = "none"
        /\ history' = Append(history, d.decision) /\ plan' = [plan EXCEPT ![p] = d]
        /\ UNCHANGED <<pointer, lock, base, plan, counters>>
    BY Before DEF CreateDigest, Goto
  <1>2. /\ m \in Locals /\ m.call = my[p].call /\ m.outcome = my[p].outcome /\ m.under = base
        /\ m.past = my[p].past /\ m.back = my[p].back /\ m.replay = my[p].replay
    <2>1. base \in Results \cup {Absent} BY DEF IInv, TypeOK
    <2>2. my[p] \in Locals BY Before
    <2>. QED BY <2>1, <2>2 DEF Locals
  <1>3. /\ d \in Plans /\ d.decision \in Decisions /\ d.decision.by = p /\ lock = p
        /\ my[p].call \in {"author", "withdraw"} /\ d.op = my[p].call
        /\ Len(history) = d.length /\ Len(history) < MaxRev
        /\ Knows(p, "digest", my[p], d, history, pointer, lock, base)
    BY Writing
  <1>. HIDE DEF m, d
  <1>4. history \in Seq(Decisions) /\ Len(history) \in Nat BY DEF IInv, TypeOK
  <1>5. /\ history' \in Seq(Decisions) /\ Len(history') = Len(history) + 1
        /\ \A i \in 1 .. Len(history) : history'[i] = history[i]
    BY <1>1, <1>3, <1>4, Appended
  <1>6. FamilyStep(p) BY <1>1, <1>3 DEF FamilyStep
  <1>7. FamilyType'
    <2>1. Len(history') \in Pointers /\ pointer' \in 0 .. Len(history')
      BY <1>1, <1>3, <1>4, <1>5, Before, OverrideAssumption DEF Pointers
    <2>. QED BY <1>1, <1>5, <2>1 DEF FamilyType, IInv, TypeOK, counters
  <1>8. PlanInv(p, d, history')
    <2>1. PlanInv(p, d, history) /\ d.current \in Nat /\ d.length \in Nat
      BY <1>3 DEF Knows, Plans, Pointers
    <2>. QED BY <1>3, <1>4, <1>5, <2>1 DEF PlanInv
  <1>9. CallInv("reload", m, d) BY <1>2, <1>3 DEF Knows, CallInv, Commits
  <1>10. ReadInv("reload", m, history') /\ WriteInv(p, "reload", m, d, history', pointer', lock')
    BY <1>1, <1>3 DEF ReadInv, WriteInv
  <1>11. SourceInv(p, "reload", m, d, history', base)
    BY <1>2, <1>3 DEF Knows, CallInv, SourceInv, WroteOnSource
  <1>12. Knows(p, "reload", m, d, history', pointer', lock', base)
    BY <1>8, <1>9, <1>10, <1>11 DEF Knows
  <1>13. "reload" \in Steps /\ d \in Plans \cup {NoPlan} BY <1>3 DEF Steps, LockedSteps
  <1>. QED BY <1>1, <1>2, <1>6, <1>7, <1>12, <1>13, StepKeeps

\* A selection moves the pointer to a later revision.
LEMMA Selecting ==
  ASSUME IInv, NEW p \in Procs, RenamePointer(p)
  PROVE  /\ pc[p] = "rename" /\ plan[p] \in Plans /\ lock = p /\ my[p].call = "select"
         /\ plan[p].length \in 1 .. Len(history) /\ pointer < plan[p].length
         /\ Knows(p, "rename", my[p], plan[p], history, pointer, lock, base)
  <1>1. pc[p] = "rename" /\ Knows(p, "rename", my[p], plan[p], history, pointer, lock, base)
    BY Before DEF RenamePointer
  <1>2. my[p].call = "select" /\ plan[p].op = "select" BY <1>1 DEF Knows, CallInv, Commits
  <1>3. plan[p] \in Plans BY <1>2, Before
  <1>4. plan[p].length \in 1 .. Len(history) BY <1>1, <1>2 DEF Knows, PlanInv
  <1>5. lock = p /\ pointer = plan[p].current /\ plan[p].current <= plan[p].length
        /\ pointer # plan[p].length
    BY <1>1, <1>2 DEF Knows, WriteInv, LockedSteps
  <1>. QED BY <1>1, <1>2, <1>3, <1>4, <1>5, Before

LEMMA RenamePointerKeeps ==
  ASSUME IInv, NEW p \in Procs, RenamePointer(p)
  PROVE  IInv'
  <1>1. /\ pc' = [pc EXCEPT ![p] = "reload"] /\ my' = [my EXCEPT ![p] = my[p]] /\ torn' = "none"
        /\ pointer' = plan[p].length /\ plan' = [plan EXCEPT ![p] = plan[p]]
        /\ UNCHANGED <<history, lock, base, counters>>
    BY Before DEF RenamePointer, Then, Goto
  <1>2. FamilyStep(p) BY <1>1, Selecting DEF FamilyStep
  <1>3. FamilyType'
    <2>1. pointer' \in 0 .. Len(history) BY <1>1, Selecting, Before
    <2>. QED BY <1>1, <2>1 DEF FamilyType, IInv, TypeOK, counters
  <1>4. Knows(p, "reload", my[p], plan[p], history', pointer', lock', base)
    BY <1>1, Selecting
       DEF Knows, CallInv, ReadInv, WriteInv, SourceInv, LockedSteps, Commits
  <1>5. "reload" \in Steps BY DEF Steps, LockedSteps
  <1>6. base' = base BY <1>1
  <1>. QED BY <1>1, <1>2, <1>3, <1>4, <1>5, <1>6, Before, StepKeeps

LEMMA ReloadKeeps ==
  ASSUME IInv, NEW p \in Procs, Reload(p)
  PROVE  IInv'
  <1>. DEFINE r == IF Call(p) = "select" THEN "created" ELSE "none"
  <1>1. /\ pc[p] = "reload" /\ my[p].call \in Commits /\ Leave(p, r)
        /\ UNCHANGED <<family, base, plan, counters>>
        /\ Knows(p, "reload", my[p], plan[p], history, pointer, lock, base)
    BY Before DEF Reload, Knows, CallInv
  <1>2. Call(p) = "author" /\ ~my[p].replay =>
          \/ WroteOnSource(my[p], plan[p])
          \/ base # plan[p].decision.source /\ plan[p].decision.source \in my[p].past
    BY <1>1 DEF Knows, SourceInv, Call
  <1>3. r \in Outcomes BY DEF Outcomes
  <1>. QED BY <1>1, <1>2, <1>3, LeaveKeeps DEF LockedSteps, Call

LEMMA UnlockKeeps ==
  ASSUME IInv, NEW p \in Procs, Unlock(p)
  PROVE  IInv'
  <1>1. /\ pc[p] = "unlock" /\ lock' = Absent /\ lock = p
        /\ UNCHANGED <<history, pointer, torn, base, plan, counters>>
        /\ Knows(p, "unlock", my[p], plan[p], history, pointer, lock, base)
    BY Before DEF Unlock, Knows, WriteInv, LockedSteps
  <1>2. FamilyStep(p) /\ base' = base /\ plan' = [plan EXCEPT ![p] = plan[p]]
    BY <1>1, Before DEF FamilyStep
  <1>3. FamilyType' BY <1>1 DEF FamilyType, IInv, TypeOK, counters
  <1>4. CASE my[p].outcome = "none"
    <2>1. /\ pc' = [pc EXCEPT ![p] = "after"] /\ my' = [my EXCEPT ![p] = my[p]]
      BY <1>4, Before DEF Unlock, Then, Goto
    <2>2. Knows(p, "after", my[p], plan[p], history', pointer', lock', base)
      BY <1>1, <1>4 DEF Knows, CallInv, ReadInv, WriteInv, SourceInv, LockedSteps, Commits
    <2>3. "after" \in Steps BY DEF Steps
    <2>. QED BY <1>2, <1>3, <2>1, <2>2, <2>3, Before, StepKeeps
  <1>5. CASE my[p].outcome # "none"
    <2>1. /\ pc' = [pc EXCEPT ![p] = "idle"] /\ my' = [my EXCEPT ![p] = NoCall]
      BY <1>5 DEF Unlock, End, Goto
    <2>2. PlanInv(p, plan[p], history') BY <1>1 DEF Knows
    <2>3. Knows(p, "idle", NoCall, plan[p], history', pointer', lock', base) BY <2>2, EndKnows
    <2>4. "idle" \in Steps /\ NoCall \in Locals BY NoCallIsLocal DEF Steps
    <2>. QED BY <1>2, <1>3, <2>1, <2>3, <2>4, Before, StepKeeps
  <1>. QED BY <1>4, <1>5

LEMMA AfterKeeps ==
  ASSUME IInv, NEW p \in Procs, After(p)
  PROVE  IInv'
  <1>1. pc[p] = "after" /\ UNCHANGED <<family, base, plan, counters>> BY DEF After
  <1>2. Knows(p, "after", my[p], plan[p], history, pointer, lock, base) BY <1>1, Before
  <1>3. CASE Call(p) = "author" /\ base # plan[p].decision.source
    BY <1>1, <1>3, EndKeeps DEF After, Refuse
  <1>4. CASE ~(Call(p) = "author" /\ base # plan[p].decision.source)
    <2>1. Then(p, "pointer") BY <1>4 DEF After
    <2>2. Knows(p, "pointer", my[p], plan[p], history, pointer, lock, base)
      BY <1>2, <1>4
         DEF Knows, CallInv, ReadInv, WriteInv, SourceInv, LockedSteps, Commits, Call
    <2>3. "pointer" \in Steps BY DEF Steps
    <2>. QED BY <1>1, <2>1, <2>2, <2>3, ThenKeeps
  <1>. QED BY <1>3, <1>4

LEMMA ReadSelectedKeeps ==
  ASSUME IInv, NEW p \in Procs, ReadSelected(p)
  PROVE  IInv'
  <1>. DEFINE m == [my[p] EXCEPT !.outcome = "created", !.past = {}]
  <1>1. pc[p] = "pointer" /\ UNCHANGED <<family, base, plan, counters>> BY DEF ReadSelected
  <1>2. CASE End(p) BY <1>1, <1>2, EndKeeps
  <1>3. CASE /\ Goto(p, "idle") /\ my' = [my EXCEPT ![p] = m]
             /\ ~my[p].replay /\ Call(p) # "withdraw"
    <2>1. Knows(p, "pointer", my[p], plan[p], history, pointer, lock, base) BY <1>1, Before
    <2>2. my[p].call = "author" BY <1>3 DEF ReadSelected, Call
    <2>3. /\ m \in Locals /\ m.call = my[p].call /\ m.outcome = "created"
          /\ m.under = my[p].under /\ m.back = my[p].back
      BY Before DEF Locals, Outcomes
    <2>. HIDE DEF m
    <2>4. Knows(p, "idle", m, plan[p], history, pointer, lock, base)
      BY <1>3, <2>1, <2>2, <2>3
         DEF Knows, CallInv, ReadInv, WriteInv, SourceInv, WroteOnSource, LockedSteps, Commits
    <2>5. "idle" \in Steps BY DEF Steps
    <2>6. pc' = [pc EXCEPT ![p] = "idle"] /\ plan' = [plan EXCEPT ![p] = plan[p]]
      BY <1>1, <1>3, Before DEF Goto
    <2>. QED BY <1>1, <1>3, <2>3, <2>4, <2>5, <2>6, Before, QuietStepKeeps
  <1>. QED BY <1>2, <1>3 DEF ReadSelected


-----------------------------------------------------------------------------
(* Failures, crashes and the other stores *)

LEMMA RaiseKeeps ==
  ASSUME IInv, NEW p \in Procs, Raise(p)
  PROVE  IInv'
  <1>1. /\ UNCHANGED <<history, pointer, base, plan, changes>> /\ failures' = failures + 1
        /\ failures' \in 0 .. MaxFailures
    BY OverrideAssumption DEF Raise, IInv, TypeOK
  <1>2. CASE pc[p] \in {"pair", "digest", "swap", "rename", "reload"} /\ Leave(p, "refused")
             /\ UNCHANGED lock /\ torn' \in {"none", "revisions", "pointer"}
    <2>1. /\ my[p].call \in Commits /\ lock = p /\ pc[p] # "idle"
      BY <1>2, Before DEF Knows, CallInv, WriteInv, LockedSteps, Commits
    <2>2. my[p] \in Locals /\ "refused" \in Outcomes BY Before DEF Outcomes
    <2>3. /\ [my[p] EXCEPT !.outcome = "refused"] \in Locals
          /\ Knows(p, "unlock", [my[p] EXCEPT !.outcome = "refused"], plan[p], history, pointer, lock, base)
      BY <2>1, <2>2, Before, LeaveKnows
    <2>4. /\ pc' = [pc EXCEPT ![p] = "unlock"]
          /\ my' = [my EXCEPT ![p] = [my[p] EXCEPT !.outcome = "refused"]]
      BY <1>2, Before DEF Leave, Goto
    <2>5. "unlock" \in Steps BY DEF Steps, LockedSteps
    <2>. QED BY <1>1, <1>2, <2>3, <2>4, <2>5, TornKeeps
  <1>3. CASE pc[p] = "unlock" /\ End(p) /\ lock' = Orphan /\ UNCHANGED torn
    <2>1. lock = p BY <1>3, Before DEF Knows, WriteInv, LockedSteps
    <2>2. FamilyStep(p) BY <1>1, <2>1 DEF FamilyStep
    <2>3. FamilyType' BY <1>1, <1>3 DEF FamilyType, IInv, TypeOK
    <2>4. PlanInv(p, plan[p], history') BY <1>1, Before DEF Knows
    <2>5. Knows(p, "idle", NoCall, plan[p], history', pointer', lock', base) BY <2>4, EndKnows
    <2>6. "idle" \in Steps /\ NoCall \in Locals BY NoCallIsLocal DEF Steps
    <2>7. /\ pc' = [pc EXCEPT ![p] = "idle"] /\ my' = [my EXCEPT ![p] = NoCall]
          /\ plan' = [plan EXCEPT ![p] = plan[p]] /\ base' = base
      BY <1>1, <1>3, Before DEF End, Goto
    <2>. QED BY <2>2, <2>3, <2>5, <2>6, <2>7, Before, StepKeeps
  <1>4. torn \in {"none", "revisions", "pointer"} BY DEF IInv, TypeOK
  <1>. QED BY <1>2, <1>3, <1>4 DEF Raise, Refuse

LEMMA CrashKeeps ==
  ASSUME IInv, NEW p \in Procs, Crash(p)
  PROVE  IInv'
  <1>1. /\ UNCHANGED <<history, pointer, torn, base, changes>> /\ failures' \in 0 .. MaxFailures
        /\ lock' = IF lock = p THEN Orphan ELSE lock
        /\ pc' = [pc EXCEPT ![p] = "idle"] /\ my' = [my EXCEPT ![p] = NoCall]
        /\ plan' = [plan EXCEPT ![p] = NoPlan]
    BY OverrideAssumption DEF Crash, Refuse, End, Goto, IInv, TypeOK
  <1>2. FamilyStep(p) BY <1>1 DEF FamilyStep
  <1>3. FamilyType' BY <1>1 DEF FamilyType, IInv, TypeOK
  <1>4. PlanInv(p, NoPlan, history') BY DEF PlanInv, NoPlan
  <1>5. Knows(p, "idle", NoCall, NoPlan, history', pointer', lock', base) BY <1>4, EndKnows
  <1>6. "idle" \in Steps /\ NoCall \in Locals BY NoCallIsLocal DEF Steps
  <1>. QED BY <1>1, <1>2, <1>3, <1>5, <1>6, StepKeeps

\* A call that has recorded the results selected so far knows as much after another one, b2,
\* is selected.
LEMMA MovedKnows ==
  ASSUME NEW p, NEW s, NEW m \in Locals, NEW d, NEW h, NEW ptr, NEW lk,
         NEW b, NEW b2 \in Results \cup {Absent}, Knows(p, s, m, d, h, ptr, lk, b)
  PROVE  LET n == [m EXCEPT !.past = m.past \cup {b2}, !.back = m.back \/ b2 \in m.past]
         IN  n \in Locals /\ Knows(p, s, n, d, h, ptr, lk, b2)
  <1>. DEFINE n == [m EXCEPT !.past = m.past \cup {b2}, !.back = m.back \/ b2 \in m.past]
  <1>1. n \in Locals BY DEF Locals
  <1>2. /\ n.call = m.call /\ n.base = m.base /\ n.pointer = m.pointer /\ n.replay = m.replay
        /\ n.outcome = m.outcome /\ n.under = m.under /\ n.past = m.past \cup {b2}
        /\ n.back <=> (m.back \/ b2 \in m.past)
    BY DEF Locals
  <1>. HIDE DEF n
  <1>3. CallInv(s, n, d) BY <1>2 DEF Knows, CallInv
  <1>4. ReadInv(s, n, h) /\ WriteInv(p, s, n, d, h, ptr, lk) BY <1>2 DEF Knows, ReadInv, WriteInv
  <1>5. SourceInv(p, s, n, d, h, b2) BY <1>2 DEF Knows, SourceInv, WroteOnSource
  <1>6. Knows(p, s, n, d, h, ptr, lk, b2) BY <1>3, <1>4, <1>5 DEF Knows
  <1>. QED BY <1>1, <1>6 DEF n

\* A call that has recorded nothing does not depend on the selected result.
LEMMA UnmovedKnows ==
  ASSUME NEW p, NEW s, NEW m, NEW d, NEW h, NEW ptr, NEW lk, NEW b, NEW b2,
         Knows(p, s, m, d, h, ptr, lk, b), s = "idle" \/ m.past = {}
  PROVE  Knows(p, s, m, d, h, ptr, lk, b2)
  BY DEF Knows, SourceInv

LEMMA SelectBaseKeeps ==
  ASSUME IInv, SelectBase
  PROVE  IInv'
  <1>1. /\ UNCHANGED <<history, pointer, lock, torn, pc, plan, failures>>
        /\ changes' \in 0 .. MaxChanges /\ base' \in Results \cup {Absent}
    <2>1. UNCHANGED <<history, pointer, lock, torn, pc, plan, failures>>
      BY DEF SelectBase, family
    <2>2. changes \in 0 .. MaxChanges /\ changes < MaxChanges /\ changes' = changes + 1
      BY DEF SelectBase, IInv, TypeOK
    <2>3. changes' \in 0 .. MaxChanges BY <2>2, OverrideAssumption
    <2>4. base' \in Results \cup {Absent} BY DEF SelectBase
    <2>. QED BY <2>1, <2>3, <2>4
  <1>2. ASSUME NEW q \in Procs PROVE my'[q] \in Locals /\ Mine(q)'
    <2>1. my[q] \in Locals /\ Knows(q, pc[q], my[q], plan[q], history, pointer, lock, base)
      BY Before
    <2>2. CASE pc[q] = "idle" \/ my[q].past = {}
      <3>1. my'[q] = my[q] BY <2>2 DEF SelectBase
      <3>2. Knows(q, pc[q], my[q], plan[q], history, pointer, lock, base')
        BY <2>1, <2>2, UnmovedKnows
      <3>. QED BY <1>1, <2>1, <3>1, <3>2 DEF Mine
    <2>3. CASE ~(pc[q] = "idle" \/ my[q].past = {})
      <3>. DEFINE n == [my[q] EXCEPT !.past = my[q].past \cup {base'},
                                     !.back = my[q].back \/ base' \in my[q].past]
      <3>1. my'[q] = n BY <2>3 DEF SelectBase
      <3>. HIDE DEF n
      <3>2. n \in Locals /\ Knows(q, pc[q], n, plan[q], history, pointer, lock, base')
        BY <1>1, <2>1, MovedKnows DEF n
      <3>. QED BY <1>1, <3>1, <3>2 DEF Mine
    <2>. QED BY <2>2, <2>3
  <1>3. my' \in [Procs -> Locals]
    <2>1. my' = [q \in Procs |-> my'[q]] BY DEF SelectBase
    <2>. QED BY <1>2, <2>1
  <1>4. TypeOK' BY <1>1, <1>3 DEF IInv, TypeOK
  <1>. QED BY <1>2, <1>4 DEF IInv

-----------------------------------------------------------------------------
(* The theorems *)

LEMMA InitInv == Init => IInv
  <1>. SUFFICES ASSUME Init PROVE IInv OBVIOUS
  <1>1. /\ history \in Seq(Decisions) /\ Len(history) = 0 /\ 0 \in Pointers
        /\ MaxChanges \in Nat /\ MaxFailures \in Nat
    BY OverrideAssumption DEF Init, Pointers
  <1>2. NoCall \in Locals /\ "idle" \in Steps BY NoCallIsLocal DEF Steps
  <1>3. TypeOK BY <1>1, <1>2 DEF Init, TypeOK
  <1>4. ASSUME NEW p \in Procs PROVE Mine(p)
    <2>1. PlanInv(p, NoPlan, history) BY DEF PlanInv, NoPlan
    <2>2. Knows(p, "idle", NoCall, NoPlan, history, pointer, lock, base) BY <2>1, EndKnows
    <2>. QED BY <2>2 DEF Init, Mine
  <1>. QED BY <1>3, <1>4 DEF IInv

LEMMA RunKeeps ==
  ASSUME IInv, NEW p \in Procs, Run(p)
  PROVE  IInv'
  BY ReadBaseKeeps, BaseAgainKeeps, ReadActiveKeeps, ReadReplacedKeeps, PreviewWriteKeeps,
     PreviewSelectKeeps, CompareHistoryKeeps, ConfirmKeeps, ExistsKeeps, LockKeeps, CheckKeeps,
     CompareAndSwapKeeps, GuardKeeps, CreateJsonKeeps, CreateDigestKeeps, FillPointerKeeps,
     RenamePointerKeeps, ReloadKeeps, UnlockKeeps, AfterKeeps, ReadSelectedKeeps
     DEF Run

LEMMA StutterKeeps == IInv /\ UNCHANGED vars => IInv'
  BY DEF IInv, TypeOK, Mine, vars, family, counters

LEMMA NextKeeps == IInv /\ [Next]_vars => IInv'
  <1>. SUFFICES ASSUME IInv, [Next]_vars PROVE IInv' OBVIOUS
  <1>1. CASE SelectBase BY <1>1, SelectBaseKeeps
  <1>2. ASSUME NEW p \in Procs, Run(p) PROVE IInv' BY <1>2, RunKeeps
  <1>3. ASSUME NEW p \in Procs, Raise(p) PROVE IInv' BY <1>3, RaiseKeeps
  <1>4. ASSUME NEW p \in Procs, Crash(p) PROVE IInv' BY <1>4, CrashKeeps
  <1>5. ASSUME NEW p \in Procs, NEW c \in CallsOf[p], Start(p, c) PROVE IInv'
    <2>1. c \in Calls BY OverrideAssumption
    <2>. QED BY <1>5, <2>1, StartKeeps
  <1>6. CASE UNCHANGED vars BY <1>6, StutterKeeps
  <1>. QED BY <1>1, <1>2, <1>3, <1>4, <1>5, <1>6 DEF Next

\* The inductive invariant: what a call knows between its steps, whatever the others do.
THEOREM Invariant == Spec => []IInv
  BY InitInv, NextKeeps, PTL DEF Spec

\* Every variable keeps its type; the selected revision is one of the history.
THEOREM TypeCorrect == Spec => []TypeOK
  <1>1. IInv => TypeOK BY DEF IInv
  <1>. QED BY <1>1, Invariant, PTL

\* An override whose authoring was reported as created was written while its source was
\* selected, unless an older result was selected again during the call (After, Guard).
THEOREM Authored == Spec => []AuthoredOnSelected
  <1>1. IInv => AuthoredOnSelected
    BY DEF IInv, Mine, Knows, SourceInv, WroteOnSource, AuthoredOnSelected, Call
  <1>. QED BY <1>1, Invariant, PTL

\* The two steps that change what a reader sees: a decision is authored about what is selected,
LEMMA DigestImplements ==
  ASSUME IInv, NEW p \in Procs, CreateDigest(p)
  PROVE  Family!Next
  <1>. DEFINE d == plan[p].decision
  <1>1. /\ d \in Decisions /\ my[p].call \in {"author", "withdraw"} /\ plan[p].op = my[p].call
        /\ Knows(p, "digest", my[p], plan[p], history, pointer, lock, base)
    BY Writing
  <1>2. history' = Append(history, d) /\ UNCHANGED pointer BY DEF CreateDigest
  <1>3. d.kind = "withdraw" =>
          d.withdraws = pointer /\ pointer # 0 /\ d.source = history[pointer].source
    BY <1>1 DEF Knows, PlanInv, WriteInv
  <1>4. Family!Author(d) BY <1>2, <1>3 DEF Family!Author
  <1>5. d \in Family!Decisions BY <1>1 DEF Decisions, Family!Decisions, Pointers
  <1>. QED BY <1>4, <1>5 DEF Family!Next

\* and a later decision is selected.
LEMMA RenameImplements ==
  ASSUME IInv, NEW p \in Procs, RenamePointer(p)
  PROVE  Family!Next
  <1>1. plan[p].length \in 1 .. Len(history) /\ pointer < plan[p].length BY Selecting
  <1>2. pointer' = plan[p].length /\ UNCHANGED history BY DEF RenamePointer
  <1>3. plan[p].length > pointer BY <1>1, Before
  <1>4. Family!Select(plan[p].length) BY <1>2, <1>3 DEF Family!Select
  <1>. QED BY <1>1, <1>4 DEF Family!Next

LEMMA StepImplements == IInv /\ [Next]_vars => [Family!Next]_<<history, pointer>>
  <1>. SUFFICES ASSUME IInv, [Next]_vars PROVE Family!Next \/ UNCHANGED <<history, pointer>>
    OBVIOUS
  <1>1. ASSUME NEW p \in Procs, Run(p)
        PROVE  CreateDigest(p) \/ RenamePointer(p) \/ UNCHANGED <<history, pointer>>
    BY <1>1 DEF Run, ReadBase, BaseAgain, ReadActive, ReadReplaced, PreviewWrite, PreviewSelect,
       CompareHistory, Confirm, Exists, Lock, Check, CompareAndSwap, Guard, CreateJson,
       FillPointer, Reload, Unlock, After, ReadSelected, family
  <1>2. ASSUME NEW p \in Procs, Run(p) PROVE Family!Next \/ UNCHANGED <<history, pointer>>
    BY <1>1, <1>2, DigestImplements, RenameImplements
  <1>3. ASSUME NEW p \in Procs, Raise(p) \/ Crash(p) \/ \E c \in CallsOf[p] : Start(p, c)
        PROVE  UNCHANGED <<history, pointer>>
    BY <1>3 DEF Raise, Crash, Start, family
  <1>4. CASE SelectBase BY <1>4 DEF SelectBase, family
  <1>5. CASE UNCHANGED vars BY <1>5 DEF vars, family
  <1>. QED BY <1>2, <1>3, <1>4, <1>5 DEF Next

\* The workflows implement the history of decisions of OverrideDecisions: decisions are never
\* rewritten, a withdrawal is about what is selected, and the selection only moves forward.
THEOREM Implements == Spec => ImplementsDecisions
  <1>1. Init => Family!Init BY DEF Init, Family!Init
  <1>. QED BY <1>1, Invariant, StepImplements, PTL DEF Spec, ImplementsDecisions, Family!Spec

-----------------------------------------------------------------------------
(* Every call ends *)

\* The steps a call has left, at most.
Left(step) ==
  CASE step = "idle" -> 0
    [] step = "pointer" -> 1
    [] step = "after" -> 2
    [] step = "unlock" -> 3
    [] step = "reload" -> 4
    [] step \in {"digest", "rename"} -> 5
    [] step \in {"pair", "swap"} -> 6
    [] step = "guard" -> 7
    [] step = "check" -> 8
    [] step = "lock" -> 9
    [] step = "exists" -> 10
    [] step = "confirm" -> 11
    [] step = "list" -> 12
    [] step = "again" -> 13
    [] step = "base" -> 14

\* Only the preview of a withdrawal reads the pointer before the history; with every other
\* call it is the last that is read.
Place(step, call) == IF step = "pointer" /\ call = "preview withdraw" THEN "again" ELSE step

StepsLeft(p) == Left(Place(pc[p], my[p].call))

LEMMA LeftIs ==
  /\ Left("idle") = 0 /\ Left("pointer") = 1 /\ Left("after") = 2 /\ Left("unlock") = 3
  /\ Left("reload") = 4 /\ Left("digest") = 5 /\ Left("rename") = 5 /\ Left("pair") = 6
  /\ Left("swap") = 6 /\ Left("guard") = 7 /\ Left("check") = 8 /\ Left("lock") = 9
  /\ Left("exists") = 10 /\ Left("confirm") = 11 /\ Left("list") = 12
  /\ Left("again") = 13 /\ Left("base") = 14
  BY DEF Left

LEMMA LeftType ==
  ASSUME NEW step \in Steps
  PROVE  Left(step) \in 0 .. 14 /\ (step # "idle" => Left(step) > 0)
<1>1. Left(step) \in 0 .. 14
  BY LeftIs DEF Steps, LockedSteps
<1>2. step # "idle" => Left(step) > 0
  BY LeftIs DEF Steps, LockedSteps
<1> QED BY <1>1, <1>2

LEMMA PlaceType ==
  ASSUME NEW step \in Steps, NEW call
  PROVE  Place(step, call) \in Steps /\ (Place(step, call) = "idle" <=> step = "idle")
  BY DEF Place, Steps

\* The step from one place to the next.
Flows(a, b) ==
  \/ a # "idle" /\ b = "idle"
  \/ a \in LockedSteps \ {"unlock"} /\ b = "unlock"
  \/ a = "base" /\ b = "again"
  \/ a = "again" /\ b = "list"
  \/ a = "list" /\ b \in {"pointer", "exists", "confirm"}
  \/ a = "confirm" /\ b \in {"exists", "lock"}
  \/ a = "exists" /\ b \in {"lock", "after"}
  \/ a = "lock" /\ b = "check"
  \/ a = "check" /\ b \in {"guard", "swap"}
  \/ a = "guard" /\ b = "pair"
  \/ a = "pair" /\ b = "digest"
  \/ a = "swap" /\ b = "rename"
  \/ a \in {"digest", "rename"} /\ b = "reload"
  \/ a = "unlock" /\ b = "after"
  \/ a = "after" /\ b = "pointer"

LEMMA FlowLowers ==
  ASSUME NEW a \in Steps, NEW b \in Steps, Flows(a, b)
  PROVE  Left(b) < Left(a)
<1>1. CASE b = "idle"
  BY <1>1, LeftIs, LeftType DEF Flows
<1>2. CASE b = "unlock"
  BY <1>2, LeftIs DEF Flows, LockedSteps
<1>3. CASE b # "idle" /\ b # "unlock"
  BY <1>3, LeftIs DEF Flows
<1> QED BY <1>1, <1>2, <1>3

Flow(p) == Flows(Place(pc[p], my[p].call), Place(pc'[p], my'[p].call))

\* A step that ends the call, one that leaves the locked section, and one that goes on.
LEMMA EndFlows ==
  ASSUME TypeOK, NEW p \in Procs, End(p), pc[p] # "idle"
  PROVE  Flow(p)
  BY DEF End, Goto, TypeOK, Flow, Flows, Place

LEMMA LeaveFlows ==
  ASSUME TypeOK, NEW p \in Procs, NEW result, Leave(p, result),
         pc[p] \in LockedSteps \ {"unlock"}
  PROVE  Flow(p)
  BY DEF Leave, Goto, TypeOK, Flow, Flows, Place, LockedSteps

LEMMA GoesOn ==
  ASSUME TypeOK, NEW p \in Procs, NEW step, Goto(p, step), NEW r,
         \/ UNCHANGED my
         \/ my' = [my EXCEPT ![p].base = r]
         \/ my' = [my EXCEPT ![p].pointer = r]
         \/ my' = [my EXCEPT ![p].replay = r]
         \/ my' = [my EXCEPT ![p].under = r]
  PROVE  pc'[p] = step /\ my'[p].call = my[p].call
<1>1. my[p] \in Locals
  BY DEF TypeOK
<1> QED BY <1>1 DEF TypeOK, Goto, Locals

\* Away from the pointer a place is the step itself.
LEMMA PlainFlows ==
  ASSUME TypeOK, NEW p \in Procs, pc[p] # "pointer", pc'[p] # "pointer",
         Flows(pc[p], pc'[p])
  PROVE  Flow(p)
  BY DEF Flow, Place

LEMMA PreviewsFlow ==
  ASSUME TypeOK, NEW p \in Procs,
         \/ ReadBase(p) \/ BaseAgain(p) \/ ReadActive(p) \/ ReadReplaced(p)
         \/ PreviewWrite(p) \/ PreviewSelect(p)
  PROVE  Flow(p)
<1> USE DEF Refuse
<1>1. CASE ReadBase(p)
  <2>1. CASE Goto(p, "again") /\ my' = [my EXCEPT ![p].base = base]
    BY <1>1, <2>1, GoesOn DEF ReadBase, Flow, Flows, Place
  <2> QED BY <1>1, <2>1, EndFlows DEF ReadBase
<1>2. CASE BaseAgain(p)
  <2>1. CASE Then(p, "list")
    BY <1>2, <2>1, GoesOn DEF BaseAgain, Then, Flow, Flows, Place
  <2> QED BY <1>2, <2>1, EndFlows DEF BaseAgain
<1>3. CASE ReadActive(p)
  <2>1. CASE Goto(p, "list") /\ my' = [my EXCEPT ![p].pointer = pointer]
    <3>1. pc[p] = "pointer" /\ my[p].call = "preview withdraw"
      BY <1>3 DEF ReadActive, Call
    <3>2. pc'[p] = "list"
      BY <2>1, GoesOn
    <3> QED BY <3>1, <3>2 DEF Flow, Flows, Place
  <2> QED BY <1>3, <2>1, EndFlows DEF ReadActive
<1>4. CASE ReadReplaced(p) \/ PreviewWrite(p)
  BY <1>4, EndFlows DEF ReadReplaced, PreviewWrite
<1>5. CASE PreviewSelect(p)
  <2>1. CASE Then(p, "pointer")
    BY <1>5, <2>1, GoesOn DEF PreviewSelect, Then, Call, Flow, Flows, Place
  <2> QED BY <1>5, <2>1, EndFlows DEF PreviewSelect
<1> QED BY <1>1, <1>2, <1>3, <1>4, <1>5

LEMMA CommitsFlow ==
  ASSUME IInv, NEW p \in Procs,
         \/ CompareHistory(p) \/ Confirm(p) \/ Exists(p) \/ Lock(p) \/ Check(p)
         \/ CompareAndSwap(p) \/ Guard(p) \/ CreateJson(p) \/ CreateDigest(p)
         \/ FillPointer(p) \/ RenamePointer(p) \/ Reload(p) \/ Unlock(p) \/ After(p)
         \/ ReadSelected(p)
  PROVE  Flow(p)
<1>0. TypeOK
  BY DEF IInv
<1> USE <1>0 DEF Refuse
<1>1. CASE CompareHistory(p)
  <2>1. CASE \E r : my' = [my EXCEPT ![p].replay = r] /\ Goto(p, IF r THEN "exists" ELSE "confirm")
    <3>1. pc'[p] \in {"exists", "confirm"}
      BY <2>1, GoesOn
    <3> QED BY <1>1, <3>1 DEF CompareHistory, Flow, Flows, Place
  <2> QED BY <1>1, <2>1, EndFlows DEF CompareHistory
<1>2. CASE Confirm(p) \/ Exists(p) \/ Lock(p)
  <2>1. CASE Confirm(p) /\ ~End(p)
    <3>1. pc[p] = "confirm" /\ pc'[p] \in {"lock", "exists"}
      BY <2>1 DEF Confirm, Then, Goto, TypeOK
    <3> QED BY <3>1, PlainFlows DEF Flows
  <2>2. CASE Exists(p) /\ ~End(p)
    <3>1. pc[p] = "exists" /\ pc'[p] \in {"after", "lock"}
      BY <2>2 DEF Exists, Then, Goto, TypeOK
    <3> QED BY <3>1, PlainFlows DEF Flows
  <2>3. CASE Lock(p) /\ ~End(p)
    <3>1. pc[p] = "lock" /\ pc'[p] = "check"
      BY <2>3 DEF Lock, Then, Goto, TypeOK
    <3> QED BY <3>1, PlainFlows DEF Flows
  <2> QED BY <1>2, <2>1, <2>2, <2>3, EndFlows DEF Confirm, Exists, Lock
<1>3. CASE Check(p) \/ CompareAndSwap(p) \/ Guard(p) \/ Reload(p)
  <2> DEFINE Leaves == \E result : Leave(p, result)
  <2>1. CASE (Check(p) \/ CompareAndSwap(p)) /\ ~Leaves
    <3>1. pc[p] = "check" /\ pc'[p] \in {"guard", "swap"}
      BY <2>1 DEF Check, CompareAndSwap, Then, Goto, TypeOK
    <3> QED BY <3>1, PlainFlows DEF Flows
  <2>2. CASE Guard(p) /\ ~Leaves
    <3>1. pc[p] = "guard" /\ pc'[p] = "pair"
      BY <2>2 DEF Guard, Then, Goto, TypeOK
    <3> QED BY <3>1, PlainFlows DEF Flows
  <2>3. CASE Leaves
    BY <1>3, <2>3, LeaveFlows DEF Check, CompareAndSwap, Guard, Reload, LockedSteps
  <2>4. Reload(p) => Leaves
    BY DEF Reload
  <2> QED BY <1>3, <2>1, <2>2, <2>3, <2>4
<1>4. CASE CreateJson(p) \/ FillPointer(p) \/ RenamePointer(p)
  BY <1>4, GoesOn, PlainFlows DEF CreateJson, FillPointer, RenamePointer, Then, Flows
<1>5. CASE CreateDigest(p)
  <2>1. pc[p] = "digest" /\ pc'[p] = "reload"
    BY <1>5 DEF CreateDigest, Goto, TypeOK
  <2> QED BY <2>1, PlainFlows DEF Flows
<1>6. CASE Unlock(p)
  <2>1. CASE Then(p, "after")
    BY <1>6, <2>1, GoesOn, PlainFlows DEF Unlock, Then, Flows
  <2> QED BY <1>6, <2>1, EndFlows DEF Unlock
<1>7. CASE After(p)
  <2>1. CASE Then(p, "pointer")
    <3>1. pc[p] = "after" /\ my[p].call # "preview withdraw"
      BY <1>7 DEF IInv, Mine, Knows, CallInv, After
    <3>2. pc'[p] = "pointer" /\ my'[p].call = my[p].call
      BY <2>1, GoesOn DEF Then
    <3> QED BY <3>1, <3>2 DEF Flow, Flows, Place
  <2> QED BY <1>7, <2>1, EndFlows DEF After
<1>8. CASE ReadSelected(p)
  <2>1. pc[p] = "pointer" /\ pc'[p] = "idle"
    BY <1>8 DEF ReadSelected, End, Goto, TypeOK
  <2> QED BY <2>1 DEF Flow, Flows, Place
<1> QED BY <1>1, <1>2, <1>3, <1>4, <1>5, <1>6, <1>7, <1>8

LEMMA FailuresFlow ==
  ASSUME TypeOK, NEW p \in Procs, Raise(p) \/ Crash(p)
  PROVE  Flow(p)
  BY EndFlows, LeaveFlows DEF Raise, Crash, Refuse, LockedSteps

\* The steps of the process p.
Step(p) == Run(p) \/ Raise(p) \/ Crash(p) \/ \E c \in CallsOf[p] : Start(p, c)

LEMMA Frame ==
  ASSUME TypeOK, NEW p \in Procs, NEW q \in Procs, q # p, Step(q)
  PROVE  pc'[p] = pc[p] /\ my'[p] = my[p]
<1> USE DEF Goto, Then, End, Refuse, Leave, TypeOK
<1>1. CASE \/ ReadBase(q) \/ BaseAgain(q) \/ ReadActive(q) \/ ReadReplaced(q)
           \/ PreviewWrite(q) \/ PreviewSelect(q) \/ CompareHistory(q) \/ Confirm(q)
           \/ \E c \in CallsOf[q] : Start(q, c)
  BY <1>1 DEF ReadBase, BaseAgain, ReadActive, ReadReplaced, PreviewWrite, PreviewSelect,
              CompareHistory, Confirm, Start
<1>2. CASE \/ Exists(q) \/ Lock(q) \/ Check(q) \/ CompareAndSwap(q) \/ Guard(q)
           \/ CreateJson(q) \/ CreateDigest(q) \/ FillPointer(q) \/ RenamePointer(q)
  BY <1>2 DEF Exists, Lock, Check, CompareAndSwap, Guard, CreateJson, CreateDigest,
              FillPointer, RenamePointer
<1>3. CASE Reload(q) \/ Unlock(q) \/ After(q) \/ ReadSelected(q) \/ Raise(q) \/ Crash(q)
  BY <1>3 DEF Reload, Unlock, After, ReadSelected, Raise, Crash
<1> QED BY <1>1, <1>2, <1>3 DEF Step, Run

LEMMA StartLeft ==
  ASSUME TypeOK, NEW p \in Procs, NEW c \in Calls, Start(p, c)
  PROVE  StepsLeft(p)' \in 12 .. 14
<1>1. pc'[p] = FirstStep(c) /\ my'[p].call = c
  BY DEF TypeOK, Start, Goto, NoCall
<1>2. Place(pc'[p], my'[p].call) \in {"base", "again", "list"}
  BY <1>1 DEF Place, FirstStep, Calls, Previews, Commits
<1>3. \A step \in {"base", "again", "list"} : Left(step) \in 12 .. 14
  BY LeftIs
<1> QED BY <1>2, <1>3 DEF StepsLeft

\* A preview or a commit takes at most 14 steps of its own, whatever the other teachers,
\* the failures and the changes of the base result do around it: a lock that is taken or a
\* source that has moved is refused, never waited for or tried again.
THEOREM CallsAreFinite ==
  Spec => [][\A p \in Procs :
               /\ \A c \in CallsOf[p] : Start(p, c) => StepsLeft(p)' \in 12 .. 14
               /\ Run(p) \/ Raise(p) \/ Crash(p) => StepsLeft(p)' \in 0 .. StepsLeft(p) - 1
               /\ ~Step(p) => StepsLeft(p)' = StepsLeft(p)]_vars
<1> DEFINE Counts(p) ==
      /\ \A c \in CallsOf[p] : Start(p, c) => StepsLeft(p)' \in 12 .. 14
      /\ Run(p) \/ Raise(p) \/ Crash(p) => StepsLeft(p)' \in 0 .. StepsLeft(p) - 1
      /\ ~Step(p) => StepsLeft(p)' = StepsLeft(p)
<1>1. IInv /\ IInv' /\ [Next]_vars => [\A p \in Procs : Counts(p)]_vars
  <2> SUFFICES ASSUME IInv, TypeOK, TypeOK', Next, NEW p \in Procs PROVE Counts(p)
    BY DEF IInv
  <2>1. ASSUME NEW c \in CallsOf[p], Start(p, c) PROVE StepsLeft(p)' \in 12 .. 14
    BY <2>1, StartLeft, OverrideAssumption
  <2>2. ASSUME Run(p) \/ Raise(p) \/ Crash(p) PROVE StepsLeft(p)' \in 0 .. StepsLeft(p) - 1
    <3>1. StepsLeft(p)' < StepsLeft(p)
      <4>1. Flow(p)
        BY <2>2, PreviewsFlow, CommitsFlow, FailuresFlow DEF Run
      <4> QED BY <4>1, FlowLowers, PlaceType DEF Flow, StepsLeft, TypeOK
    <3>2. StepsLeft(p) \in 0 .. 14 /\ StepsLeft(p)' \in 0 .. 14
      BY LeftType, PlaceType DEF StepsLeft, TypeOK
    <3> QED BY <3>1, <3>2
  <2>3. ASSUME ~Step(p) PROVE StepsLeft(p)' = StepsLeft(p)
    <3>1. CASE SelectBase
      <4>1. my[p] \in Locals
        BY DEF TypeOK
      <4>2. my'[p].call = my[p].call
        BY <3>1, <4>1 DEF SelectBase, Locals
      <4> QED BY <3>1, <4>2 DEF SelectBase, StepsLeft
    <3>2. ASSUME NEW q \in Procs, Step(q) PROVE StepsLeft(p)' = StepsLeft(p)
      BY <2>3, <3>2, Frame DEF StepsLeft
    <3> QED BY <3>1, <3>2 DEF Next, Step
  <2> QED BY <2>1, <2>2, <2>3
<1> QED BY <1>1, Invariant, PTL DEF Spec
=============================================================================

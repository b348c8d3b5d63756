-------------------------- MODULE ProjectionCacheProofs --------------------------
(***************************************************************************)
(* The entry protocol of the projection cache, for any number of callers:  *)
(* snapshots are written once, and what an unlocked reader or a writer is  *)
(* told of is there to stay.                                               *)
(*                                                                         *)
(* A step changes only the entry its process works on, and only under its  *)
(* lock.  A reader takes no lock; it is safe because it has seen the lock  *)
(* free after it learned the name it opens, and a snapshot that is begun   *)
(* after that has another name.                                            *)
(***************************************************************************)
EXTENDS EvidenceProjection, TLAPS

\* The steps after a snapshot has been begun, and those of a call that has evidence.
BegunSteps == {"fill", "sync", "clean"}
ProjectedSteps == {"reauthorize", "ensure", "mkdir", "probe", "lock"} \cup LockedSteps

Told == Statuses \cup {"created", "existing"}

Begun(k) == \E p \in Procs : pc[p] \in BegunSteps /\ key[p] = k
Settled(p) == Committed(key[p]) /\ evidence[p] = file[key[p]]

Outer ==
  /\ core \in Contexts /\ manifest \in {"intact", "altered"}
  /\ build \in Builds /\ policy \in Policies /\ truth \in [Procs -> SUBSET Contexts]
  /\ changes \in 0 .. MaxChanges /\ crashes \in 0 .. MaxCrashes /\ faults \in 0 .. MaxFaults

Entries ==
  /\ dir \in [Keys -> BOOLEAN] /\ lock \in [Keys -> Procs \cup {NoProc, Orphan}]
  /\ marker \in [Keys -> BOOLEAN] /\ file \in [Keys -> Inventories \cup {Absent, Torn}]
  /\ attempt \in [Keys -> Nat]

Calling ==
  /\ pc \in [Procs -> Steps] /\ outcome \in [Procs -> Outcomes \cup Statuses]
  /\ phase \in [Procs -> {"initial", "final", "again", "read"}]
  /\ req \in [Procs -> Calls] /\ seen \in [Procs -> Contexts]
  /\ member \in [Procs -> 1 .. MaxLength] /\ base \in [Procs -> Contexts]
  /\ authorizer \in [Procs -> Policies] /\ key \in [Procs -> Keys]
  /\ evidence \in [Procs -> Inventories \cup {Absent}] /\ found \in [Procs -> Nat]

Shape == Outer /\ Entries /\ Calling

\* An entry is begun again only after an attempt that failed and was removed.
Counted ==
  /\ \A k \in Keys :
       /\ attempt[k] <= faults + 1
       /\ file[k] = Absent \/ (\E p \in Procs : pc[p] = "clean" /\ key[p] = k)
            => attempt[k] <= faults
  /\ \A p \in Procs : found[p] <= faults + 1

\* What a call at its step knows of its entry.
Mine(p) ==
  /\ pc[p] \in LockedSteps => lock[key[p]] = p
  /\ pc[p] \in {"mark", "open"} => file[key[p]] = Absent
  /\ pc[p] \in {"sync", "reload"} => file[key[p]] = evidence[p]
  /\ pc[p] \in ProjectedSteps \/ (pc[p] \in LoadSteps /\ phase[p] = "again")
       => evidence[p] \in Inventories
  /\ pc[p] \in {"await", "read"} => found[p] <= attempt[key[p]]
  /\ pc[p] = "read" /\ found[p] = attempt[key[p]] => ~Begun(key[p])
  /\ outcome[p] \in Statuses => pc[p] = "idle"
  /\ outcome[p] \in {"created", "existing"} => pc[p] \in {"idle", "unlock"}
  /\ pc[p] = "assess" \/ outcome[p] \in Told => Settled(p)

\* The inductive invariant.
IInv == Shape /\ Counted /\ \A p \in Procs : Mine(p)

\* What a step of p does to the entries.
Effect(p) ==
  /\ \A q \in Procs \ {p} :
       /\ pc'[q] = pc[q] /\ key'[q] = key[q] /\ evidence'[q] = evidence[q]
       /\ found'[q] = found[q] /\ outcome'[q] = outcome[q] /\ phase'[q] = phase[q]
  /\ \A k \in Keys \ {key[p]} : file'[k] = file[k] /\ attempt'[k] = attempt[k]
  /\ pc[p] \notin LockedSteps => file' = file /\ attempt' = attempt
  /\ pc'[p] \in WindowSteps => pc[p] \in LockedSteps /\ key'[p] = key[p]
  /\ \A k \in Keys, q \in Procs \ {p} : lock[k] = q => lock'[k] = q
  /\ Committed(key[p]) => file'[key[p]] = file[key[p]] /\ pc'[p] \notin WindowSteps
  /\ attempt[key[p]] <= attempt'[key[p]]
  /\ pc'[p] \in BegunSteps /\ pc[p] \notin BegunSteps => attempt[key[p]] < attempt'[key[p]]
  /\ faults <= faults' /\ found'[p] <= faults' + 1
  /\ pc[p] \in LockedSteps =>
       /\ attempt'[key[p]] <= faults' + 1
       /\ file'[key[p]] = Absent \/ pc'[p] = "clean" => attempt'[key[p]] <= faults'

-----------------------------------------------------------------------------
(* What an effect leaves to the others *)

\* Only one process is under the lock of an entry.
LEMMA OneHolder ==
  ASSUME IInv, NEW p \in Procs, NEW q \in Procs, pc[p] \in LockedSteps, pc[q] \in LockedSteps,
         key[p] = key[q]
  PROVE  p = q
  BY DEF IInv, Mine

LEMMA InWindow == /\ WindowSteps \subseteq LockedSteps /\ BegunSteps \subseteq WindowSteps
                  /\ LockedSteps \subseteq ProjectedSteps
  BY DEF WindowSteps, LockedSteps, BegunSteps, ProjectedSteps

\* A committed snapshot stays.
LEMMA CommittedStays ==
  ASSUME IInv, NEW p \in Procs, Effect(p), NEW k \in Keys, Committed(k)
  PROVE  file'[k] = file[k] /\ Committed(k)'
  <1>1. file'[k] = file[k] BY DEF Effect
  <1>2. ASSUME NEW q \in Procs PROVE ~(pc'[q] \in WindowSteps /\ key'[q] = k)
    <2>1. CASE q # p BY <2>1 DEF Effect, Committed
    <2>2. CASE q = p BY <2>2 DEF Effect
    <2>. QED BY <2>1, <2>2
  <1>. QED BY <1>1, <1>2 DEF Committed

LEMMA OthersKnow ==
  ASSUME IInv, Shape', NEW p \in Procs, Effect(p), NEW q \in Procs, q # p
  PROVE  Mine(q)'
  <1>. PICK k \in Keys : k = key[q] BY DEF IInv, Shape, Calling
  <1>1. /\ pc'[q] = pc[q] /\ key'[q] = k /\ evidence'[q] = evidence[q]
        /\ found'[q] = found[q] /\ outcome'[q] = outcome[q] /\ phase'[q] = phase[q]
    BY DEF Effect
  <1>2. Mine(q) /\ k \in Keys /\ attempt[k] \in Nat /\ attempt'[k] \in Nat /\ found[q] \in Nat
    BY DEF IInv, Shape, Calling, Entries
  <1>3. pc[q] \in LockedSteps => lock'[k] = q BY <1>2 DEF Mine, Effect
  <1>4. pc[q] \in LockedSteps => file'[k] = file[k]
    <2>1. CASE k # key[p] BY <1>2, <2>1 DEF Effect
    <2>2. CASE k = key[p] BY <2>2, OneHolder DEF Effect
    <2>. QED BY <2>1, <2>2
  <1>5. attempt[k] <= attempt'[k]
    <2>1. CASE k # key[p] BY <1>2, <2>1 DEF Effect
    <2>2. CASE k = key[p] BY <2>2 DEF Effect
    <2>. QED BY <2>1, <2>2
  <1>6. ASSUME attempt'[k] = attempt[k], ~Begun(k) PROVE ~Begun(k)'
    <2>1. ASSUME NEW r \in Procs, pc'[r] \in BegunSteps, key'[r] = k PROVE FALSE
      <3>1. CASE r # p BY <1>6, <2>1, <3>1 DEF Effect, Begun
      <3>2. CASE r = p
        <4>1. key[p] = k BY <2>1, <3>2, InWindow DEF Effect
        <4>2. pc[p] \notin BegunSteps BY <1>6, <4>1 DEF Begun
        <4>3. attempt[k] < attempt'[k] BY <2>1, <3>2, <4>1, <4>2 DEF Effect
        <4>. QED BY <1>2, <1>6, <4>3
      <3>. QED BY <3>1, <3>2
    <2>. QED BY <2>1 DEF Begun
  <1>7. pc[q] \in {"await", "read"} => found[q] <= attempt'[k] BY <1>2, <1>5 DEF Mine
  <1>8. pc[q] = "read" /\ found[q] = attempt'[k] => ~Begun(k)'
    <2>1. ASSUME pc[q] = "read", found[q] = attempt'[k] PROVE ~Begun(k)'
      <3>1. found[q] <= attempt[k] BY <1>2, <2>1 DEF Mine
      <3>2. attempt'[k] = attempt[k] BY <1>2, <1>5, <2>1, <3>1
      <3>3. ~Begun(k) BY <1>2, <2>1, <3>2 DEF Mine
      <3>. QED BY <1>6, <3>2, <3>3
    <2>. QED BY <2>1
  <1>9. pc[q] = "assess" \/ outcome[q] \in Told => Committed(k)' /\ evidence[q] = file'[k]
    BY <1>2, CommittedStays DEF Mine, Settled
  <1>10. {"mark", "open", "sync", "reload"} \subseteq LockedSteps BY DEF LockedSteps
  <1>. QED
    BY <1>1, <1>2, <1>3, <1>4, <1>7, <1>8, <1>9, <1>10 DEF Mine, Settled, Begun, Committed

LEMMA CountKeeps ==
  ASSUME IInv, Shape', NEW p \in Procs, Effect(p)
  PROVE  Counted'
  <1>1. faults \in Nat /\ faults' \in Nat /\ faults <= faults'
    BY ProjectionAssumption DEF IInv, Shape, Outer, Effect
  <1>2. ASSUME NEW k \in Keys
        PROVE  /\ attempt'[k] <= faults' + 1
               /\ file'[k] = Absent \/ (\E q \in Procs : pc'[q] = "clean" /\ key'[q] = k)
                    => attempt'[k] <= faults'
    <2>1. attempt[k] \in Nat /\ attempt'[k] \in Nat BY DEF IInv, Shape, Entries
    <2>2. "clean" \in WindowSteps /\ "clean" \in LockedSteps BY DEF WindowSteps, LockedSteps
    <2>3. CASE k # key[p] \/ pc[p] \notin LockedSteps
      <3>1. file'[k] = file[k] /\ attempt'[k] = attempt[k] BY <2>3 DEF Effect
      <3>2. ASSUME NEW q \in Procs, pc'[q] = "clean", key'[q] = k
            PROVE  pc[q] = "clean" /\ key[q] = k
        <4>1. CASE q = p BY <2>2, <2>3, <3>2, <4>1 DEF Effect
        <4>2. CASE q # p BY <3>2, <4>2 DEF Effect
        <4>. QED BY <4>1, <4>2
      <3>3. /\ attempt[k] <= faults + 1
            /\ file[k] = Absent \/ (\E q \in Procs : pc[q] = "clean" /\ key[q] = k)
                 => attempt[k] <= faults
        BY DEF IInv, Counted
      <3>4. file'[k] = Absent \/ (\E q \in Procs : pc'[q] = "clean" /\ key'[q] = k)
              => attempt[k] <= faults
        BY <3>1, <3>2, <3>3
      <3>. QED BY <1>1, <2>1, <3>1, <3>3, <3>4
    <2>4. CASE k = key[p] /\ pc[p] \in LockedSteps
      <3>1. ASSUME NEW q \in Procs, pc'[q] = "clean", key'[q] = k PROVE pc'[p] = "clean"
        <4>1. CASE q # p
          <5>1. pc[q] = "clean" /\ key[q] = k BY <3>1, <4>1 DEF Effect
          <5>. QED BY <2>2, <2>4, <4>1, <5>1, OneHolder
        <4>. QED BY <3>1, <4>1
      <3>. QED BY <2>4, <3>1 DEF Effect
    <2>. QED BY <2>3, <2>4
  <1>3. ASSUME NEW q \in Procs PROVE found'[q] <= faults' + 1
    <2>1. found[q] \in Nat /\ found[q] <= faults + 1
      BY DEF IInv, Shape, Calling, Counted
    <2>2. CASE q # p BY <1>1, <2>1, <2>2 DEF Effect
    <2>3. CASE q = p BY <2>3 DEF Effect
    <2>. QED BY <2>2, <2>3
  <1>. QED BY <1>2, <1>3 DEF Counted

LEMMA StepKeeps ==
  ASSUME IInv, Shape', NEW p \in Procs, Effect(p), Mine(p)'
  PROVE  IInv' /\ Effect(p)
  BY OthersKnow, CountKeeps DEF IInv

-----------------------------------------------------------------------------
(* Types *)

LEMMA OuterKeeps ==
  ASSUME Shape, Calm \/ (Outside /\ Fault)
  PROVE  Outer' /\ faults \in Nat /\ faults' \in Nat /\ faults <= faults' /\ truth' = truth
  <1>1. Outer /\ faults \in 0 .. MaxFaults BY DEF Shape, Outer
  <1>2. UNCHANGED <<core, manifest, build, policy, truth>>
    BY DEF Calm, Outside, environment
  <1>3. CASE Calm BY <1>1, <1>2, <1>3, ProjectionAssumption DEF Outer, Calm, counters
  <1>4. CASE Outside /\ Fault
    <2>1. faults' = faults + 1 /\ faults < MaxFaults /\ UNCHANGED <<changes, crashes>>
      BY <1>4 DEF Fault
    <2>2. faults' \in 0 .. MaxFaults /\ faults \in Nat /\ faults' \in Nat /\ faults <= faults'
      BY <1>1, <2>1, ProjectionAssumption
    <2>. QED BY <1>1, <1>2, <2>1, <2>2 DEF Outer
  <1>. QED BY <1>3, <1>4

\* What a process does and says next.
Acts(p) ==
  /\ \E s \in Steps : pc' = [pc EXCEPT ![p] = s]
  /\ \E r \in Outcomes \cup Statuses : outcome' = [outcome EXCEPT ![p] = r]

LEMMA ActsThen ==
  ASSUME Shape, NEW p \in Procs, NEW s \in Steps, Then(p, s)
  PROVE  Acts(p) /\ pc' = [pc EXCEPT ![p] = s] /\ outcome' = [outcome EXCEPT ![p] = outcome[p]]
         /\ outcome[p] \in Outcomes \cup Statuses
  <1>1. pc' = [pc EXCEPT ![p] = s] BY DEF Then, Goto
  <1>2. outcome' = outcome /\ outcome \in [Procs -> Outcomes \cup Statuses]
    BY DEF Shape, Calling, Then
  <1>3. outcome' = [outcome EXCEPT ![p] = outcome[p]] /\ outcome[p] \in Outcomes \cup Statuses
    BY <1>2
  <1>. QED BY <1>1, <1>3 DEF Acts

LEMMA ActsReturn ==
  ASSUME NEW p \in Procs, NEW r \in Outcomes \cup Statuses, Return(p, r)
  PROVE  Acts(p) /\ pc' = [pc EXCEPT ![p] = "idle"] /\ outcome' = [outcome EXCEPT ![p] = r]
  BY DEF Return, Goto, Acts, Steps

LEMMA ActsLeave ==
  ASSUME NEW p \in Procs, NEW r \in Outcomes \cup Statuses, Leave(p, r)
  PROVE  Acts(p) /\ pc' = [pc EXCEPT ![p] = "unlock"] /\ outcome' = [outcome EXCEPT ![p] = r]
  BY DEF Leave, Goto, Acts, Steps, LockedSteps

\* A step that changes no local variable.
LEMMA LocalSame ==
  ASSUME Shape, NEW p \in Procs, Acts(p), UNCHANGED local
  PROVE  Calling'
  BY DEF Shape, Calling, Acts, local

LEMMA KeyType ==
  ASSUME NEW c \in Contexts, NEW b \in Builds, NEW a \in Policies, NEW scope \in Scopes
  PROVE  KeyOf(c, b, a, scope) \in Keys
  BY DEF KeyOf, Contexts, Policies, Keys

LEMMA LoadContext ==
  ASSUME NEW c \in Contexts, NEW d \in Contexts
  PROVE  /\ [reg |-> d.reg, length |-> Target, withdrawn |-> {}] \in Contexts
         /\ [c EXCEPT !.length = d.length] \in Contexts
         /\ \A i \in 1 .. MaxLength :
              [c EXCEPT !.withdrawn = @ \cup (d.withdrawn \cap {i})] \in Contexts
  <1>1. Target \in Target .. MaxLength BY ProjectionAssumption
  <1>2. [reg |-> d.reg, length |-> Target, withdrawn |-> {}] \in Contexts
    BY <1>1 DEF Contexts
  <1>3. [c EXCEPT !.length = d.length] \in Contexts BY DEF Contexts
  <1>4. ASSUME NEW i \in 1 .. MaxLength
        PROVE  [c EXCEPT !.withdrawn = @ \cup (d.withdrawn \cap {i})] \in Contexts
    <2>1. c.withdrawn \cup (d.withdrawn \cap {i}) \in SUBSET (1 .. MaxLength) BY DEF Contexts
    <2>. QED BY <2>1 DEF Contexts
  <1>. QED BY <1>2, <1>3, <1>4

LEMMA LoadShape ==
  ASSUME Shape, NEW p \in Procs, Load(p) \/ LoadRaises(p)
  PROVE  Shape' /\ Acts(p)
  <1>1. Outer' BY OuterKeeps DEF Load, LoadRegistration, LoadSeries, LoadWithdrawal, LoadRaises
  <1>2. Entries'
    BY DEF Shape, Entries, entries, Load, LoadRegistration, LoadSeries, LoadWithdrawal, LoadRaises
  <1>3. core \in Contexts /\ seen[p] \in Contexts /\ member[p] \in 1 .. MaxLength
    BY DEF Shape, Outer, Calling
  <1>4. CASE LoadRegistration(p)
    <2>1. Acts(p) BY <1>4, ActsThen DEF LoadRegistration, Steps, LoadSteps
    <2>. QED BY <1>1, <1>2, <1>3, <1>4, <2>1, LoadContext
         DEF Shape, Calling, Acts, LoadRegistration
  <1>5. CASE LoadSeries(p)
    <2>1. Acts(p) BY <1>5, ActsThen DEF LoadSeries, Steps, LoadSteps
    <2>2. 1 \in 1 .. MaxLength BY ProjectionAssumption
    <2>3. seen' = [seen EXCEPT ![p] = [seen[p] EXCEPT !.length = core.length]]
      BY <1>5 DEF LoadSeries
    <2>4. seen' \in [Procs -> Contexts] BY <1>3, <2>3, LoadContext DEF Shape, Calling
    <2>. QED BY <1>1, <1>2, <1>5, <2>1, <2>2, <2>4 DEF Shape, Calling, Acts, LoadSeries
  <1>6. CASE LoadWithdrawal(p)
    <2>1. AfterLoad(phase[p]) \in Steps
      BY DEF AfterLoad, Steps
    <2>2. Acts(p) BY <1>6, <2>1, ActsThen DEF LoadWithdrawal, Steps, LoadSteps
    <2>3. seen' = [seen EXCEPT ![p] =
                     [seen[p] EXCEPT !.withdrawn = @ \cup (core.withdrawn \cap {member[p]})]]
      BY <1>6 DEF LoadWithdrawal
    <2>4. seen' \in [Procs -> Contexts] BY <1>3, <2>3, LoadContext DEF Shape, Calling
    <2>5. member' \in [Procs -> 1 .. MaxLength]
      <3>1. seen[p].length \in Target .. MaxLength BY <1>3 DEF Contexts
      <3>2. member[p] < seen[p].length => member[p] + 1 \in 1 .. MaxLength
        BY <1>3, <3>1, ProjectionAssumption
      <3>. QED BY <1>6, <3>2 DEF LoadWithdrawal, Shape, Calling
    <2>. QED BY <1>1, <1>2, <1>6, <2>2, <2>4, <2>5 DEF Shape, Calling, Acts, LoadWithdrawal
  <1>7. CASE LoadRaises(p)
    <2>1. Acts(p) BY <1>7, ActsReturn DEF LoadRaises, Outcomes
    <2>2. Calling' BY <1>7, <2>1, LocalSame DEF LoadRaises
    <2>. QED BY <1>1, <1>2, <2>1, <2>2 DEF Shape
  <1>. QED BY <1>4, <1>5, <1>6, <1>7 DEF Load

LEMMA PrepareShape ==
  ASSUME Shape, NEW p \in Procs, Prepare(p) \/ AdapterRaises(p) \/ Reload(p)
  PROVE  Shape' /\ Acts(p)
  <1>. USE DEF Prepare
  <1>1. Outer'
    BY OuterKeeps DEF Drift, Authorize, Verify, ReadBytes, Confirm, Project, AdapterRaises, Reload
  <1>2. Entries'
    BY DEF Shape, Entries, entries, Drift, Authorize, Verify, ReadBytes, Confirm, Project,
       AdapterRaises, Reload
  <1>3. CASE Drift(p) \/ Verify(p) \/ Confirm(p) \/ AdapterRaises(p)
    <2>1. Acts(p) BY <1>3, ActsReturn, ActsThen DEF Drift, Verify, Confirm, AdapterRaises,
                                                   Outcomes, Steps
    <2>2. Calling' BY <1>3, <2>1, LocalSame DEF Drift, Verify, Confirm, AdapterRaises
    <2>. QED BY <1>1, <1>2, <2>1, <2>2 DEF Shape
  <1>4. CASE Authorize(p)
    <2>1. Acts(p) BY <1>4, ActsReturn, ActsThen DEF Authorize, Outcomes, Steps
    <2>2. req[p].scope \in Scopes /\ seen[p] \in Contexts /\ build \in Builds
          /\ authorizer[p] \in Policies
      BY DEF Shape, Outer, Calling, Calls
    <2>3. KeyOf(seen[p], build, authorizer[p], req[p].scope) \in Keys BY <2>2, KeyType
    <2>4. key' = [key EXCEPT ![p] = KeyOf(seen[p], build, authorizer[p], req[p].scope)]
          /\ base' = [base EXCEPT ![p] = seen[p]]
          /\ UNCHANGED <<phase, req, seen, member, authorizer, evidence, found>>
      BY <1>4 DEF Authorize
    <2>5. key' \in [Procs -> Keys] /\ base' \in [Procs -> Contexts]
      BY <2>2, <2>3, <2>4 DEF Shape, Calling
    <2>6. Calling' BY <2>1, <2>4, <2>5 DEF Shape, Calling, Acts
    <2>. QED BY <1>1, <1>2, <2>1, <2>6 DEF Shape
  <1>5. CASE ReadBytes(p)
    <2>1. Acts(p)
      BY <1>5, ActsReturn, ActsThen
         DEF ReadBytes, StartLoad, Then, Outcomes, Steps, LoadSteps
    <2>2. Calling' BY <1>5, <2>1 DEF Shape, Calling, Acts, ReadBytes, StartLoad
    <2>. QED BY <1>1, <1>2, <2>1, <2>2 DEF Shape
  <1>6. CASE Reload(p)
    <2>1. Acts(p)
      <3>1. pc' = [pc EXCEPT ![p] = pc[p]] /\ outcome' = [outcome EXCEPT ![p] = outcome[p]]
        BY <1>6 DEF Reload, Shape, Calling
      <3>2. pc[p] \in Steps /\ outcome[p] \in Outcomes \cup Statuses BY DEF Shape, Calling
      <3>. QED BY <3>1, <3>2 DEF Acts
    <2>2. policy \in Policies BY DEF Shape, Outer
    <2>3. Calling' BY <1>6, <2>2 DEF Shape, Calling, Reload
    <2>. QED BY <1>1, <1>2, <2>1, <2>3 DEF Shape
  <1>7. CASE Project(p)
    <2>1. Acts(p)
      BY <1>7, ActsReturn, ActsThen DEF Project, StartLoad, Then, Outcomes, Steps, LoadSteps
    <2>2. phase' \in [Procs -> {"initial", "final", "again", "read"}]
          /\ evidence' \in [Procs -> Inventories \cup {Absent}]
      BY <1>7 DEF Shape, Calling, Project, StartLoad
    <2>3. Calling' BY <1>7, <2>1, <2>2 DEF Shape, Calling, Acts, Project
    <2>. QED BY <1>1, <1>2, <2>1, <2>3 DEF Shape
  <1>. QED BY <1>3, <1>4, <1>5, <1>6, <1>7

LEMMA CacheShape ==
  ASSUME Shape, NEW p \in Procs,
         \/ Cache(p) \/ MkdirRaises(p) \/ LockRaises(p) \/ OpenRaises(p) \/ FillRaises(p)
         \/ CleanRaises(p) \/ RecheckRaises(p) \/ UnlockRaises(p)
  PROVE  Shape' /\ Acts(p)
  <1>. USE DEF Cache
  <1>1. Outer'
    BY OuterKeeps
       DEF Reauthorize, Ensure, Mkdir, Probe, Lock, Inspect, Mark, Open, Fill, Sync, Clean, Recheck,
           Unlock, MkdirRaises, LockRaises, OpenRaises, FillRaises, CleanRaises, RecheckRaises,
           UnlockRaises
  <1>2. UNCHANGED local
    BY DEF Reauthorize, Ensure, Mkdir, Probe, Lock, Inspect, Mark, Open, Fill, Sync, Clean, Recheck,
           Unlock, MkdirRaises, LockRaises, OpenRaises, FillRaises, CleanRaises, RecheckRaises,
           UnlockRaises, local
  <1>3. Acts(p)
    <2>1. CASE Reauthorize(p) \/ Ensure(p) \/ Mkdir(p) \/ Probe(p) \/ MkdirRaises(p)
      BY <2>1, ActsThen, ActsReturn
         DEF Reauthorize, Ensure, Mkdir, Probe, MkdirRaises, Outcomes, Steps
    <2>2. CASE Lock(p) \/ LockRaises(p)
      BY <2>2, ActsThen, ActsReturn DEF Lock, LockRaises, Outcomes, Steps, LockedSteps
    <2>3. CASE Inspect(p) \/ Mark(p) \/ Open(p) \/ Fill(p) \/ Sync(p)
      BY <2>3, ActsThen, ActsLeave
         DEF Inspect, Mark, Open, Fill, Sync, Outcomes, Steps, LockedSteps
    <2>4. CASE Clean(p) \/ Recheck(p) \/ OpenRaises(p) \/ FillRaises(p) \/ CleanRaises(p)
               \/ RecheckRaises(p)
      BY <2>4, ActsThen, ActsLeave
         DEF Clean, Recheck, OpenRaises, FillRaises, CleanRaises, RecheckRaises, Outcomes, Steps,
             LockedSteps
    <2>5. CASE Unlock(p) \/ UnlockRaises(p)
      BY <2>5, ActsThen, ActsReturn DEF Unlock, UnlockRaises, Outcomes, Steps
    <2>. QED BY <2>1, <2>2, <2>3, <2>4, <2>5
  <1>4. Calling' BY <1>2, <1>3, LocalSame
  <1>5. Entries'
    <2>1. Entries /\ key[p] \in Keys /\ evidence[p] \in Inventories \cup {Absent}
      BY DEF Shape, Calling
    <2>2. CASE UNCHANGED entries BY <2>1, <2>2 DEF Entries, entries
    <2>3. CASE Mkdir(p) BY <2>1, <2>3 DEF Entries, Mkdir
    <2>4. CASE Lock(p) \/ LockRaises(p) \/ Unlock(p) \/ UnlockRaises(p)
      BY <2>1, <2>4 DEF Entries, Lock, LockRaises, Unlock, UnlockRaises
    <2>5. CASE Mark(p) BY <2>1, <2>5 DEF Entries, Mark
    <2>6. CASE OpenRaises(p)
      <3>1. PICK made \in BOOLEAN :
              marker' = [marker EXCEPT ![key[p]] = marker[key[p]] \/ (made /\ pc[p] = "mark")]
        BY <2>6 DEF OpenRaises
      <3>2. (marker[key[p]] \/ (made /\ pc[p] = "mark")) \in BOOLEAN OBVIOUS
      <3>3. marker' \in [Keys -> BOOLEAN] BY <2>1, <3>1, <3>2 DEF Entries
      <3>. QED BY <2>1, <2>6, <3>3 DEF Entries, OpenRaises
    <2>7. CASE Open(p)
      <3>1. attempt' = [attempt EXCEPT ![key[p]] = attempt[key[p]] + 1]
            /\ file' = [file EXCEPT ![key[p]] = Torn] /\ UNCHANGED <<dir, lock, marker>>
        BY <2>7 DEF Open
      <3>2. attempt' \in [Keys -> Nat] BY <2>1, <3>1 DEF Entries
      <3>. QED BY <2>1, <3>1, <3>2 DEF Entries
    <2>8. CASE Fill(p) \/ Clean(p) BY <2>1, <2>8 DEF Entries, Fill, Clean
    <2>. QED BY <2>2, <2>3, <2>4, <2>5, <2>6, <2>7, <2>8
         DEF Reauthorize, Ensure, Probe, Inspect, Sync, Recheck, MkdirRaises, FillRaises,
             CleanRaises, RecheckRaises
  <1>. QED BY <1>1, <1>3, <1>4, <1>5 DEF Shape

LEMMA ReadShape ==
  ASSUME Shape, NEW p \in Procs, ReadCache(p)
  PROVE  Shape' /\ Acts(p)
  <1>. USE DEF ReadCache
  <1>1. Outer' BY OuterKeeps DEF Permit, Find, Await, Read, Assess
  <1>2. Entries' BY DEF Shape, Entries, entries, Permit, Find, Await, Read, Assess
  <1>3. key[p] \in Keys /\ file[key[p]] \in Inventories \cup {Absent, Torn}
        /\ attempt[key[p]] \in Nat
    BY DEF Shape, Calling, Entries
  <1>4. CASE Permit(p) \/ Await(p)
    <2>1. Acts(p) BY <1>4, ActsReturn, ActsThen DEF Permit, Await, Outcomes, Steps
    <2>2. Calling' BY <1>4, <2>1, LocalSame DEF Permit, Await
    <2>. QED BY <1>1, <1>2, <2>1, <2>2 DEF Shape
  <1>5. CASE Assess(p)
    <2>1. Reuse(key[p], seen[p], manifest = "intact", build, authorizer[p], req[p].scope)
            \in Outcomes \cup Statuses
      BY DEF Reuse, Statuses
    <2>2. Acts(p) BY <1>5, <2>1, ActsReturn DEF Assess
    <2>3. Calling' BY <1>5, <2>2, LocalSame DEF Assess
    <2>. QED BY <1>1, <1>2, <2>2, <2>3 DEF Shape
  <1>6. CASE Find(p)
    <2>1. \E r \in Outcomes : outcome' = [outcome EXCEPT ![p] = r]
      BY <1>6 DEF Find, Outcomes
    <2>2. Acts(p) BY <1>6, <2>1 DEF Find, Goto, Acts, Steps
    <2>3. found' \in [Procs -> Nat] BY <1>3, <1>6 DEF Find, Shape, Calling
    <2>4. Calling' BY <1>6, <2>2, <2>3 DEF Shape, Calling, Acts, Find
    <2>. QED BY <1>1, <1>2, <2>2, <2>4 DEF Shape
  <1>7. CASE Read(p)
    <2>1. Acts(p) BY <1>7, ActsReturn, ActsThen DEF Read, Outcomes, Steps
    <2>2. evidence' \in [Procs -> Inventories \cup {Absent}]
      BY <1>3, <1>7 DEF Read, Shape, Calling
    <2>3. Calling' BY <1>7, <2>1, <2>2 DEF Shape, Calling, Acts, Read
    <2>. QED BY <1>1, <1>2, <2>1, <2>3 DEF Shape
  <1>. QED BY <1>4, <1>5, <1>6, <1>7

LEMMA CallShape ==
  ASSUME Shape, NEW p \in Procs, Call(p)
  PROVE  Shape' /\ Acts(p)
  <1>1. core \in Contexts /\ policy \in Policies BY DEF Shape, Outer
  <1>2. Outer' BY <1>1 DEF Shape, Outer, Call, environment, counters
  <1>3. Entries' BY DEF Shape, Entries, Call, entries
  <1>4. Acts(p) BY DEF Call, StartLoad, Goto, Acts, Steps, LoadSteps, Outcomes
  <1>5. /\ req' \in [Procs -> Calls] /\ key' \in [Procs -> Keys]
        /\ phase' \in [Procs -> {"initial", "final", "again", "read"}]
    BY DEF Shape, Calling, Call, StartLoad
  <1>6. authorizer' \in [Procs -> Policies] /\ evidence' \in [Procs -> Inventories \cup {Absent}]
        /\ UNCHANGED <<seen, member, base, found>>
    BY <1>1 DEF Shape, Calling, Call
  <1>7. Calling' BY <1>4, <1>5, <1>6 DEF Shape, Calling, Acts
  <1>. QED BY <1>2, <1>3, <1>4, <1>7 DEF Shape

LEMMA CrashShape ==
  ASSUME Shape, NEW p \in Procs, Crash(p)
  PROVE  Shape' /\ Acts(p)
  <1>1. crashes' \in 0 .. MaxCrashes
    BY ProjectionAssumption DEF Shape, Outer, Crash
  <1>2. Outer' BY <1>1 DEF Shape, Outer, Crash, Outside, environment
  <1>3. lock' \in [Keys -> Procs \cup {NoProc, Orphan}] BY DEF Shape, Entries, Crash
  <1>4. Entries' BY <1>3 DEF Shape, Entries, Crash
  <1>5. Acts(p) BY ActsReturn DEF Crash, Outcomes
  <1>6. Calling' BY <1>5, LocalSame DEF Crash
  <1>. QED BY <1>2, <1>4, <1>5, <1>6 DEF Shape

LEMMA ChangeShape ==
  ASSUME Shape, Change
  PROVE  Shape'
  <1>. Outer BY DEF Shape
  <1>1. UNCHANGED <<entries, pc, local, outcome>> BY DEF Change
  <1>2. Entries' /\ Calling' BY <1>1 DEF Shape, Entries, Calling, entries, local
  <1>3. changes' \in 0 .. MaxChanges /\ UNCHANGED <<crashes, faults>>
    BY ProjectionAssumption DEF Outer, Change
  <1>4. ASSUME SetupChanges PROVE Outer'
    BY <1>3, <1>4 DEF Outer, SetupChanges
  <1>5. ASSUME CoreChanges PROVE Outer'
    <2>1. core' \in Contexts
      <3>1. CASE \E r \in Regs \ {core.reg} : core' = [core EXCEPT !.reg = r]
        BY <3>1 DEF Outer, Contexts
      <3>2. CASE core.length < MaxLength /\ core' = [core EXCEPT !.length = core.length + 1]
        <4>1. core.length + 1 \in Target .. MaxLength
          BY <3>2, ProjectionAssumption DEF Outer, Contexts
        <4>. QED BY <3>2, <4>1 DEF Outer, Contexts
      <3>3. CASE \E i \in (1 .. core.length) \ core.withdrawn :
                   core' = [core EXCEPT !.withdrawn = core.withdrawn \cup {i}]
        <4>1. PICK i \in 1 .. core.length :
                core' = [core EXCEPT !.withdrawn = core.withdrawn \cup {i}]
          BY <3>3
        <4>2. i \in 1 .. MaxLength BY ProjectionAssumption DEF Outer, Contexts
        <4>3. core.withdrawn \cup {i} \in SUBSET (1 .. MaxLength) BY <4>2 DEF Outer, Contexts
        <4>. QED BY <4>1, <4>3 DEF Outer, Contexts
      <3>. QED BY <1>5, <3>1, <3>2, <3>3 DEF CoreChanges
    <2>2. truth' \in [Procs -> SUBSET Contexts]
      BY <1>5, <2>1 DEF Outer, CoreChanges, Witnessed
    <2>. QED BY <1>3, <1>5, <2>1, <2>2 DEF Outer, CoreChanges
  <1>. QED BY <1>2, <1>4, <1>5 DEF Change, Shape

-----------------------------------------------------------------------------
(* Steps that leave the snapshots alone *)

\* Every step of p is p's alone.
LEMMA ActsAlone ==
  ASSUME Shape, NEW p \in Procs, Acts(p), NEW q \in Procs \ {p}
  PROVE  pc'[q] = pc[q] /\ outcome'[q] = outcome[q]
  BY DEF Shape, Calling, Acts

\* What p does with its own call is left to the other conjuncts.
Private(p) ==
  \A q \in Procs \ {p} :
    /\ pc'[q] = pc[q] /\ key'[q] = key[q] /\ evidence'[q] = evidence[q]
    /\ found'[q] = found[q] /\ outcome'[q] = outcome[q] /\ phase'[q] = phase[q]

\* The window is entered with nothing in the entry; a clean-up follows a fault.
LEMMA Untouched ==
  ASSUME IInv, Shape', NEW p \in Procs, Private(p), file' = file, attempt' = attempt,
         \A k \in Keys, q \in Procs \ {p} : lock[k] = q => lock'[k] = q,
         pc'[p] \in WindowSteps =>
           /\ key'[p] = key[p] /\ pc[p] \in LockedSteps
           /\ pc[p] \in WindowSteps \/ file[key[p]] = Absent,
         pc'[p] \in BegunSteps => pc[p] \in BegunSteps,
         faults \in Nat, faults' \in Nat, faults <= faults',
         pc'[p] = "clean" /\ pc[p] # "clean" => faults < faults', found'[p] <= faults' + 1
  PROVE  Effect(p)
  <1>1. key[p] \in Keys /\ attempt[key[p]] \in Nat BY DEF IInv, Shape, Calling, Entries
  <1>2. Committed(key[p]) => pc[p] \notin WindowSteps /\ file[key[p]] # Absent
    BY ProjectionAssumption DEF Committed
  <1>3. attempt[key[p]] <= faults + 1 /\ (file[key[p]] = Absent \/ pc[p] = "clean"
                                            => attempt[key[p]] <= faults)
    BY <1>1 DEF IInv, Counted
  <1>4. attempt[key[p]] <= faults' + 1 BY <1>1, <1>3
  <1>5. file[key[p]] = Absent \/ pc'[p] = "clean" => attempt[key[p]] <= faults'
    BY <1>1, <1>3
  <1>6. attempt[key[p]] <= attempt[key[p]] BY <1>1
  <1>. QED BY <1>2, <1>4, <1>5, <1>6 DEF Effect, Private

\* A step of p to s that may change its phase and what it has loaded, and the marker and
\* directory of its entry.
LEMMA PlainStep ==
  ASSUME IInv, Shape', NEW p \in Procs, NEW s \in Steps, NEW r \in Outcomes \cup Statuses,
         pc' = [pc EXCEPT ![p] = s], outcome' = [outcome EXCEPT ![p] = r],
         UNCHANGED <<file, attempt, lock, key, evidence, found>>,
         \A q \in Procs \ {p} : phase'[q] = phase[q],
         faults \in Nat, faults' \in Nat, faults <= faults',
         s = "clean" => pc[p] \in {"fill", "sync"} /\ faults < faults',
         s \in LockedSteps => pc[p] \in LockedSteps,
         s \in {"mark", "open"} => file[key[p]] = Absent,
         s \in {"fill", "sync"} => FALSE,
         s = "reload" => pc[p] = "sync",
         s \in ProjectedSteps \/ (s \in LoadSteps /\ phase'[p] = "again")
           => pc[p] \in ProjectedSteps \/ (pc[p] \in LoadSteps /\ phase[p] = "again"),
         s = "await" => FALSE, s = "read" => pc[p] = "await" /\ lock[key[p]] = NoProc,
         r \in Statuses => s = "idle", r \in {"created", "existing"} => s \in {"idle", "unlock"},
         s = "assess" \/ r \in Told =>
           Settled(p) \/ (/\ pc[p] \in LockedSteps /\ s \notin WindowSteps
                          /\ file[key[p]] \in Inventories /\ evidence[p] = file[key[p]])
  PROVE  IInv' /\ Effect(p)
  <1>1. Shape /\ Mine(p) /\ Counted /\ key[p] \in Keys /\ pc[p] \in Steps
    BY DEF IInv, Shape, Calling
  <1>2. pc'[p] = s /\ outcome'[p] = r /\ key'[p] = key[p] /\ evidence'[p] = evidence[p]
        /\ found'[p] = found[p]
    BY <1>1 DEF Shape, Calling
  <1>3. Private(p) BY <1>1 DEF Private, Shape, Calling
  <1>4. found[p] <= faults' + 1
    <2>1. found[p] \in Nat /\ found[p] <= faults + 1 BY <1>1 DEF Shape, Calling, Counted
    <2>. QED BY <2>1
  <1>5. s \in WindowSteps => s \in {"open", "clean"} BY DEF WindowSteps
  <1>6. s \in WindowSteps => pc[p] \in LockedSteps /\ (pc[p] \in WindowSteps
                                                         \/ file[key[p]] = Absent)
    BY <1>5, InWindow DEF WindowSteps
  <1>7. Effect(p)
    <2>1. s \in BegunSteps => pc[p] \in BegunSteps BY DEF BegunSteps
    <2>2. \A k \in Keys, q \in Procs \ {p} : lock[k] = q => lock'[k] = q OBVIOUS
    <2>3. s = "clean" /\ pc[p] # "clean" => faults < faults' OBVIOUS
    <2>. QED BY <1>2, <1>3, <1>4, <1>6, <2>1, <2>2, <2>3, Untouched
  <1>8. s \in LockedSteps => lock[key[p]] = p BY <1>1 DEF Mine
  <1>9. s \in {"sync", "reload"} => file[key[p]] = evidence[p] BY <1>1 DEF Mine
  <1>10. s \in ProjectedSteps \/ (s \in LoadSteps /\ phase'[p] = "again")
           => evidence[p] \in Inventories
    BY <1>1 DEF Mine
  <1>11. s \in {"await", "read"} => found[p] <= attempt[key[p]] BY <1>1 DEF Mine
  <1>12. ASSUME s = "read" PROVE ~Begun(key[p])'
    <2>1. lock[key[p]] = NoProc /\ pc[p] = "await" BY <1>12
    <2>2. ASSUME NEW q \in Procs, pc'[q] \in BegunSteps, key'[q] = key[p] PROVE FALSE
      <3>1. q # p BY <1>2, <1>12, <2>2 DEF BegunSteps
      <3>2. pc[q] \in BegunSteps /\ key[q] = key[p] BY <1>3, <2>2, <3>1 DEF Private
      <3>3. lock[key[q]] = q BY <3>2, InWindow DEF IInv, Mine
      <3>. QED BY <2>1, <3>2, <3>3, ProjectionAssumption
    <2>. QED BY <1>2, <2>2 DEF Begun
  <1>13. ASSUME s = "assess" \/ r \in Told PROVE Settled(p)'
    <2>1. CASE Settled(p)
      <3>1. Committed(key[p])' /\ file'[key[p]] = file[key[p]]
        <4>1. PICK k \in Keys : k = key[p] BY <1>1
        <4>2. Committed(k)' BY <1>7, <2>1, <4>1, CommittedStays DEF Settled
        <4>. QED BY <1>2, <4>1, <4>2 DEF Committed
      <3>. QED BY <1>2, <2>1, <3>1 DEF Settled, Committed
    <2>2. CASE /\ pc[p] \in LockedSteps /\ s \notin WindowSteps
               /\ file[key[p]] \in Inventories /\ evidence[p] = file[key[p]]
      <3>1. ASSUME NEW q \in Procs PROVE ~(pc'[q] \in WindowSteps /\ key'[q] = key[p])
        <4>1. CASE q # p
          <5>1. pc'[q] = pc[q] /\ key'[q] = key[q] BY <1>3, <4>1 DEF Private
          <5>. QED BY <2>2, <4>1, <5>1, OneHolder, InWindow
        <4>2. CASE q = p BY <1>2, <2>2, <4>2
        <4>. QED BY <4>1, <4>2
      <3>. QED BY <1>2, <2>2, <3>1 DEF Settled, Committed
    <2>. QED BY <1>13, <2>1, <2>2
  <1>14. Mine(p)'
    BY <1>2, <1>8, <1>9, <1>10, <1>11, <1>12, <1>13 DEF Mine, Settled, Begun, Committed
  <1>. QED BY <1>7, <1>14, StepKeeps

LEMMA NotTold ==
  ASSUME IInv, NEW p \in Procs, pc[p] \notin {"idle", "unlock"}
  PROVE  outcome[p] \notin Told /\ outcome[p] \in Outcomes \cup Statuses
  BY DEF IInv, Mine, Told, Shape, Calling

\* A step outside the lock that tells nothing yet.
LEMMA OutsideStep ==
  ASSUME IInv, Shape', NEW p \in Procs, NEW s \in Steps, NEW r \in Outcomes \cup Statuses,
         pc' = [pc EXCEPT ![p] = s], outcome' = [outcome EXCEPT ![p] = r],
         UNCHANGED <<file, attempt, lock, key, evidence, found>>,
         \A q \in Procs \ {p} : phase'[q] = phase[q],
         Calm \/ (Outside /\ Fault),
         s \notin LockedSteps, s \notin {"await", "read", "assess"}, r \notin Told,
         s \in ProjectedSteps \/ (s \in LoadSteps /\ phase'[p] = "again")
           => pc[p] \in ProjectedSteps \/ (pc[p] \in LoadSteps /\ phase[p] = "again")
  PROVE  IInv' /\ Effect(p)
  <1>1. Shape /\ faults \in Nat /\ faults' \in Nat /\ faults <= faults' BY OuterKeeps DEF IInv
  <1>2. s \notin {"clean", "mark", "open", "fill", "sync", "reload"} BY DEF LockedSteps
  <1>3. r \notin Statuses /\ r \notin {"created", "existing"} BY DEF Told
  <1>. QED BY <1>1, <1>2, <1>3, PlainStep

\* Through Then and Return.
LEMMA OutsideThen ==
  ASSUME IInv, Shape', NEW p \in Procs, NEW s \in Steps, Then(p, s), pc[p] \notin {"idle", "unlock"},
         UNCHANGED <<file, attempt, lock, key, evidence, found>>,
         \A q \in Procs \ {p} : phase'[q] = phase[q],
         Calm \/ (Outside /\ Fault),
         s \notin LockedSteps, s \notin {"await", "read", "assess"},
         s \in ProjectedSteps \/ (s \in LoadSteps /\ phase'[p] = "again")
           => pc[p] \in ProjectedSteps \/ (pc[p] \in LoadSteps /\ phase[p] = "again")
  PROVE  IInv' /\ Effect(p)
  <1>1. pc' = [pc EXCEPT ![p] = s] /\ outcome' = [outcome EXCEPT ![p] = outcome[p]]
        /\ outcome[p] \in Outcomes \cup Statuses /\ outcome[p] \notin Told
    BY ActsThen, NotTold DEF IInv
  <1>. QED BY <1>1, OutsideStep

LEMMA OutsideReturn ==
  ASSUME IInv, Shape', NEW p \in Procs, NEW r \in Outcomes \ {"created", "existing"},
         Return(p, r), UNCHANGED <<file, attempt, lock, key, evidence, found, phase>>,
         Calm \/ (Outside /\ Fault)
  PROVE  IInv' /\ Effect(p)
  <1>1. pc' = [pc EXCEPT ![p] = "idle"] /\ outcome' = [outcome EXCEPT ![p] = r]
    BY ActsReturn
  <1>2. r \notin Told BY DEF Told, Outcomes, Statuses
  <1>3. "idle" \in Steps /\ "idle" \notin LockedSteps /\ "idle" \notin ProjectedSteps
        /\ "idle" \notin LoadSteps
    BY DEF Steps, LockedSteps, ProjectedSteps, LoadSteps
  <1>. QED BY <1>1, <1>2, <1>3, OutsideStep

LEMMA LoadStep ==
  ASSUME IInv, NEW p \in Procs, Load(p) \/ LoadRaises(p)
  PROVE  IInv' /\ Effect(p)
  <1>1. Shape' BY LoadShape DEF IInv
  <1>2. pc[p] \in LoadSteps /\ pc[p] \notin {"idle", "unlock"}
        /\ UNCHANGED <<file, attempt, lock, key, evidence, found, phase>>
        /\ (Calm \/ (Outside /\ Fault))
    BY DEF Load, LoadRegistration, LoadSeries, LoadWithdrawal, LoadRaises, LoadSteps, entries, local
  <1>3. \A s \in LoadSteps : s \in Steps /\ s \notin LockedSteps /\ s \notin ProjectedSteps
                             /\ s \notin {"await", "read", "assess"}
    BY DEF LoadSteps, Steps, LockedSteps, ProjectedSteps
  <1>4. CASE LoadRegistration(p) \/ LoadSeries(p)
    <2>1. PICK s \in LoadSteps : Then(p, s)
      BY <1>4 DEF LoadRegistration, LoadSeries, LoadSteps
    <2>. QED BY <1>1, <1>2, <1>3, <2>1, OutsideThen
  <1>5. CASE LoadWithdrawal(p)
    <2>1. CASE Then(p, "withdrawal")
      <3>1. "withdrawal" \in LoadSteps BY DEF LoadSteps
      <3>. QED BY <1>1, <1>2, <1>3, <2>1, <3>1, OutsideThen
    <2>2. CASE Then(p, AfterLoad(phase[p]))
      <3>. DEFINE s == AfterLoad(phase[p])
      <3>1. s \in {"authorize", "confirm", "reauthorize", "permit"}
            /\ (s = "reauthorize" => phase[p] = "again")
        BY DEF AfterLoad
      <3>. HIDE DEF s
      <3>2. /\ s \in Steps /\ s \notin LockedSteps /\ s \notin {"await", "read", "assess"}
            /\ s \notin LoadSteps /\ (s \in ProjectedSteps => s = "reauthorize")
        BY <3>1 DEF Steps, LockedSteps, LoadSteps, ProjectedSteps
      <3>3. Then(p, s) BY <2>2 DEF s
      <3>. QED BY <1>1, <1>2, <3>1, <3>2, <3>3, OutsideThen
    <2>. QED BY <1>5, <2>1, <2>2 DEF LoadWithdrawal
  <1>6. CASE LoadRaises(p)
    <2>1. PICK r \in {"error", "changed"} : Return(p, r) BY <1>6 DEF LoadRaises
    <2>. QED BY <1>1, <1>2, <2>1, OutsideReturn DEF Outcomes
  <1>. QED BY <1>4, <1>5, <1>6 DEF Load

\* Authorize chooses the entry.
LEMMA AuthorizeStep ==
  ASSUME IInv, NEW p \in Procs, Authorize(p)
  PROVE  IInv' /\ Effect(p)
  <1>1. Shape' /\ Acts(p) BY PrepareShape DEF IInv, Prepare
  <1>2. /\ pc[p] = "authorize" /\ (Then(p, "verify") \/ Return(p, "denied"))
        /\ UNCHANGED <<file, attempt, lock, evidence, found, phase>>
        /\ \A q \in Procs \ {p} : key'[q] = key[q]
    BY DEF Authorize, entries, IInv, Shape, Calling
  <1>3. faults \in Nat /\ faults' \in Nat /\ faults <= faults'
    BY OuterKeeps DEF Authorize, IInv
  <1>4. outcome[p] \notin Told BY <1>2, NotTold
  <1>5. pc'[p] \in {"verify", "idle"} /\ outcome'[p] \notin Told
    BY <1>2, <1>4 DEF Then, Return, Goto, IInv, Shape, Calling, Told, Statuses
  <1>6. Private(p)
    BY <1>1, <1>2, ActsAlone DEF IInv, Private
  <1>7. pc'[p] \notin LockedSteps /\ pc'[p] \notin WindowSteps /\ pc'[p] \notin BegunSteps
        /\ pc'[p] \notin ProjectedSteps /\ pc'[p] \notin LoadSteps
        /\ pc'[p] \notin {"mark", "open", "sync", "reload", "await", "read", "assess", "clean"}
    BY <1>5 DEF LockedSteps, WindowSteps, BegunSteps, ProjectedSteps, LoadSteps
  <1>8. found'[p] <= faults' + 1
    <2>1. found[p] \in Nat /\ found[p] <= faults + 1 BY DEF IInv, Shape, Calling, Counted
    <2>. QED BY <1>2, <1>3, <2>1
  <1>9. Effect(p) BY <1>1, <1>2, <1>3, <1>6, <1>7, <1>8, Untouched
  <1>10. Mine(p)' BY <1>5, <1>7 DEF Mine, Told
  <1>. QED BY <1>1, <1>9, <1>10, StepKeeps

LEMMA PrepareStep ==
  ASSUME IInv, NEW p \in Procs,
         \/ Drift(p) \/ Verify(p) \/ ReadBytes(p) \/ Confirm(p) \/ AdapterRaises(p) \/ Reload(p)
  PROVE  IInv' /\ Effect(p)
  <1>1. Shape' BY PrepareShape DEF IInv, Prepare
  <1>2. /\ pc[p] \in {"authorize", "verify", "bytes", "confirm", "prepared"}
        /\ UNCHANGED <<file, attempt, lock, key, evidence, found>>
        /\ (Calm \/ (Outside /\ Fault))
    BY DEF Drift, Verify, ReadBytes, Confirm, AdapterRaises, Reload, entries, local
  <1>3. \A s \in {"registration", "bytes", "prepared"} :
          s \in Steps /\ s \notin LockedSteps /\ s \notin ProjectedSteps
    BY DEF Steps, LoadSteps, LockedSteps, ProjectedSteps
  <1>4. CASE ReadBytes(p)
    <2>1. CASE StartLoad(p, "final") /\ UNCHANGED outcome
      <3>1. Then(p, "registration") /\ phase' = [phase EXCEPT ![p] = "final"]
        BY <2>1 DEF StartLoad, Then
      <3>2. phase'[p] # "again" /\ \A q \in Procs \ {p} : phase'[q] = phase[q]
        BY <3>1 DEF IInv, Shape, Calling
      <3>. QED BY <1>1, <1>2, <1>3, <3>1, <3>2, OutsideThen
    <2>2. CASE Return(p, "manifest") /\ UNCHANGED phase
      BY <1>1, <1>2, <2>2, OutsideReturn DEF Outcomes
    <2>. QED BY <1>4, <2>1, <2>2 DEF ReadBytes
  <1>5. CASE Reload(p)
    <2>1. pc[p] = "prepared" /\ UNCHANGED <<pc, phase, outcome>> BY <1>5 DEF Reload
    <2>2. Then(p, "prepared") BY <2>1 DEF Then, Goto, IInv, Shape, Calling
    <2>3. "prepared" \notin LoadSteps BY DEF LoadSteps
    <2>. QED BY <1>1, <1>2, <1>3, <2>1, <2>2, <2>3, OutsideThen
  <1>6. CASE Drift(p) \/ Verify(p) \/ Confirm(p) \/ AdapterRaises(p)
    <2>1. phase' = phase BY <1>6 DEF Drift, Verify, Confirm, AdapterRaises, local
    <2>2. CASE \E s \in {"bytes", "prepared"} : Then(p, s)
      <3>1. PICK s \in {"bytes", "prepared"} : Then(p, s) BY <2>2
      <3>2. s \notin LoadSteps BY DEF LoadSteps
      <3>. QED BY <1>1, <1>2, <1>3, <2>1, <3>1, <3>2, OutsideThen
    <2>3. CASE \E r \in {"drift", "manifest", "changed", "error"} : Return(p, r)
      BY <1>1, <1>2, <2>1, <2>3, OutsideReturn DEF Outcomes
    <2>. QED BY <1>6, <2>2, <2>3 DEF Drift, Verify, Confirm, AdapterRaises
  <1>. QED BY <1>4, <1>5, <1>6

\* The adapter's inventory is what the call will store.
LEMMA ProjectStep ==
  ASSUME IInv, NEW p \in Procs, Project(p)
  PROVE  IInv' /\ Effect(p)
  <1>1. Shape' /\ Acts(p) BY PrepareShape DEF IInv, Prepare
  <1>2. pc[p] = "prepared" /\ UNCHANGED <<file, attempt, lock, key, found>>
        /\ Calm
    BY DEF Project, entries
  <1>3. CASE Return(p, "error") /\ UNCHANGED <<phase, evidence>>
    BY <1>1, <1>2, <1>3, OutsideReturn DEF Outcomes
  <1>4. CASE /\ StartLoad(p, "again") /\ UNCHANGED outcome
             /\ \E v \in Inventories : evidence' = [evidence EXCEPT ![p] = v]
    <2>1. /\ pc'[p] = "registration" /\ evidence'[p] \in Inventories /\ outcome' = outcome
          /\ \A q \in Procs \ {p} : phase'[q] = phase[q] /\ evidence'[q] = evidence[q]
      BY <1>4 DEF StartLoad, Goto, IInv, Shape, Calling
    <2>2. outcome[p] \notin Told BY <1>2, NotTold
    <2>3. faults \in Nat /\ faults' \in Nat /\ faults <= faults'
      BY <1>2, OuterKeeps DEF IInv
    <2>4. Private(p) BY <1>1, <1>2, <2>1, ActsAlone DEF IInv, Private
    <2>5. pc'[p] \notin LockedSteps /\ pc'[p] \notin WindowSteps /\ pc'[p] \notin BegunSteps
          /\ pc'[p] \notin {"mark", "open", "sync", "reload", "await", "read", "assess", "clean"}
      BY <2>1 DEF LockedSteps, WindowSteps, BegunSteps
    <2>6. found'[p] <= faults' + 1
      <3>1. found[p] \in Nat /\ found[p] <= faults + 1 BY DEF IInv, Shape, Calling, Counted
      <3>. QED BY <1>2, <2>3, <3>1
    <2>7. Effect(p) BY <1>1, <1>2, <2>3, <2>4, <2>5, <2>6, Untouched
    <2>8. Mine(p)' BY <2>1, <2>2, <2>5 DEF Mine, Told
    <2>. QED BY <1>1, <2>7, <2>8, StepKeeps
  <1>. QED BY <1>3, <1>4 DEF Project

-----------------------------------------------------------------------------
(* cache_projected_inventory, outside the lock *)

LEMMA ApproachStep ==
  ASSUME IInv, NEW p \in Procs,
         Reauthorize(p) \/ Ensure(p) \/ Mkdir(p) \/ MkdirRaises(p) \/ Probe(p)
  PROVE  IInv' /\ Effect(p)
  <1>1. Shape' BY CacheShape DEF IInv, Cache
  <1>2. /\ pc[p] \in {"reauthorize", "ensure", "mkdir", "probe"}
        /\ UNCHANGED <<file, attempt, lock, key, evidence, found, phase>>
        /\ (Calm \/ (Outside /\ Fault))
    BY DEF Reauthorize, Ensure, Mkdir, MkdirRaises, Probe, entries, local
  <1>3. pc[p] \in ProjectedSteps BY <1>2 DEF ProjectedSteps
  <1>4. CASE \E s \in {"ensure", "mkdir", "probe", "lock"} : Then(p, s)
    <2>1. PICK s \in {"ensure", "mkdir", "probe", "lock"} : Then(p, s) BY <1>4
    <2>2. s \in Steps /\ s \notin LockedSteps /\ s \notin {"await", "read", "assess"}
      BY DEF Steps, LockedSteps
    <2>. QED BY <1>1, <1>2, <1>3, <2>1, <2>2, OutsideThen
  <1>5. CASE \E r \in {"changed", "denied", "write_error", "locked"} : Return(p, r)
    BY <1>1, <1>2, <1>5, OutsideReturn DEF Outcomes
  <1>. QED BY <1>4, <1>5 DEF Reauthorize, Ensure, Mkdir, MkdirRaises, Probe

-----------------------------------------------------------------------------
(* Steps that change the lock and leave the snapshots alone *)

LEMMA LockChanges ==
  ASSUME IInv, Shape', NEW p \in Procs, Acts(p), UNCHANGED <<file, attempt, local>>,
         \A k \in Keys, q \in Procs \ {p} : lock[k] = q => lock'[k] = q,
         pc'[p] \in {"inspect", "idle"}, faults \in Nat, faults' \in Nat, faults <= faults'
  PROVE  Effect(p)
  <1>1. Private(p) BY ActsAlone DEF IInv, Private, local
  <1>2. pc'[p] \notin WindowSteps /\ pc'[p] \notin BegunSteps /\ pc'[p] # "clean"
    BY DEF WindowSteps, BegunSteps
  <1>3. found'[p] <= faults' + 1
    <2>1. found[p] \in Nat /\ found[p] <= faults + 1 BY DEF IInv, Shape, Calling, Counted
    <2>. QED BY <2>1 DEF local
  <1>. QED BY <1>1, <1>2, <1>3, Untouched

LEMMA LockStep ==
  ASSUME IInv, NEW p \in Procs, Lock(p) \/ LockRaises(p)
  PROVE  IInv' /\ Effect(p)
  <1>1. Shape' /\ Acts(p) BY CacheShape DEF IInv, Cache
  <1>2. pc[p] = "lock" /\ UNCHANGED <<file, attempt, local>> /\ (Calm \/ (Outside /\ Fault))
    BY DEF Lock, LockRaises
  <1>3. faults \in Nat /\ faults' \in Nat /\ faults <= faults' BY <1>2, OuterKeeps DEF IInv
  <1>4. outcome[p] \notin Told /\ outcome[p] \in Outcomes \cup Statuses BY <1>2, NotTold
  <1>5. key[p] \in Keys /\ lock \in [Keys -> Procs \cup {NoProc, Orphan}]
    BY DEF IInv, Shape, Calling, Entries
  <1>6. CASE UNCHANGED lock /\ Return(p, "locked")
    BY <1>1, <1>2, <1>6, OutsideReturn DEF Outcomes, local
  <1>7. CASE lock[key[p]] = NoProc /\ lock' = [lock EXCEPT ![key[p]] = p] /\ Then(p, "inspect")
    <2>1. pc'[p] = "inspect" /\ outcome'[p] = outcome[p] /\ key'[p] = key[p]
          /\ evidence'[p] = evidence[p]
      BY <1>2, <1>7 DEF Then, Goto, IInv, Shape, Calling, local
    <2>2. \A k \in Keys, q \in Procs \ {p} : lock[k] = q => lock'[k] = q
      BY <1>5, <1>7, ProjectionAssumption
    <2>3. Effect(p) BY <1>1, <1>2, <1>3, <2>1, <2>2, LockChanges
    <2>4. evidence[p] \in Inventories BY <1>2 DEF IInv, Mine, ProjectedSteps
    <2>5. lock'[key[p]] = p BY <1>5, <1>7
    <2>6. Mine(p)' BY <1>4, <2>1, <2>4, <2>5 DEF Mine, Told
    <2>. QED BY <1>1, <2>3, <2>6, StepKeeps
  <1>8. CASE /\ lock[key[p]] = NoProc /\ Return(p, "write_error")
             /\ \E l \in {NoProc, Orphan} : lock' = [lock EXCEPT ![key[p]] = l]
    <2>1. pc'[p] = "idle" /\ outcome'[p] = "write_error"
      BY <1>8 DEF Return, Goto, IInv, Shape, Calling
    <2>2. \A k \in Keys, q \in Procs \ {p} : lock[k] = q => lock'[k] = q
      BY <1>5, <1>8, ProjectionAssumption
    <2>3. Effect(p) BY <1>1, <1>2, <1>3, <2>1, <2>2, LockChanges
    <2>4. Mine(p)'
      BY <2>1 DEF Mine, Told, Statuses, LockedSteps, ProjectedSteps, LoadSteps
    <2>. QED BY <1>1, <2>3, <2>4, StepKeeps
  <1>. QED BY <1>6, <1>7, <1>8 DEF Lock, LockRaises

LEMMA UnlockStep ==
  ASSUME IInv, NEW p \in Procs, Unlock(p) \/ UnlockRaises(p) \/ Crash(p)
  PROVE  IInv' /\ Effect(p)
  <1>1. Shape' /\ Acts(p) BY CacheShape, CrashShape DEF IInv, Cache
  <1>2. UNCHANGED <<file, attempt, local>> BY DEF Unlock, UnlockRaises, Crash
  <1>3. faults \in Nat /\ faults' \in Nat /\ faults <= faults'
    <2>1. CASE Unlock(p) \/ UnlockRaises(p) BY <2>1, OuterKeeps DEF IInv, Unlock, UnlockRaises
    <2>2. CASE Crash(p)
      <3>1. faults' = faults /\ faults \in Nat BY <2>2 DEF Crash, IInv, Shape, Outer
      <3>. QED BY <3>1
    <2>. QED BY <2>1, <2>2
  <1>4. key[p] \in Keys /\ lock \in [Keys -> Procs \cup {NoProc, Orphan}] /\ Mine(p)
    BY DEF IInv, Shape, Calling, Entries
  <1>5. pc'[p] = "idle" /\ \A k \in Keys, q \in Procs \ {p} : lock[k] = q => lock'[k] = q
    <2>1. pc'[p] = "idle"
      BY DEF Unlock, UnlockRaises, Crash, Then, Return, Goto, IInv, Shape, Calling
    <2>2. CASE Unlock(p) \/ UnlockRaises(p)
      <3>1. lock[key[p]] = p BY <1>4, <2>2 DEF Mine, LockedSteps, Unlock, UnlockRaises
      <3>. QED BY <1>4, <2>1, <2>2, <3>1 DEF Unlock, UnlockRaises
    <2>3. CASE Crash(p) BY <1>4, <2>1, <2>3 DEF Crash
    <2>. QED BY <2>2, <2>3
  <1>6. Effect(p) BY <1>1, <1>2, <1>3, <1>5, LockChanges
  <1>7. outcome'[p] \in Told => Settled(p)'
    <2>1. CASE UnlockRaises(p) \/ Crash(p)
      <3>1. outcome'[p] \in {"partial", "crashed"}
        BY <2>1 DEF UnlockRaises, Crash, Return, IInv, Shape, Calling
      <3>. QED BY <3>1 DEF Told, Statuses
    <2>2. CASE Unlock(p)
      <3>1. outcome' = outcome BY <2>2 DEF Unlock, Then
      <3>2. ASSUME outcome[p] \in Told PROVE Settled(p)'
        <4>1. PICK k \in Keys : k = key[p] BY <1>4
        <4>2. Committed(k) /\ evidence[p] = file[k] BY <1>4, <3>2, <4>1 DEF Mine, Settled
        <4>3. Committed(k)' BY <1>6, <4>2, CommittedStays
        <4>. QED BY <1>2, <4>1, <4>2, <4>3 DEF Settled, local, Committed
      <3>. QED BY <3>1, <3>2
    <2>. QED BY <2>1, <2>2
  <1>8. Mine(p)' BY <1>5, <1>7 DEF Mine, LockedSteps, ProjectedSteps, LoadSteps
  <1>. QED BY <1>1, <1>6, <1>8, StepKeeps

-----------------------------------------------------------------------------
(* Under the lock *)

\* To the finally clause, with an outcome that tells of no snapshot.
LEMMA LeaveStep ==
  ASSUME IInv, Shape', NEW p \in Procs, NEW r \in Outcomes \ {"created", "existing"},
         pc[p] \in LockedSteps, Leave(p, r), Calm \/ (Outside /\ Fault),
         UNCHANGED <<file, attempt, lock, local>>
  PROVE  IInv' /\ Effect(p)
  <1>1. pc' = [pc EXCEPT ![p] = "unlock"] /\ outcome' = [outcome EXCEPT ![p] = r]
    BY ActsLeave
  <1>2. r \notin Told /\ r \notin Statuses BY DEF Told, Outcomes, Statuses
  <1>3. "unlock" \in Steps /\ "unlock" \notin LoadSteps /\ pc[p] \in ProjectedSteps
    BY InWindow DEF Steps, LockedSteps, LoadSteps
  <1>4. faults \in Nat /\ faults' \in Nat /\ faults <= faults' BY OuterKeeps DEF IInv
  <1>. QED BY <1>1, <1>2, <1>3, <1>4, PlainStep DEF local

\* To the finally clause, with the snapshot of this call in its place.
LEMMA TellStep ==
  ASSUME IInv, Shape', NEW p \in Procs, NEW r \in {"created", "existing"},
         pc[p] \in LockedSteps, Leave(p, r), Calm \/ (Outside /\ Fault),
         UNCHANGED <<file, attempt, lock, local>>,
         file[key[p]] \in Inventories, evidence[p] = file[key[p]]
  PROVE  IInv' /\ Effect(p)
  <1>1. r \in Outcomes \cup Statuses /\ r \notin Statuses BY DEF Outcomes, Statuses
  <1>2. pc' = [pc EXCEPT ![p] = "unlock"] /\ outcome' = [outcome EXCEPT ![p] = r]
    BY <1>1, ActsLeave
  <1>3. "unlock" \in Steps /\ "unlock" \notin LoadSteps /\ pc[p] \in ProjectedSteps
        /\ "unlock" \notin WindowSteps
    BY InWindow DEF Steps, LockedSteps, LoadSteps, WindowSteps
  <1>4. faults \in Nat /\ faults' \in Nat /\ faults <= faults' BY OuterKeeps DEF IInv
  <1>. QED BY <1>1, <1>2, <1>3, <1>4, PlainStep DEF local

\* To the next step under the lock.
LEMMA InsideStep ==
  ASSUME IInv, Shape', NEW p \in Procs, NEW s \in {"mark", "open", "clean", "reload"},
         pc[p] \in LockedSteps \ {"unlock"}, Then(p, s), Calm \/ (Outside /\ Fault),
         UNCHANGED <<file, attempt, lock, local>>,
         s \in {"mark", "open"} => file[key[p]] = Absent,
         s = "clean" => pc[p] \in {"fill", "sync"} /\ faults < faults',
         s = "reload" => pc[p] = "sync"
  PROVE  IInv' /\ Effect(p)
  <1>1. s \in Steps /\ s \notin LoadSteps /\ s \in LockedSteps /\ pc[p] \in ProjectedSteps
    BY InWindow DEF Steps, LockedSteps, LoadSteps
  <1>2. pc[p] \notin {"idle", "unlock"} BY DEF LockedSteps
  <1>3. pc' = [pc EXCEPT ![p] = s] /\ outcome' = [outcome EXCEPT ![p] = outcome[p]]
        /\ outcome[p] \in Outcomes \cup Statuses
    BY <1>1, ActsThen DEF IInv
  <1>4. outcome[p] \notin Told /\ outcome[p] \notin Statuses
        /\ outcome[p] \notin {"created", "existing"}
    BY <1>2, NotTold DEF Told
  <1>5. faults \in Nat /\ faults' \in Nat /\ faults <= faults' BY OuterKeeps DEF IInv
  <1>. QED BY <1>1, <1>3, <1>4, <1>5, PlainStep DEF local

LEMMA InspectStep ==
  ASSUME IInv, NEW p \in Procs,
         \/ Inspect(p) \/ Mark(p) \/ Sync(p) \/ Recheck(p)
         \/ OpenRaises(p) \/ FillRaises(p) \/ CleanRaises(p) \/ RecheckRaises(p)
  PROVE  IInv' /\ Effect(p)
  <1>1. Shape' BY CacheShape DEF IInv, Cache
  <1>2. /\ pc[p] \in LockedSteps \ {"unlock"} /\ (Calm \/ (Outside /\ Fault))
        /\ UNCHANGED <<file, attempt, lock, local>>
    BY DEF Inspect, Mark, Sync, Recheck, OpenRaises, FillRaises, CleanRaises, RecheckRaises,
           entries, LockedSteps
  <1>3. file[key[p]] \in Inventories \cup {Absent, Torn} /\ Mine(p)
        /\ faults \in Nat
    BY ProjectionAssumption DEF IInv, Shape, Outer, Calling, Entries
  <1>4. CASE \E r \in {"integrity", "nondeterminism", "write_error", "partial"} : Leave(p, r)
    BY <1>1, <1>2, <1>4, LeaveStep DEF Outcomes
  <1>5. CASE Inspect(p)
    <2>1. CASE file[key[p]] # Absent /\ (~marker[key[p]] \/ file[key[p]] = Torn)
      BY <1>4, <1>5, <2>1 DEF Inspect
    <2>2. CASE file[key[p]] # Absent /\ marker[key[p]] /\ file[key[p]] # Torn
      <3>1. file[key[p]] \in Inventories BY <1>3, <2>2
      <3>2. CASE file[key[p]] = evidence[p]
        <4>1. Leave(p, "existing") BY <1>5, <2>2, <3>2 DEF Inspect
        <4>. QED BY <1>1, <1>2, <3>1, <3>2, <4>1, TellStep
      <3>3. CASE file[key[p]] # evidence[p]
        BY <1>4, <1>5, <2>2, <3>3 DEF Inspect
      <3>. QED BY <3>2, <3>3
    <2>3. CASE file[key[p]] = Absent
      <3>1. PICK s \in {"mark", "open"} : Then(p, s) BY <1>5, <2>3 DEF Inspect
      <3>. QED BY <1>1, <1>2, <2>3, <3>1, InsideStep
    <2>. QED BY <2>1, <2>2, <2>3
  <1>6. CASE Mark(p)
    <2>1. Then(p, "open") /\ file[key[p]] = Absent BY <1>3, <1>6 DEF Mark, Mine
    <2>. QED BY <1>1, <1>2, <2>1, InsideStep
  <1>7. CASE Sync(p)
    <2>1. Then(p, "reload") /\ pc[p] = "sync" BY <1>7 DEF Sync
    <2>. QED BY <1>1, <1>2, <2>1, InsideStep
  <1>8. CASE Recheck(p)
    <2>1. Leave(p, "created") /\ pc[p] = "reload" BY <1>8 DEF Recheck
    <2>2. file[key[p]] = evidence[p] /\ evidence[p] \in Inventories
      BY <1>3, <2>1 DEF Mine, ProjectedSteps, LockedSteps
    <2>. QED BY <1>1, <1>2, <2>1, <2>2, TellStep
  <1>9. CASE FillRaises(p)
    <2>1. Then(p, "clean") /\ pc[p] \in {"fill", "sync"} /\ faults' = faults + 1
      BY <1>9 DEF FillRaises, Fault
    <2>2. faults < faults' BY <1>3, <2>1
    <2>. QED BY <1>1, <1>2, <2>1, <2>2, InsideStep
  <1>. QED BY <1>4, <1>5, <1>6, <1>7, <1>8, <1>9 DEF OpenRaises, CleanRaises, RecheckRaises

\* The snapshot of a call is created, filled or removed.
LEMMA WriteStep ==
  ASSUME IInv, NEW p \in Procs, Open(p) \/ Fill(p) \/ Clean(p)
  PROVE  IInv' /\ Effect(p)
  <1>1. Shape' /\ Acts(p) BY CacheShape DEF IInv, Cache
  <1>2. /\ pc[p] \in {"open", "fill", "clean"} /\ faults' = faults
        /\ UNCHANGED <<dir, lock, local>>
    BY DEF Open, Fill, Clean, Calm, counters
  <1>3. pc[p] \in LockedSteps /\ pc[p] \in WindowSteps /\ pc[p] \in ProjectedSteps
        /\ pc[p] \notin {"idle", "unlock"}
    BY <1>2 DEF LockedSteps, WindowSteps, ProjectedSteps
  <1>4. /\ key[p] \in Keys /\ faults \in Nat /\ attempt[key[p]] \in Nat /\ found[p] \in Nat
        /\ Mine(p) /\ file \in [Keys -> Inventories \cup {Absent, Torn}]
        /\ attempt \in [Keys -> Nat] /\ evidence[p] \in Inventories
    BY <1>3, ProjectionAssumption DEF IInv, Shape, Outer, Calling, Entries, Mine
  <1>5. /\ attempt[key[p]] <= faults + 1
        /\ file[key[p]] = Absent \/ pc[p] = "clean" => attempt[key[p]] <= faults
        /\ found[p] <= faults + 1
    BY <1>4 DEF IInv, Counted
  <1>6. Private(p) BY <1>1, <1>2, ActsAlone DEF IInv, Private, local
  <1>7. /\ ~Committed(key[p]) /\ key'[p] = key[p] /\ evidence'[p] = evidence[p]
        /\ found'[p] = found[p] /\ lock[key[p]] = p
    BY <1>2, <1>3, <1>4 DEF Committed, local, Mine
  <1>8. outcome[p] \notin Told BY <1>3, NotTold
  <1>9. /\ \A k \in Keys \ {key[p]} : file'[k] = file[k] /\ attempt'[k] = attempt[k]
        /\ attempt'[key[p]] \in Nat /\ attempt[key[p]] <= attempt'[key[p]]
        /\ attempt'[key[p]] <= faults + 1
        /\ file'[key[p]] = Absent \/ pc'[p] = "clean" => attempt'[key[p]] <= faults
        /\ pc'[p] \in BegunSteps /\ pc[p] \notin BegunSteps => attempt[key[p]] < attempt'[key[p]]
        /\ pc'[p] = "sync" => file'[key[p]] = evidence[p]
        /\ pc'[p] \in {"fill", "sync", "unlock"} /\ outcome'[p] \notin Told
    <2>1. CASE Open(p)
      <3>1. /\ pc'[p] = "fill" /\ outcome' = outcome
            /\ file' = [file EXCEPT ![key[p]] = Torn]
            /\ attempt' = [attempt EXCEPT ![key[p]] = attempt[key[p]] + 1]
        BY <2>1 DEF Open, Then, Goto, IInv, Shape, Calling
      <3>2. file[key[p]] = Absent BY <1>4, <2>1 DEF Open, Mine
      <3>3. attempt'[key[p]] = attempt[key[p]] + 1 /\ file'[key[p]] = Torn
            /\ \A k \in Keys \ {key[p]} : file'[k] = file[k] /\ attempt'[k] = attempt[k]
        BY <1>4, <3>1
      <3>4. attempt[key[p]] <= faults BY <1>5, <3>2
      <3>5. attempt'[key[p]] <= faults + 1 /\ attempt[key[p]] < attempt'[key[p]]
            /\ attempt[key[p]] <= attempt'[key[p]] /\ attempt'[key[p]] \in Nat
        BY <1>4, <3>3, <3>4
      <3>. QED BY <1>8, <3>1, <3>3, <3>5, ProjectionAssumption
    <2>2. CASE Fill(p)
      <3>1. /\ pc'[p] = "sync" /\ outcome' = outcome /\ pc[p] = "fill"
            /\ file' = [file EXCEPT ![key[p]] = evidence[p]] /\ attempt' = attempt
        BY <2>2 DEF Fill, Then, Goto, IInv, Shape, Calling
      <3>2. file'[key[p]] = evidence[p] /\ file'[key[p]] # Absent
            /\ \A k \in Keys \ {key[p]} : file'[k] = file[k]
        BY <1>4, <3>1, ProjectionAssumption
      <3>. QED BY <1>4, <1>5, <1>8, <3>1, <3>2 DEF BegunSteps
    <2>3. CASE Clean(p)
      <3>1. /\ pc'[p] = "unlock" /\ outcome'[p] = "write_error" /\ pc[p] = "clean"
            /\ file' = [file EXCEPT ![key[p]] = Absent] /\ attempt' = attempt
        BY <2>3 DEF Clean, Leave, Goto, IInv, Shape, Calling
      <3>2. \A k \in Keys \ {key[p]} : file'[k] = file[k] BY <1>4, <3>1
      <3>3. outcome'[p] \notin Told BY <3>1 DEF Told, Statuses
      <3>. QED BY <1>4, <1>5, <3>1, <3>2, <3>3 DEF BegunSteps
    <2>. QED BY <2>1, <2>2, <2>3
  <1>10. Effect(p)
    BY <1>2, <1>3, <1>4, <1>5, <1>6, <1>7, <1>9 DEF Effect, Private
  <1>11. pc'[p] \in ProjectedSteps /\ pc'[p] \notin LoadSteps /\ lock'[key[p]] = p
    BY <1>2, <1>7, <1>9 DEF ProjectedSteps, LockedSteps, LoadSteps
  <1>12. Mine(p)' BY <1>2, <1>4, <1>7, <1>9, <1>11 DEF Mine, Told
  <1>. QED BY <1>1, <1>10, <1>12, StepKeeps

-----------------------------------------------------------------------------
(* Reading, and starting a call *)

\* The listing: the snapshot it names is one of those begun so far.
LEMMA FindStep ==
  ASSUME IInv, NEW p \in Procs, Find(p)
  PROVE  IInv' /\ Effect(p)
  <1>1. Shape' /\ Acts(p) BY ReadShape DEF IInv, ReadCache
  <1>2. /\ UNCHANGED <<entries, phase, key, evidence>> /\ faults' = faults
        /\ found' = [found EXCEPT ![p] = attempt[key[p]]]
        /\ pc' = [pc EXCEPT ![p] = IF dir[key[p]] THEN "await" ELSE "idle"]
    BY DEF Find, Goto, Calm, counters
  <1>3. \E r \in {"not_found", "integrity", "denied", "none"} :
          outcome' = [outcome EXCEPT ![p] = r]
    BY DEF Find
  <1>4. /\ pc'[p] \in {"await", "idle"} /\ found'[p] = attempt[key[p]]
        /\ outcome'[p] \in {"not_found", "integrity", "denied", "none"}
    BY <1>2, <1>3 DEF IInv, Shape, Calling
  <1>5. key[p] \in Keys /\ faults \in Nat /\ attempt[key[p]] \in Nat
        /\ attempt[key[p]] <= faults + 1
    BY ProjectionAssumption DEF IInv, Shape, Outer, Calling, Entries, Counted
  <1>6. Private(p)
    <2>1. \A q \in Procs \ {p} : found'[q] = found[q] BY <1>2 DEF IInv, Shape, Calling
    <2>. QED BY <1>1, <1>2, <2>1, ActsAlone DEF IInv, Private
  <1>7. /\ pc'[p] \notin LockedSteps /\ pc'[p] \notin WindowSteps /\ pc'[p] \notin BegunSteps
        /\ pc'[p] \notin ProjectedSteps /\ pc'[p] \notin LoadSteps /\ pc'[p] # "clean"
    BY <1>4 DEF LockedSteps, WindowSteps, BegunSteps, ProjectedSteps, LoadSteps
  <1>8. outcome'[p] \notin Told BY <1>4 DEF Told, Statuses
  <1>9. Effect(p)
    <2>1. found'[p] <= faults' + 1 /\ faults <= faults' /\ faults' \in Nat BY <1>2, <1>4, <1>5
    <2>2. file' = file /\ attempt' = attempt /\ lock' = lock BY <1>2 DEF entries
    <2>. QED BY <1>1, <1>5, <1>6, <1>7, <2>1, <2>2, Untouched
  <1>10. Mine(p)'
    <2>1. found'[p] <= attempt'[key'[p]] BY <1>2, <1>4, <1>5 DEF entries
    <2>2. pc'[p] \notin {"mark", "open", "sync", "reload", "read", "assess"} BY <1>4
    <2>. QED BY <1>7, <1>8, <2>1, <2>2 DEF Mine, Told
  <1>. QED BY <1>1, <1>9, <1>10, StepKeeps

LEMMA AwaitStep ==
  ASSUME IInv, NEW p \in Procs, Permit(p) \/ Await(p) \/ Assess(p)
  PROVE  IInv' /\ Effect(p)
  <1>1. Shape' BY ReadShape DEF IInv, ReadCache
  <1>2. /\ pc[p] \in {"permit", "await", "assess"} /\ Calm
        /\ UNCHANGED <<file, attempt, lock, key, evidence, found, phase>>
    BY DEF Permit, Await, Assess, entries, local
  <1>3. faults \in Nat /\ faults' \in Nat /\ faults <= faults' BY <1>2, OuterKeeps DEF IInv
  <1>4. outcome[p] \in Outcomes \cup Statuses
    BY DEF IInv, Shape, Calling
  <1>5. CASE \E r \in {"denied", "locked"} : Return(p, r)
    BY <1>1, <1>2, <1>5, OutsideReturn DEF Outcomes
  <1>6. CASE Then(p, "find")
    <2>1. "find" \in Steps /\ "find" \notin LockedSteps /\ "find" \notin ProjectedSteps
          /\ "find" \notin LoadSteps
      BY DEF Steps, LockedSteps, ProjectedSteps, LoadSteps
    <2>. QED BY <1>1, <1>2, <1>6, <2>1, OutsideThen
  <1>7. CASE Await(p)
    <2>1. CASE lock[key[p]] # NoProc BY <1>5, <1>7, <2>1 DEF Await
    <2>2. CASE lock[key[p]] = NoProc
      <3>1. PICK s \in {"read", "idle"} : Then(p, s) BY <1>7, <2>2 DEF Await
      <3>2. s \in Steps /\ s \notin LockedSteps /\ s \notin ProjectedSteps /\ s \notin LoadSteps
        BY DEF Steps, LockedSteps, ProjectedSteps, LoadSteps
      <3>3. pc[p] = "await" BY <1>7 DEF Await
      <3>4. outcome[p] \notin Told /\ outcome[p] \notin Statuses
            /\ outcome[p] \notin {"created", "existing"}
        BY <3>3, NotTold DEF Told
      <3>5. pc' = [pc EXCEPT ![p] = s] /\ outcome' = [outcome EXCEPT ![p] = outcome[p]]
        BY <3>1, <3>2, ActsThen DEF IInv
      <3>6. s \notin {"clean", "mark", "open", "fill", "sync", "reload", "await", "assess"}
        OBVIOUS
      <3>. QED BY <1>1, <1>2, <1>3, <1>4, <2>2, <3>2, <3>3, <3>4, <3>5, <3>6, PlainStep
    <2>. QED BY <2>1, <2>2
  <1>8. CASE Assess(p)
    <2>1. PICK r \in Statuses : Return(p, r)
      <3>1. Reuse(key[p], seen[p], manifest = "intact", build, authorizer[p], req[p].scope)
              \in Statuses
        BY DEF Reuse, Statuses
      <3>. QED BY <1>8, <3>1 DEF Assess
    <2>2. pc' = [pc EXCEPT ![p] = "idle"] /\ outcome' = [outcome EXCEPT ![p] = r]
      BY <2>1, ActsReturn
    <2>3. Settled(p) BY <1>8 DEF Assess, IInv, Mine
    <2>4. "idle" \in Steps /\ "idle" \notin LockedSteps /\ "idle" \notin ProjectedSteps
          /\ "idle" \notin LoadSteps
      BY DEF Steps, LockedSteps, ProjectedSteps, LoadSteps
    <2>. QED BY <1>1, <1>2, <1>3, <2>2, <2>3, <2>4, PlainStep
  <1>. QED BY <1>5, <1>6, <1>7, <1>8 DEF Permit

\* The lock was free after the listing: what is read under that name is settled.
LEMMA ReadStep ==
  ASSUME IInv, NEW p \in Procs, Read(p)
  PROVE  IInv' /\ Effect(p)
  <1>1. Shape' /\ Acts(p) BY ReadShape DEF IInv, ReadCache
  <1>2. /\ pc[p] = "read" /\ UNCHANGED <<entries, phase, key, found>> /\ Calm
    BY DEF Read
  <1>3. CASE \E r \in {"integrity", "not_found"} : Return(p, r) /\ UNCHANGED evidence
    BY <1>1, <1>2, <1>3, OutsideReturn DEF Outcomes, entries
  <1>4. CASE /\ file[key[p]] # Absent /\ attempt[key[p]] = found[p] /\ file[key[p]] # Torn
             /\ Then(p, "assess") /\ evidence' = [evidence EXCEPT ![p] = file[key[p]]]
    <2>1. /\ pc'[p] = "assess" /\ evidence'[p] = file[key[p]] /\ outcome'[p] = outcome[p]
          /\ \A q \in Procs \ {p} : evidence'[q] = evidence[q]
      BY <1>4 DEF Then, Goto, IInv, Shape, Calling
    <2>2. file[key[p]] \in Inventories /\ ~Begun(key[p]) /\ found[p] \in Nat
          /\ found[p] <= faults + 1
      BY <1>2, <1>4 DEF IInv, Shape, Calling, Entries, Counted, Mine
    <2>3. Committed(key[p])
      <3>1. ASSUME NEW q \in Procs, pc[q] \in WindowSteps, key[q] = key[p] PROVE FALSE
        <4>1. pc[q] = "open" BY <2>2, <3>1 DEF Begun, BegunSteps, WindowSteps
        <4>2. file[key[q]] = Absent BY <4>1 DEF IInv, Mine
        <4>. QED BY <1>4, <3>1, <4>2
      <3>. QED BY <2>2, <3>1 DEF Committed
    <2>4. faults \in Nat /\ faults' \in Nat /\ faults <= faults' /\ faults' = faults
      BY <1>2, OuterKeeps DEF IInv, Calm, counters
    <2>5. Private(p) BY <1>1, <1>2, <2>1, ActsAlone DEF IInv, Private
    <2>6. /\ pc'[p] \notin LockedSteps /\ pc'[p] \notin WindowSteps
          /\ pc'[p] \notin BegunSteps /\ pc'[p] \notin ProjectedSteps /\ pc'[p] \notin LoadSteps
      BY <2>1 DEF LockedSteps, WindowSteps, BegunSteps, ProjectedSteps, LoadSteps
    <2>7. Effect(p)
      <3>1. found'[p] <= faults' + 1 /\ pc'[p] # "clean" BY <1>2, <2>1, <2>2, <2>4
      <3>2. file' = file /\ attempt' = attempt /\ lock' = lock BY <1>2 DEF entries
      <3>. QED BY <1>1, <2>4, <2>5, <2>6, <3>1, <3>2, Untouched
    <2>8. Settled(p)'
      <3>1. PICK k \in Keys : k = key[p] BY DEF IInv, Shape, Calling
      <3>2. Committed(k)' /\ file'[k] = file[k] BY <2>3, <2>7, <3>1, CommittedStays
      <3>. QED BY <1>2, <2>1, <3>1, <3>2 DEF Settled, Committed
    <2>9. outcome[p] \notin Told BY <1>2, NotTold
    <2>10. Mine(p)' BY <2>1, <2>6, <2>8, <2>9 DEF Mine, Told
    <2>. QED BY <1>1, <2>7, <2>10, StepKeeps
  <1>. QED BY <1>3, <1>4 DEF Read

LEMMA CallStep ==
  ASSUME IInv, NEW p \in Procs, Call(p)
  PROVE  IInv' /\ Effect(p)
  <1>1. Shape' /\ Acts(p) BY CallShape DEF IInv
  <1>2. /\ pc[p] = "idle" /\ pc'[p] = "registration" /\ outcome'[p] = "none"
        /\ phase'[p] \in {"initial", "read"} /\ UNCHANGED <<entries, found>> /\ faults' = faults
    BY DEF Call, StartLoad, Goto, counters, IInv, Shape, Calling
  <1>3. Private(p)
    <2>1. \A q \in Procs \ {p} : /\ key'[q] = key[q] /\ evidence'[q] = evidence[q]
                                 /\ phase'[q] = phase[q] /\ found'[q] = found[q]
      BY DEF Call, StartLoad, IInv, Shape, Calling
    <2>. QED BY <1>1, <2>1, ActsAlone DEF IInv, Private
  <1>4. /\ pc'[p] \notin LockedSteps /\ pc'[p] \notin WindowSteps
        /\ pc'[p] \notin BegunSteps /\ pc'[p] \notin ProjectedSteps /\ pc'[p] # "clean"
    BY <1>2 DEF LockedSteps, WindowSteps, BegunSteps, ProjectedSteps
  <1>5. Effect(p)
    <2>1. faults \in Nat /\ found[p] \in Nat /\ found[p] <= faults + 1
      BY ProjectionAssumption DEF IInv, Shape, Outer, Calling, Counted
    <2>2. faults' \in Nat /\ faults <= faults' /\ found'[p] <= faults' + 1 BY <1>2, <2>1
    <2>3. file' = file /\ attempt' = attempt /\ lock' = lock BY <1>2 DEF entries
    <2>. QED BY <1>1, <1>3, <1>4, <2>1, <2>2, <2>3, Untouched
  <1>6. Mine(p)' BY <1>2, <1>4 DEF Mine, Told, Statuses
  <1>. QED BY <1>1, <1>5, <1>6, StepKeeps

-----------------------------------------------------------------------------
(* The invariant *)

LEMMA StillStep ==
  ASSUME IInv, UNCHANGED <<entries, pc, local, outcome, faults>>, Shape'
  PROVE  IInv' /\ \A k \in Keys : file'[k] = file[k] /\ Committed(k)' = Committed(k)
  <1>1. UNCHANGED <<pc, outcome, phase, key, evidence, found, file, attempt, lock, faults>>
    BY DEF entries, local
  <1>2. Counted' BY <1>1 DEF IInv, Counted
  <1>3. ASSUME NEW p \in Procs PROVE Mine(p)'
    BY <1>1 DEF IInv, Mine, Settled, Committed, Begun
  <1>. QED BY <1>1, <1>2, <1>3 DEF IInv, Committed

LEMMA InitInv == Init => IInv
  <1>. SUFFICES ASSUME Init PROVE IInv OBVIOUS
  <1>1. PICK r \in Regs : core = [reg |-> r, length |-> Target, withdrawn |-> {}] BY DEF Init
  <1>2. core \in Contexts /\ 1 \in 1 .. MaxLength
    BY <1>1, ProjectionAssumption DEF Contexts
  <1>3. policy \in Policies
    <2>1. 1 \in 1 .. MaxVersion BY ProjectionAssumption
    <2>. QED BY <2>1 DEF Init, Policies
  <1>4. Outer
    <2>1. truth = [p \in Procs |-> {core}] /\ build \in Builds /\ manifest = "intact"
          /\ changes = 0 /\ crashes = 0 /\ faults = 0
      BY DEF Init
    <2>2. truth \in [Procs -> SUBSET Contexts] BY <1>2, <2>1
    <2>3. \A n \in Nat : 0 \in 0 .. n OBVIOUS
    <2>. QED BY <1>2, <1>3, <2>1, <2>2, <2>3, ProjectionAssumption DEF Outer
  <1>5. Entries BY DEF Init, Entries
  <1>6. Calling
    BY <1>2, <1>3 DEF Init, Calling, Steps, Outcomes
  <1>7. Counted BY <1>5, <1>6, ProjectionAssumption DEF Init, Counted
  <1>8. ASSUME NEW p \in Procs PROVE Mine(p)
    BY <1>8 DEF Init, Mine, Told, Statuses, LockedSteps, ProjectedSteps, LoadSteps
  <1>. QED BY <1>4, <1>5, <1>6, <1>7, <1>8 DEF IInv, Shape

\* Every step is a step of one process, or leaves the cache and the calls alone.
LEMMA NextKeeps ==
  ASSUME IInv, [Next]_vars
  PROVE  /\ IInv'
         /\ \/ \E p \in Procs : Effect(p)
            \/ \A k \in Keys : file'[k] = file[k] /\ Committed(k)' = Committed(k)
  <1>1. CASE Change
    <2>1. Shape' BY <1>1, ChangeShape DEF IInv
    <2>. QED BY <1>1, <2>1, StillStep DEF Change
  <1>2. CASE UNCHANGED vars
    <2>1. Shape'
      BY <1>2 DEF IInv, Shape, Outer, Entries, Calling, vars, environment, entries, local, counters
    <2>. QED BY <1>2, <2>1, StillStep DEF vars, counters
  <1>3. ASSUME NEW p \in Procs, Call(p) \/ Reload(p) \/ Run(p) \/ Raise(p) \/ Crash(p)
        PROVE  IInv' /\ Effect(p)
    <2>1. CASE Call(p) BY <2>1, CallStep
    <2>2. CASE Load(p) \/ LoadRaises(p) BY <2>2, LoadStep
    <2>3. CASE Prepare(p) \/ AdapterRaises(p) \/ Reload(p)
      BY <2>3, PrepareStep, AuthorizeStep, ProjectStep DEF Prepare
    <2>4. CASE Cache(p) \/ MkdirRaises(p) \/ LockRaises(p) \/ OpenRaises(p) \/ FillRaises(p)
               \/ CleanRaises(p) \/ RecheckRaises(p) \/ UnlockRaises(p) \/ Crash(p)
      BY <2>4, ApproachStep, LockStep, InspectStep, WriteStep, UnlockStep DEF Cache
    <2>5. CASE ReadCache(p) BY <2>5, AwaitStep, FindStep, ReadStep DEF ReadCache
    <2>. QED BY <1>3, <2>1, <2>2, <2>3, <2>4, <2>5 DEF Run, Raise
  <1>. QED BY <1>1, <1>2, <1>3 DEF Next

LEMMA Invariant == Spec => []IInv
  <1>1. IInv /\ [Next]_vars => IInv' BY NextKeeps
  <1>. QED BY <1>1, InitInv, PTL DEF Spec

-----------------------------------------------------------------------------
(* The theorems *)

\* Every variable keeps its type.  In particular a snapshot is begun again only after an
\* attempt that failed and was removed, so that a name, which holds captured_at, is
\* never written twice.
THEOREM TypeCorrect == Spec => []TypeOK
  <1>1. ASSUME IInv PROVE TypeOK
    <2>1. faults \in Nat /\ faults <= MaxFaults /\ MaxFaults \in Nat /\ MaxCrashes \in Nat
      BY <1>1, ProjectionAssumption DEF IInv, Shape, Outer
    <2>2. ASSUME NEW n \in Nat, n <= faults + 1 PROVE n \in 0 .. MaxFaults + MaxCrashes + 1
      BY <2>1, <2>2
    <2>3. attempt \in [Keys -> 0 .. MaxFaults + MaxCrashes + 1]
      BY <1>1, <2>2 DEF IInv, Shape, Entries, Counted
    <2>4. found \in [Procs -> 0 .. MaxFaults + MaxCrashes + 1]
      BY <1>1, <2>2 DEF IInv, Shape, Calling, Counted
    <2>. QED BY <1>1, <2>3, <2>4 DEF IInv, Shape, Outer, Entries, Calling, TypeOK
  <1>. QED BY <1>1, Invariant, PTL

\* What load_authorized_projection_snapshot returns without a lock is a snapshot that is
\* complete, that its writer will not remove, and that is still there.
THEOREM ReadsAreSettled == Spec => []ReadsSettled
  <1>1. ASSUME IInv PROVE ReadsSettled
    BY <1>1 DEF IInv, Mine, Told, Settled, ReadsSettled
  <1>. QED BY <1>1, Invariant, PTL

\* What cache_projected_inventory reports as created or as existing is in its place, with
\* the evidence of this call, for good.
THEOREM ReportsAreSettled == Spec => []ReportedSettled
  <1>1. ASSUME IInv PROVE ReportedSettled
    BY <1>1 DEF IInv, Mine, Told, Settled, ReportedSettled
  <1>. QED BY <1>1, Invariant, PTL

\* The cache implements write-once snapshots: whatever the callers, the faults and the
\* crashes, at most one snapshot is ever settled under an identity, and it stays.
THEOREM Refinement == Spec => ImplementsSnapshots
  <1>. DEFINE Shown(k) == IF Committed(k) THEN file[k] ELSE Absent
              Mapped == [k \in Keys |-> Shown(k)]
  <1>1. Init => Snapshots!Init
    <2>. SUFFICES ASSUME Init PROVE Mapped = [k \in Keys |-> Absent] BY DEF Snapshots!Init
    <2>1. \A k \in Keys : ~Committed(k) BY ProjectionAssumption DEF Init, Committed
    <2>. QED BY <2>1
  <1>2. ASSUME IInv, [Next]_vars PROVE [Snapshots!Next]_Mapped
    <2>1. CASE \A k \in Keys : file'[k] = file[k] /\ Committed(k)' = Committed(k)
      <3>1. Mapped' = Mapped BY <2>1
      <3>. QED BY <3>1
    <2>2. ASSUME NEW p \in Procs, Effect(p) PROVE [Snapshots!Next]_Mapped
      <3>1. ASSUME NEW k \in Keys, k # key[p] PROVE Shown(k)' = Shown(k)
        <4>1. file'[k] = file[k] BY <2>2, <3>1 DEF Effect
        <4>2. CASE Committed(k)
          <5>1. Committed(k)' BY <1>2, <2>2, <4>2, CommittedStays
          <5>. QED BY <4>1, <4>2, <5>1
        <4>3. CASE ~Committed(k)
          <5>1. ASSUME NEW q \in Procs, pc[q] \in WindowSteps, key[q] = k
                PROVE  pc'[q] \in WindowSteps /\ key'[q] = k
            BY <2>2, <3>1, <5>1 DEF Effect
          <5>2. ~Committed(k)' BY <4>1, <4>3, <5>1 DEF Committed
          <5>. QED BY <4>3, <5>2
        <4>. QED BY <4>2, <4>3
      <3>2. PICK m \in Keys : m = key[p] BY <1>2 DEF IInv, Shape, Calling
      <3>3. CASE Committed(m)
        <4>1. Committed(m)' /\ file'[m] = file[m] BY <1>2, <2>2, <3>3, CommittedStays
        <4>2. Shown(m)' = Shown(m) BY <3>3, <4>1
        <4>3. Mapped' = Mapped BY <3>1, <3>2, <4>2
        <4>. QED BY <4>3
      <3>4. CASE ~Committed(m) /\ Committed(m)'
        <4>1. PICK v \in Inventories : v = file'[m] BY <3>4 DEF Committed
        <4>2. Shown(m) = Absent /\ Shown(m)' = v BY <3>4, <4>1
        <4>3. Mapped[m] = Absent /\ Mapped' = [Mapped EXCEPT ![m] = v] BY <3>1, <3>2, <4>2
        <4>. QED BY <4>3 DEF Snapshots!Next, Snapshots!Capture
      <3>5. CASE ~Committed(m) /\ ~Committed(m)'
        <4>1. Shown(m)' = Shown(m) BY <3>5
        <4>2. Mapped' = Mapped BY <3>1, <3>2, <4>1
        <4>. QED BY <4>2
      <3>. QED BY <3>3, <3>4, <3>5
    <2>. QED BY <1>2, <2>1, <2>2, NextKeeps
  <1>. QED BY <1>1, <1>2, Invariant, PTL DEF Spec, ImplementsSnapshots, Snapshots!Spec
=============================================================================

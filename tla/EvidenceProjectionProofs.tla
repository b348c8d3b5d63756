------------------------ MODULE EvidenceProjectionProofs ------------------------
(***************************************************************************)
(* Core's canonical state is read record by record while it changes, and   *)
(* yet what a call prepares is a state Core was in as a whole; what a read *)
(* says of a snapshot was true at one moment of the call.                  *)
(*                                                                         *)
(* A series only grows and a withdrawal is never taken back: of what a     *)
(* load returns, only the registration may have been something else in     *)
(* between.  The state at the moment a load read the registration is the   *)
(* witness: the load returns at least that state, and a second load that   *)
(* returns what the first one did started no lower than that.              *)
(***************************************************************************)
EXTENDS ProjectionCacheProofs

\* How far a canonical state has come: what never goes back.
Below(c, d) == c.length <= d.length /\ c.withdrawn \subseteq d.withdrawn

ReadingSteps == {"find", "await", "read", "assess"}
LoadedSteps == {"authorize", "confirm", "reauthorize", "permit"} \cup ReadingSteps
PreparedSteps == {"prepared"} \cup ProjectedSteps

\* The canonical state in which the load of p read the registration.
Witness(p, c) ==
  /\ c \in truth[p] /\ c.withdrawn \subseteq 1 .. c.length /\ c.reg = seen[p].reg
  /\ pc[p] = "series" => Below(c, core)
  /\ pc[p] = "withdrawal" =>
       /\ c.length <= seen[p].length /\ c.withdrawn \subseteq core.withdrawn
       /\ \A i \in c.withdrawn : i < member[p] => i \in seen[p].withdrawn
  /\ pc[p] \in LoadedSteps => Below(c, seen[p])
  /\ pc[p] = "confirm" \/ (pc[p] \in LoadSteps /\ phase[p] = "final") => Below(base[p], c)

Viewed(p) ==
  pc[p] \in {"series", "withdrawal"} \cup LoadedSteps =>
    /\ Below(seen[p], core)
    /\ \E c \in truth[p] : Witness(p, c)

Based(p) ==
  pc[p] \in {"verify", "bytes", "confirm"} \/ (pc[p] \in LoadSteps /\ phase[p] = "final")
    => Below(base[p], core)

Held(p) ==
  pc[p] \in PreparedSteps \/ (pc[p] \in LoadSteps /\ phase[p] = "again") => base[p] \in truth[p]

Permitted(p) ==
  /\ pc[p] \in ReadingSteps =>
       /\ ~Withdrawn(seen[p])
       /\ <<"read_projection_cache", req[p].scope>> \in authorizer[p].grants
  /\ pc[p] \in {"read", "assess"} \/ (pc[p] = "await" /\ outcome[p] = "none")
       => key[p].scope = req[p].scope

\* What a status that was returned says of the states of the call.
Judged(p) ==
  pc[p] = "idle" /\ outcome[p] \in Statuses =>
    /\ \E c \in truth[p] :
         /\ ~Withdrawn(c)
         /\ outcome[p] = "reusable" =>
              Head(c) /\ c.reg = key[p].reg /\ c.length = key[p].length
    /\ <<"read_projection_cache", key[p].scope>> \in authorizer[p].grants

Loaded(p) == /\ pc[p] # "idle" => core \in truth[p]
             /\ Viewed(p) /\ Based(p) /\ Held(p) /\ Permitted(p) /\ Judged(p)

CoreClosed == core.withdrawn \subseteq 1 .. core.length

LInv == CoreClosed /\ \A p \in Procs : Loaded(p)

-----------------------------------------------------------------------------
(* The order of canonical states *)

LEMMA BelowSelf ==
  ASSUME NEW c \in Contexts
  PROVE  Below(c, c)
  <1>1. c.length \in Nat BY ProjectionAssumption DEF Contexts
  <1>. QED BY <1>1 DEF Below

LEMMA BelowTwice ==
  ASSUME NEW c \in Contexts, NEW d \in Contexts, NEW e \in Contexts, Below(c, d), Below(d, e)
  PROVE  Below(c, e)
  <1>1. c.length \in Nat /\ d.length \in Nat /\ e.length \in Nat
    BY ProjectionAssumption DEF Contexts
  <1>. QED BY <1>1 DEF Below

\* Two states of one registration that are below each other are the same.
LEMMA BelowBoth ==
  ASSUME NEW c \in Contexts, NEW d \in Contexts, Below(c, d), Below(d, c), c.reg = d.reg
  PROVE  c = d
  <1>1. c.length \in Nat /\ d.length \in Nat BY ProjectionAssumption DEF Contexts
  <1>2. c.length = d.length /\ c.withdrawn = d.withdrawn BY <1>1 DEF Below
  <1>. QED BY <1>2 DEF Contexts

LEMMA CoreGrows ==
  ASSUME IInv, LInv, CoreChanges
  PROVE  Below(core, core') /\ CoreClosed'
  <1>1. core \in Contexts /\ core.length \in Nat BY ProjectionAssumption
        DEF IInv, Shape, Outer, Contexts
  <1>2. CASE \E r \in Regs \ {core.reg} : core' = [core EXCEPT !.reg = r]
    <2>1. core'.length = core.length /\ core'.withdrawn = core.withdrawn
      BY <1>1, <1>2 DEF Contexts
    <2>. QED BY <1>1, <2>1 DEF Below, CoreClosed, LInv
  <1>3. CASE core.length < MaxLength /\ core' = [core EXCEPT !.length = core.length + 1]
    <2>1. core'.length = core.length + 1 /\ core'.withdrawn = core.withdrawn
      BY <1>1, <1>3 DEF Contexts
    <2>2. 1 .. core.length \subseteq 1 .. core.length + 1 BY <1>1
    <2>. QED BY <1>1, <2>1, <2>2 DEF Below, CoreClosed, LInv
  <1>4. CASE \E i \in (1 .. core.length) \ core.withdrawn :
               core' = [core EXCEPT !.withdrawn = core.withdrawn \cup {i}]
    <2>1. PICK i \in 1 .. core.length :
            core' = [core EXCEPT !.withdrawn = core.withdrawn \cup {i}]
      BY <1>4
    <2>2. core'.length = core.length /\ core'.withdrawn = core.withdrawn \cup {i}
      BY <1>1, <2>1 DEF Contexts
    <2>. QED BY <1>1, <2>2 DEF Below, CoreClosed, LInv
  <1>. QED BY <1>2, <1>3, <1>4 DEF CoreChanges

-----------------------------------------------------------------------------
(* What the other calls keep *)

\* Nothing of the call of q changes.
Same(q) ==
  /\ pc'[q] = pc[q] /\ phase'[q] = phase[q] /\ req'[q] = req[q] /\ seen'[q] = seen[q]
  /\ member'[q] = member[q] /\ base'[q] = base[q] /\ authorizer'[q] = authorizer[q]
  /\ key'[q] = key[q] /\ outcome'[q] = outcome[q]

\* A canonical state that grows, and is recorded, disturbs no call.
LEMMA SameKeeps ==
  ASSUME IInv, IInv', LInv, NEW q \in Procs, Same(q), Below(core, core'),
         truth[q] \subseteq truth'[q], pc[q] # "idle" => core' \in truth'[q]
  PROVE  Loaded(q)'
  <1>1. Loaded(q) BY DEF LInv
  <1>2. /\ core \in Contexts /\ core' \in Contexts /\ seen[q] \in Contexts /\ base[q] \in Contexts
        /\ truth[q] \in SUBSET Contexts
    BY DEF IInv, Shape, Outer, Calling
  <1>3. Below(seen[q], core) => Below(seen[q], core') BY <1>2, BelowTwice
  <1>4. Below(base[q], core) => Below(base[q], core') BY <1>2, BelowTwice
  <1>5. ASSUME NEW c \in truth[q], Witness(q, c) PROVE Witness(q, c)'
    <2>1. c \in Contexts /\ (Below(c, core) => Below(c, core')) BY <1>2, BelowTwice
    <2>2. core.withdrawn \subseteq core'.withdrawn BY DEF Below
    <2>. QED BY <1>5, <2>1, <2>2 DEF Same, Witness, Below
  <1>6. Viewed(q)' BY <1>1, <1>3, <1>5 DEF Loaded, Viewed, Same, Below
  <1>7. Based(q)' BY <1>1, <1>4 DEF Loaded, Based, Same, Below
  <1>8. Held(q)' /\ Permitted(q)' BY <1>1 DEF Loaded, Held, Permitted, Same, Withdrawn
  <1>9. Judged(q)' BY <1>1 DEF Loaded, Judged, Same, Withdrawn, Head
  <1>. QED BY <1>6, <1>7, <1>8, <1>9 DEF Loaded, Same

\* A step of p alone.
LEMMA AloneKeeps ==
  ASSUME IInv, IInv', LInv, NEW p \in Procs, core' = core,
         \A q \in Procs \ {p} : Same(q) /\ truth'[q] = truth[q], Loaded(p)'
  PROVE  LInv'
  <1>1. core \in Contexts BY DEF IInv, Shape, Outer
  <1>2. Below(core, core') BY <1>1, BelowSelf
  <1>3. ASSUME NEW q \in Procs, q # p PROVE Loaded(q)'
    <2>1. Loaded(q) /\ Same(q) /\ truth'[q] = truth[q] BY <1>3 DEF LInv
    <2>2. pc[q] # "idle" => core' \in truth'[q] BY <2>1 DEF Loaded
    <2>. QED BY <1>2, <2>1, <2>2, SameKeeps
  <1>. QED BY <1>3 DEF LInv, CoreClosed

LEMMA ChangeKeeps ==
  ASSUME IInv, IInv', LInv, Change
  PROVE  LInv'
  <1>1. ASSUME NEW q \in Procs PROVE Same(q)
    BY DEF Change, local, Same
  <1>2. core \in Contexts /\ truth \in [Procs -> SUBSET Contexts] BY DEF IInv, Shape, Outer
  <1>3. CASE SetupChanges
    <2>1. core' = core /\ truth' = truth BY <1>3 DEF SetupChanges
    <2>2. Below(core, core') BY <1>2, <2>1, BelowSelf
    <2>3. ASSUME NEW q \in Procs PROVE Loaded(q)'
      <3>1. pc[q] # "idle" => core' \in truth'[q] BY <2>1 DEF LInv, Loaded
      <3>. QED BY <1>1, <2>1, <2>2, <3>1, SameKeeps
    <2>. QED BY <2>1, <2>3 DEF LInv, CoreClosed
  <1>4. CASE CoreChanges
    <2>1. Below(core, core') /\ CoreClosed' BY <1>4, CoreGrows
    <2>2. ASSUME NEW q \in Procs PROVE Loaded(q)'
      <3>1. truth'[q] = IF pc[q] = "idle" THEN truth[q] ELSE truth[q] \cup {core'}
        BY <1>4 DEF CoreChanges, Witnessed
      <3>. QED BY <1>1, <2>1, <3>1, SameKeeps
    <2>. QED BY <2>1, <2>2 DEF LInv
  <1>. QED BY <1>3, <1>4 DEF Change

-----------------------------------------------------------------------------
(* Loading *)

LEMMA LoadTypes ==
  ASSUME IInv, NEW p \in Procs
  PROVE  /\ core \in Contexts /\ truth[p] \in SUBSET Contexts /\ seen[p] \in Contexts
         /\ base[p] \in Contexts /\ member[p] \in Nat /\ pc[p] \in Steps
         /\ core.length \in Nat /\ seen[p].length \in Nat
  <1>1. /\ core \in Contexts /\ truth[p] \in SUBSET Contexts /\ seen[p] \in Contexts
        /\ base[p] \in Contexts /\ member[p] \in Nat /\ pc[p] \in Steps
    BY DEF IInv, Shape, Outer, Calling
  <1>2. \A c \in Contexts : c.length \in Nat BY ProjectionAssumption DEF Contexts
  <1>. QED BY <1>1, <1>2

\* A call begins with the state that is there.
LEMMA CallLoads ==
  ASSUME IInv, IInv', LInv, NEW p \in Procs, Call(p)
  PROVE  LInv'
  <1>1. core' = core /\ \A q \in Procs \ {p} : Same(q) /\ truth'[q] = truth[q]
    BY DEF Call, StartLoad, Goto, environment, Same, IInv, Shape, Outer, Calling
  <1>2. /\ pc'[p] = "registration" /\ phase'[p] \in {"initial", "read"}
        /\ truth'[p] = {core}
    BY DEF Call, StartLoad, Goto, IInv, Shape, Outer, Calling
  <1>3. Loaded(p)'
    BY <1>1, <1>2 DEF Loaded, Viewed, Based, Held, Permitted, Judged, LoadedSteps, ReadingSteps,
                      PreparedSteps, ProjectedSteps, LockedSteps
  <1>. QED BY <1>1, <1>3, AloneKeeps

LEMMA RegistrationLoads ==
  ASSUME IInv, IInv', LInv, NEW p \in Procs, LoadRegistration(p)
  PROVE  LInv'
  <1>1. /\ pc[p] = "registration" /\ UNCHANGED <<phase, base, outcome, core, truth>>
        /\ \A q \in Procs \ {p} : Same(q)
    BY DEF LoadRegistration, Then, Goto, Calm, Outside, environment, Same, IInv, Shape, Calling
  <1>2. pc'[p] = "series"
        /\ seen'[p] = [reg |-> core.reg, length |-> Target, withdrawn |-> {}]
    BY DEF LoadRegistration, Then, Goto, IInv, Shape, Calling
  <1>3. /\ core \in Contexts /\ core \in truth[p] /\ core.withdrawn \subseteq 1 .. core.length
        /\ Loaded(p)
    BY <1>1, LoadTypes DEF LInv, CoreClosed, Loaded
  <1>4. Below(seen'[p], core)
    <2>1. Target <= core.length BY <1>3, ProjectionAssumption DEF Contexts
    <2>. QED BY <1>2, <2>1 DEF Below
  <1>5. Below(core, core) BY <1>3, BelowSelf
  <1>6. phase[p] = "final" => Below(base[p], core)
    BY <1>1, <1>3 DEF Loaded, Based, LoadSteps
  <1>7. "series" \in LoadSteps /\ "registration" \in LoadSteps /\ "series" \notin LoadedSteps
        /\ "series" \notin PreparedSteps /\ "series" \notin ReadingSteps
    BY DEF LoadSteps, LoadedSteps, PreparedSteps, ProjectedSteps, LockedSteps, ReadingSteps
  <1>8. Witness(p, core)' BY <1>1, <1>2, <1>3, <1>5, <1>6, <1>7 DEF Witness
  <1>9. Viewed(p)'
    <2>1. \E c \in truth'[p] : Witness(p, c)'
      BY <1>1, <1>3, <1>8
    <2>. QED BY <1>1, <1>2, <1>4, <2>1 DEF Viewed
  <1>10. Held(p)' /\ Based(p)' /\ Permitted(p)' /\ Judged(p)'
    BY <1>1, <1>2, <1>3, <1>6, <1>7 DEF Loaded, Held, Based, Permitted, Judged
  <1>11. Loaded(p)' BY <1>1, <1>3, <1>9, <1>10 DEF Loaded
  <1>. QED BY <1>1, <1>11, AloneKeeps

LEMMA SeriesLoads ==
  ASSUME IInv, IInv', LInv, NEW p \in Procs, LoadSeries(p)
  PROVE  LInv'
  <1>1. /\ pc[p] = "series" /\ UNCHANGED <<phase, base, outcome, core, truth>>
        /\ \A q \in Procs \ {p} : Same(q)
    BY DEF LoadSeries, Then, Goto, Calm, Outside, environment, Same, IInv, Shape, Calling
  <1>2. pc'[p] = "withdrawal" /\ member'[p] = 1
        /\ seen'[p] = [seen[p] EXCEPT !.length = core.length]
    BY DEF LoadSeries, Then, Goto, IInv, Shape, Calling
  <1>3. /\ core \in Contexts /\ core \in truth[p] /\ Loaded(p)
        /\ seen[p] \in Contexts /\ core.length \in Nat
    BY <1>1, LoadTypes DEF LInv, Loaded
  <1>4. seen'[p].length = core.length /\ seen'[p].withdrawn = seen[p].withdrawn
        /\ seen'[p].reg = seen[p].reg
    BY <1>2, <1>3 DEF Contexts
  <1>5. "withdrawal" \in LoadSteps /\ "series" \in LoadSteps /\ "withdrawal" \notin LoadedSteps
        /\ "withdrawal" \notin PreparedSteps /\ "withdrawal" \notin ReadingSteps
    BY DEF LoadSteps, LoadedSteps, PreparedSteps, ProjectedSteps, LockedSteps, ReadingSteps
  <1>6. PICK c \in truth[p] : Witness(p, c) BY <1>1, <1>3 DEF Loaded, Viewed
  <1>7. Below(seen'[p], core)
    BY <1>1, <1>3, <1>4 DEF Loaded, Viewed, Below
  <1>8. Witness(p, c)'
    <2>1. c.withdrawn \subseteq 1 .. c.length /\ Below(c, core) BY <1>1, <1>6 DEF Witness
    <2>2. \A i \in c.withdrawn : ~(i < 1)
      <3>1. c.length \in Nat BY LoadTypes, ProjectionAssumption DEF Contexts
      <3>. QED BY <2>1, <3>1
    <2>. QED BY <1>1, <1>2, <1>4, <1>5, <1>6, <2>1, <2>2 DEF Witness, Below
  <1>9. Viewed(p)' BY <1>1, <1>7, <1>8 DEF Viewed, Below
  <1>10. Held(p)' /\ Based(p)' /\ Permitted(p)' /\ Judged(p)'
    BY <1>1, <1>2, <1>3, <1>5 DEF Loaded, Held, Based, Permitted, Judged, Below
  <1>11. Loaded(p)' BY <1>1, <1>3, <1>9, <1>10 DEF Loaded
  <1>. QED BY <1>1, <1>11, AloneKeeps

LEMMA WithdrawalLoads ==
  ASSUME IInv, IInv', LInv, NEW p \in Procs, LoadWithdrawal(p)
  PROVE  LInv'
  <1>1. /\ pc[p] = "withdrawal" /\ UNCHANGED <<phase, base, outcome, core, truth>>
        /\ \A q \in Procs \ {p} : Same(q)
    BY DEF LoadWithdrawal, Then, Goto, Calm, Outside, environment, Same, IInv, Shape, Calling
  <1>2. seen'[p] = [seen[p] EXCEPT !.withdrawn = @ \cup (core.withdrawn \cap {member[p]})]
    BY DEF LoadWithdrawal, IInv, Shape, Calling
  <1>3. /\ core \in Contexts /\ core \in truth[p] /\ Loaded(p) /\ truth[p] \in SUBSET Contexts
        /\ seen[p] \in Contexts /\ core.length \in Nat /\ seen[p].length \in Nat
        /\ member[p] \in Nat
    BY <1>1, LoadTypes DEF LInv, Loaded
  <1>4. /\ seen'[p].length = seen[p].length /\ seen'[p].reg = seen[p].reg
        /\ seen'[p].withdrawn = seen[p].withdrawn \cup (core.withdrawn \cap {member[p]})
    BY <1>2, <1>3 DEF Contexts
  <1>5. PICK c \in truth[p] : Witness(p, c) BY <1>1, <1>3 DEF Loaded, Viewed
  <1>6. Below(seen'[p], core)
    BY <1>1, <1>3, <1>4 DEF Loaded, Viewed, Below
  <1>7. /\ c.withdrawn \subseteq 1 .. c.length /\ c.reg = seen[p].reg /\ c.length \in Nat
        /\ c.length <= seen[p].length /\ c.withdrawn \subseteq core.withdrawn
        /\ \A i \in c.withdrawn : i < member[p] => i \in seen[p].withdrawn
    BY <1>1, <1>3, <1>5, ProjectionAssumption DEF Witness, Contexts
  <1>8. "withdrawal" \in LoadSteps /\ "withdrawal" \notin LoadedSteps
        /\ "withdrawal" \notin PreparedSteps /\ "withdrawal" \notin ReadingSteps
    BY DEF LoadSteps, LoadedSteps, PreparedSteps, ProjectedSteps, LockedSteps, ReadingSteps
  <1>9. CASE pc'[p] = "withdrawal" /\ member'[p] = member[p] + 1
    <2>1. \A i \in c.withdrawn : i < member[p] + 1 => i \in seen'[p].withdrawn
      <3>1. ASSUME NEW i \in c.withdrawn, i < member[p] + 1 PROVE i \in seen'[p].withdrawn
        <4>1. i \in Nat BY <1>7
        <4>2. i < member[p] \/ i = member[p] BY <1>3, <3>1, <4>1
        <4>. QED BY <1>4, <1>7, <4>2
      <3>. QED BY <3>1
    <2>2. Witness(p, c)' BY <1>1, <1>4, <1>5, <1>7, <1>8, <1>9, <2>1 DEF Witness, Below
    <2>3. Viewed(p)' BY <1>1, <1>6, <2>2 DEF Viewed, Below
    <2>4. Held(p)' /\ Based(p)' /\ Permitted(p)' /\ Judged(p)'
      BY <1>1, <1>3, <1>8, <1>9 DEF Loaded, Held, Based, Permitted, Judged, Below
    <2>5. Loaded(p)' BY <1>1, <1>3, <2>3, <2>4 DEF Loaded
    <2>. QED BY <1>1, <2>5, AloneKeeps
  <1>10. CASE pc'[p] = AfterLoad(phase[p]) /\ member[p] >= seen[p].length
    <2>1. Below(c, seen'[p])
      <3>1. ASSUME NEW i \in c.withdrawn PROVE i \in seen'[p].withdrawn
        <4>1. i \in Nat /\ i <= c.length BY <1>7
        <4>2. i < member[p] \/ i = member[p] BY <1>3, <1>7, <1>10, <4>1
        <4>. QED BY <1>4, <1>7, <4>2
      <3>. QED BY <1>4, <1>7, <3>1 DEF Below
    <2>2. /\ pc'[p] \in {"authorize", "confirm", "reauthorize", "permit"}
          /\ pc'[p] = "confirm" => phase[p] = "final"
          /\ pc'[p] = "reauthorize" => phase[p] = "again"
      BY <1>10 DEF AfterLoad
    <2>3. /\ pc'[p] \notin LoadSteps /\ pc'[p] \notin ReadingSteps
          /\ pc'[p] \in PreparedSteps => pc'[p] = "reauthorize"
      BY <2>2 DEF LoadSteps, ReadingSteps, PreparedSteps, ProjectedSteps, LockedSteps
    <2>4. Witness(p, c)' BY <1>1, <1>4, <1>5, <1>7, <1>8, <2>1, <2>2, <2>3 DEF Witness, Below
    <2>5. Viewed(p)' BY <1>1, <1>6, <2>4 DEF Viewed, Below
    <2>6. Held(p)' /\ Based(p)' /\ Permitted(p)' /\ Judged(p)'
      BY <1>1, <1>3, <1>8, <2>2, <2>3 DEF Loaded, Held, Based, Permitted, Judged, Below
    <2>7. Loaded(p)' BY <1>1, <1>3, <2>5, <2>6 DEF Loaded
    <2>. QED BY <1>1, <2>7, AloneKeeps
  <1>11. \/ pc'[p] = "withdrawal" /\ member'[p] = member[p] + 1
         \/ pc'[p] = AfterLoad(phase[p]) /\ member[p] >= seen[p].length
    BY DEF LoadWithdrawal, Then, Goto, IInv, Shape, Calling
  <1>. QED BY <1>9, <1>10, <1>11

LEMMA ActsSame ==
  ASSUME IInv, NEW p \in Procs, Acts(p), UNCHANGED local, Outside
  PROVE  /\ core' = core /\ truth' = truth /\ \A q \in Procs \ {p} : Same(q)
         /\ phase'[p] = phase[p] /\ req'[p] = req[p] /\ seen'[p] = seen[p] /\ base'[p] = base[p]
         /\ authorizer'[p] = authorizer[p] /\ key'[p] = key[p]
  BY ActsAlone DEF IInv, local, Outside, environment, Same

\* The call is over and says nothing of a snapshot.
LEMMA GoneKeeps ==
  ASSUME IInv, IInv', LInv, NEW p \in Procs, core' = core,
         \A q \in Procs \ {p} : Same(q) /\ truth'[q] = truth[q],
         pc'[p] = "idle", outcome'[p] \notin Statuses
  PROVE  LInv'
  <1>1. "idle" \notin LoadSteps /\ "idle" \notin LoadedSteps /\ "idle" \notin PreparedSteps
        /\ "idle" \notin ReadingSteps
    BY DEF LoadSteps, LoadedSteps, PreparedSteps, ProjectedSteps, LockedSteps, ReadingSteps
  <1>2. Loaded(p)' BY <1>1 DEF Loaded, Viewed, Based, Held, Permitted, Judged
  <1>. QED BY <1>2, AloneKeeps

\* What has been prepared stays prepared while it is cached.
LEMMA PreparedKeeps ==
  ASSUME IInv, IInv', LInv, NEW p \in Procs, core' = core, truth' = truth,
         \A q \in Procs \ {p} : Same(q), base'[p] = base[p],
         base[p] \in truth[p], pc[p] # "idle", pc'[p] \in PreparedSteps \ {"reauthorize"}
  PROVE  LInv'
  <1>1. pc'[p] \notin LoadSteps /\ pc'[p] \notin LoadedSteps /\ pc'[p] \notin ReadingSteps
        /\ pc'[p] \notin {"idle", "verify", "bytes", "confirm", "series", "withdrawal", "read",
                          "assess", "await"}
    BY DEF LoadSteps, LoadedSteps, PreparedSteps, ProjectedSteps, LockedSteps, ReadingSteps
  <1>2. core \in truth[p] BY DEF LInv, Loaded
  <1>3. Loaded(p)' BY <1>1, <1>2 DEF Loaded, Viewed, Based, Held, Permitted, Judged
  <1>. QED BY <1>3, AloneKeeps

-----------------------------------------------------------------------------
(* Preparing *)

LEMMA AuthorizeKeeps ==
  ASSUME IInv, IInv', LInv, NEW p \in Procs, Authorize(p)
  PROVE  LInv'
  <1>1. /\ pc[p] = "authorize" /\ UNCHANGED <<core, truth>> /\ base'[p] = seen[p]
        /\ \A q \in Procs \ {p} : Same(q)
    BY DEF Authorize, Then, Return, Goto, Calm, Outside, environment, Same, IInv, Shape, Calling
  <1>2. /\ Loaded(p) /\ core \in truth[p] BY <1>1 DEF LInv, Loaded
  <1>3. CASE Return(p, "denied")
    <2>1. pc'[p] = "idle" /\ outcome'[p] = "denied"
      BY <1>3 DEF Return, Goto, IInv, Shape, Calling
    <2>. QED BY <1>1, <2>1, GoneKeeps DEF Statuses
  <1>4. CASE Then(p, "verify")
    <2>1. pc'[p] = "verify" BY <1>4 DEF Then, Goto, IInv, Shape, Calling
    <2>2. Below(seen[p], core) BY <1>1, <1>2 DEF Loaded, Viewed, LoadedSteps
    <2>3. "verify" \notin LoadSteps /\ "verify" \notin LoadedSteps /\ "verify" \notin PreparedSteps
          /\ "verify" \notin ReadingSteps
      BY DEF LoadSteps, LoadedSteps, PreparedSteps, ProjectedSteps, LockedSteps, ReadingSteps
    <2>4. Loaded(p)'
      BY <1>1, <1>2, <2>1, <2>2, <2>3
         DEF Loaded, Viewed, Based, Held, Permitted, Judged, Below
    <2>. QED BY <1>1, <2>4, AloneKeeps
  <1>. QED BY <1>3, <1>4 DEF Authorize

LEMMA VerifyKeeps ==
  ASSUME IInv, IInv', LInv, NEW p \in Procs, Verify(p) \/ ReadBytes(p)
  PROVE  LInv'
  <1>1. /\ pc[p] \in {"verify", "bytes"} /\ UNCHANGED <<core, truth, base>>
        /\ \A q \in Procs \ {p} : Same(q)
    BY DEF Verify, ReadBytes, StartLoad, Then, Return, Goto, Calm, Outside, environment, local,
           Same, IInv, Shape, Calling
  <1>2. Loaded(p) /\ core \in truth[p] /\ Below(base[p], core)
    BY <1>1 DEF LInv, Loaded, Based
  <1>3. CASE pc'[p] = "idle" /\ outcome'[p] = "manifest"
    BY <1>1, <1>3, GoneKeeps DEF Statuses
  <1>4. CASE pc'[p] = "bytes" \/ (pc'[p] = "registration" /\ phase'[p] = "final")
    <2>1. /\ pc'[p] \notin LoadedSteps /\ pc'[p] \notin PreparedSteps /\ pc'[p] \notin ReadingSteps
          /\ pc'[p] \in LoadSteps => phase'[p] = "final"
      BY <1>4 DEF LoadSteps, LoadedSteps, PreparedSteps, ProjectedSteps, LockedSteps, ReadingSteps
    <2>2. Loaded(p)'
      BY <1>1, <1>2, <1>4, <2>1 DEF Loaded, Viewed, Based, Held, Permitted, Judged, Below
    <2>. QED BY <1>1, <2>2, AloneKeeps
  <1>5. \/ pc'[p] = "idle" /\ outcome'[p] = "manifest"
        \/ pc'[p] = "bytes" \/ (pc'[p] = "registration" /\ phase'[p] = "final")
    BY DEF Verify, ReadBytes, StartLoad, Then, Return, Goto, IInv, Shape, Calling
  <1>. QED BY <1>3, <1>4, <1>5

\* The second load returned what the first one did, and started no lower: Core was in
\* that state when the second load read the registration.
LEMMA ConfirmKeeps ==
  ASSUME IInv, IInv', LInv, NEW p \in Procs, Confirm(p)
  PROVE  LInv'
  <1>1. /\ pc[p] = "confirm" /\ UNCHANGED <<core, truth, base>> /\ \A q \in Procs \ {p} : Same(q)
    BY DEF Confirm, Then, Return, Goto, Calm, Outside, environment, local, Same, IInv, Shape, Calling
  <1>2. Loaded(p) BY DEF LInv
  <1>3. CASE seen[p] = base[p]
    <2>1. pc'[p] = "prepared" BY <1>3 DEF Confirm, Then, Goto, IInv, Shape, Calling
    <2>2. PICK c \in truth[p] : Witness(p, c) BY <1>1, <1>2 DEF Loaded, Viewed, LoadedSteps
    <2>3. Below(c, base[p]) /\ Below(base[p], c) /\ c.reg = base[p].reg
      BY <1>1, <1>3, <2>2 DEF Witness, LoadedSteps
    <2>4. c \in Contexts /\ base[p] \in Contexts BY LoadTypes
    <2>5. c = base[p] BY <2>3, <2>4, BelowBoth
    <2>6. "prepared" \in PreparedSteps \ {"reauthorize"} BY DEF PreparedSteps
    <2>. QED BY <1>1, <2>1, <2>5, <2>6, PreparedKeeps
  <1>4. CASE seen[p] # base[p]
    <2>1. pc'[p] = "idle" /\ outcome'[p] = "changed"
      BY <1>4 DEF Confirm, Return, Goto, IInv, Shape, Calling
    <2>. QED BY <1>1, <2>1, GoneKeeps DEF Statuses
  <1>. QED BY <1>3, <1>4

LEMMA ProjectKeeps ==
  ASSUME IInv, IInv', LInv, NEW p \in Procs, Project(p) \/ Reload(p)
  PROVE  LInv'
  <1>1. /\ pc[p] = "prepared" /\ UNCHANGED <<core, truth, base>> /\ \A q \in Procs \ {p} : Same(q)
    BY DEF Project, Reload, StartLoad, Return, Goto, Calm, Outside, environment, Same, IInv, Shape,
           Calling
  <1>2. Loaded(p) /\ base[p] \in truth[p] /\ core \in truth[p]
    BY <1>1 DEF LInv, Loaded, Held, PreparedSteps
  <1>3. \/ pc'[p] = "idle" /\ outcome'[p] = "error"
        \/ pc'[p] = "registration" /\ phase'[p] = "again"
        \/ pc'[p] = "prepared"
    BY DEF Project, Reload, StartLoad, Return, Goto, IInv, Shape, Calling
  <1>4. CASE pc'[p] = "idle" /\ outcome'[p] = "error"
    BY <1>1, <1>4, GoneKeeps DEF Statuses
  <1>5. CASE pc'[p] = "prepared"
    BY <1>1, <1>2, <1>5, PreparedKeeps DEF PreparedSteps
  <1>6. CASE pc'[p] = "registration" /\ phase'[p] = "again"
    <2>1. Loaded(p)'
      BY <1>1, <1>2, <1>6
         DEF Loaded, Viewed, Based, Held, Permitted, Judged, LoadSteps, LoadedSteps, PreparedSteps,
             ProjectedSteps, LockedSteps, ReadingSteps
    <2>. QED BY <1>1, <2>1, AloneKeeps
  <1>. QED BY <1>3, <1>4, <1>5, <1>6

-----------------------------------------------------------------------------
(* Caching, and what ends a call early *)

LEMMA CacheKeeps ==
  ASSUME IInv, IInv', LInv, NEW p \in Procs,
         \/ Cache(p) \/ MkdirRaises(p) \/ LockRaises(p) \/ OpenRaises(p) \/ FillRaises(p)
         \/ CleanRaises(p) \/ RecheckRaises(p) \/ UnlockRaises(p)
  PROVE  LInv'
  <1>1. Acts(p) BY CacheShape DEF IInv
  <1>2. UNCHANGED local /\ Outside
    BY DEF Cache, Reauthorize, Ensure, Mkdir, Probe, Lock, Inspect, Mark, Open, Fill, Sync, Clean,
           Recheck, Unlock, MkdirRaises, LockRaises, OpenRaises, FillRaises, CleanRaises,
           RecheckRaises, UnlockRaises, Calm, local
  <1>3. /\ core' = core /\ truth' = truth /\ base'[p] = base[p]
        /\ \A q \in Procs \ {p} : Same(q)
    BY <1>1, <1>2, ActsSame
  <1>4. pc[p] \in ProjectedSteps
    BY DEF Cache, Reauthorize, Ensure, Mkdir, Probe, Lock, Inspect, Mark, Open, Fill, Sync, Clean,
           Recheck, Unlock, MkdirRaises, LockRaises, OpenRaises, FillRaises, CleanRaises,
           RecheckRaises, UnlockRaises, ProjectedSteps, LockedSteps
  <1>5. base[p] \in truth[p] /\ pc[p] # "idle"
    BY <1>4 DEF LInv, Loaded, Held, PreparedSteps, ProjectedSteps, LockedSteps
  <1>6. pc'[p] \in PreparedSteps \ {"reauthorize"} \/ pc'[p] = "idle"
    <2>1. CASE Reauthorize(p) \/ Ensure(p) \/ Mkdir(p) \/ Probe(p) \/ Lock(p) \/ MkdirRaises(p)
               \/ LockRaises(p)
      BY <2>1 DEF Reauthorize, Ensure, Mkdir, Probe, Lock, MkdirRaises, LockRaises, Then, Return,
                  Goto, IInv, Shape, Calling, PreparedSteps, ProjectedSteps, LockedSteps
    <2>2. CASE Inspect(p) \/ Mark(p) \/ Open(p) \/ Fill(p) \/ Sync(p) \/ Clean(p)
      BY <2>2 DEF Inspect, Mark, Open, Fill, Sync, Clean, Then, Leave, Goto, IInv, Shape, Calling,
                  PreparedSteps, ProjectedSteps, LockedSteps
    <2>3. CASE Recheck(p) \/ Unlock(p) \/ OpenRaises(p) \/ FillRaises(p) \/ CleanRaises(p)
               \/ RecheckRaises(p) \/ UnlockRaises(p)
      BY <2>3 DEF Recheck, Unlock, OpenRaises, FillRaises, CleanRaises, RecheckRaises, UnlockRaises,
                  Then, Return, Leave, Goto, IInv, Shape, Calling, PreparedSteps, ProjectedSteps,
                  LockedSteps
    <2>. QED BY <2>1, <2>2, <2>3 DEF Cache
  <1>7. CASE pc'[p] \in PreparedSteps \ {"reauthorize"}
    BY <1>3, <1>5, <1>7, PreparedKeeps
  <1>8. CASE pc'[p] = "idle"
    <2>1. outcome[p] \notin Statuses BY <1>5 DEF IInv, Mine
    <2>2. \/ outcome'[p] = outcome[p]
          \/ outcome'[p] \in {"changed", "denied", "write_error", "locked", "integrity", "existing",
                              "nondeterminism", "partial", "created"}
      <3>1. CASE Reauthorize(p) \/ Ensure(p) \/ Mkdir(p) \/ Probe(p) \/ Lock(p) \/ MkdirRaises(p)
                 \/ LockRaises(p)
        BY <3>1 DEF Reauthorize, Ensure, Mkdir, Probe, Lock, MkdirRaises, LockRaises, Then, Return,
                    Goto, IInv, Shape, Calling
      <3>2. CASE Inspect(p) \/ Mark(p) \/ Open(p) \/ Fill(p) \/ Sync(p) \/ Clean(p)
        BY <3>2 DEF Inspect, Mark, Open, Fill, Sync, Clean, Then, Leave, Goto, IInv, Shape, Calling
      <3>3. CASE Recheck(p) \/ Unlock(p) \/ OpenRaises(p) \/ FillRaises(p) \/ CleanRaises(p)
                 \/ RecheckRaises(p) \/ UnlockRaises(p)
        BY <3>3 DEF Recheck, Unlock, OpenRaises, FillRaises, CleanRaises, RecheckRaises,
                    UnlockRaises, Then, Return, Leave, Goto, IInv, Shape, Calling
      <3>. QED BY <3>1, <3>2, <3>3 DEF Cache
    <2>3. outcome'[p] \notin Statuses BY <2>1, <2>2 DEF Statuses
    <2>. QED BY <1>3, <1>8, <2>3, GoneKeeps
  <1>. QED BY <1>6, <1>7, <1>8

\* A refusal, an exception or a crash.
LEMMA EndKeeps ==
  ASSUME IInv, IInv', LInv, NEW p \in Procs,
         LoadRaises(p) \/ Drift(p) \/ AdapterRaises(p) \/ Crash(p)
  PROVE  LInv'
  <1>1. PICK r \in {"error", "changed", "drift", "crashed"} : Return(p, r)
    BY DEF LoadRaises, Drift, AdapterRaises, Crash
  <1>2. UNCHANGED local /\ Outside BY DEF LoadRaises, Drift, AdapterRaises, Crash, Calm
  <1>3. Acts(p) /\ pc' = [pc EXCEPT ![p] = "idle"] /\ outcome' = [outcome EXCEPT ![p] = r]
    BY <1>1, ActsReturn DEF Outcomes
  <1>4. pc'[p] = "idle" /\ outcome'[p] = r /\ r \notin Statuses
    BY <1>3 DEF IInv, Shape, Calling, Statuses
  <1>5. core' = core /\ \A q \in Procs \ {p} : Same(q) /\ truth'[q] = truth[q]
    BY <1>2, <1>3, ActsSame
  <1>. QED BY <1>4, <1>5, GoneKeeps

-----------------------------------------------------------------------------
(* Reading the cache *)

\* The target was not withdrawn in a state that is below one in which it is not.
LEMMA PermitKeeps ==
  ASSUME IInv, IInv', LInv, NEW p \in Procs, Permit(p) \/ Find(p) \/ Await(p)
  PROVE  LInv'
  <1>1. /\ pc[p] \in {"permit", "find", "await"} /\ UNCHANGED <<core, truth, seen>>
        /\ \A q \in Procs \ {p} : Same(q)
        /\ UNCHANGED <<authorizer, req, key>>
    BY DEF Permit, Find, Await, Then, Return, Goto, Calm, Outside, environment, local, Same, IInv,
           Shape, Calling
  <1>2. /\ Loaded(p) /\ core \in truth[p] /\ Below(seen[p], core) /\ pc[p] \in LoadedSteps
    BY <1>1 DEF LInv, Loaded, Viewed, LoadedSteps, ReadingSteps
  <1>3. outcome[p] \notin Statuses BY <1>1 DEF IInv, Mine
  <1>4. PICK c \in truth[p] : Witness(p, c) BY <1>2 DEF Loaded, Viewed
  <1>5. ASSUME pc'[p] = "idle", outcome'[p] \notin Statuses PROVE LInv'
    BY <1>1, <1>5, GoneKeeps
  <1>6. ASSUME pc'[p] \in {"find", "await", "read"},
               ~Withdrawn(seen[p]),
               <<"read_projection_cache", req[p].scope>> \in authorizer[p].grants,
               pc'[p] = "read" \/ (pc'[p] = "await" /\ outcome'[p] = "none")
                 => key[p].scope = req[p].scope
        PROVE  LInv'
    <2>1. pc'[p] \notin LoadSteps /\ pc'[p] \in LoadedSteps /\ pc'[p] \notin PreparedSteps
          /\ pc'[p] \in ReadingSteps
      BY <1>6 DEF LoadSteps, LoadedSteps, PreparedSteps, ProjectedSteps, LockedSteps, ReadingSteps
    <2>2. Witness(p, c)' BY <1>1, <1>2, <1>4, <1>6, <2>1 DEF Witness, Below
    <2>3. Viewed(p)' BY <1>1, <1>2, <2>2 DEF Viewed, Below
    <2>4. Based(p)' /\ Held(p)' /\ Judged(p)' BY <1>6, <2>1 DEF Based, Held, Judged
    <2>5. Permitted(p)' BY <1>1, <1>6 DEF Permitted, Withdrawn
    <2>6. Loaded(p)' BY <1>1, <1>2, <2>3, <2>4, <2>5 DEF Loaded
    <2>. QED BY <1>1, <2>6, AloneKeeps
  <1>7. CASE Permit(p)
    <2>1. CASE Allows(authorizer[p], seen[p], "read_projection_cache", req[p].scope)
      <3>1. pc'[p] = "find" BY <1>7, <2>1 DEF Permit, Then, Goto, IInv, Shape, Calling
      <3>. QED BY <1>6, <2>1, <3>1 DEF Allows
    <2>2. CASE ~Allows(authorizer[p], seen[p], "read_projection_cache", req[p].scope)
      <3>1. pc'[p] = "idle" /\ outcome'[p] = "denied"
        BY <1>7, <2>2 DEF Permit, Return, Goto, IInv, Shape, Calling
      <3>. QED BY <1>5, <3>1 DEF Statuses
    <2>. QED BY <2>1, <2>2
  <1>8. CASE Find(p)
    <2>1. /\ ~Withdrawn(seen[p])
          /\ <<"read_projection_cache", req[p].scope>> \in authorizer[p].grants
      BY <1>2, <1>8 DEF Find, Loaded, Permitted, ReadingSteps
    <2>2. pc'[p] \in {"await", "idle"} /\ outcome'[p] \in {"not_found", "integrity", "denied", "none"}
          /\ (outcome'[p] = "none" => key[p].scope = req[p].scope)
      BY <1>8 DEF Find, Goto, IInv, Shape, Calling, Entries
    <2>. QED BY <1>5, <1>6, <2>1, <2>2 DEF Statuses
  <1>9. CASE Await(p)
    <2>1. /\ ~Withdrawn(seen[p])
          /\ <<"read_projection_cache", req[p].scope>> \in authorizer[p].grants
          /\ outcome[p] = "none" => key[p].scope = req[p].scope
      BY <1>2, <1>9 DEF Await, Loaded, Permitted, ReadingSteps
    <2>2. \/ pc'[p] = "idle" /\ outcome'[p] \in {"locked", outcome[p]}
          \/ pc'[p] = "read" /\ outcome[p] = "none"
      BY <1>9 DEF Await, Then, Return, Goto, IInv, Shape, Calling
    <2>. QED BY <1>3, <1>5, <1>6, <2>1, <2>2 DEF Statuses
  <1>. QED BY <1>7, <1>8, <1>9

LEMMA ReadKeeps ==
  ASSUME IInv, IInv', LInv, NEW p \in Procs, Read(p)
  PROVE  LInv'
  <1>1. /\ pc[p] = "read" /\ UNCHANGED <<core, truth, seen, authorizer, req, key>>
        /\ \A q \in Procs \ {p} : Same(q)
    BY DEF Read, Then, Return, Goto, Calm, Outside, environment, Same, IInv, Shape, Calling
  <1>2. /\ Loaded(p) /\ core \in truth[p] /\ Below(seen[p], core) /\ pc[p] \in LoadedSteps
    BY <1>1 DEF LInv, Loaded, Viewed, LoadedSteps, ReadingSteps
  <1>3. PICK c \in truth[p] : Witness(p, c) BY <1>2 DEF Loaded, Viewed
  <1>4. \/ pc'[p] = "idle" /\ outcome'[p] \in {"integrity", "not_found"}
        \/ pc'[p] = "assess"
    BY DEF Read, Then, Return, Goto, IInv, Shape, Calling
  <1>5. CASE pc'[p] = "idle" /\ outcome'[p] \in {"integrity", "not_found"}
    BY <1>1, <1>5, GoneKeeps DEF Statuses
  <1>6. CASE pc'[p] = "assess"
    <2>1. pc'[p] \notin LoadSteps /\ pc'[p] \in LoadedSteps /\ pc'[p] \notin PreparedSteps
      BY <1>6 DEF LoadSteps, LoadedSteps, PreparedSteps, ProjectedSteps, LockedSteps, ReadingSteps
    <2>2. Witness(p, c)' BY <1>1, <1>2, <1>3, <1>6, <2>1 DEF Witness, Below
    <2>3. Viewed(p)' BY <1>1, <1>2, <2>2 DEF Viewed, Below
    <2>4. Based(p)' /\ Held(p)' /\ Judged(p)' BY <1>6, <2>1 DEF Based, Held, Judged
    <2>5. Permitted(p)' BY <1>1, <1>2 DEF Loaded, Permitted, Withdrawn, ReadingSteps
    <2>6. Loaded(p)' BY <1>1, <1>2, <2>3, <2>4, <2>5 DEF Loaded
    <2>. QED BY <1>1, <2>6, AloneKeeps
  <1>. QED BY <1>4, <1>5, <1>6

\* What the load returned, Core had reached when the load read the registration.
LEMMA AssessKeeps ==
  ASSUME IInv, IInv', LInv, NEW p \in Procs, Assess(p)
  PROVE  LInv'
  <1>1. /\ pc[p] = "assess" /\ UNCHANGED local /\ Outside
    BY DEF Assess, Calm
  <1>2. PICK r \in Statuses :
          /\ Return(p, r)
          /\ r = "reusable" => Head(seen[p]) /\ seen[p].reg = key[p].reg
                               /\ seen[p].length = key[p].length
    <2>1. PICK r : r = Reuse(key[p], seen[p], manifest = "intact", build, authorizer[p],
                             req[p].scope)
      OBVIOUS
    <2>2. Return(p, r) BY <2>1 DEF Assess
    <2>3. r \in Statuses BY <2>1 DEF Reuse, Statuses
    <2>4. r = "reusable" => Head(seen[p]) /\ seen[p].reg = key[p].reg
                             /\ seen[p].length = key[p].length
      BY <2>1 DEF Reuse, Unchanged
    <2>. QED BY <2>2, <2>3, <2>4
  <1>3. Acts(p) /\ pc' = [pc EXCEPT ![p] = "idle"] /\ outcome' = [outcome EXCEPT ![p] = r]
    BY <1>2, ActsReturn
  <1>4. pc'[p] = "idle" /\ outcome'[p] = r BY <1>3 DEF IInv, Shape, Calling
  <1>5. /\ core' = core /\ truth' = truth /\ \A q \in Procs \ {p} : Same(q)
        /\ authorizer'[p] = authorizer[p] /\ key'[p] = key[p]
    BY <1>1, <1>3, ActsSame
  <1>6. PICK c \in truth[p] : Witness(p, c)
    BY <1>1 DEF LInv, Loaded, Viewed, LoadedSteps, ReadingSteps
  <1>7. Below(c, seen[p]) /\ c.reg = seen[p].reg
    BY <1>1, <1>6 DEF Witness, LoadedSteps, ReadingSteps
  <1>8. /\ ~Withdrawn(seen[p]) /\ key[p].scope = req[p].scope
        /\ <<"read_projection_cache", req[p].scope>> \in authorizer[p].grants
    BY <1>1 DEF LInv, Loaded, Permitted, ReadingSteps
  <1>9. ~Withdrawn(c) BY <1>7, <1>8 DEF Withdrawn, Below
  <1>10. r = "reusable" => Head(c) /\ c.reg = key[p].reg /\ c.length = key[p].length
    <2>1. c \in Contexts /\ c.length >= Target /\ c.length \in Nat /\ Target \in Nat
      BY LoadTypes, ProjectionAssumption DEF Contexts
    <2>. QED BY <1>2, <1>7, <2>1 DEF Below, Head
  <1>11. Judged(p)'
    <2>1. \E d \in truth'[p] :
            /\ ~Withdrawn(d)
            /\ outcome'[p] = "reusable" =>
                 Head(d) /\ d.reg = key'[p].reg /\ d.length = key'[p].length
      BY <1>4, <1>5, <1>9, <1>10
    <2>. QED BY <1>5, <1>8, <2>1 DEF Judged, Withdrawn, Head
  <1>12. Loaded(p)'
    <2>1. "idle" \notin LoadSteps /\ "idle" \notin LoadedSteps /\ "idle" \notin PreparedSteps
          /\ "idle" \notin ReadingSteps
      BY DEF LoadSteps, LoadedSteps, PreparedSteps, ProjectedSteps, LockedSteps, ReadingSteps
    <2>. QED BY <1>4, <1>11, <2>1 DEF Loaded, Viewed, Based, Held, Permitted
  <1>. QED BY <1>5, <1>12, AloneKeeps

-----------------------------------------------------------------------------
(* The invariant and the theorems *)

LEMMA InitLoads == Init => LInv
  <1>. SUFFICES ASSUME Init PROVE LInv OBVIOUS
  <1>1. PICK r \in Regs : core = [reg |-> r, length |-> Target, withdrawn |-> {}] BY DEF Init
  <1>2. CoreClosed BY <1>1 DEF CoreClosed
  <1>3. ASSUME NEW p \in Procs PROVE Loaded(p)
    <2>1. pc[p] = "idle" /\ outcome[p] = "none" BY DEF Init
    <2>. QED BY <2>1
         DEF Loaded, Viewed, Based, Held, Permitted, Judged, LoadSteps, LoadedSteps, PreparedSteps,
             ProjectedSteps, LockedSteps, ReadingSteps, Statuses
  <1>. QED BY <1>2, <1>3 DEF LInv

LEMMA NextLoads ==
  ASSUME IInv, IInv', LInv, [Next]_vars
  PROVE  LInv'
  <1>1. CASE Change BY <1>1, ChangeKeeps
  <1>2. CASE UNCHANGED vars
    <2>1. core' = core /\ core \in Contexts
      BY <1>2 DEF vars, environment, IInv, Shape, Outer
    <2>2. ASSUME NEW q \in Procs PROVE Loaded(q)'
      <3>1. Same(q) /\ truth' = truth BY <1>2 DEF vars, local, Same
      <3>2. pc[q] # "idle" => core' \in truth'[q] BY <2>1, <3>1 DEF LInv, Loaded
      <3>. QED BY <2>1, <3>1, <3>2, BelowSelf, SameKeeps
    <2>. QED BY <2>1, <2>2 DEF LInv, CoreClosed
  <1>3. ASSUME NEW p \in Procs, Call(p) \/ Reload(p) \/ Run(p) \/ Raise(p) \/ Crash(p)
        PROVE  LInv'
    <2>1. CASE Call(p) BY <2>1, CallLoads
    <2>2. CASE Load(p) BY <2>2, RegistrationLoads, SeriesLoads, WithdrawalLoads DEF Load
    <2>3. CASE Prepare(p) \/ Reload(p)
      BY <2>3, EndKeeps, AuthorizeKeeps, VerifyKeeps, ConfirmKeeps, ProjectKeeps DEF Prepare
    <2>4. CASE LoadRaises(p) \/ AdapterRaises(p) \/ Crash(p) BY <2>4, EndKeeps
    <2>5. CASE Cache(p) \/ MkdirRaises(p) \/ LockRaises(p) \/ OpenRaises(p) \/ FillRaises(p)
               \/ CleanRaises(p) \/ RecheckRaises(p) \/ UnlockRaises(p)
      BY <2>5, CacheKeeps
    <2>6. CASE ReadCache(p) BY <2>6, PermitKeeps, ReadKeeps, AssessKeeps DEF ReadCache
    <2>. QED BY <1>3, <2>1, <2>2, <2>3, <2>4, <2>5, <2>6 DEF Run, Raise
  <1>. QED BY <1>1, <1>2, <1>3 DEF Next

LEMMA LoadInvariant == Spec => []LInv
  <1>1. IInv /\ IInv' /\ LInv /\ [Next]_vars => LInv' BY NextLoads
  <1>. QED BY <1>1, InitLoads, Invariant, PTL DEF Spec

\* What prepare_publication_invocation verifies, and cache_projected_inventory stores, is a
\* state Core was in as a whole at one moment of the call, however the registration, the
\* series and the withdrawals changed between the reads.
THEOREM PreparedTrue == Spec => []PreparedWasTrue
  <1>1. ASSUME LInv PROVE PreparedWasTrue
    BY <1>1 DEF LInv, Loaded, Held, PreparedSteps, ProjectedSteps, PreparedWasTrue
  <1>. QED BY <1>1, LoadInvariant, PTL

\* A snapshot is only called reusable if, at one moment of the call, its target was the head
\* of its series and not withdrawn, under the registration and the series it was made for.
THEOREM ReusableCurrent == Spec => []ReusableWasCurrent
  <1>1. ASSUME LInv PROVE ReusableWasCurrent
    BY <1>1 DEF LInv, Loaded, Judged, Statuses, ReusableWasCurrent
  <1>. QED BY <1>1, LoadInvariant, PTL

\* load_authorized_projection_snapshot hands out a snapshot in no status unless its target
\* was not withdrawn at one moment of the call, and only in the scope it was projected for.
THEOREM ReadsAreConfined == Spec => []ReadsConfined
  <1>1. ASSUME LInv PROVE ReadsConfined
    BY <1>1 DEF LInv, Loaded, Judged, ReadsConfined
  <1>. QED BY <1>1, LoadInvariant, PTL
-----------------------------------------------------------------------------
(* Every call ends *)

\* What follows the loading of a context: the first load is followed by the checks of
\* prepare_publication_invocation, the second by the projection, the third by the write,
\* that of a read by the read.
Rest(which) ==
  CASE which = "initial" -> 2 * MaxLength + 21
    [] which = "final" -> MaxLength + 16
    [] which = "again" -> 12
    [] which = "read" -> 5

\* The steps a call has left, at most, when its load is at the member i of the series.
Left(step, which, i) ==
  CASE step = "idle" -> 0
    [] step \in {"unlock", "assess"} -> 1
    [] step \in {"clean", "reload", "read"} -> 2
    [] step \in {"sync", "await"} -> 3
    [] step \in {"fill", "find"} -> 4
    [] step \in {"open", "permit"} -> 5
    [] step = "mark" -> 6
    [] step = "inspect" -> 7
    [] step = "lock" -> 8
    [] step = "probe" -> 9
    [] step = "mkdir" -> 10
    [] step = "ensure" -> 11
    [] step = "reauthorize" -> 12
    [] step = "prepared" -> MaxLength + 15
    [] step = "confirm" -> MaxLength + 16
    [] step = "bytes" -> 2 * MaxLength + 19
    [] step = "verify" -> 2 * MaxLength + 20
    [] step = "authorize" -> 2 * MaxLength + 21
    [] step = "withdrawal" -> MaxLength - i + 1 + Rest(which)
    [] step = "series" -> MaxLength + 1 + Rest(which)
    [] step = "registration" -> MaxLength + 2 + Rest(which)

StepsLeft(p) == Left(pc[p], phase[p], member[p])

\* The same, case by case.
IsLeft(n, step, which, i) ==
  /\ step = "idle" => n = 0
  /\ step \in {"unlock", "assess"} => n = 1
  /\ step \in {"clean", "reload", "read"} => n = 2
  /\ step \in {"sync", "await"} => n = 3
  /\ step \in {"fill", "find"} => n = 4
  /\ step \in {"open", "permit"} => n = 5
  /\ step = "mark" => n = 6
  /\ step = "inspect" => n = 7
  /\ step = "lock" => n = 8
  /\ step = "probe" => n = 9
  /\ step = "mkdir" => n = 10
  /\ step = "ensure" => n = 11
  /\ step = "reauthorize" => n = 12
  /\ step = "prepared" => n = MaxLength + 15
  /\ step = "confirm" => n = MaxLength + 16
  /\ step = "bytes" => n = 2 * MaxLength + 19
  /\ step = "verify" => n = 2 * MaxLength + 20
  /\ step = "authorize" => n = 2 * MaxLength + 21
  /\ step = "withdrawal" => n = MaxLength - i + 1 + Rest(which)
  /\ step = "series" => n = MaxLength + 1 + Rest(which)
  /\ step = "registration" => n = MaxLength + 2 + Rest(which)

LEMMA LeftIs ==
  ASSUME NEW step, NEW which, NEW i
  PROVE  IsLeft(Left(step, which, i), step, which, i)
  BY Zenon DEF IsLeft, Left

LEMMA RestIs ==
  /\ Rest("initial") = 2 * MaxLength + 21 /\ Rest("final") = MaxLength + 16
  /\ Rest("again") = 12 /\ Rest("read") = 5
  BY Zenon DEF Rest

Phases == {"initial", "final", "again", "read"}

LEMMA RestType == ASSUME NEW which \in Phases PROVE Rest(which) \in Nat \ {0}
<1>1. /\ Rest("initial") \in Nat \ {0} /\ Rest("final") \in Nat \ {0}
      /\ Rest("again") \in Nat \ {0} /\ Rest("read") \in Nat \ {0}
  BY RestIs, ProjectionAssumption
<1> QED BY <1>1 DEF Phases

LEMMA LeftType ==
  ASSUME NEW step \in Steps, NEW which \in Phases, NEW i \in 1 .. MaxLength
  PROVE  Left(step, which, i) \in Nat /\ (step # "idle" => Left(step, which, i) > 0)
<1> DEFINE n == Left(step, which, i)
           rest == Rest(which)
<1>1. MaxLength \in Nat /\ rest \in Nat \ {0}
  BY RestType, ProjectionAssumption
<1>2. IsLeft(n, step, which, i)
  BY LeftIs
<1> HIDE DEF n
<1>3. CASE step \in LoadSteps
  <2>1. \/ n = MaxLength - i + 1 + rest
        \/ n = MaxLength + 1 + rest
        \/ n = MaxLength + 2 + rest
    BY <1>2, <1>3 DEF IsLeft, LoadSteps
  <2> HIDE DEF rest
  <2>2. n \in Nat /\ n > 0
    BY <1>1, <2>1
  <2> QED BY <2>2 DEF n
<1>4. CASE step \notin LoadSteps
  <2>1. n \in Nat /\ (step # "idle" => n > 0)
    BY <1>1, <1>2, <1>4 DEF IsLeft, Steps, LoadSteps, LockedSteps
  <2> QED BY <2>1 DEF n
<1> QED BY <1>3, <1>4

\* The phases of a load, the members of a series: what TypeOK says of them.
LEMMA Places ==
  ASSUME TypeOK, NEW p \in Procs
  PROVE  pc[p] \in Steps /\ phase[p] \in Phases /\ member[p] \in 1 .. MaxLength
  BY DEF TypeOK, Phases

\* The next steps of a call that is not loading; the load of a context that a call
\* begins is that of its next phase.
Flows(a, b, next) ==
  \/ a # "idle" /\ b = "idle"
  \/ a \in LockedSteps \ {"unlock"} /\ b = "unlock"
  \/ a = "bytes" /\ b = "registration" /\ next = "final"
  \/ a = "prepared" /\ b = "registration" /\ next = "again"
  \/ a = "authorize" /\ b = "verify"
  \/ a = "verify" /\ b = "bytes"
  \/ a = "confirm" /\ b = "prepared"
  \/ a = "reauthorize" /\ b = "ensure"
  \/ a = "ensure" /\ b \in {"mkdir", "probe"}
  \/ a = "mkdir" /\ b = "probe"
  \/ a = "probe" /\ b = "lock"
  \/ a = "lock" /\ b = "inspect"
  \/ a = "inspect" /\ b \in {"mark", "open"}
  \/ a = "mark" /\ b = "open"
  \/ a = "open" /\ b = "fill"
  \/ a = "fill" /\ b \in {"sync", "clean"}
  \/ a = "sync" /\ b \in {"reload", "clean"}
  \/ a = "permit" /\ b = "find"
  \/ a = "find" /\ b = "await"
  \/ a = "await" /\ b = "read"
  \/ a = "read" /\ b = "assess"

LEMMA FlowLowers ==
  ASSUME TypeOK, TypeOK', NEW p \in Procs, Flows(pc[p], pc'[p], phase'[p])
  PROVE  StepsLeft(p)' < StepsLeft(p)
<1> DEFINE n == StepsLeft(p)
<1>1. IsLeft(n, pc[p], phase[p], member[p])
  BY LeftIs DEF StepsLeft
<1>2. PICK x : x = StepsLeft(p)'
  OBVIOUS
<1>3. IsLeft(x, pc'[p], phase'[p], member'[p])
  BY <1>2, LeftIs DEF StepsLeft
<1>4. MaxLength \in Nat
  BY ProjectionAssumption
<1>5. n \in Nat /\ (pc[p] # "idle" => n > 0)
  BY Places, LeftType DEF StepsLeft
<1>6. x < n
  <2>1. CASE pc[p] # "idle" /\ pc'[p] = "idle"
    BY <1>3, <1>5, <2>1 DEF IsLeft
  <2>2. CASE pc[p] \in LockedSteps \ {"unlock"} /\ pc'[p] = "unlock"
    <3>1. n \in {2, 3, 4, 5, 6, 7} /\ x = 1
      BY <1>1, <1>3, <2>2 DEF IsLeft, LockedSteps
    <3> QED BY <3>1
  <2>3. CASE pc[p] \in {"bytes", "prepared"} /\ pc'[p] = "registration"
    <3>1. \/ n = 2 * MaxLength + 19 /\ phase'[p] = "final"
          \/ n = MaxLength + 15 /\ phase'[p] = "again"
      BY <1>1, <2>3 DEF IsLeft, Flows
    <3>2. x = MaxLength + 2 + Rest(phase'[p])
      BY <1>3, <2>3 DEF IsLeft
    <3>3. \/ n = 2 * MaxLength + 19 /\ x = MaxLength + 2 + (MaxLength + 16)
          \/ n = MaxLength + 15 /\ x = MaxLength + 2 + 12
      BY <3>1, <3>2, RestIs
    <3> HIDE DEF n
    <3> QED BY <1>4, <3>3
  <2>4. CASE pc[p] \in {"authorize", "verify", "confirm", "reauthorize", "ensure", "mkdir",
                        "probe", "lock"} /\ pc'[p] \notin {"idle", "unlock"}
    <3>1. \/ n = 2 * MaxLength + 21 /\ x = 2 * MaxLength + 20
          \/ n = 2 * MaxLength + 20 /\ x = 2 * MaxLength + 19
          \/ n = MaxLength + 16 /\ x = MaxLength + 15
          \/ n = 12 /\ x = 11
          \/ n = 11 /\ x = 10
          \/ n = 11 /\ x = 9
          \/ n = 10 /\ x = 9
          \/ n = 9 /\ x = 8
          \/ n = 8 /\ x = 7
      <4>1. \/ pc[p] = "authorize" /\ pc'[p] = "verify"
            \/ pc[p] = "verify" /\ pc'[p] = "bytes"
            \/ pc[p] = "confirm" /\ pc'[p] = "prepared"
            \/ pc[p] = "reauthorize" /\ pc'[p] = "ensure"
            \/ pc[p] = "ensure" /\ pc'[p] \in {"mkdir", "probe"}
            \/ pc[p] = "mkdir" /\ pc'[p] = "probe"
            \/ pc[p] = "probe" /\ pc'[p] = "lock"
            \/ pc[p] = "lock" /\ pc'[p] = "inspect"
        BY <2>4 DEF Flows
      <4> HIDE DEF n
      <4> QED BY <1>1, <1>3, <4>1 DEF IsLeft
    <3> HIDE DEF n
    <3> QED BY <1>4, <3>1
  <2>5. CASE pc[p] \in {"inspect", "mark", "open", "fill", "sync", "permit", "find", "await",
                        "read"} /\ pc'[p] \notin {"idle", "unlock"}
    <3>1. \/ n = 7 /\ x = 6
          \/ n = 7 /\ x = 5
          \/ n = 6 /\ x = 5
          \/ n = 5 /\ x = 4
          \/ n = 4 /\ x = 3
          \/ n = 4 /\ x = 2
          \/ n = 3 /\ x = 2
          \/ n = 2 /\ x = 1
      <4>1. \/ pc[p] = "inspect" /\ pc'[p] \in {"mark", "open"}
            \/ pc[p] = "mark" /\ pc'[p] = "open"
            \/ pc[p] = "open" /\ pc'[p] = "fill"
            \/ pc[p] = "fill" /\ pc'[p] \in {"sync", "clean"}
            \/ pc[p] = "sync" /\ pc'[p] \in {"reload", "clean"}
            \/ pc[p] = "permit" /\ pc'[p] = "find"
            \/ pc[p] = "find" /\ pc'[p] = "await"
            \/ pc[p] = "await" /\ pc'[p] = "read"
            \/ pc[p] = "read" /\ pc'[p] = "assess"
        BY <2>5 DEF Flows
      <4> HIDE DEF n
      <4> QED BY <1>1, <1>3, <4>1 DEF IsLeft
    <3> HIDE DEF n
    <3> QED BY <3>1
  <2> QED BY <2>1, <2>2, <2>3, <2>4, <2>5 DEF Flows
<1> QED BY <1>2, <1>6

LEMMA Flow ==
  ASSUME TypeOK, NEW p \in Procs, Prepare(p) \/ Cache(p) \/ ReadCache(p) \/ Raise(p) \/ Crash(p)
  PROVE  Flows(pc[p], pc'[p], phase'[p])
<1>1. pc \in [Procs -> Steps] /\ phase \in [Procs -> Phases]
  BY DEF TypeOK, Phases
<1> USE DEF Goto, Then, Return, Leave, Flows
<1>2. CASE Drift(p) \/ Authorize(p) \/ Verify(p) \/ Confirm(p)
  BY <1>1, <1>2 DEF Drift, Authorize, Verify, Confirm
<1>3. CASE ReadBytes(p)
  BY <1>1, <1>3 DEF ReadBytes, StartLoad
<1>4. CASE Project(p)
  BY <1>1, <1>4 DEF Project, StartLoad
<1>5. CASE Reauthorize(p) \/ Ensure(p) \/ Mkdir(p) \/ Probe(p) \/ Lock(p)
  BY <1>1, <1>5 DEF Reauthorize, Ensure, Mkdir, Probe, Lock
<1>6. CASE Inspect(p) \/ Mark(p) \/ Open(p) \/ Fill(p) \/ Sync(p) \/ Clean(p) \/ Recheck(p)
           \/ Unlock(p)
  BY <1>1, <1>6 DEF Inspect, Mark, Open, Fill, Sync, Clean, Recheck, Unlock, LockedSteps
<1>7. CASE ReadCache(p)
  BY <1>1, <1>7 DEF ReadCache, Permit, Find, Await, Read, Assess
<1>8. CASE Crash(p)
  BY <1>1, <1>8 DEF Crash
<1>9. CASE Raise(p)
  BY <1>1, <1>9 DEF Raise, LoadRaises, AdapterRaises, MkdirRaises, LockRaises, OpenRaises,
       FillRaises, CleanRaises, RecheckRaises, UnlockRaises, LoadSteps, LockedSteps
<1> QED BY <1>2, <1>3, <1>4, <1>5, <1>6, <1>7, <1>8, <1>9 DEF Prepare, Cache

\* A load reads the registration, the series and one withdrawal after the other; the
\* series it goes through is the one it read, however the series grows in between.
LEMMA LoadLowers ==
  ASSUME TypeOK, NEW p \in Procs, Load(p)
  PROVE  StepsLeft(p)' < StepsLeft(p)
<1> DEFINE n == StepsLeft(p)
           rest == Rest(phase[p])
           i == member[p]
<1>1. /\ pc \in [Procs -> Steps] /\ member \in [Procs -> 1 .. MaxLength]
      /\ phase[p] \in Phases /\ i \in 1 .. MaxLength /\ rest \in Nat \ {0}
      /\ MaxLength \in Nat /\ seen[p].length \in Target .. MaxLength
  BY RestType, ProjectionAssumption DEF TypeOK, Phases, Contexts
<1>2. IsLeft(n, pc[p], phase[p], i)
  BY LeftIs DEF StepsLeft
<1>3. PICK x : x = StepsLeft(p)'
  OBVIOUS
<1>4. phase'[p] = phase[p]
  BY DEF Load, LoadRegistration, LoadSeries, LoadWithdrawal
<1>5. IsLeft(x, pc'[p], phase[p], member'[p])
  BY <1>3, <1>4, LeftIs DEF StepsLeft
<1>6. CASE LoadRegistration(p)
  <2>1. pc[p] = "registration" /\ pc'[p] = "series"
    BY <1>1, <1>6 DEF LoadRegistration, Then, Goto
  <2>2. n = MaxLength + 2 + rest /\ x = MaxLength + 1 + rest
    BY <1>2, <1>5, <2>1 DEF IsLeft
  <2> HIDE DEF n, rest
  <2>3. x < n
    BY <1>1, <2>2
  <2> QED BY <1>3, <2>3 DEF n
<1>7. CASE LoadSeries(p)
  <2>1. pc[p] = "series" /\ pc'[p] = "withdrawal" /\ member'[p] = 1
    BY <1>1, <1>7 DEF LoadSeries, Then, Goto
  <2>2. n = MaxLength + 1 + rest /\ x = MaxLength - 1 + 1 + rest
    BY <1>2, <1>5, <2>1 DEF IsLeft
  <2> HIDE DEF n, rest
  <2>3. x < n
    BY <1>1, <2>2
  <2> QED BY <1>3, <2>3 DEF n
<1>8. CASE LoadWithdrawal(p) /\ i < seen[p].length
  <2>1. pc[p] = "withdrawal" /\ pc'[p] = "withdrawal" /\ member'[p] = i + 1
    BY <1>1, <1>8 DEF LoadWithdrawal, Then, Goto
  <2>2. n = MaxLength - i + 1 + rest /\ x = MaxLength - (i + 1) + 1 + rest
    BY <1>2, <1>5, <2>1 DEF IsLeft
  <2> HIDE DEF n, rest
  <2>3. x < n
    BY <1>1, <2>2
  <2> QED BY <1>3, <2>3 DEF n
<1>9. CASE LoadWithdrawal(p) /\ ~(i < seen[p].length)
  <2>1. pc[p] = "withdrawal" /\ pc'[p] = AfterLoad(phase[p])
    BY <1>1, <1>9 DEF LoadWithdrawal, Then, Goto
  <2>2. n = MaxLength - i + 1 + rest
    BY <1>2, <2>1 DEF IsLeft
  <2>3. \/ phase[p] = "initial" /\ pc'[p] = "authorize"
        \/ phase[p] = "final" /\ pc'[p] = "confirm"
        \/ phase[p] = "again" /\ pc'[p] = "reauthorize"
        \/ phase[p] = "read" /\ pc'[p] = "permit"
    BY <1>1, <2>1 DEF AfterLoad, Phases
  <2>4. x = rest
    BY <1>5, <2>3, RestIs DEF IsLeft
  <2> HIDE DEF n, rest
  <2>5. x < n
    BY <1>1, <2>2, <2>4
  <2> QED BY <1>3, <2>5 DEF n
<1> QED BY <1>6, <1>7, <1>8, <1>9 DEF Load

\* The steps of the process p.
Step(p) == Call(p) \/ Reload(p) \/ Run(p) \/ Raise(p) \/ Crash(p)

LEMMA Frame ==
  ASSUME TypeOK, NEW p \in Procs, NEW q \in Procs, q # p, Step(q)
  PROVE  pc'[p] = pc[p] /\ phase'[p] = phase[p] /\ member'[p] = member[p]
<1>1. /\ pc \in [Procs -> Steps] /\ phase \in [Procs -> Phases]
      /\ member \in [Procs -> 1 .. MaxLength]
  BY DEF TypeOK, Phases
<1> USE DEF Goto, Then, Return, Leave, StartLoad, local
<1>2. CASE Call(q) \/ Reload(q)
  BY <1>1, <1>2 DEF Call, Reload
<1>3. CASE Load(q)
  BY <1>1, <1>3 DEF Load, LoadRegistration, LoadSeries, LoadWithdrawal
<1>4. CASE Prepare(q)
  BY <1>1, <1>4 DEF Prepare, Drift, Authorize, Verify, ReadBytes, Confirm, Project
<1>5. CASE Cache(q)
  BY <1>1, <1>5 DEF Cache, Reauthorize, Ensure, Mkdir, Probe, Lock, Inspect, Mark, Open, Fill,
       Sync, Clean, Recheck, Unlock
<1>6. CASE ReadCache(q)
  BY <1>1, <1>6 DEF ReadCache, Permit, Find, Await, Read, Assess
<1>7. CASE Raise(q)
  BY <1>1, <1>7 DEF Raise, LoadRaises, AdapterRaises, MkdirRaises, LockRaises, OpenRaises,
       FillRaises, CleanRaises, RecheckRaises, UnlockRaises
<1>8. CASE Crash(q)
  BY <1>1, <1>8 DEF Crash
<1> QED BY <1>2, <1>3, <1>4, <1>5, <1>6, <1>7, <1>8 DEF Step, Run

LEMMA CallLeft ==
  ASSUME TypeOK, NEW p \in Procs, Call(p)
  PROVE  StepsLeft(p)' \in {3 * MaxLength + 23, MaxLength + 7}
<1>1. pc \in [Procs -> Steps] /\ phase \in [Procs -> Phases]
  BY DEF TypeOK, Phases
<1>2. pc'[p] = "registration" /\ phase'[p] \in {"initial", "read"}
  BY <1>1 DEF Call, StartLoad, Goto
<1>3. PICK x : x = StepsLeft(p)'
  OBVIOUS
<1>4. IsLeft(x, pc'[p], phase'[p], member'[p])
  BY <1>3, LeftIs DEF StepsLeft
<1>5. x \in {MaxLength + 2 + (2 * MaxLength + 21), MaxLength + 2 + 5}
  BY <1>2, <1>4, RestIs DEF IsLeft
<1>6. x \in {3 * MaxLength + 23, MaxLength + 7}
  BY <1>5, ProjectionAssumption
<1> QED BY <1>3, <1>6

\* To project takes at most 3 * MaxLength + 23 steps, to read at most MaxLength + 7, however
\* Core, the policy and the other processes change meanwhile and whatever fails: what was
\* loaded is loaded again to be compared, and a difference ends the call.  Loading the
\* policy again before caching, which is left to the caller, is no step of the call.
THEOREM CallsAreFinite ==
  Spec => [][\A p \in Procs :
               /\ Call(p) => StepsLeft(p)' \in {3 * MaxLength + 23, MaxLength + 7}
               /\ Run(p) \/ Raise(p) \/ Crash(p) => StepsLeft(p)' \in 0 .. StepsLeft(p) - 1
               /\ Reload(p) \/ ~Step(p) => StepsLeft(p)' = StepsLeft(p)]_vars
<1> DEFINE Counts(p) ==
      /\ Call(p) => StepsLeft(p)' \in {3 * MaxLength + 23, MaxLength + 7}
      /\ Run(p) \/ Raise(p) \/ Crash(p) => StepsLeft(p)' \in 0 .. StepsLeft(p) - 1
      /\ Reload(p) \/ ~Step(p) => StepsLeft(p)' = StepsLeft(p)
<1>1. TypeOK /\ TypeOK' /\ [Next]_vars => [\A p \in Procs : Counts(p)]_vars
  <2> SUFFICES ASSUME TypeOK, TypeOK', Next, NEW p \in Procs PROVE Counts(p)
    OBVIOUS
  <2>1. Call(p) => StepsLeft(p)' \in {3 * MaxLength + 23, MaxLength + 7}
    BY CallLeft
  <2>2. ASSUME Run(p) \/ Raise(p) \/ Crash(p)
        PROVE  StepsLeft(p)' \in 0 .. StepsLeft(p) - 1
    <3>1. StepsLeft(p)' < StepsLeft(p)
      BY <2>2, LoadLowers, Flow, FlowLowers DEF Run
    <3>2. StepsLeft(p) \in Nat /\ StepsLeft(p)' \in Nat
      <4>1. phase'[p] \in Phases /\ pc'[p] \in Steps /\ member'[p] \in 1 .. MaxLength
        BY DEF TypeOK, Phases
      <4> QED BY <4>1, Places, LeftType DEF StepsLeft
    <3> QED BY <3>1, <3>2
  <2>3. Reload(p) => StepsLeft(p)' = StepsLeft(p)
    BY DEF Reload, StepsLeft
  <2>4. ASSUME ~Step(p) PROVE StepsLeft(p)' = StepsLeft(p)
    <3>1. CASE Change
      BY <3>1 DEF Change, local, StepsLeft
    <3>2. ASSUME NEW q \in Procs, Step(q) PROVE StepsLeft(p)' = StepsLeft(p)
      BY <2>4, <3>2, Frame DEF StepsLeft
    <3> QED BY <3>1, <3>2 DEF Next, Step
  <2> QED BY <2>1, <2>2, <2>3, <2>4
<1> QED BY <1>1, TypeCorrect, PTL DEF Spec
=============================================================================

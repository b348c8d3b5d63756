--------------------------- MODULE EvidenceProjection ---------------------------
(***************************************************************************)
(* From a canonical publication to evidence and back: preparing a verified *)
(* and authorized invocation (meridian/ingestion.py), caching what the     *)
(* adapter made of it, and reading the cache (meridian/projection_cache.py)*)
(* under the teacher's local policy (publication_authorization.py).        *)
(*                                                                         *)
(* Core's canonical state is read one record at a time and without a lock, *)
(* while registrations change, successors are published and publications   *)
(* are withdrawn.  Every call is about the publication Target of one       *)
(* series.  A cache entry is a directory: .write.lock, the marker .scope-* *)
(* and the snapshot <digest>.json.                                         *)
(***************************************************************************)
EXTENDS Naturals, FiniteSets

CONSTANTS Procs,        \* processes that project or read
          Target,       \* the publication that is projected: its place in the series
          MaxLength,    \* bound on the publications of the series
          Regs,         \* revisions the current registration may have
          Builds,       \* producer reader versions that may be installed
          Scopes,       \* requested purpose and student scopes
          MaxVersion,   \* bound on the policy versions
          Inventories,  \* what an adapter makes of the manifest
          MaxChanges,   \* bound on the changes of Core, policy and installation
          MaxCrashes,   \* bound on the crashes of a behaviour
          MaxFaults,    \* bound on the steps that raise
          Absent, Torn, \* a file that does not exist, one created and not filled
          NoProc, Orphan

ASSUME ProjectionAssumption ==
  /\ MaxLength \in Nat /\ Target \in 1 .. MaxLength
  /\ MaxVersion \in Nat \ {0}
  /\ MaxChanges \in Nat /\ MaxCrashes \in Nat /\ MaxFaults \in Nat
  /\ Absent \notin Inventories /\ Torn \notin Inventories /\ Absent # Torn
  /\ NoProc \notin Procs /\ Orphan \notin Procs /\ NoProc # Orphan

\* A canonical context: the current registration, the series, its withdrawals.
Contexts == [reg : Regs, length : Target .. MaxLength, withdrawn : SUBSET (1 .. MaxLength)]
Operations == {"project_evidence", "read_projection_cache"}
Policies == [version : 1 .. MaxVersion, grants : SUBSET (Operations \X Scopes)]

\* ProjectionCacheIdentity: the source observation without the withdrawals of other
\* members (a withdrawn target is never projected), the execution, the authorization.
Keys == [reg : Regs, length : Target .. MaxLength, build : Builds,
         version : 1 .. MaxVersion, scope : Scopes]

VARIABLES core,      \* Core's canonical state
          manifest,  \* whether the published file still has its digest
          build,     \* the installed producer reader
          policy,    \* the authorization policy file
          dir, lock, marker, file,   \* the entry of each key
          attempt,   \* how many snapshots were begun in it: captured_at, part of the name
          pc,        \* the next step of each process
          phase,     \* which load of the canonical context that step belongs to
          req,       \* the call each process is executing, or its last one
          seen,      \* the context it is loading
          member,    \* the series member whose withdrawal it reads next
          base,      \* the context its invocation was prepared for
          authorizer,\* the policy it loaded
          key,       \* the entry it works on
          evidence,  \* the inventory it projected, or read
          found,     \* the snapshot name a read found: the attempt that created it
          outcome,   \* the result of the last call
          truth,     \* history variable: the canonical states since the call began
          changes, crashes, faults

environment == <<core, manifest, build, policy>>
entries == <<dir, lock, marker, file, attempt>>
local == <<phase, req, seen, member, base, authorizer, key, evidence, found>>
counters == <<changes, crashes, faults>>
vars == <<environment, entries, pc, local, outcome, truth, counters>>

LoadSteps == {"registration", "series", "withdrawal"}
LockedSteps == {"inspect", "mark", "open", "fill", "sync", "clean", "reload", "unlock"}
Steps == LoadSteps \cup LockedSteps \cup
         {"idle", "authorize", "verify", "bytes", "confirm", "prepared", "reauthorize",
          "ensure", "mkdir", "probe", "lock", "permit", "find", "await", "read", "assess"}
\* The steps at which a writer may still remove the snapshot it is creating.
WindowSteps == {"open", "fill", "sync", "clean"}

Outcomes == {"none", "drift", "denied", "manifest", "changed", "error", "locked",
             "created", "existing", "nondeterminism", "integrity", "write_error",
             "partial", "not_found", "crashed"}
Statuses == {"reusable", "reprojection_required", "historical_only", "unverifiable"}

Calls == [call : {"project", "read"}, scope : Scopes]

\* In particular, a snapshot is begun again only after a failed or dead attempt.
TypeOK ==
  /\ core \in Contexts
  /\ manifest \in {"intact", "altered"}
  /\ build \in Builds
  /\ policy \in Policies
  /\ dir \in [Keys -> BOOLEAN]
  /\ lock \in [Keys -> Procs \cup {NoProc, Orphan}]
  /\ marker \in [Keys -> BOOLEAN]
  /\ file \in [Keys -> Inventories \cup {Absent, Torn}]
  /\ pc \in [Procs -> Steps]
  /\ phase \in [Procs -> {"initial", "final", "again", "read"}]
  /\ req \in [Procs -> Calls]
  /\ seen \in [Procs -> Contexts]
  /\ member \in [Procs -> 1 .. MaxLength]
  /\ base \in [Procs -> Contexts]
  /\ authorizer \in [Procs -> Policies]
  /\ key \in [Procs -> Keys]
  /\ evidence \in [Procs -> Inventories \cup {Absent}]
  /\ attempt \in [Keys -> 0 .. MaxFaults + MaxCrashes + 1]
  /\ found \in [Procs -> 0 .. MaxFaults + MaxCrashes + 1]
  /\ outcome \in [Procs -> Outcomes \cup Statuses]
  /\ truth \in [Procs -> SUBSET Contexts]
  /\ changes \in 0 .. MaxChanges /\ crashes \in 0 .. MaxCrashes /\ faults \in 0 .. MaxFaults

\* A fresh series whose publications are current up to Target; nothing is cached.
Init ==
  /\ \E r \in Regs : core = [reg |-> r, length |-> Target, withdrawn |-> {}]
  /\ manifest = "intact"
  /\ build \in Builds
  /\ policy = [version |-> 1, grants |-> Operations \X Scopes]
  /\ dir = [k \in Keys |-> FALSE]
  /\ lock = [k \in Keys |-> NoProc]
  /\ marker = [k \in Keys |-> FALSE]
  /\ file = [k \in Keys |-> Absent]
  /\ pc = [p \in Procs |-> "idle"]
  /\ phase = [p \in Procs |-> "initial"]
  /\ \E q \in Calls : req = [p \in Procs |-> q]
  /\ seen = [p \in Procs |-> core]
  /\ member = [p \in Procs |-> 1]
  /\ base = [p \in Procs |-> core]
  /\ authorizer = [p \in Procs |-> policy]
  /\ key \in [Procs -> Keys]
  /\ evidence = [p \in Procs |-> Absent]
  /\ attempt = [k \in Keys |-> 0]
  /\ found = [p \in Procs |-> 0]
  /\ outcome = [p \in Procs |-> "none"]
  /\ truth = [p \in Procs |-> {core}]
  /\ changes = 0 /\ crashes = 0 /\ faults = 0

-----------------------------------------------------------------------------
(* What the pure parts of the code compute *)

\* canonical_state of the target.
Head(c) == c.length = Target
Withdrawn(c) == Target \in c.withdrawn

\* TeacherLocalPublicationAuthorizer.authorize: a withdrawn target, head or
\* historical, is denied before the grants are looked at.
Allows(a, c, operation, scope) == ~Withdrawn(c) /\ <<operation, scope>> \in a.grants

\* The identity of a snapshot of context c.
KeyOf(c, b, a, scope) == [reg |-> c.reg, length |-> c.length, build |-> b,
                          version |-> a.version, scope |-> scope]

\* assess_projection_snapshot: reuse of a snapshot stored under k, for context c.
Unchanged(k, c, b, a, scope) ==
  /\ c.length = k.length
  /\ c.reg = k.reg
  /\ b = k.build
  /\ Allows(a, c, "project_evidence", scope)
  /\ a.version = k.version

\* Faulty variant: what the source looks like now is not compared.
ReuseAnySource(k, c, intact, b, a, scope) ==
  IF ~intact THEN "unverifiable"
  ELSE IF b = k.build /\ Allows(a, c, "project_evidence", scope) THEN "reusable"
  ELSE "reprojection_required"

Reuse(k, c, intact, b, a, scope) ==
  CASE ~intact -> "unverifiable"
    [] intact /\ (~Head(c) \/ Withdrawn(c)) -> "historical_only"
    [] OTHER -> IF Unchanged(k, c, b, a, scope) THEN "reusable" ELSE "reprojection_required"

-----------------------------------------------------------------------------
(* Moving a call *)

Goto(p, step) == pc' = [pc EXCEPT ![p] = step]
Then(p, step) == Goto(p, step) /\ UNCHANGED outcome
Return(p, result) == Goto(p, "idle") /\ outcome' = [outcome EXCEPT ![p] = result]
\* Through the finally clause that removes the lock.
Leave(p, result) == Goto(p, "unlock") /\ outcome' = [outcome EXCEPT ![p] = result]
Outside == UNCHANGED <<environment, truth>>
Calm == Outside /\ UNCHANGED counters
Fault == faults < MaxFaults /\ faults' = faults + 1 /\ UNCHANGED <<changes, crashes>>

\* load_canonical_publication_context starts.
StartLoad(p, which) == phase' = [phase EXCEPT ![p] = which] /\ Goto(p, "registration")

\* A session loads the policy when it starts, and a call asks it for something: to
\* project the target, or to read the entry of any key (a key without a directory
\* stands for every other one).
Call(p) ==
  /\ pc[p] = "idle"
  /\ \E q \in Calls :
       /\ req' = [req EXCEPT ![p] = q]
       /\ \/ q.call = "read" /\ StartLoad(p, "read")
             /\ \E k \in Keys : (dir[k] \/ k = key[p]) /\ key' = [key EXCEPT ![p] = k]
          \/ q.call = "project" /\ StartLoad(p, "initial") /\ UNCHANGED key
  /\ authorizer' = [authorizer EXCEPT ![p] = policy]
  /\ truth' = [truth EXCEPT ![p] = {core}]
  /\ evidence' = [evidence EXCEPT ![p] = Absent]
  /\ outcome' = [outcome EXCEPT ![p] = "none"]
  /\ UNCHANGED <<environment, entries, seen, member, base, found, counters>>

-----------------------------------------------------------------------------
(* Loading the canonical context: registrations first, then the series, then the *)
(* withdrawal of every member                                                    *)

LoadRegistration(p) ==
  /\ pc[p] = "registration" /\ Then(p, "series")
  /\ seen' = [seen EXCEPT ![p] = [reg |-> core.reg, length |-> Target, withdrawn |-> {}]]
  /\ UNCHANGED <<entries, phase, req, member, base, authorizer, key, evidence, found>>
  /\ Calm

LoadSeries(p) ==
  /\ pc[p] = "series" /\ Then(p, "withdrawal")
  /\ seen' = [seen EXCEPT ![p].length = core.length]
  /\ member' = [member EXCEPT ![p] = 1]
  /\ UNCHANGED <<entries, phase, req, base, authorizer, key, evidence, found>> /\ Calm

AfterLoad(which) == CASE which = "initial" -> "authorize" [] which = "final" -> "confirm"
                      [] which = "again" -> "reauthorize" [] OTHER -> "permit"

LoadWithdrawal(p) ==
  LET i == member[p] IN
  /\ pc[p] = "withdrawal"
  /\ seen' = [seen EXCEPT ![p].withdrawn = @ \cup (core.withdrawn \cap {i})]
  /\ \/ i < seen[p].length /\ member' = [member EXCEPT ![p] = i + 1] /\ Then(p, "withdrawal")
     \/ i >= seen[p].length /\ UNCHANGED member /\ Then(p, AfterLoad(phase[p]))
  /\ UNCHANGED <<entries, phase, req, base, authorizer, key, evidence, found>> /\ Calm

\* Core cannot read or does not accept one of the records.
LoadRaises(p) ==
  /\ pc[p] \in LoadSteps
  /\ Return(p, IF phase[p] = "initial" THEN "error" ELSE "changed")
  /\ UNCHANGED <<entries, local>> /\ Outside /\ Fault

Load(p) == LoadRegistration(p) \/ LoadSeries(p) \/ LoadWithdrawal(p)

-----------------------------------------------------------------------------
(* prepare_publication_invocation and the adapter *)

\* The candidate is a row of a disposable catalog, as old as it may be; a row that
\* differs from the canonical context is refused.
Drift(p) ==
  /\ pc[p] = "authorize" /\ Return(p, "drift")
  /\ UNCHANGED <<entries, local>> /\ Calm

Authorize(p) ==
  /\ pc[p] = "authorize"
  /\ IF Allows(authorizer[p], seen[p], "project_evidence", req[p].scope)
     THEN Then(p, "verify") ELSE Return(p, "denied")
  /\ base' = [base EXCEPT ![p] = seen[p]]
  /\ key' = [key EXCEPT ![p] = KeyOf(seen[p], build, authorizer[p], req[p].scope)]
  /\ UNCHANGED <<entries, phase, req, seen, member, authorizer, evidence, found>> /\ Calm

\* The digest is verified by path, then the bytes are read and verified again.
Verify(p) ==
  /\ pc[p] = "verify"
  /\ IF manifest = "intact" THEN Then(p, "bytes") ELSE Return(p, "manifest")
  /\ UNCHANGED <<entries, local>> /\ Calm

ReadBytes(p) ==
  /\ pc[p] = "bytes"
  /\ \/ manifest = "intact" /\ StartLoad(p, "final") /\ UNCHANGED outcome
     \/ manifest # "intact" /\ Return(p, "manifest") /\ UNCHANGED phase
  /\ UNCHANGED <<entries, req, seen, member, base, authorizer, key, evidence, found>> /\ Calm

\* Faulty variant: the context loaded again is not compared.
ConfirmAnything(p) ==
  /\ pc[p] = "confirm" /\ Then(p, "prepared")
  /\ UNCHANGED <<entries, local>> /\ Calm

Confirm(p) ==
  /\ pc[p] = "confirm"
  /\ IF seen[p] = base[p] THEN Then(p, "prepared") ELSE Return(p, "changed")
  /\ UNCHANGED <<entries, local>> /\ Calm

\* Between preparing and caching, the caller may have loaded the policy again.
Reload(p) ==
  /\ pc[p] = "prepared" /\ authorizer[p] # policy
  /\ authorizer' = [authorizer EXCEPT ![p] = policy]
  /\ UNCHANGED <<entries, pc, phase, req, seen, member, base, key, evidence, found, outcome>>
  /\ Calm

\* The adapter of the reader version the invocation names projects, and
\* cache_projected_inventory starts.
Project(p) ==
  /\ pc[p] = "prepared"
  /\ \/ build = key[p].build /\ StartLoad(p, "again") /\ UNCHANGED outcome
        /\ \E v \in Inventories : evidence' = [evidence EXCEPT ![p] = v]
     \/ build # key[p].build /\ Return(p, "error") /\ UNCHANGED <<phase, evidence>>
  /\ UNCHANGED <<entries, req, seen, member, base, authorizer, key, found>> /\ Calm

AdapterRaises(p) ==
  /\ pc[p] = "prepared" /\ Return(p, "error")
  /\ UNCHANGED <<entries, local>> /\ Outside /\ Fault

Prepare(p) == Drift(p) \/ Authorize(p) \/ Verify(p) \/ ReadBytes(p) \/ Confirm(p) \/ Project(p)

-----------------------------------------------------------------------------
(* cache_projected_inventory *)

Reauthorize(p) ==
  /\ pc[p] = "reauthorize"
  /\ CASE seen[p] # base[p] -> Return(p, "changed")
       [] seen[p] = base[p] /\ ~Allows(authorizer[p], seen[p], "project_evidence", req[p].scope)
            -> Return(p, "denied")
       [] OTHER -> IF authorizer[p].version = key[p].version
                   THEN Then(p, "ensure") ELSE Return(p, "changed")
  /\ UNCHANGED <<entries, local>> /\ Calm

Ensure(p) ==
  /\ pc[p] = "ensure" /\ Then(p, IF dir[key[p]] THEN "probe" ELSE "mkdir")
  /\ UNCHANGED <<entries, local>> /\ Calm

\* Another process may have made the directory since it was looked for.
Mkdir(p) ==
  /\ pc[p] = "mkdir"
  /\ IF dir[key[p]] THEN Return(p, "write_error") ELSE Then(p, "probe")
  /\ dir' = [dir EXCEPT ![key[p]] = TRUE]
  /\ UNCHANGED <<lock, marker, file, attempt, local>> /\ Calm

MkdirRaises(p) ==
  /\ pc[p] = "mkdir" /\ Return(p, "write_error")
  /\ UNCHANGED <<entries, local>> /\ Outside /\ Fault

Probe(p) ==
  /\ pc[p] = "probe"
  /\ IF lock[key[p]] = NoProc THEN Then(p, "lock") ELSE Return(p, "locked")
  /\ UNCHANGED <<entries, local>> /\ Calm

\* Faulty variant: the lock file is opened even when it exists.
LockShared(p) ==
  /\ pc[p] = "lock" /\ Then(p, "inspect")
  /\ lock' = [lock EXCEPT ![key[p]] = p]
  /\ UNCHANGED <<dir, marker, file, attempt, local>> /\ Calm

Lock(p) ==
  /\ pc[p] = "lock"
  /\ \/ lock[key[p]] = NoProc /\ lock' = [lock EXCEPT ![key[p]] = p] /\ Then(p, "inspect")
     \/ lock[key[p]] # NoProc /\ UNCHANGED lock /\ Return(p, "locked")
  /\ UNCHANGED <<dir, marker, file, attempt, local>> /\ Calm

\* The lock file is not created, or created and not written: then it stays.
LockRaises(p) ==
  /\ pc[p] = "lock" /\ lock[key[p]] = NoProc /\ Return(p, "write_error")
  /\ \E l \in {NoProc, Orphan} : lock' = [lock EXCEPT ![key[p]] = l]
  /\ UNCHANGED <<dir, marker, file, attempt, local>> /\ Outside /\ Fault

\* Faulty variant: a snapshot that is already there is written again.
InspectNothing(p) ==
  /\ pc[p] = "inspect" /\ Then(p, IF marker[key[p]] THEN "open" ELSE "mark")
  /\ UNCHANGED <<entries, local>> /\ Calm

Inspect(p) ==
  LET k == key[p] IN
  /\ pc[p] = "inspect"
  /\ CASE file[k] # Absent /\ (~marker[k] \/ file[k] = Torn) -> Leave(p, "integrity")
       [] file[k] # Absent /\ marker[k] /\ file[k] # Torn
            -> Leave(p, IF file[k] = evidence[p] THEN "existing" ELSE "nondeterminism")
       [] OTHER -> Then(p, IF marker[k] THEN "open" ELSE "mark")
  /\ UNCHANGED <<entries, local>> /\ Calm

Mark(p) ==
  /\ pc[p] = "mark" /\ Then(p, "open")
  /\ marker' = [marker EXCEPT ![key[p]] = TRUE]
  /\ UNCHANGED <<dir, lock, file, attempt, local>> /\ Calm

\* The snapshot file is created, filled and synchronised.
Open(p) ==
  /\ pc[p] = "open" /\ Then(p, "fill")
  /\ file' = [file EXCEPT ![key[p]] = Torn]
  /\ attempt' = [attempt EXCEPT ![key[p]] = @ + 1]
  /\ UNCHANGED <<dir, lock, marker, local>> /\ Calm

Fill(p) ==
  /\ pc[p] = "fill" /\ Then(p, "sync")
  /\ file' = [file EXCEPT ![key[p]] = evidence[p]]
  /\ UNCHANGED <<dir, lock, marker, attempt, local>> /\ Calm

Sync(p) ==
  /\ pc[p] = "sync" /\ Then(p, "reload")
  /\ UNCHANGED <<entries, local>> /\ Calm

\* Raised before the snapshot is created: the marker, a snapshot over the size limit.
OpenRaises(p) ==
  /\ pc[p] \in {"inspect", "mark", "open"} /\ Leave(p, "write_error")
  /\ \E made \in BOOLEAN :
       marker' = [marker EXCEPT ![key[p]] = @ \/ (made /\ pc[p] = "mark")]
  /\ UNCHANGED <<dir, lock, file, attempt, local>> /\ Outside /\ Fault

FillRaises(p) ==
  /\ pc[p] \in {"fill", "sync"} /\ Then(p, "clean")
  /\ UNCHANGED <<entries, local>> /\ Outside /\ Fault

\* Faulty variant: a snapshot that is durable is removed as well.
CleanAlways(p) ==
  /\ pc[p] \in {"clean", "reload"} /\ Leave(p, "write_error")
  /\ file' = [file EXCEPT ![key[p]] = Absent]
  /\ UNCHANGED <<dir, lock, marker, attempt, local>> /\ Calm

\* Only the incomplete file of this call is removed.
Clean(p) ==
  /\ pc[p] = "clean" /\ Leave(p, "write_error")
  /\ file' = [file EXCEPT ![key[p]] = Absent]
  /\ UNCHANGED <<dir, lock, marker, attempt, local>> /\ Calm

CleanRaises(p) ==
  /\ pc[p] = "clean" /\ Leave(p, "partial")
  /\ UNCHANGED <<entries, local>> /\ Outside /\ Fault

Recheck(p) ==
  /\ pc[p] = "reload" /\ Leave(p, "created")
  /\ UNCHANGED <<entries, local>> /\ Calm

RecheckRaises(p) ==
  /\ pc[p] = "reload" /\ Leave(p, "partial")
  /\ UNCHANGED <<entries, local>> /\ Outside /\ Fault

\* Faulty variant: only a snapshot that was written releases the lock.
UnlockAfterWrite(p) ==
  /\ pc[p] = "unlock" /\ Goto(p, "idle") /\ UNCHANGED outcome
  /\ lock' = [lock EXCEPT ![key[p]] = IF outcome[p] = "created" THEN NoProc ELSE @]
  /\ UNCHANGED <<dir, marker, file, attempt, local>> /\ Calm

Unlock(p) ==
  /\ pc[p] = "unlock" /\ Then(p, "idle")
  /\ lock' = [lock EXCEPT ![key[p]] = NoProc]
  /\ UNCHANGED <<dir, marker, file, attempt, local>> /\ Calm

UnlockRaises(p) ==
  /\ pc[p] = "unlock" /\ Return(p, "partial")
  /\ lock' = [lock EXCEPT ![key[p]] = Orphan]
  /\ UNCHANGED <<dir, marker, file, attempt, local>> /\ Outside /\ Fault

Cache(p) == \/ Reauthorize(p) \/ Ensure(p) \/ Mkdir(p) \/ Probe(p) \/ Lock(p)
            \/ Inspect(p) \/ Mark(p) \/ Open(p) \/ Fill(p) \/ Sync(p) \/ Clean(p)
            \/ Recheck(p) \/ Unlock(p)

-----------------------------------------------------------------------------
(* load_authorized_projection_snapshot *)

Permit(p) ==
  /\ pc[p] = "permit"
  /\ IF Allows(authorizer[p], seen[p], "read_projection_cache", req[p].scope)
     THEN Then(p, "find") ELSE Return(p, "denied")
  /\ UNCHANGED <<entries, local>> /\ Calm

\* Faulty variant: the entry is found by its key alone.
FindAnyScope(p) ==
  LET k == key[p] IN
  /\ pc[p] = "find"
  /\ outcome' = [outcome EXCEPT ![p] = IF file[k] = Absent THEN "not_found" ELSE "none"]
  /\ found' = [found EXCEPT ![p] = attempt[k]]
  /\ Goto(p, IF dir[k] THEN "await" ELSE "idle")
  /\ UNCHANGED <<entries, phase, req, seen, member, base, authorizer, key, evidence>> /\ Calm

\* The directory is listed before .write.lock is looked for; what the listing gives
\* is decided when the lock is seen to be free.
Find(p) ==
  LET k == key[p] IN
  /\ pc[p] = "find"
  /\ outcome' = [outcome EXCEPT ![p] =
       CASE ~dir[k] \/ (marker[k] /\ k.scope = req[p].scope /\ file[k] = Absent) -> "not_found"
         [] dir[k] /\ ~marker[k] -> "integrity"
         [] dir[k] /\ marker[k] /\ k.scope # req[p].scope -> "denied"
         [] OTHER -> "none"]
  /\ found' = [found EXCEPT ![p] = attempt[k]]
  /\ Goto(p, IF dir[k] THEN "await" ELSE "idle")
  /\ UNCHANGED <<entries, phase, req, seen, member, base, authorizer, key, evidence>> /\ Calm

\* Faulty variant: the lock of a writer is not looked for.
AwaitNobody(p) ==
  /\ pc[p] = "await" /\ Then(p, IF outcome[p] = "none" THEN "read" ELSE "idle")
  /\ UNCHANGED <<entries, local>> /\ Calm

Await(p) ==
  /\ pc[p] = "await"
  /\ IF lock[key[p]] # NoProc THEN Return(p, "locked")
     ELSE Then(p, IF outcome[p] = "none" THEN "read" ELSE "idle")
  /\ UNCHANGED <<entries, local>> /\ Calm

\* The file is opened by the name the listing gave: a snapshot begun again has another
\* captured_at and another name.
Read(p) ==
  LET k == key[p]
      here == file[k] # Absent /\ attempt[k] = found[p] IN
  /\ pc[p] = "read"
  /\ \/ here /\ file[k] # Torn /\ Then(p, "assess")
        /\ evidence' = [evidence EXCEPT ![p] = file[k]]
     \/ here /\ file[k] = Torn /\ Return(p, "integrity") /\ UNCHANGED evidence
     \/ ~here /\ Return(p, "not_found") /\ UNCHANGED evidence
  /\ UNCHANGED <<entries, phase, req, seen, member, base, authorizer, key, found>> /\ Calm

\* The manifest and the installed reader are looked at now, the context was loaded
\* before the file was found.
Assess(p) ==
  /\ pc[p] = "assess"
  /\ Return(p, Reuse(key[p], seen[p], manifest = "intact", build, authorizer[p], req[p].scope))
  /\ UNCHANGED <<entries, local>> /\ Calm

ReadCache(p) == Permit(p) \/ Find(p) \/ Await(p) \/ Read(p) \/ Assess(p)

-----------------------------------------------------------------------------
(* What happens around the calls *)

\* Every running call has now also run in this canonical state.
Witnessed == truth' = [p \in Procs |-> IF pc[p] = "idle" THEN truth[p] ELSE truth[p] \cup {core'}]

\* Core records another current registration, a successor in the series, or the
\* withdrawal of a publication, which is never taken back.
CoreChanges ==
  /\ \/ \E r \in Regs \ {core.reg} : core' = [core EXCEPT !.reg = r]
     \/ core.length < MaxLength /\ core' = [core EXCEPT !.length = @ + 1]
     \/ \E i \in (1 .. core.length) \ core.withdrawn :
          core' = [core EXCEPT !.withdrawn = @ \cup {i}]
  /\ Witnessed /\ UNCHANGED <<manifest, build, policy>>

\* The manifest is altered, another reader is installed, the teacher edits the policy.
SetupChanges ==
  /\ \/ manifest = "intact" /\ manifest' = "altered" /\ UNCHANGED <<build, policy>>
     \/ \E b \in Builds \ {build} : build' = b /\ UNCHANGED <<manifest, policy>>
     \/ \E a \in Policies \ {policy} : policy' = a /\ UNCHANGED <<manifest, build>>
  /\ UNCHANGED <<core, truth>>

Change ==
  /\ changes < MaxChanges /\ changes' = changes + 1
  /\ CoreChanges \/ SetupChanges
  /\ UNCHANGED <<entries, pc, local, outcome, crashes, faults>>

\* A process is killed; the lock it holds stays for ever.
Crash(p) ==
  /\ pc[p] # "idle" /\ crashes < MaxCrashes /\ crashes' = crashes + 1
  /\ Return(p, "crashed")
  /\ lock' = [k \in Keys |-> IF lock[k] = p THEN Orphan ELSE lock[k]]
  /\ UNCHANGED <<dir, marker, file, attempt, local, changes, faults>> /\ Outside

Run(p) == Load(p) \/ Prepare(p) \/ Cache(p) \/ ReadCache(p)

Raise(p) == \/ LoadRaises(p) \/ AdapterRaises(p) \/ MkdirRaises(p) \/ LockRaises(p)
            \/ OpenRaises(p) \/ FillRaises(p) \/ CleanRaises(p) \/ RecheckRaises(p)
            \/ UnlockRaises(p)

Next == Change \/ \E p \in Procs : Call(p) \/ Reload(p) \/ Run(p) \/ Raise(p) \/ Crash(p)

Spec == Init /\ [][Next]_vars

\* A call that was started runs until it returns; nothing forces a call, a change, a
\* raising step or a crash.
FairSpec == Spec /\ \A p \in Procs : WF_vars(Run(p))

-----------------------------------------------------------------------------
(* What verification, caching and reading promise *)

\* Canonical state is read record by record and without a lock, and yet what a call
\* prepares (and caches) is a state Core was in as a whole, at one moment of the
\* call: "Meridian never merges fields from two observations".
PreparedWasTrue ==
  \A p \in Procs :
    pc[p] \in {"prepared", "reauthorize", "ensure", "mkdir", "probe", "lock"} \cup LockedSteps
      => base[p] \in truth[p]

\* Evidence is only called reusable if, at one moment of the call, the target was the
\* head of its series and not withdrawn, and the current registration and the series
\* were the ones the snapshot was made for; a read loads the context only once.
ReusableWasCurrent ==
  \A p \in Procs :
    pc[p] = "idle" /\ outcome[p] = "reusable" =>
      \E c \in truth[p] : /\ Head(c) /\ ~Withdrawn(c)
                          /\ c.reg = key[p].reg /\ c.length = key[p].length

\* Cached evidence is handed out in no status unless, at one moment of the call, the
\* target was not withdrawn, and only in the scope it was projected for.
ReadsConfined ==
  \A p \in Procs :
    pc[p] = "idle" /\ outcome[p] \in Statuses =>
      /\ \E c \in truth[p] : ~Withdrawn(c)
      /\ <<"read_projection_cache", key[p].scope>> \in authorizer[p].grants

\* A writer that may still remove the snapshot has not settled it.
Committed(k) == /\ file[k] \in Inventories
                /\ \A p \in Procs : ~(pc[p] \in WindowSteps /\ key[p] = k)

\* What a read returns, without a lock, is a snapshot that is there to stay: never one
\* its writer is about to remove.
ReadsSettled ==
  \A p \in Procs :
    (pc[p] = "assess" \/ (pc[p] = "idle" /\ outcome[p] \in Statuses)) =>
      Committed(key[p]) /\ evidence[p] = file[key[p]]

\* The same holds for what a writer reports as created or as already there.
ReportedSettled ==
  \A p \in Procs :
    pc[p] = "idle" /\ outcome[p] \in {"created", "existing"} =>
      Committed(key[p]) /\ evidence[p] = file[key[p]]

\* "Only an incomplete file created by the current operation may be removed": the
\* cache implements write-once snapshots under every identity.
Snapshots == INSTANCE ProjectionSnapshots WITH
  snapshot <- [k \in Keys |-> IF Committed(k) THEN file[k] ELSE Absent]

ImplementsSnapshots == Snapshots!Spec

\* Unless a crash or a failing system call intervenes, no exit path keeps the lock.
LockReleased == \A k \in Keys : (lock[k] # NoProc) ~> (lock[k] = NoProc \/ crashes + faults > 0)
=============================================================================

------------------------- MODULE GradeItemFailureProofs -------------------------
(***************************************************************************)
(* What GradeItemStorage promises about left-over files and about unlocked *)
(* listings, for every value of its constants.  Both rest on the invariant *)
(* of GradeItemStorageProofs and on what a writer has seen before it       *)
(* creates its first file.  Last, that every call of the store is finite.  *)
(***************************************************************************)
EXTENDS GradeItemStorageProofs

-----------------------------------------------------------------------------
(* Left-over files: a writer past its checks has found none.                *)

\* While a writer is in its window, every other revision is a pair or missing, and no
\* temporary file is in the way.
CleanState(p) ==
  pc[p] \in WindowSteps =>
    /\ ~temp
    /\ \A r \in Revs : r # req[p].rev =>
         Complete(r) \/ (json[r] = Absent /\ side[r] = Absent)

CInv == IInv /\ \A p \in Procs : CleanState(p)

\* The steps a writer in its window can take.
LEMMA WindowActions ==
  ASSUME NEW p \in Procs, Step(p), pc[p] \in WindowSteps
  PROVE  \/ OpenJson(p) \/ FillJson(p) \/ OpenSide(p) \/ FillSide(p) \/ SyncSide(p)
         \/ RemoveSide(p) \/ RemoveJson(p) \/ WritePairFails(p) \/ RemoveFails(p)
         \/ Crash(p)
<1> USE DEF WindowSteps
<1>1. ~Call(p)
  BY DEF Call
<1>2. ASSUME Fail(p) PROVE WritePairFails(p) \/ RemoveFails(p)
  BY <1>2 DEF Fail, AcquireLockFails, ReleaseLockFails, PublishFails, RemoveTemporaryFails,
              ReadFails
<1>3. ASSUME Run(p)
      PROVE  \/ OpenJson(p) \/ FillJson(p) \/ OpenSide(p) \/ FillSide(p) \/ SyncSide(p)
             \/ RemoveSide(p) \/ RemoveJson(p)
  <2>1. ~(\/ EnsureDirectory(p) \/ MakeDirectory(p) \/ CheckDirectoryChain(p)
          \/ AcquireLock(p) \/ ReleaseLock(p) \/ CheckWrite(p) \/ VerifyWrite(p))
    BY DEF EnsureDirectory, MakeDirectory, CheckDirectoryChain, AcquireLock, ReleaseLock,
           CheckWrite, VerifyWrite
  <2>2. ~(\/ CheckSelection(p) \/ OpenTemporary(p) \/ ReplaceCurrent(p)
          \/ RemoveTemporary(p) \/ VerifySelection(p))
    BY DEF CheckSelection, OpenTemporary, ReplaceCurrent, RemoveTemporary, VerifySelection
  <2>3. ~(\/ ReadEntries(p) \/ ReadEntriesEnds(p) \/ ReadNames(p) \/ ReadNamesEnds(p)
          \/ ReadJson(p) \/ ReadOn(p) \/ ReadReturns(p))
    BY DEF ReadEntries, ReadEntriesEnds, ReadNames, ReadNamesEnds, ReadJson, ReadOn,
           ReadReturns
  <2> QED BY <1>3, <2>1, <2>2, <2>3 DEF Run
<1> QED BY <1>1, <1>2, <1>3 DEF Step

\* Only the check opens the window.
LEMMA WindowEntered ==
  ASSUME TInv, NEW p \in Procs, Step(p), pc[p] \notin WindowSteps, pc'[p] \in WindowSteps
  PROVE  /\ CheckWrite(p) /\ WriteVerdict(p) = "proceed"
         /\ req[p] \in WriteRequests /\ UNCHANGED <<files, req>>
<1> USE DEF TInv, TypeOK, WindowSteps, Goto, Return, Leave
<1>1. ~Call(p) /\ ~Crash(p)
  BY DEF Call, Crash
<1>2. ~Fail(p)
  BY DEF Fail, AcquireLockFails, ReleaseLockFails, WritePairFails, RemoveFails, PublishFails,
         RemoveTemporaryFails, ReadFails
<1>3. ~(\/ EnsureDirectory(p) \/ MakeDirectory(p) \/ CheckDirectoryChain(p)
        \/ AcquireLock(p) \/ ReleaseLock(p) \/ VerifyWrite(p))
  BY DEF EnsureDirectory, MakeDirectory, CheckDirectoryChain, AcquireLock, ReleaseLock,
         VerifyWrite
<1>4. ~(\/ OpenJson(p) \/ FillJson(p) \/ OpenSide(p) \/ FillSide(p) \/ SyncSide(p)
        \/ RemoveSide(p) \/ RemoveJson(p))
  BY DEF OpenJson, FillJson, OpenSide, FillSide, SyncSide, RemoveSide, RemoveJson
<1>5. ~(\/ CheckSelection(p) \/ OpenTemporary(p) \/ ReplaceCurrent(p)
        \/ RemoveTemporary(p) \/ VerifySelection(p))
  BY DEF CheckSelection, OpenTemporary, ReplaceCurrent, RemoveTemporary, VerifySelection
<1>6. ~(\/ ReadEntries(p) \/ ReadEntriesEnds(p) \/ ReadNames(p) \/ ReadNamesEnds(p)
        \/ ReadJson(p) \/ ReadOn(p) \/ ReadReturns(p))
  BY DEF ReadEntries, ReadEntriesEnds, ReadNames, ReadNamesEnds, ReadJson, ReadOn, ReadReturns
<1>7. CheckWrite(p)
  BY <1>1, <1>2, <1>3, <1>4, <1>5, <1>6 DEF Step, Run
<1>8. WriteVerdict(p) = "proceed"
  BY <1>7 DEF CheckWrite
<1>9. req[p] \in WriteRequests
  BY <1>7 DEF CheckWrite, RequestKind, WriteSteps
<1> QED BY <1>7, <1>8, <1>9 DEF CheckWrite

\* What the check saw is the clean state.
LEMMA ProceedIsClean ==
  ASSUME TInv, NEW p \in Procs, WriteVerdict(p) = "proceed", req[p] \in WriteRequests
  PROVE  /\ ~temp
         /\ \A r \in Revs : r # req[p].rev =>
              Complete(r) \/ (json[r] = Absent /\ side[r] = Absent)
<1>1. ~temp
  BY DEF WriteVerdict
<1>2. HistoryIs(req[p].rev - 1)
  BY <1>1 DEF WriteVerdict
<1> QED BY <1>1, <1>2 DEF HistoryIs

LEMMA CleanLocal ==
  ASSUME CInv, NEW p \in Procs, Step(p)
  PROVE  CleanState(p)'
<1> SUFFICES ASSUME pc'[p] \in WindowSteps PROVE CleanState(p)'
  BY DEF CleanState
<1>1. TInv /\ WInv
  BY DEF CInv, IInv, WInv
<1>2. CASE pc[p] \notin WindowSteps
  <2>1. /\ WriteVerdict(p) = "proceed" /\ req[p] \in WriteRequests
        /\ UNCHANGED <<files, req>>
    BY <1>1, <1>2, WindowEntered
  <2> QED BY <1>1, <2>1, ProceedIsClean DEF CleanState, files, Complete
<1>3. CASE pc[p] \in WindowSteps
  <2>1. req'[p] = req[p]
    BY <1>1, <1>3, WindowKeepsRequest
  <2>2. \A r \in Revs : r # req[p].rev => json'[r] = json[r] /\ side'[r] = side[r]
    BY <1>1, <1>3, OtherRevisions
  <2>3. temp' = temp
    BY <1>3, WindowActions DEF OpenJson, FillJson, OpenSide, FillSide, SyncSide, RemoveSide,
       RemoveJson, WritePairFails, RemoveFails, Crash, files
  <2> QED BY <1>3, <2>1, <2>2, <2>3 DEF CInv, CleanState, Complete
<1> QED BY <1>2, <1>3

LEMMA CleanStep ==
  ASSUME CInv, NEW p \in Procs, Step(p)
  PROVE  CInv'
<1>1. TInv /\ LockDiscipline
  BY DEF CInv, IInv, WInv
<1>2. ASSUME NEW q \in Procs PROVE CleanState(q)'
  <2>1. CASE q = p
    BY <2>1, CleanLocal
  <2>2. CASE q # p
    <3>1. pc'[q] = pc[q] /\ req'[q] = req[q]
      BY <1>1, <2>2, Frame DEF TInv
    <3>2. ASSUME pc[q] \in WindowSteps PROVE UNCHANGED <<json, side, temp>>
      <4>1. lock = q
        BY <1>1, <3>2 DEF LockDiscipline, LockedSteps, WindowSteps
      <4> QED BY <1>1, <2>2, <4>1, LockLocal
    <3> QED BY <3>1, <3>2 DEF CInv, CleanState, Complete
  <2> QED BY <2>1, <2>2
<1> QED BY <1>2, IStep DEF CInv

LEMMA CleanInit == Init => CInv
  BY IInit DEF Init, CInv, CleanState, WindowSteps

LEMMA CleanBox == CInv /\ [Next]_vars => CInv'
<1> SUFFICES ASSUME CInv, [Next]_vars PROVE CInv'
  OBVIOUS
<1>1. CASE UNCHANGED vars
  <2>1. IInv'
    BY <1>1, IStutter DEF CInv
  <2> QED BY <1>1, <2>1 DEF CInv, CleanState, Complete, vars, files, procs
<1> QED BY <1>1, CleanStep DEF Next, Step

-----------------------------------------------------------------------------
(* Fail closed                                                              *)

\* A half pair stays, and nothing is written beside it.
LEMMA HalfPairStays ==
  ASSUME CInv, NEW p \in Procs, Step(p), NEW r \in Revs, HalfPair(r)
  PROVE  HalfPair(r)' /\ UNCHANGED <<json, side>>
<1>1. TInv /\ WInv
  BY DEF CInv, IInv, WInv
<1>2. ASSUME NEW q \in Procs, pc[q] \in WindowSteps PROVE FALSE
  <2>1. r # req[q].rev
    BY <1>2 DEF HalfPair, InWindow
  <2> QED BY <1>2, <2>1 DEF CInv, CleanState, HalfPair
<1>3. UNCHANGED <<json, side>>
  BY <1>1, <1>2, JsonLocal
<1>4. ASSUME NEW q \in Procs, pc'[q] \in WindowSteps, req'[q].rev = r PROVE FALSE
  <2>1. CASE q # p
    BY <1>1, <1>2, <1>4, <2>1, Frame DEF TInv
  <2>2. CASE q = p
    <3>1. WriteVerdict(p) = "proceed" /\ req[p] \in WriteRequests /\ UNCHANGED req
      BY <1>1, <1>2, <1>4, <2>2, WindowEntered
    <3>2. json[r] = Absent /\ side[r] = Absent
      BY <1>1, <1>4, <2>2, <3>1, ProceedMeans
    <3> QED BY <3>2 DEF HalfPair
  <2> QED BY <2>1, <2>2
<1>5. ~InWindow(r)'
  BY <1>4 DEF InWindow
<1> QED BY <1>3, <1>5 DEF HalfPair, Complete

\* A stray temporary file stops writers and selectors.
LEMMA StrayStops ==
  ASSUME CInv, NEW p \in Procs, Step(p), StrayTemporary
  PROVE  UNCHANGED <<json, side, current>>
<1>1. WInv
  BY DEF CInv, IInv
<1>2. pc[p] \notin WindowSteps
  BY DEF CInv, CleanState, StrayTemporary
<1>3. UNCHANGED <<json, side>>
  BY <1>1, <1>2, JsonLocal
<1>4. ~ReplaceCurrent(p)
  BY DEF ReplaceCurrent, StrayTemporary
<1> QED BY <1>3, <1>4, ReplaceOnly

\* A lock file without an owner is never taken, never removed, and keeps every process
\* from the item's files.
LEMMA OrphanStops ==
  ASSUME WInv, NEW p \in Procs, Step(p), lock = Orphan
  PROVE  lock' = Orphan /\ UNCHANGED <<json, side, current>>
<1> USE ConstantsAssumption DEF WInv
<1>1. UNCHANGED <<json, side, current>>
  BY LockLocal
<1>2. pc[p] # "unlock"
  BY DEF LockDiscipline, LockedSteps
<1>3. ASSUME lock' # lock PROVE FALSE
  <2>1. ~Call(p) /\ ~Crash(p)
    BY <1>3 DEF Call, Crash, files
  <2>2. ~Fail(p)
    BY <1>2, <1>3 DEF Fail, AcquireLockFails, ReleaseLockFails, WritePairFails, RemoveFails,
                      PublishFails, RemoveTemporaryFails, ReadFails, files
  <2>3. ~(\/ EnsureDirectory(p) \/ MakeDirectory(p) \/ CheckDirectoryChain(p)
          \/ AcquireLock(p) \/ ReleaseLock(p) \/ CheckWrite(p) \/ OpenJson(p)
          \/ FillJson(p) \/ OpenSide(p) \/ FillSide(p) \/ SyncSide(p) \/ RemoveSide(p)
          \/ RemoveJson(p) \/ VerifyWrite(p))
    BY <1>2, <1>3 DEF EnsureDirectory, MakeDirectory, CheckDirectoryChain, AcquireLock,
                      ReleaseLock, CheckWrite, OpenJson, FillJson, OpenSide, FillSide,
                      SyncSide, RemoveSide, RemoveJson, VerifyWrite, files
  <2>4. ~(\/ CheckSelection(p) \/ OpenTemporary(p) \/ ReplaceCurrent(p)
          \/ RemoveTemporary(p) \/ VerifySelection(p))
    BY <1>3 DEF CheckSelection, OpenTemporary, ReplaceCurrent, RemoveTemporary,
                VerifySelection, files
  <2>5. ~(\/ ReadEntries(p) \/ ReadEntriesEnds(p) \/ ReadNames(p) \/ ReadNamesEnds(p)
          \/ ReadJson(p) \/ ReadOn(p) \/ ReadReturns(p))
    BY <1>3 DEF ReadEntries, ReadEntriesEnds, ReadNames, ReadNamesEnds, ReadJson, ReadOn,
                ReadReturns, files
  <2> QED BY <2>1, <2>2, <2>3, <2>4, <2>5 DEF Step, Run
<1> QED BY <1>1, <1>3

\* "Unexpected residual files fail closed": a half pair a dead or failed call left is
\* never taken up again and stops every later write, a left-over temporary file also
\* stops every later selection, and a lock left behind stops both for good.
THEOREM ResidualsFailClosed == Spec => FailClosed
<1> DEFINE Closed == /\ \A r \in Revs : HalfPair(r) => HalfPair(r)' /\ UNCHANGED <<json, side>>
                     /\ StrayTemporary => UNCHANGED <<json, side, current>>
                     /\ lock = Orphan => lock' = Orphan /\ UNCHANGED <<json, side, current>>
<1>1. CInv /\ [Next]_vars => [Closed]_vars
  <2> SUFFICES ASSUME CInv, Next PROVE Closed
    OBVIOUS
  <2>1. PICK p \in Procs : Step(p)
    BY DEF Next, Step
  <2>2. WInv
    BY DEF CInv, IInv
  <2> QED BY <2>1, <2>2, HalfPairStays, StrayStops, OrphanStops
<1> QED BY <1>1, CleanInit, CleanBox, PTL DEF Spec, FailClosed

-----------------------------------------------------------------------------
(* Listings: without a failing call nothing that was verified is removed.   *)

\* What a listing knows at each of its steps when no system call has failed.
ListState(p) ==
  /\ pc[p] \notin {"cleanside", "cleanjson"}
  /\ pc[p] \in {"entries", "names"} => upto[p] = 0
  /\ pc[p] \in {"readjson", "readside"} /\ upto[p] > 0 =>
       \A r \in Revs : r < atRev[p] => Complete(r)
  /\ pc[p] = "readside" /\ bytes[p] \in Contents => json[atRev[p]] = bytes[p]
  /\ outcome[p] = "listed" => \A r \in Revs : r <= upto[p] => Complete(r)

LInv == IInv /\ (ioErrors = 0 => \A p \in Procs : ListState(p))

\* A file that holds a content keeps it.
LEMMA ContentStays ==
  ASSUME WInv, NEW p \in Procs, Step(p), ~Fail(p), pc[p] \notin {"cleanside", "cleanjson"},
         NEW r \in Revs
  PROVE  /\ json[r] \in Contents => json'[r] = json[r]
         /\ side[r] \in Contents => side'[r] = side[r]
<1> USE ConstantsAssumption
<1>1. CASE pc[p] \notin WindowSteps
  BY <1>1, JsonLocal
<1>2. CASE pc[p] \in WindowSteps
  <2>1. /\ req[p].rev \in Revs /\ WriterState(p)
        /\ json \in [Revs -> FileStates] /\ side \in [Revs -> FileStates]
    BY <1>2 DEF WInv, TInv, TypeOK, RequestKind, WindowSteps, WriteSteps, WriteRequests
  <2>2. \/ OpenJson(p) \/ FillJson(p) \/ OpenSide(p) \/ FillSide(p) \/ SyncSide(p)
        \/ Crash(p)
    BY <1>2, WindowActions DEF Fail, RemoveSide, RemoveJson
  <2> QED BY <2>1, <2>2 DEF OpenJson, FillJson, OpenSide, FillSide, SyncSide, Crash, files,
                            WriterState
<1> QED BY <1>1, <1>2

\* The steps of a call that is not reading do not touch a listing.
LEMMA NotListing ==
  ASSUME TInv, NEW p \in Procs, Run(p), pc[p] \notin ReadSteps
  PROVE  /\ pc'[p] \notin ReadSteps
         /\ outcome'[p] = "listed" => outcome[p] = "listed"
         /\ upto' = upto
         /\ pc'[p] \in {"cleanside", "cleanjson"} => pc[p] = "cleanside"
<1> USE DEF TInv, TypeOK, ReadSteps, Goto, Return, Leave, reads
<1>1. CASE \/ EnsureDirectory(p) \/ MakeDirectory(p) \/ CheckDirectoryChain(p)
           \/ AcquireLock(p) \/ ReleaseLock(p) \/ VerifyWrite(p)
  BY <1>1 DEF EnsureDirectory, MakeDirectory, CheckDirectoryChain, AcquireLock, ReleaseLock,
              VerifyWrite
<1>2. CASE CheckWrite(p)
  BY <1>2 DEF CheckWrite, WriteVerdict
<1>3. CASE \/ OpenJson(p) \/ FillJson(p) \/ OpenSide(p) \/ FillSide(p) \/ SyncSide(p)
           \/ RemoveSide(p) \/ RemoveJson(p)
  BY <1>3 DEF OpenJson, FillJson, OpenSide, FillSide, SyncSide, RemoveSide, RemoveJson
<1>4. CASE CheckSelection(p)
  BY <1>4 DEF CheckSelection, SelectVerdict
<1>5. CASE \/ OpenTemporary(p) \/ ReplaceCurrent(p) \/ RemoveTemporary(p)
           \/ VerifySelection(p)
  BY <1>5 DEF OpenTemporary, ReplaceCurrent, RemoveTemporary, VerifySelection
<1>6. ~(\/ ReadEntries(p) \/ ReadEntriesEnds(p) \/ ReadNames(p) \/ ReadNamesEnds(p)
        \/ ReadJson(p) \/ ReadOn(p) \/ ReadReturns(p))
  BY DEF ReadEntries, ReadEntriesEnds, ReadNames, ReadNamesEnds, ReadJson, ReadOn, ReadReturns
<1> QED BY <1>1, <1>2, <1>3, <1>4, <1>5, <1>6 DEF Run

\* The readers change no file.
LEMMA ReadersOnlyRead ==
  ASSUME NEW p \in Procs, Run(p), pc[p] \in ReadSteps
  PROVE  /\ UNCHANGED files
         /\ \/ ReadEntries(p) \/ ReadEntriesEnds(p) \/ ReadNames(p) \/ ReadNamesEnds(p)
            \/ ReadJson(p) \/ ReadOn(p) \/ ReadReturns(p)
<1> USE DEF ReadSteps
<1>1. ~(\/ EnsureDirectory(p) \/ MakeDirectory(p) \/ CheckDirectoryChain(p)
        \/ AcquireLock(p) \/ ReleaseLock(p) \/ CheckWrite(p) \/ VerifyWrite(p))
  BY DEF EnsureDirectory, MakeDirectory, CheckDirectoryChain, AcquireLock, ReleaseLock,
         CheckWrite, VerifyWrite
<1>2. ~(\/ OpenJson(p) \/ FillJson(p) \/ OpenSide(p) \/ FillSide(p) \/ SyncSide(p)
        \/ RemoveSide(p) \/ RemoveJson(p))
  BY DEF OpenJson, FillJson, OpenSide, FillSide, SyncSide, RemoveSide, RemoveJson
<1>3. ~(\/ CheckSelection(p) \/ OpenTemporary(p) \/ ReplaceCurrent(p)
        \/ RemoveTemporary(p) \/ VerifySelection(p))
  BY DEF CheckSelection, OpenTemporary, ReplaceCurrent, RemoveTemporary, VerifySelection
<1>4. \/ ReadEntries(p) \/ ReadEntriesEnds(p) \/ ReadNames(p) \/ ReadNamesEnds(p)
      \/ ReadJson(p) \/ ReadOn(p) \/ ReadReturns(p)
  BY <1>1, <1>2, <1>3 DEF Run
<1> QED BY <1>4 DEF ReadEntries, ReadEntriesEnds, ReadNames, ReadNamesEnds, ReadJson, ReadOn,
                    ReadReturns

LEMMA ListReads ==
  ASSUME TInv, NEW p \in Procs, ListState(p), Run(p), pc[p] \in ReadSteps
  PROVE  ListState(p)'
<1> USE ConstantsAssumption
<1>1. UNCHANGED <<json, side>> /\ \A r \in Revs : Complete(r)' <=> Complete(r)
  BY ReadersOnlyRead DEF files, Complete
<1>2. /\ atRev \in [Procs -> 0 .. MaxRev] /\ upto \in [Procs -> 0 .. MaxRev]
      /\ pc \in [Procs -> Steps] /\ outcome \in [Procs -> Outcomes]
      /\ bytes \in [Procs -> FileStates]
      /\ outcome[p] = "none"
      /\ pc[p] \in {"readjson", "readside"} => atRev[p] \in Revs
      /\ req[p].op \in {"list", "load", "ids"}
  BY DEF TInv, TypeOK, RequestKind, ReadSteps, ReadRequests
<1> USE DEF Goto, Return, reads
<1>3. CASE ReadEntries(p)
  <2>1. upto' = upto /\ upto[p] = 0 /\ outcome' = outcome /\ bytes' = bytes
        /\ pc'[p] \in {"readjson", "names"}
    BY <1>2, <1>3 DEF ReadEntries, ListState
  <2> QED BY <1>2, <2>1 DEF ListState
<1>4. CASE ReadEntriesEnds(p)
  <2>1. upto' = upto /\ upto[p] = 0 /\ pc'[p] = "idle"
    BY <1>2, <1>4 DEF ReadEntriesEnds, ListState
  <2>2. \A r \in Revs : ~(r <= upto[p])
    BY <2>1 DEF Revs
  <2> QED BY <2>1, <2>2 DEF ListState
<1>5. CASE ReadNames(p)
  <2>1. atRev'[p] = 1 /\ pc'[p] = "readjson" /\ outcome' = outcome
    BY <1>2, <1>5 DEF ReadNames
  <2>2. \A r \in Revs : ~(r < 1)
    BY DEF Revs
  <2> QED BY <1>2, <2>1, <2>2 DEF ListState
<1>6. CASE ReadNamesEnds(p)
  <2>1. upto' = upto /\ upto[p] = 0 /\ pc'[p] = "idle"
    BY <1>2, <1>6 DEF ReadNamesEnds, ListState
  <2>2. \A r \in Revs : ~(r <= upto[p])
    BY <2>1 DEF Revs
  <2> QED BY <2>1, <2>2 DEF ListState
<1>7. CASE ReadJson(p)
  <2>1. CASE json[atRev[p]] = Absent
    <3>1. pc'[p] = "idle" /\ outcome'[p] = "not_found"
      BY <1>2, <1>7, <2>1 DEF ReadJson
    <3> QED BY <3>1 DEF ListState
  <2>2. CASE json[atRev[p]] # Absent
    <3>1. /\ pc[p] = "readjson" /\ pc'[p] = "readside" /\ outcome' = outcome
          /\ atRev' = atRev /\ upto' = upto
          /\ bytes'[p] = json[atRev[p]]
      BY <1>2, <1>7, <2>2 DEF ReadJson
    <3> QED BY <1>1, <1>2, <3>1 DEF ListState
  <2> QED BY <2>1, <2>2
<1>8. ASSUME Verified(p), pc[p] = "readside" PROVE Complete(atRev[p])
  BY <1>2, <1>8 DEF Verified, ListState, Complete
<1>9. CASE ReadOn(p)
  <2>1. pc[p] = "readside" /\ Verified(p) /\ outcome' = outcome /\ upto' = upto
    BY <1>9 DEF ReadOn
  <2>2. CASE req[p].op = "ids" /\ upto[p] = 0 /\ Goto(p, "names")
    BY <1>2, <2>1, <2>2 DEF ListState
  <2>3. CASE atRev[p] < upto[p] /\ atRev' = [atRev EXCEPT ![p] = atRev[p] + 1]
             /\ Goto(p, "readjson")
    <3>1. pc'[p] = "readjson" /\ atRev'[p] = atRev[p] + 1
      BY <1>2, <2>3
    <3>2. Complete(atRev[p]) /\ upto[p] > 0
      BY <1>2, <1>8, <2>1, <2>3 DEF Revs
    <3>3. \A r \in Revs : r < atRev[p] + 1 => r < atRev[p] \/ r = atRev[p]
      BY <1>2 DEF Revs
    <3>4. \A r \in Revs : r < atRev[p] => Complete(r)
      BY <2>1, <3>2 DEF ListState
    <3> QED BY <1>1, <1>2, <2>1, <3>1, <3>2, <3>3, <3>4 DEF ListState
  <2> QED BY <1>9, <2>2, <2>3 DEF ReadOn
<1>10. CASE ReadReturns(p)
  <2>1. pc[p] = "readside" /\ pc'[p] = "idle" /\ atRev' = atRev /\ upto' = upto
    BY <1>2, <1>10 DEF ReadReturns
  <2>2. ASSUME outcome'[p] = "listed" PROVE Verified(p) /\ atRev[p] = upto[p]
    BY <1>2, <1>10, <2>2 DEF ReadReturns
  <2>3. ASSUME outcome'[p] = "listed", NEW r \in Revs, r <= upto[p] PROVE Complete(r)
    <3>1. Complete(atRev[p]) /\ upto[p] > 0 /\ atRev[p] = upto[p]
      BY <1>2, <1>8, <2>1, <2>2, <2>3 DEF Revs
    <3>2. r < atRev[p] \/ r = atRev[p]
      BY <1>2, <2>3, <3>1 DEF Revs
    <3> QED BY <2>1, <3>1, <3>2 DEF ListState
  <2> QED BY <1>1, <2>1, <2>3 DEF ListState
<1> QED BY <1>3, <1>4, <1>5, <1>6, <1>7, <1>9, <1>10, ReadersOnlyRead

\* What a listing knows outlives every step of the others.
LEMMA ListKept ==
  ASSUME NEW p \in Procs, ListState(p), TInv,
         \A r \in Revs : /\ json[r] \in Contents => json'[r] = json[r]
                         /\ side[r] \in Contents => side'[r] = side[r],
         pc'[p] = pc[p] \/ pc'[p] \notin ReadSteps \cup {"cleanside", "cleanjson"},
         pc'[p] = pc[p] => atRev'[p] = atRev[p] /\ bytes'[p] = bytes[p],
         outcome'[p] = "listed" => outcome[p] = "listed",
         upto'[p] = upto[p]
  PROVE  ListState(p)'
<1>1. \A r \in Revs : Complete(r) => Complete(r)'
  BY DEF Complete
<1>2. pc[p] = "readside" => atRev[p] \in Revs
  BY DEF TInv, RequestKind
<1>3. pc'[p] = pc[p] /\ pc[p] = "readside" /\ bytes[p] \in Contents =>
        json'[atRev[p]] = bytes[p]
  BY <1>2 DEF ListState
<1>4. pc'[p] \notin {"cleanside", "cleanjson"}
  BY DEF ListState
<1>5. pc'[p] \in {"entries", "names", "readjson", "readside"} => pc'[p] = pc[p]
  BY DEF ReadSteps
<1> QED BY <1>1, <1>3, <1>4, <1>5 DEF ListState

LEMMA ListStep ==
  ASSUME LInv, NEW p \in Procs, Step(p)
  PROVE  LInv'
<1> SUFFICES ASSUME ioErrors' = 0, NEW q \in Procs PROVE ListState(q)'
  BY IStep DEF LInv
<1>1. TInv /\ WInv
  BY DEF LInv, IInv, WInv
<1>2. ~Fail(p)
  <2>1. Fail(p) => ioErrors' = ioErrors + 1
    BY DEF Fail, AcquireLockFails, ReleaseLockFails, WritePairFails, RemoveFails, PublishFails,
           RemoveTemporaryFails, ReadFails, IOError
  <2>2. ioErrors \in 0 .. MaxIOErrors
    BY <1>1 DEF TInv, TypeOK
  <2> QED BY <2>1, <2>2, ConstantsAssumption
<1>3. ioErrors = 0
  <2>1. ioErrors' = ioErrors
    <3>1. CASE Call(p)
      BY <3>1 DEF Call, NoFault
    <3>2. CASE Crash(p)
      BY <3>2 DEF Crash
    <3>3. CASE Run(p)
      BY <3>3 DEF Run, NoFault, EnsureDirectory, MakeDirectory, CheckDirectoryChain, AcquireLock,
         ReleaseLock, CheckWrite, OpenJson, FillJson, OpenSide, FillSide, SyncSide, RemoveSide,
         RemoveJson, VerifyWrite, CheckSelection, OpenTemporary, ReplaceCurrent,
         RemoveTemporary, VerifySelection, ReadEntries, ReadEntriesEnds, ReadNames,
         ReadNamesEnds, ReadJson, ReadOn, ReadReturns
    <3> QED BY <1>2, <3>1, <3>2, <3>3 DEF Step
  <2> QED BY <2>1
<1>4. ListState(p) /\ ListState(q)
  BY <1>3 DEF LInv
<1>5. \A r \in Revs : /\ json[r] \in Contents => json'[r] = json[r]
                      /\ side[r] \in Contents => side'[r] = side[r]
  BY <1>1, <1>2, <1>4, ContentStays DEF ListState
<1>6. CASE q # p
  <2>1. /\ pc'[q] = pc[q] /\ outcome'[q] = outcome[q]
        /\ atRev'[q] = atRev[q] /\ bytes'[q] = bytes[q] /\ upto'[q] = upto[q]
    BY <1>1, <1>6, Frame DEF TInv
  <2> QED BY <1>1, <1>4, <1>5, <2>1, ListKept
<1>7. CASE q = p
  <2>1. CASE Call(p)
    <3>1. /\ upto'[p] = 0 /\ outcome'[p] = "none"
          /\ pc'[p] \in {"ensure", "chain", "entries"}
      BY <1>1, <2>1 DEF Call, TInv, TypeOK, Goto
    <3> QED BY <1>7, <3>1 DEF ListState
  <2>2. CASE Crash(p)
    <3>1. pc'[p] = "idle" /\ outcome'[p] = "crashed"
      BY <1>1, <2>2 DEF Crash, Return, Goto, TInv, TypeOK
    <3> QED BY <1>7, <3>1 DEF ListState
  <2>3. CASE Run(p) /\ pc[p] \in ReadSteps
    BY <1>1, <1>4, <1>7, <2>3, ListReads
  <2>4. CASE Run(p) /\ pc[p] \notin ReadSteps
    <3>1. /\ pc'[p] \notin ReadSteps
          /\ outcome'[p] = "listed" => outcome[p] = "listed"
          /\ upto' = upto
          /\ pc'[p] \notin {"cleanside", "cleanjson"}
      BY <1>1, <1>4, <2>4, NotListing DEF ListState
    <3>2. \A r \in Revs : Complete(r) => Complete(r)'
      BY <1>5 DEF Complete
    <3> QED BY <1>4, <1>7, <3>1, <3>2 DEF ListState, ReadSteps
  <2> QED BY <1>2, <2>1, <2>2, <2>3, <2>4 DEF Step
<1> QED BY <1>6, <1>7

LEMMA ListInit == Init => LInv
<1> SUFFICES ASSUME Init PROVE LInv
  OBVIOUS
<1>1. \A p \in Procs : ListState(p)
  BY DEF Init, ListState
<1> QED BY <1>1, IInit DEF LInv

LEMMA ListBox == LInv /\ [Next]_vars => LInv'
<1> SUFFICES ASSUME LInv, [Next]_vars PROVE LInv'
  OBVIOUS
<1>1. CASE UNCHANGED vars
  <2>1. IInv'
    BY <1>1, IStutter DEF LInv
  <2> QED BY <1>1, <2>1 DEF LInv, ListState, Complete, vars, files, procs, reads
<1> QED BY <1>1, ListStep DEF Next, Step

\* As long as no system call failed, every revision an unlocked listing returned is a
\* verified pair, and stays one even when its writer is killed.
THEOREM ListedSafe == Spec => []ListedDurable
<1>1. LInv => ListedDurable
  <2> SUFFICES ASSUME LInv, ioErrors = 0, NEW p \in Procs, outcome[p] = "listed",
                      NEW r \in 1 .. upto[p]
               PROVE  Complete(r)
    BY DEF ListedDurable
  <2>1. upto[p] \in 0 .. MaxRev
    BY DEF LInv, IInv, WInv, TInv, TypeOK
  <2>2. r \in Revs /\ r <= upto[p]
    BY <2>1, ConstantsAssumption DEF Revs
  <2> QED BY <2>2 DEF LInv, ListState
<1> QED BY <1>1, ListInit, ListBox, PTL DEF Spec

-----------------------------------------------------------------------------
(* Every call ends.                                                         *)

\* The steps a call at this step has left, at most.  Writers and selectors are numbered
\* along their ways; a reader may read every revision, two files each, after it listed
\* them.
Left(step, at, listed) ==
  CASE step = "idle" -> 0
    [] step = "unlock" -> 1
    [] step \in {"cleanjson", "cleantemp", "verify", "verifysel"} -> 2
    [] step \in {"cleanside", "replace"} -> 3
    [] step \in {"sync", "opentemp"} -> 4
    [] step = "fillside" -> 5
    [] step = "openside" -> 6
    [] step = "filljson" -> 7
    [] step = "openjson" -> 8
    [] step \in {"check", "cas"} -> 9
    [] step = "lock" -> 10
    [] step \in {"mkdir", "chain"} -> 11
    [] step = "ensure" -> 12
    [] step = "entries" -> 2 * MaxRev + 4
    [] step = "names" -> 2 * MaxRev + 1
    [] step = "readjson" -> IF listed THEN 2 * (MaxRev - at) + 2 ELSE 2 * MaxRev + 3
    [] step = "readside" -> IF listed THEN 2 * (MaxRev - at) + 1 ELSE 2 * MaxRev + 2

StepsLeft(p) == Left(pc[p], atRev[p], upto[p] # 0)

LEMMA LeftType ==
  ASSUME NEW step \in Steps, NEW at \in 0 .. MaxRev, NEW listed \in BOOLEAN
  PROVE  Left(step, at, listed) \in Nat /\ (step # "idle" => Left(step, at, listed) > 0)
<1>1. /\ 2 * MaxRev + 1 \in Nat \ {0} /\ 2 * MaxRev + 2 \in Nat \ {0}
      /\ 2 * MaxRev + 3 \in Nat \ {0} /\ 2 * MaxRev + 4 \in Nat \ {0}
      /\ 2 * (MaxRev - at) + 1 \in Nat \ {0} /\ 2 * (MaxRev - at) + 2 \in Nat \ {0}
  BY ConstantsAssumption
<1>2. CASE step \in {"readjson", "readside", "entries", "names"}
  <2>1. Left(step, at, listed) \in
          {2 * MaxRev + 1, 2 * MaxRev + 2, 2 * MaxRev + 3, 2 * MaxRev + 4,
           2 * (MaxRev - at) + 1, 2 * (MaxRev - at) + 2}
    BY <1>2, Zenon DEF Left
  <2>2. Left(step, at, listed) \in Nat \ {0}
    BY <1>1, <2>1
  <2> QED BY <2>2
<1>4. CASE step \in WriteSteps \cup SelectSteps \cup {"lock", "unlock"}
  <2>1. Left(step, at, listed) \in 1 .. 12
    BY <1>4 DEF Left, WriteSteps, SelectSteps
  <2> QED BY <2>1
<1>5. CASE step = "idle"
  BY <1>5 DEF Left
<1> QED BY <1>2, <1>4, <1>5 DEF Steps, ReadSteps

\* A step that returns, and one that releases the lock next, end the call.
LEMMA EndsLower ==
  ASSUME TypeOK, NEW p \in Procs,
         \/ pc[p] # "idle" /\ pc'[p] = "idle"
         \/ pc[p] \in LockedSteps \ {"unlock"} /\ pc'[p] = "unlock"
  PROVE  StepsLeft(p)' < StepsLeft(p)
<1>1. StepsLeft(p) \in Nat /\ (pc[p] # "idle" => StepsLeft(p) > 0)
  BY LeftType DEF StepsLeft, TypeOK
<1>2. CASE pc'[p] = "idle"
  BY <1>1, <1>2 DEF StepsLeft, Left
<1>3. CASE pc[p] \in LockedSteps \ {"unlock"} /\ pc'[p] = "unlock"
  BY <1>3 DEF StepsLeft, Left, LockedSteps
<1> QED BY <1>2, <1>3

LEMMA WritersLower ==
  ASSUME TypeOK, NEW p \in Procs,
         \/ EnsureDirectory(p) \/ MakeDirectory(p) \/ CheckDirectoryChain(p)
         \/ AcquireLock(p) \/ ReleaseLock(p) \/ CheckWrite(p) \/ OpenJson(p) \/ FillJson(p)
         \/ OpenSide(p) \/ FillSide(p) \/ SyncSide(p) \/ RemoveSide(p) \/ RemoveJson(p)
         \/ VerifyWrite(p)
  PROVE  StepsLeft(p)' < StepsLeft(p)
<1>1. pc \in [Procs -> Steps]
  BY DEF TypeOK
<1> USE DEF Goto, Return, Leave, LockedSteps
<1>2. CASE EnsureDirectory(p) \/ MakeDirectory(p) \/ CheckDirectoryChain(p)
  BY <1>1, <1>2, EndsLower DEF EnsureDirectory, MakeDirectory, CheckDirectoryChain, StepsLeft, Left
<1>3. CASE AcquireLock(p) \/ ReleaseLock(p)
  BY <1>1, <1>3, EndsLower DEF AcquireLock, ReleaseLock, StepsLeft, Left
<1>4. CASE CheckWrite(p)
  BY <1>1, <1>4, EndsLower DEF CheckWrite, StepsLeft, Left
<1>5. CASE OpenJson(p) \/ FillJson(p) \/ OpenSide(p) \/ FillSide(p) \/ SyncSide(p)
  BY <1>1, <1>5 DEF OpenJson, FillJson, OpenSide, FillSide, SyncSide, StepsLeft, Left
<1>6. CASE RemoveSide(p) \/ RemoveJson(p) \/ VerifyWrite(p)
  BY <1>1, <1>6, EndsLower DEF RemoveSide, RemoveJson, VerifyWrite, StepsLeft, Left
<1> QED BY <1>2, <1>3, <1>4, <1>5, <1>6

LEMMA SelectorsLower ==
  ASSUME TypeOK, NEW p \in Procs,
         \/ CheckSelection(p) \/ OpenTemporary(p) \/ ReplaceCurrent(p) \/ RemoveTemporary(p)
         \/ VerifySelection(p)
  PROVE  StepsLeft(p)' < StepsLeft(p)
<1>1. pc \in [Procs -> Steps]
  BY DEF TypeOK
<1> USE DEF Goto, Leave, LockedSteps
<1>2. CASE CheckSelection(p)
  BY <1>1, <1>2, EndsLower DEF CheckSelection, StepsLeft, Left
<1>3. CASE OpenTemporary(p) \/ ReplaceCurrent(p)
  BY <1>1, <1>3 DEF OpenTemporary, ReplaceCurrent, StepsLeft, Left
<1>4. CASE RemoveTemporary(p) \/ VerifySelection(p)
  BY <1>1, <1>4, EndsLower DEF RemoveTemporary, VerifySelection, StepsLeft, Left
<1> QED BY <1>2, <1>3, <1>4

LEMMA FailuresLower ==
  ASSUME TypeOK, NEW p \in Procs, Fail(p) \/ Crash(p)
  PROVE  StepsLeft(p)' < StepsLeft(p)
<1>1. pc \in [Procs -> Steps]
  BY DEF TypeOK
<1> USE DEF Goto, Return, Leave, LockedSteps
<1>2. CASE AcquireLockFails(p) \/ ReleaseLockFails(p) \/ Crash(p)
  BY <1>1, <1>2, EndsLower DEF AcquireLockFails, ReleaseLockFails, Crash
<1>3. CASE WritePairFails(p)
  BY <1>1, <1>3, EndsLower DEF WritePairFails, StepsLeft, Left
<1>4. CASE RemoveFails(p) \/ PublishFails(p)
  BY <1>1, <1>4, EndsLower DEF RemoveFails, PublishFails, StepsLeft, Left
<1>5. CASE RemoveTemporaryFails(p) \/ ReadFails(p)
  BY <1>1, <1>5, EndsLower DEF RemoveTemporaryFails, ReadFails
<1> QED BY <1>2, <1>3, <1>4, <1>5 DEF Fail

LEMMA ReadersLower ==
  ASSUME TypeOK, NEW p \in Procs,
         \/ ReadEntries(p) \/ ReadEntriesEnds(p) \/ ReadNames(p) \/ ReadNamesEnds(p)
         \/ ReadJson(p) \/ ReadOn(p) \/ ReadReturns(p)
  PROVE  StepsLeft(p)' < StepsLeft(p)
<1>1. /\ pc \in [Procs -> Steps] /\ atRev \in [Procs -> 0 .. MaxRev]
      /\ upto \in [Procs -> 0 .. MaxRev] /\ MaxRev \in Nat
  BY ConstantsAssumption DEF TypeOK
<1> USE DEF Goto, Return
<1>2. CASE ReadEntriesEnds(p) \/ ReadNamesEnds(p) \/ ReadReturns(p)
  BY <1>1, <1>2, EndsLower DEF ReadEntriesEnds, ReadNamesEnds, ReadReturns
<1>3. CASE ReadEntries(p)
  <2>1. /\ pc[p] = "entries" /\ pc'[p] \in {"names", "readjson"} /\ upto' = upto
    BY <1>1, <1>3 DEF ReadEntries
  <2>2. atRev'[p] \in 0 .. MaxRev
    <3>1. current.rev \in 0 .. MaxRev
      BY <1>1 DEF TypeOK, Pointers, NoPointer, Revs
    <3>2. 1 \in 0 .. MaxRev
      BY ConstantsAssumption
    <3> QED BY <1>1, <1>3, <3>1, <3>2 DEF ReadEntries
  <2> QED BY <1>1, <2>1, <2>2 DEF StepsLeft, Left
<1>4. CASE ReadNames(p)
  BY <1>1, <1>4 DEF ReadNames, StepsLeft, Left, Revs
<1>5. CASE ReadJson(p)
  BY <1>1, <1>5, EndsLower DEF ReadJson, StepsLeft, Left
<1>6. CASE ReadOn(p)
  BY <1>1, <1>6 DEF ReadOn, StepsLeft, Left
<1> QED BY <1>2, <1>3, <1>4, <1>5, <1>6

\* A write ends within 12 steps of its own, a selection within 11, a reader's call within
\* 2 * MaxRev + 4, whatever the other calls, the failures and the crashes around it do:
\* each of its steps lowers the number that is left, and nobody else's does.
THEOREM CallsAreFinite ==
  Spec => [][\A p \in Procs :
               /\ Call(p) => StepsLeft(p)' \in {12, 11, 2 * MaxRev + 4}
               /\ Run(p) \/ Fail(p) \/ Crash(p) => StepsLeft(p)' \in 0 .. StepsLeft(p) - 1
               /\ ~Step(p) => StepsLeft(p)' = StepsLeft(p)]_vars
<1> DEFINE Counts(p) ==
      /\ Call(p) => StepsLeft(p)' \in {12, 11, 2 * MaxRev + 4}
      /\ Run(p) \/ Fail(p) \/ Crash(p) => StepsLeft(p)' \in 0 .. StepsLeft(p) - 1
      /\ ~Step(p) => StepsLeft(p)' = StepsLeft(p)
<1>1. TypeOK /\ TypeOK' /\ [Next]_vars => [\A p \in Procs : Counts(p)]_vars
  <2> SUFFICES ASSUME TypeOK, TypeOK', Next, NEW p \in Procs PROVE Counts(p)
    OBVIOUS
  <2>1. ASSUME Call(p) PROVE StepsLeft(p)' \in {12, 11, 2 * MaxRev + 4}
    <3>1. pc'[p] \in {"ensure", "chain", "entries"}
      BY <2>1 DEF TypeOK, Call, Goto
    <3> QED BY <3>1 DEF StepsLeft, Left
  <2>2. ASSUME Run(p) \/ Fail(p) \/ Crash(p) PROVE StepsLeft(p)' \in 0 .. StepsLeft(p) - 1
    <3>1. StepsLeft(p)' < StepsLeft(p)
      BY <2>2, WritersLower, SelectorsLower, ReadersLower, FailuresLower DEF Run
    <3>2. StepsLeft(p) \in Nat /\ StepsLeft(p)' \in Nat
      BY LeftType DEF StepsLeft, TypeOK
    <3> QED BY <3>1, <3>2
  <2>3. ASSUME ~Step(p) PROVE StepsLeft(p)' = StepsLeft(p)
    <3>1. PICK q \in Procs : Step(q)
      BY DEF Next, Step
    <3>2. pc'[p] = pc[p] /\ atRev'[p] = atRev[p] /\ upto'[p] = upto[p]
      BY <2>3, <3>1, Frame
    <3> QED BY <3>2 DEF StepsLeft, Left
  <2> QED BY <2>1, <2>2, <2>3
<1> QED BY <1>1, TypeCorrect, PTL DEF Spec
=================================================================================

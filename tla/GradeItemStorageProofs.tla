------------------------- MODULE GradeItemStorageProofs -------------------------
(* Machine-checked proofs about GradeItemStorage, for every value of its constants. *)
EXTENDS GradeItemStorage, TLAPS

Step(p) == Call(p) \/ Run(p) \/ Fail(p) \/ Crash(p)

-----------------------------------------------------------------------------
(* Types: TypeOK becomes inductive with the kind of request of each step. *)

RequestKind(p) ==
  /\ pc[p] \in WriteSteps => req[p] \in WriteRequests
  /\ pc[p] \in SelectSteps => req[p] \in SelectRequests
  /\ pc[p] \in ReadSteps => req[p] \in ReadRequests
  /\ pc[p] = "lock" => req[p] \in WriteRequests \cup SelectRequests
  /\ pc[p] \in ReadSteps => outcome[p] = "none"
  /\ pc[p] = "names" => req[p].op # "load"
  /\ pc[p] \in {"readjson", "readside"} => atRev[p] \in Revs
  /\ pc[p] \in {"opentemp", "replace", "cleantemp", "verifysel"} =>
       atRev[p] \in Revs /\ digest[p] \in Contents
  /\ outcome[p] \in {"created", "existing", "updated"} =>
       req[p] \in WriteRequests \cup SelectRequests
  /\ outcome[p] = "loaded" => req[p].op = "load" /\ atRev[p] \in Revs

TInv == TypeOK /\ \A p \in Procs : RequestKind(p)

LEMMA TInit == Init => TInv
<1>. SUFFICES ASSUME Init PROVE TInv
  OBVIOUS
<1> USE ConstantsAssumption DEF Init
<1>1. TypeOK
  <2>1. req \in [Procs -> Requests]
    BY DEF Requests, ReadRequests
  <2>2. json \in [Revs -> FileStates] /\ side \in [Revs -> FileStates]
    BY DEF FileStates
  <2>3. pc \in [Procs -> Steps] /\ outcome \in [Procs -> Outcomes]
    BY DEF Steps, Outcomes
  <2>4. bytes \in [Procs -> FileStates] /\ digest \in [Procs -> FileStates]
    BY DEF FileStates
  <2>5. /\ atRev \in [Procs -> 0 .. MaxRev] /\ upto \in [Procs -> 0 .. MaxRev]
        /\ crashes \in 0 .. MaxCrashes /\ ioErrors \in 0 .. MaxIOErrors
    OBVIOUS
  <2>. QED BY <2>1, <2>2, <2>3, <2>4, <2>5 DEF TypeOK
<1>2. ASSUME NEW p \in Procs PROVE RequestKind(p)
  BY DEF RequestKind, WriteSteps, SelectSteps, ReadSteps
<1>. QED BY <1>1, <1>2 DEF TInv

LEMMA IOErrorType ==
  ASSUME TypeOK, IOError PROVE ioErrors' \in 0 .. MaxIOErrors /\ crashes' \in 0 .. MaxCrashes
BY ConstantsAssumption DEF TypeOK, IOError

LEMMA ReadsType ==
  ASSUME TInv, NEW p \in Procs, CheckSelection(p) \/ ReadEntries(p) \/ ReadOn(p)
  PROVE  atRev' \in [Procs -> 0 .. MaxRev] /\ digest' \in [Procs -> FileStates]
<1>1. /\ atRev \in [Procs -> 0 .. MaxRev] /\ digest \in [Procs -> FileStates]
      /\ upto \in [Procs -> 0 .. MaxRev] /\ json \in [Revs -> FileStates]
  BY DEF TInv, TypeOK
<1>2. CASE CheckSelection(p)
  <2>1. req[p].rev \in Revs
    BY <1>2 DEF TInv, RequestKind, CheckSelection, SelectRequests, SelectSteps
  <2>2. req[p].rev \in 0 .. MaxRev /\ json[req[p].rev] \in FileStates
    BY <1>1, <2>1, ConstantsAssumption DEF Revs
  <2>3. \/ /\ atRev' = [atRev EXCEPT ![p] = req[p].rev]
           /\ digest' = [digest EXCEPT ![p] = json[req[p].rev]]
        \/ atRev' = atRev /\ digest' = digest
    BY <1>2 DEF CheckSelection
  <2>. QED BY <1>1, <2>2, <2>3
<1>3. CASE ReadEntries(p)
  <2>1. current # NoPointer => current.rev \in 0 .. MaxRev /\ current.sha \in FileStates
    BY ConstantsAssumption DEF TInv, TypeOK, Pointers, Revs, FileStates
  <2>2. \/ /\ current # NoPointer
           /\ atRev' = [atRev EXCEPT ![p] = current.rev]
           /\ digest' = [digest EXCEPT ![p] = current.sha]
        \/ atRev' = [atRev EXCEPT ![p] = 1] /\ digest' = digest
        \/ atRev' = atRev /\ digest' = digest
    BY <1>3 DEF ReadEntries
  <2>3. 1 \in 0 .. MaxRev
    BY ConstantsAssumption
  <2>. QED BY <1>1, <2>1, <2>2, <2>3
<1>4. CASE ReadOn(p)
  <2>1. \/ atRev' = atRev
        \/ atRev[p] < upto[p] /\ atRev' = [atRev EXCEPT ![p] = atRev[p] + 1]
    BY <1>4 DEF ReadOn
  <2>2. atRev[p] < upto[p] => atRev[p] + 1 \in 0 .. MaxRev
    BY <1>1, ConstantsAssumption
  <2>3. digest' = digest
    BY <1>4 DEF ReadOn
  <2>. QED BY <1>1, <2>1, <2>2, <2>3
<1>. QED BY <1>2, <1>3, <1>4

LEMMA Frame ==
  ASSUME TypeOK, NEW p \in Procs, Step(p), NEW q \in Procs, q # p
  PROVE  /\ pc'[q] = pc[q] /\ req'[q] = req[q] /\ outcome'[q] = outcome[q]
         /\ atRev'[q] = atRev[q] /\ bytes'[q] = bytes[q]
         /\ digest'[q] = digest[q] /\ upto'[q] = upto[q]
<1> USE DEF TypeOK, reads, procs, Goto, Return, Leave
<1>1. CASE Call(p)
  BY <1>1 DEF Call
<1>2. CASE Crash(p)
  BY <1>2 DEF Crash
<1>3. CASE Fail(p)
  <2>1. CASE AcquireLockFails(p)
    BY <2>1 DEF AcquireLockFails
  <2>2. CASE ReleaseLockFails(p)
    BY <2>2 DEF ReleaseLockFails
  <2>3. CASE WritePairFails(p)
    BY <2>3 DEF WritePairFails
  <2>4. CASE RemoveFails(p)
    BY <2>4 DEF RemoveFails
  <2>5. CASE PublishFails(p)
    BY <2>5 DEF PublishFails
  <2>6. CASE RemoveTemporaryFails(p)
    BY <2>6 DEF RemoveTemporaryFails
  <2>7. CASE ReadFails(p)
    BY <2>7 DEF ReadFails
  <2>. QED BY <1>3, <2>1, <2>2, <2>3, <2>4, <2>5, <2>6, <2>7 DEF Fail
<1>4. CASE Run(p)
  <2>1. CASE EnsureDirectory(p)
    BY <2>1 DEF EnsureDirectory
  <2>2. CASE MakeDirectory(p)
    BY <2>2 DEF MakeDirectory
  <2>3. CASE CheckDirectoryChain(p)
    BY <2>3 DEF CheckDirectoryChain
  <2>4. CASE AcquireLock(p)
    BY <2>4 DEF AcquireLock
  <2>5. CASE ReleaseLock(p)
    BY <2>5 DEF ReleaseLock
  <2>6. CASE CheckWrite(p)
    BY <2>6 DEF CheckWrite
  <2>7. CASE OpenJson(p)
    BY <2>7 DEF OpenJson
  <2>8. CASE FillJson(p)
    BY <2>8 DEF FillJson
  <2>9. CASE OpenSide(p)
    BY <2>9 DEF OpenSide
  <2>10. CASE FillSide(p)
    BY <2>10 DEF FillSide
  <2>11. CASE SyncSide(p)
    BY <2>11 DEF SyncSide
  <2>12. CASE RemoveSide(p)
    BY <2>12 DEF RemoveSide
  <2>13. CASE RemoveJson(p)
    BY <2>13 DEF RemoveJson
  <2>14. CASE VerifyWrite(p)
    BY <2>14 DEF VerifyWrite
  <2>15. CASE CheckSelection(p)
    BY <2>15 DEF CheckSelection
  <2>16. CASE OpenTemporary(p)
    BY <2>16 DEF OpenTemporary
  <2>17. CASE ReplaceCurrent(p)
    BY <2>17 DEF ReplaceCurrent
  <2>18. CASE RemoveTemporary(p)
    BY <2>18 DEF RemoveTemporary
  <2>19. CASE VerifySelection(p)
    BY <2>19 DEF VerifySelection
  <2>20. CASE ReadEntries(p)
    BY <2>20 DEF ReadEntries
  <2>21. CASE ReadEntriesEnds(p)
    BY <2>21 DEF ReadEntriesEnds
  <2>22. CASE ReadNames(p)
    BY <2>22 DEF ReadNames
  <2>23. CASE ReadNamesEnds(p)
    BY <2>23 DEF ReadNamesEnds
  <2>24. CASE ReadJson(p)
    BY <2>24 DEF ReadJson
  <2>25. CASE ReadOn(p)
    BY <2>25 DEF ReadOn
  <2>26. CASE ReadReturns(p)
    BY <2>26 DEF ReadReturns
  <2>. QED BY <1>4, <2>1, <2>2, <2>3, <2>4, <2>5, <2>6, <2>7, <2>8, <2>9, <2>10, <2>11, <2>12, <2>13, <2>14, <2>15, <2>16, <2>17, <2>18, <2>19, <2>20, <2>21, <2>22, <2>23, <2>24, <2>25, <2>26 DEF Run
<1>. QED BY <1>1, <1>2, <1>3, <1>4 DEF Step

LEMMA TypeStep ==
  ASSUME TInv, NEW p \in Procs, Step(p)
  PROVE  TypeOK'
<1> USE ConstantsAssumption
<1> USE DEF TInv, TypeOK, RequestKind, files, reads, procs, Goto, Return, Leave,
            NoFault, FileStates, Revs, Steps, WriteSteps, SelectSteps, ReadSteps, Outcomes
<1>1. CASE Call(p)
  BY <1>1 DEF Call
<1>2. CASE Crash(p)
  BY <1>2 DEF Crash
<1>3. CASE Fail(p)
  <2>1. CASE AcquireLockFails(p)
    BY <2>1, IOErrorType DEF AcquireLockFails
  <2>2. CASE ReleaseLockFails(p)
    BY <2>2, IOErrorType DEF ReleaseLockFails
  <2>3. CASE WritePairFails(p)
    <3>1. CASE pc[p] = "openjson"
      BY <2>3, <3>1, IOErrorType DEF WritePairFails
    <3>2. CASE pc[p] = "filljson"
      BY <2>3, <3>2, IOErrorType DEF WritePairFails, WriteRequests
    <3>3. CASE pc[p] \in {"openside", "fillside", "sync"}
      BY <2>3, <3>3, IOErrorType DEF WritePairFails
    <3>. QED BY <2>3, <3>1, <3>2, <3>3 DEF WritePairFails
  <2>4. CASE RemoveFails(p)
    <3>1. CASE pc[p] = "cleanside"
      BY <2>4, <3>1, IOErrorType DEF RemoveFails
    <3>2. CASE pc[p] = "cleanjson"
      BY <2>4, <3>2, IOErrorType DEF RemoveFails
    <3>. QED BY <2>4, <3>1, <3>2 DEF RemoveFails
  <2>5. CASE PublishFails(p)
    <3>1. CASE pc[p] = "opentemp"
      BY <2>5, <3>1, IOErrorType DEF PublishFails
    <3>2. CASE pc[p] = "replace"
      BY <2>5, <3>2, IOErrorType DEF PublishFails
    <3>. QED BY <2>5, <3>1, <3>2 DEF PublishFails
  <2>6. CASE RemoveTemporaryFails(p)
    BY <2>6, IOErrorType DEF RemoveTemporaryFails
  <2>7. CASE ReadFails(p)
    BY <2>7, IOErrorType DEF ReadFails
  <2>. QED BY <1>3, <2>1, <2>2, <2>3, <2>4, <2>5, <2>6, <2>7 DEF Fail
<1>4. CASE Run(p)
  <2>1. CASE EnsureDirectory(p)
    BY <2>1 DEF EnsureDirectory
  <2>2. CASE MakeDirectory(p)
    BY <2>2 DEF MakeDirectory
  <2>3. CASE CheckDirectoryChain(p)
    BY <2>3 DEF CheckDirectoryChain
  <2>4. CASE AcquireLock(p)
    BY <2>4 DEF AcquireLock
  <2>5. CASE ReleaseLock(p)
    BY <2>5 DEF ReleaseLock
  <2>6. CASE CheckWrite(p)
    BY <2>6 DEF CheckWrite, WriteVerdict
  <2>7. CASE OpenJson(p)
    BY <2>7 DEF OpenJson
  <2>8. CASE FillJson(p)
    BY <2>8 DEF FillJson, WriteRequests
  <2>9. CASE OpenSide(p)
    BY <2>9 DEF OpenSide
  <2>10. CASE FillSide(p)
    BY <2>10 DEF FillSide, WriteRequests
  <2>11. CASE SyncSide(p)
    BY <2>11 DEF SyncSide
  <2>12. CASE RemoveSide(p)
    BY <2>12 DEF RemoveSide
  <2>13. CASE RemoveJson(p)
    BY <2>13 DEF RemoveJson
  <2>14. CASE VerifyWrite(p)
    BY <2>14 DEF VerifyWrite
  <2>15. CASE CheckSelection(p)
    <3>1. pc' \in [Procs -> Steps] /\ outcome' \in [Procs -> Outcomes]
      BY <2>15 DEF CheckSelection, SelectVerdict
    <3>. QED BY <2>15, <3>1, ReadsType DEF CheckSelection
  <2>16. CASE OpenTemporary(p)
    BY <2>16 DEF OpenTemporary
  <2>17. CASE ReplaceCurrent(p)
    BY <2>17 DEF ReplaceCurrent, Selection, Pointers
  <2>18. CASE RemoveTemporary(p)
    BY <2>18 DEF RemoveTemporary
  <2>19. CASE VerifySelection(p)
    BY <2>19 DEF VerifySelection
  <2>20. CASE ReadEntries(p)
    <3>1. pc' \in [Procs -> Steps]
      BY <2>20 DEF ReadEntries
    <3>. QED BY <2>20, <3>1, ReadsType DEF ReadEntries
  <2>21. CASE ReadEntriesEnds(p)
    BY <2>21 DEF ReadEntriesEnds
  <2>22. CASE ReadNames(p)
    BY <2>22 DEF ReadNames
  <2>23. CASE ReadNamesEnds(p)
    BY <2>23 DEF ReadNamesEnds
  <2>24. CASE ReadJson(p)
    <3>1. atRev[p] \in Revs
      BY <2>24 DEF ReadJson
    <3>2. json[atRev[p]] \in FileStates
      BY <3>1
    <3>3. bytes' \in [Procs -> FileStates]
      BY <2>24, <3>2 DEF ReadJson
    <3>. QED BY <2>24, <3>3 DEF ReadJson
  <2>25. CASE ReadOn(p)
    <3>1. pc' \in [Procs -> Steps]
      BY <2>25 DEF ReadOn
    <3>. QED BY <2>25, <3>1, ReadsType DEF ReadOn
  <2>26. CASE ReadReturns(p)
    BY <2>26 DEF ReadReturns
  <2>. QED BY <1>4, <2>1, <2>2, <2>3, <2>4, <2>5, <2>6, <2>7, <2>8, <2>9, <2>10, <2>11, <2>12, <2>13, <2>14, <2>15, <2>16, <2>17, <2>18, <2>19, <2>20, <2>21, <2>22, <2>23, <2>24, <2>25, <2>26 DEF Run
<1>. QED BY <1>1, <1>2, <1>3, <1>4 DEF Step

LEMMA KindStep ==
  ASSUME TInv, NEW p \in Procs, Step(p)
  PROVE  RequestKind(p)'
<1> USE ConstantsAssumption
<1> USE DEF TInv, TypeOK, RequestKind, files, reads, procs, Goto, Return, Leave,
            WriteSteps, SelectSteps, ReadSteps
<1>1. CASE Call(p)
  BY <1>1 DEF Call, Requests, WriteRequests, SelectRequests, ReadRequests
<1>2. CASE Crash(p)
  BY <1>2 DEF Crash
<1>3. CASE Fail(p)
  <2>1. CASE AcquireLockFails(p)
    BY <2>1 DEF AcquireLockFails
  <2>2. CASE ReleaseLockFails(p)
    BY <2>2 DEF ReleaseLockFails
  <2>3. CASE WritePairFails(p)
    BY <2>3 DEF WritePairFails
  <2>4. CASE RemoveFails(p)
    BY <2>4 DEF RemoveFails
  <2>5. CASE PublishFails(p)
    BY <2>5 DEF PublishFails
  <2>6. CASE RemoveTemporaryFails(p)
    BY <2>6 DEF RemoveTemporaryFails
  <2>7. CASE ReadFails(p)
    BY <2>7 DEF ReadFails
  <2>. QED BY <1>3, <2>1, <2>2, <2>3, <2>4, <2>5, <2>6, <2>7 DEF Fail
<1>4. CASE Run(p)
  <2>1. CASE EnsureDirectory(p)
    BY <2>1 DEF EnsureDirectory
  <2>2. CASE MakeDirectory(p)
    BY <2>2 DEF MakeDirectory
  <2>3. CASE CheckDirectoryChain(p)
    BY <2>3 DEF CheckDirectoryChain
  <2>4. CASE AcquireLock(p)
    BY <2>4 DEF AcquireLock, WriteRequests, SelectRequests
  <2>5. CASE ReleaseLock(p)
    BY <2>5 DEF ReleaseLock
  <2>6. CASE CheckWrite(p)
    BY <2>6 DEF CheckWrite, WriteVerdict, WriteRequests, SelectRequests
  <2>7. CASE OpenJson(p)
    BY <2>7 DEF OpenJson
  <2>8. CASE FillJson(p)
    BY <2>8 DEF FillJson
  <2>9. CASE OpenSide(p)
    BY <2>9 DEF OpenSide
  <2>10. CASE FillSide(p)
    BY <2>10 DEF FillSide
  <2>11. CASE SyncSide(p)
    BY <2>11 DEF SyncSide
  <2>12. CASE RemoveSide(p)
    BY <2>12 DEF RemoveSide
  <2>13. CASE RemoveJson(p)
    BY <2>13 DEF RemoveJson
  <2>14. CASE VerifyWrite(p)
    BY <2>14 DEF VerifyWrite
  <2>15. CASE CheckSelection(p)
    BY <2>15 DEF CheckSelection, SelectVerdict, Complete, SelectRequests, WriteRequests, Revs
  <2>16. CASE OpenTemporary(p)
    BY <2>16 DEF OpenTemporary
  <2>17. CASE ReplaceCurrent(p)
    BY <2>17 DEF ReplaceCurrent
  <2>18. CASE RemoveTemporary(p)
    BY <2>18 DEF RemoveTemporary
  <2>19. CASE VerifySelection(p)
    BY <2>19 DEF VerifySelection
  <2>20. CASE ReadEntries(p)
    BY <2>20 DEF ReadEntries, Pointers, NoPointer, Revs, ReadRequests
  <2>21. CASE ReadEntriesEnds(p)
    BY <2>21 DEF ReadEntriesEnds
  <2>22. CASE ReadNames(p)
    BY <2>22 DEF ReadNames, Revs
  <2>23. CASE ReadNamesEnds(p)
    BY <2>23 DEF ReadNamesEnds
  <2>24. CASE ReadJson(p)
    BY <2>24 DEF ReadJson
  <2>25. CASE ReadOn(p)
    BY <2>25 DEF ReadOn, Revs
  <2>26. CASE ReadReturns(p)
    BY <2>26 DEF ReadReturns, Verified
  <2>. QED BY <1>4, <2>1, <2>2, <2>3, <2>4, <2>5, <2>6, <2>7, <2>8, <2>9, <2>10, <2>11, <2>12, <2>13, <2>14, <2>15, <2>16, <2>17, <2>18, <2>19, <2>20, <2>21, <2>22, <2>23, <2>24, <2>25, <2>26 DEF Run
<1>. QED BY <1>1, <1>2, <1>3, <1>4 DEF Step

LEMMA TStep == ASSUME TInv, NEW p \in Procs, Step(p)
               PROVE  TInv'
<1>1. TypeOK'
  BY TypeStep
<1>2. ASSUME NEW q \in Procs PROVE RequestKind(q)'
  <2>1. CASE q = p
    BY <2>1, KindStep
  <2>2. CASE q # p
    BY <2>2, Frame DEF TInv, RequestKind
  <2>. QED BY <2>1, <2>2
<1>. QED BY <1>1, <1>2 DEF TInv

-----------------------------------------------------------------------------
(* The lock: its owner is the only process that touches the item's files. *)

LEMMA LockLocal ==
  ASSUME TInv, LockDiscipline, NEW p \in Procs, Step(p)
  PROVE  /\ pc'[p] \in LockedSteps <=> lock' = p
         /\ \A q \in Procs \ {p} : lock' = q <=> lock = q
         /\ lock # p => UNCHANGED <<json, side, current, temp>>
<1> USE ConstantsAssumption
<1> USE DEF TInv, TypeOK, LockDiscipline, files, procs, Goto, Return, Leave, LockedSteps
<1>1. CASE Call(p)
  BY <1>1 DEF Call
<1>2. CASE Crash(p)
  BY <1>2 DEF Crash
<1>3. CASE Fail(p)
  <2>1. CASE AcquireLockFails(p)
    BY <2>1 DEF AcquireLockFails
  <2>2. CASE ReleaseLockFails(p)
    BY <2>2 DEF ReleaseLockFails
  <2>3. CASE WritePairFails(p)
    BY <2>3 DEF WritePairFails
  <2>4. CASE RemoveFails(p)
    BY <2>4 DEF RemoveFails
  <2>5. CASE PublishFails(p)
    BY <2>5 DEF PublishFails
  <2>6. CASE RemoveTemporaryFails(p)
    BY <2>6 DEF RemoveTemporaryFails
  <2>7. CASE ReadFails(p)
    BY <2>7 DEF ReadFails
  <2>. QED BY <1>3, <2>1, <2>2, <2>3, <2>4, <2>5, <2>6, <2>7 DEF Fail
<1>4. CASE Run(p)
  <2>1. CASE EnsureDirectory(p)
    BY <2>1 DEF EnsureDirectory
  <2>2. CASE MakeDirectory(p)
    BY <2>2 DEF MakeDirectory
  <2>3. CASE CheckDirectoryChain(p)
    BY <2>3 DEF CheckDirectoryChain
  <2>4. CASE AcquireLock(p)
    BY <2>4 DEF AcquireLock
  <2>5. CASE ReleaseLock(p)
    BY <2>5 DEF ReleaseLock
  <2>6. CASE CheckWrite(p)
    BY <2>6 DEF CheckWrite, WriteVerdict
  <2>7. CASE OpenJson(p)
    BY <2>7 DEF OpenJson
  <2>8. CASE FillJson(p)
    BY <2>8 DEF FillJson
  <2>9. CASE OpenSide(p)
    BY <2>9 DEF OpenSide
  <2>10. CASE FillSide(p)
    BY <2>10 DEF FillSide
  <2>11. CASE SyncSide(p)
    BY <2>11 DEF SyncSide
  <2>12. CASE RemoveSide(p)
    BY <2>12 DEF RemoveSide
  <2>13. CASE RemoveJson(p)
    BY <2>13 DEF RemoveJson
  <2>14. CASE VerifyWrite(p)
    BY <2>14 DEF VerifyWrite
  <2>15. CASE CheckSelection(p)
    BY <2>15 DEF CheckSelection, SelectVerdict
  <2>16. CASE OpenTemporary(p)
    BY <2>16 DEF OpenTemporary
  <2>17. CASE ReplaceCurrent(p)
    BY <2>17 DEF ReplaceCurrent
  <2>18. CASE RemoveTemporary(p)
    BY <2>18 DEF RemoveTemporary
  <2>19. CASE VerifySelection(p)
    BY <2>19 DEF VerifySelection
  <2>20. CASE ReadEntries(p)
    BY <2>20 DEF ReadEntries
  <2>21. CASE ReadEntriesEnds(p)
    BY <2>21 DEF ReadEntriesEnds
  <2>22. CASE ReadNames(p)
    BY <2>22 DEF ReadNames
  <2>23. CASE ReadNamesEnds(p)
    BY <2>23 DEF ReadNamesEnds
  <2>24. CASE ReadJson(p)
    BY <2>24 DEF ReadJson
  <2>25. CASE ReadOn(p)
    BY <2>25 DEF ReadOn
  <2>26. CASE ReadReturns(p)
    BY <2>26 DEF ReadReturns
  <2>. QED BY <1>4, <2>1, <2>2, <2>3, <2>4, <2>5, <2>6, <2>7, <2>8, <2>9, <2>10, <2>11, <2>12, <2>13, <2>14, <2>15, <2>16, <2>17, <2>18, <2>19, <2>20, <2>21, <2>22, <2>23, <2>24, <2>25, <2>26 DEF Run
<1>. QED BY <1>1, <1>2, <1>3, <1>4 DEF Step

LEMMA LockStep ==
  ASSUME TInv, LockDiscipline, NEW p \in Procs, Step(p)
  PROVE  LockDiscipline'
<1>1. ASSUME NEW q \in Procs PROVE pc'[q] \in LockedSteps <=> lock' = q
  <2>1. CASE q = p
    BY <2>1, LockLocal
  <2>2. CASE q # p
    <3>1. pc'[q] = pc[q]
      BY <2>2, Frame DEF TInv
    <3>2. lock' = q <=> lock = q
      BY <2>2, LockLocal
    <3>. QED BY <3>1, <3>2 DEF LockDiscipline
  <2>. QED BY <2>1, <2>2
<1>. QED BY <1>1 DEF LockDiscipline

-----------------------------------------------------------------------------
(* What a writer knows of its pair at every step.                           *)

WriterState(p) ==
  LET r == req[p].rev
      c == req[p].content
  IN /\ pc[p] = "openjson" => json[r] = Absent /\ side[r] = Absent
     /\ pc[p] = "filljson" => json[r] = Torn /\ side[r] = Absent
     /\ pc[p] = "openside" => json[r] = c /\ side[r] = Absent
     /\ pc[p] = "fillside" => json[r] = c /\ side[r] = Torn
     /\ pc[p] \in {"sync", "verify"} => json[r] = c /\ side[r] = c
     /\ pc[p] \in {"cleanside", "cleanjson"} => json[r] \in {Torn, c}
     /\ pc[p] \in WindowSteps =>
          /\ \A q \in Revs : q < r => Complete(q)
          /\ \A q \in Revs : q > r => json[q] = Absent
          /\ r > 1 => <<json[r - 1], c>> \in Transition

WInv == TInv /\ LockDiscipline /\ \A p \in Procs : WriterState(p)

LEMMA ProceedMeans ==
  ASSUME TInv, NEW p \in Procs, WriteVerdict(p) = "proceed", req[p] \in WriteRequests
  PROVE  /\ json[req[p].rev] = Absent /\ side[req[p].rev] = Absent
         /\ \A q \in Revs : q < req[p].rev => Complete(q)
         /\ \A q \in Revs : q > req[p].rev => json[q] = Absent
         /\ req[p].rev > 1 => <<json[req[p].rev - 1], req[p].content>> \in Transition
<1> DEFINE r == req[p].rev
<1>1. ~temp /\ json[r] = Absent /\ side[r] = Absent
  BY DEF WriteVerdict
<1>2. HistoryIs(r - 1) /\ (r > 1 => <<json[r - 1], req[p].content>> \in Transition)
  BY <1>1 DEF WriteVerdict
<1>3. r \in Revs
  BY DEF WriteRequests
<1>4. \A q \in Revs : (q < r => q <= r - 1) /\ (q > r => ~(q <= r - 1))
  BY <1>3, ConstantsAssumption DEF Revs
<1>. QED BY <1>1, <1>2, <1>4 DEF HistoryIs

LEMMA WriterLocal ==
  ASSUME WInv, NEW p \in Procs, Step(p)
  PROVE  WriterState(p)'
<1> USE ConstantsAssumption
<1> USE DEF WInv, TInv, TypeOK, RequestKind, WriterState, files, procs, Goto, Return, Leave,
            WriteSteps, WindowSteps, Complete, Revs, WriteRequests
<1>1. CASE Call(p)
  BY <1>1 DEF Call
<1>2. CASE Crash(p)
  BY <1>2 DEF Crash
<1>3. CASE Fail(p)
  <2>1. CASE AcquireLockFails(p)
    BY <2>1 DEF AcquireLockFails
  <2>2. CASE ReleaseLockFails(p)
    BY <2>2 DEF ReleaseLockFails
  <2>3. CASE WritePairFails(p)
    <3>1. CASE pc[p] = "openjson"
      BY <2>3, <3>1 DEF WritePairFails
    <3>2. CASE pc[p] = "filljson"
      <4>1. req[p] \in WriteRequests /\ pc'[p] = "cleanjson" /\ req'[p] = req[p] /\ side' = side
        BY <2>3, <3>2 DEF WritePairFails
      <4>2. \/ json' = json
            \/ json' = [json EXCEPT ![req[p].rev] = req[p].content]
        BY <2>3, <3>2 DEF WritePairFails
      <4>3. CASE json' = json
        BY <3>2, <4>1, <4>3
      <4>4. CASE json' = [json EXCEPT ![req[p].rev] = req[p].content]
        <5>1. /\ req[p].rev \in Revs /\ json'[req[p].rev] = req[p].content
              /\ \A q \in Revs : q # req[p].rev => json'[q] = json[q]
          BY <4>1, <4>4
        <5>2. /\ \A q \in Revs : q < req[p].rev => Complete(q)
              /\ \A q \in Revs : q > req[p].rev => json[q] = Absent
              /\ req[p].rev > 1 => /\ req[p].rev - 1 \in Revs /\ req[p].rev - 1 # req[p].rev
                                   /\ <<json[req[p].rev - 1], req[p].content>> \in Transition
          BY <3>2, <5>1
        <5>3. ASSUME NEW q \in Revs, q < req[p].rev PROVE Complete(q)'
          <6>1. q # req[p].rev /\ Complete(q)
            BY <5>1, <5>2, <5>3
          <6>. QED BY <4>1, <5>1, <6>1
        <5>4. ASSUME NEW q \in Revs, q > req[p].rev PROVE json'[q] = Absent
          <6>1. q # req[p].rev /\ json[q] = Absent
            BY <5>1, <5>2, <5>4
          <6>. QED BY <5>1, <6>1
        <5>5. req[p].rev > 1 => <<json'[req[p].rev - 1], req[p].content>> \in Transition
          BY <5>1, <5>2
        <5>. QED BY <4>1, <5>1, <5>3, <5>4, <5>5
      <4>. QED BY <4>2, <4>3, <4>4
    <3>3. CASE pc[p] \in {"openside", "fillside", "sync"}
      BY <2>3, <3>3 DEF WritePairFails
    <3>. QED BY <2>3, <3>1, <3>2, <3>3 DEF WritePairFails
  <2>4. CASE RemoveFails(p)
    BY <2>4 DEF RemoveFails
  <2>5. CASE PublishFails(p)
    BY <2>5 DEF PublishFails
  <2>6. CASE RemoveTemporaryFails(p)
    BY <2>6 DEF RemoveTemporaryFails
  <2>7. CASE ReadFails(p)
    BY <2>7 DEF ReadFails
  <2>. QED BY <1>3, <2>1, <2>2, <2>3, <2>4, <2>5, <2>6, <2>7 DEF Fail
<1>4. CASE Run(p)
  <2>1. CASE EnsureDirectory(p)
    BY <2>1 DEF EnsureDirectory
  <2>2. CASE MakeDirectory(p)
    BY <2>2 DEF MakeDirectory
  <2>3. CASE CheckDirectoryChain(p)
    BY <2>3 DEF CheckDirectoryChain
  <2>4. CASE AcquireLock(p)
    BY <2>4 DEF AcquireLock
  <2>5. CASE ReleaseLock(p)
    BY <2>5 DEF ReleaseLock
  <2>6. CASE CheckWrite(p)
    <3>1. CASE WriteVerdict(p) # "proceed"
      BY <2>6, <3>1 DEF CheckWrite
    <3>2. CASE WriteVerdict(p) = "proceed"
      <4>1. req[p] \in WriteRequests /\ req[p].rev \in Revs
        BY <2>6 DEF CheckWrite
      <4>2. pc'[p] = "openjson" /\ UNCHANGED <<json, side, req>>
        BY <2>6, <3>2 DEF CheckWrite
      <4>. QED BY <4>1, <4>2, <3>2, ProceedMeans
    <3>. QED BY <3>1, <3>2
  <2>7. CASE OpenJson(p)
    BY <2>7 DEF OpenJson
  <2>8. CASE FillJson(p)
    BY <2>8 DEF FillJson
  <2>9. CASE OpenSide(p)
    BY <2>9 DEF OpenSide
  <2>10. CASE FillSide(p)
    BY <2>10 DEF FillSide
  <2>11. CASE SyncSide(p)
    BY <2>11 DEF SyncSide
  <2>12. CASE RemoveSide(p)
    BY <2>12 DEF RemoveSide
  <2>13. CASE RemoveJson(p)
    BY <2>13 DEF RemoveJson
  <2>14. CASE VerifyWrite(p)
    BY <2>14 DEF VerifyWrite
  <2>15. CASE CheckSelection(p)
    BY <2>15 DEF CheckSelection
  <2>16. CASE OpenTemporary(p)
    BY <2>16 DEF OpenTemporary
  <2>17. CASE ReplaceCurrent(p)
    BY <2>17 DEF ReplaceCurrent
  <2>18. CASE RemoveTemporary(p)
    BY <2>18 DEF RemoveTemporary
  <2>19. CASE VerifySelection(p)
    BY <2>19 DEF VerifySelection
  <2>20. CASE ReadEntries(p)
    BY <2>20 DEF ReadEntries
  <2>21. CASE ReadEntriesEnds(p)
    BY <2>21 DEF ReadEntriesEnds
  <2>22. CASE ReadNames(p)
    BY <2>22 DEF ReadNames
  <2>23. CASE ReadNamesEnds(p)
    BY <2>23 DEF ReadNamesEnds
  <2>24. CASE ReadJson(p)
    BY <2>24 DEF ReadJson
  <2>25. CASE ReadOn(p)
    BY <2>25 DEF ReadOn
  <2>26. CASE ReadReturns(p)
    BY <2>26 DEF ReadReturns
  <2>. QED BY <1>4, <2>1, <2>2, <2>3, <2>4, <2>5, <2>6, <2>7, <2>8, <2>9, <2>10, <2>11, <2>12, <2>13, <2>14, <2>15, <2>16, <2>17, <2>18, <2>19, <2>20, <2>21, <2>22, <2>23, <2>24, <2>25, <2>26 DEF Run
<1>. QED BY <1>1, <1>2, <1>3, <1>4 DEF Step

LEMMA WStep ==
  ASSUME WInv, NEW p \in Procs, Step(p)
  PROVE  WInv'
<1>1. TInv' /\ LockDiscipline'
  BY TStep, LockStep DEF WInv
<1>2. ASSUME NEW q \in Procs PROVE WriterState(q)'
  <2>1. CASE q = p
    BY <2>1, WriterLocal
  <2>2. CASE q # p /\ pc[q] \in LockedSteps
    <3>1. lock # p
      BY <2>2 DEF WInv, LockDiscipline
    <3>2. UNCHANGED <<json, side>> /\ pc'[q] = pc[q] /\ req'[q] = req[q]
      BY <2>2, <3>1, LockLocal, Frame DEF WInv, TInv
    <3>. QED BY <3>2 DEF WInv, WriterState, Complete
  <2>3. CASE q # p /\ pc[q] \notin LockedSteps
    <3>1. pc'[q] = pc[q]
      BY <2>3, Frame DEF WInv, TInv
    <3>. QED BY <2>3, <3>1 DEF WriterState, LockedSteps, WindowSteps
  <2>. QED BY <2>1, <2>2, <2>3
<1>. QED BY <1>1, <1>2 DEF WInv

-----------------------------------------------------------------------------
(* A committed revision stays committed, with the same bytes.               *)

LEMMA NoWindow ==
  ASSUME WInv, NEW p \in Procs, lock = p, pc[p] \notin WindowSteps, NEW r \in Revs, Complete(r)
  PROVE  r \in Committed
<1>1. ASSUME NEW q \in Procs, pc[q] \in WindowSteps PROVE FALSE
  BY <1>1 DEF WInv, LockDiscipline, LockedSteps, WindowSteps
<1>. QED BY <1>1 DEF Committed, InWindow

LEMMA StableLocal ==
  ASSUME WInv, NEW p \in Procs, Step(p), NEW r \in Revs, Complete(r),
         pc[p] \in WindowSteps => req[p].rev # r
  PROVE  /\ json'[r] = json[r] /\ side'[r] = side[r]
         /\ pc'[p] \in WindowSteps => req'[p].rev # r
<1> USE ConstantsAssumption
<1> USE DEF WInv, TInv, TypeOK, RequestKind, files, procs, Goto, Return, Leave, WindowSteps
<1>1. CASE Call(p)
  BY <1>1 DEF Call
<1>2. CASE Crash(p)
  BY <1>2 DEF Crash
<1>3. CASE Fail(p)
  <2>1. CASE AcquireLockFails(p)
    BY <2>1 DEF AcquireLockFails
  <2>2. CASE ReleaseLockFails(p)
    BY <2>2 DEF ReleaseLockFails
  <2>3. CASE WritePairFails(p)
    BY <2>3 DEF WritePairFails
  <2>4. CASE RemoveFails(p)
    BY <2>4 DEF RemoveFails
  <2>5. CASE PublishFails(p)
    BY <2>5 DEF PublishFails
  <2>6. CASE RemoveTemporaryFails(p)
    BY <2>6 DEF RemoveTemporaryFails
  <2>7. CASE ReadFails(p)
    BY <2>7 DEF ReadFails
  <2>. QED BY <1>3, <2>1, <2>2, <2>3, <2>4, <2>5, <2>6, <2>7 DEF Fail
<1>4. CASE Run(p)
  <2>1. CASE EnsureDirectory(p)
    BY <2>1 DEF EnsureDirectory
  <2>2. CASE MakeDirectory(p)
    BY <2>2 DEF MakeDirectory
  <2>3. CASE CheckDirectoryChain(p)
    BY <2>3 DEF CheckDirectoryChain
  <2>4. CASE AcquireLock(p)
    BY <2>4 DEF AcquireLock
  <2>5. CASE ReleaseLock(p)
    BY <2>5 DEF ReleaseLock
  <2>6. CASE CheckWrite(p)
    <3>1. CASE WriteVerdict(p) # "proceed"
      BY <2>6, <3>1 DEF CheckWrite
    <3>2. CASE WriteVerdict(p) = "proceed"
      <4>1. req[p] \in WriteRequests
        BY <2>6 DEF CheckWrite, WriteSteps
      <4>2. json[req[p].rev] = Absent
        BY <4>1, <3>2, ProceedMeans
      <4>3. req[p].rev # r
        BY <4>2 DEF Complete
      <4>. QED BY <2>6, <4>3 DEF CheckWrite
    <3>. QED BY <3>1, <3>2
  <2>7. CASE OpenJson(p)
    BY <2>7 DEF OpenJson
  <2>8. CASE FillJson(p)
    BY <2>8 DEF FillJson
  <2>9. CASE OpenSide(p)
    BY <2>9 DEF OpenSide
  <2>10. CASE FillSide(p)
    BY <2>10 DEF FillSide
  <2>11. CASE SyncSide(p)
    BY <2>11 DEF SyncSide
  <2>12. CASE RemoveSide(p)
    BY <2>12 DEF RemoveSide
  <2>13. CASE RemoveJson(p)
    BY <2>13 DEF RemoveJson
  <2>14. CASE VerifyWrite(p)
    BY <2>14 DEF VerifyWrite
  <2>15. CASE CheckSelection(p)
    BY <2>15 DEF CheckSelection
  <2>16. CASE OpenTemporary(p)
    BY <2>16 DEF OpenTemporary
  <2>17. CASE ReplaceCurrent(p)
    BY <2>17 DEF ReplaceCurrent
  <2>18. CASE RemoveTemporary(p)
    BY <2>18 DEF RemoveTemporary
  <2>19. CASE VerifySelection(p)
    BY <2>19 DEF VerifySelection
  <2>20. CASE ReadEntries(p)
    BY <2>20 DEF ReadEntries
  <2>21. CASE ReadEntriesEnds(p)
    BY <2>21 DEF ReadEntriesEnds
  <2>22. CASE ReadNames(p)
    BY <2>22 DEF ReadNames
  <2>23. CASE ReadNamesEnds(p)
    BY <2>23 DEF ReadNamesEnds
  <2>24. CASE ReadJson(p)
    BY <2>24 DEF ReadJson
  <2>25. CASE ReadOn(p)
    BY <2>25 DEF ReadOn
  <2>26. CASE ReadReturns(p)
    BY <2>26 DEF ReadReturns
  <2>. QED BY <1>4, <2>1, <2>2, <2>3, <2>4, <2>5, <2>6, <2>7, <2>8, <2>9, <2>10, <2>11, <2>12, <2>13, <2>14, <2>15, <2>16, <2>17, <2>18, <2>19, <2>20, <2>21, <2>22, <2>23, <2>24, <2>25, <2>26 DEF Run
<1>. QED BY <1>1, <1>2, <1>3, <1>4 DEF Step

LEMMA CommittedStable ==
  ASSUME WInv, NEW p \in Procs, Step(p)
  PROVE  \A r \in Committed : r \in Committed' /\ json'[r] = json[r]
<1>. SUFFICES ASSUME NEW r \in Committed
             PROVE  r \in Committed' /\ json'[r] = json[r]
  OBVIOUS
<1>1. r \in Revs /\ Complete(r) /\ ~InWindow(r)
  BY DEF Committed
<1>2. /\ json'[r] = json[r] /\ side'[r] = side[r]
      /\ pc'[p] \in WindowSteps => req'[p].rev # r
  BY <1>1, StableLocal DEF InWindow
<1>3. Complete(r)'
  BY <1>1, <1>2 DEF Complete
<1>4. ASSUME NEW q \in Procs PROVE ~(pc'[q] \in WindowSteps /\ req'[q].rev = r)
  <2>1. CASE q = p
    BY <2>1, <1>2
  <2>2. CASE q # p
    BY <2>2, <1>1, Frame DEF InWindow, WInv, TInv
  <2>. QED BY <2>1, <2>2
<1>. QED BY <1>1, <1>2, <1>3, <1>4 DEF Committed, InWindow

-----------------------------------------------------------------------------
(* What selectors and readers rely on, and what callers were told.          *)

SelectorState(p) ==
  /\ pc[p] \in {"opentemp", "replace", "verifysel"} =>
       /\ atRev[p] = req[p].rev
       /\ atRev[p] \in Committed
       /\ json[atRev[p]] = digest[p]
  /\ pc[p] \in {"opentemp", "replace"} => current.rev = req[p].expected
  /\ pc[p] = "verifysel" => current = Selection(p)

LoaderState(p) ==
  pc[p] \in {"readjson", "readside"} /\ req[p].op = "load" =>
    atRev[p] \in Committed /\ json[atRev[p]] = digest[p]

Told(p) ==
  /\ outcome[p] \in {"created", "existing", "updated"} =>
       /\ req[p].rev \in Committed
       /\ req[p].op = "write" => json[req[p].rev] = req[p].content
  /\ outcome[p] = "loaded" => atRev[p] \in Committed /\ json[atRev[p]] = bytes[p]

IInv == WInv /\ PointerCommitted /\ \A p \in Procs : SelectorState(p) /\ LoaderState(p) /\ Told(p)

LEMMA SelectorLocal ==
  ASSUME IInv, NEW p \in Procs, Step(p),
         \A r \in Committed : r \in Committed' /\ json'[r] = json[r]
  PROVE  SelectorState(p)'
<1> USE ConstantsAssumption
<1> USE DEF IInv, WInv, TInv, TypeOK, RequestKind, files, reads, procs, Goto, Return, Leave,
            WriteSteps, SelectSteps, ReadSteps, SelectorState, Selection
<1>1. CASE Call(p)
  BY <1>1 DEF Call
<1>2. CASE Crash(p)
  BY <1>2 DEF Crash
<1>3. CASE Fail(p)
  <2>1. CASE AcquireLockFails(p)
    BY <2>1 DEF AcquireLockFails
  <2>2. CASE ReleaseLockFails(p)
    BY <2>2 DEF ReleaseLockFails
  <2>3. CASE WritePairFails(p)
    BY <2>3 DEF WritePairFails
  <2>4. CASE RemoveFails(p)
    BY <2>4 DEF RemoveFails
  <2>5. CASE PublishFails(p)
    BY <2>5 DEF PublishFails
  <2>6. CASE RemoveTemporaryFails(p)
    BY <2>6 DEF RemoveTemporaryFails
  <2>7. CASE ReadFails(p)
    BY <2>7 DEF ReadFails
  <2>. QED BY <1>3, <2>1, <2>2, <2>3, <2>4, <2>5, <2>6, <2>7 DEF Fail
<1>4. CASE Run(p)
  <2>1. CASE EnsureDirectory(p)
    BY <2>1 DEF EnsureDirectory
  <2>2. CASE MakeDirectory(p)
    BY <2>2 DEF MakeDirectory
  <2>3. CASE CheckDirectoryChain(p)
    BY <2>3 DEF CheckDirectoryChain
  <2>4. CASE AcquireLock(p)
    BY <2>4 DEF AcquireLock
  <2>5. CASE ReleaseLock(p)
    BY <2>5 DEF ReleaseLock
  <2>6. CASE CheckWrite(p)
    BY <2>6 DEF CheckWrite, WriteVerdict
  <2>7. CASE OpenJson(p)
    BY <2>7 DEF OpenJson
  <2>8. CASE FillJson(p)
    BY <2>8 DEF FillJson
  <2>9. CASE OpenSide(p)
    BY <2>9 DEF OpenSide
  <2>10. CASE FillSide(p)
    BY <2>10 DEF FillSide
  <2>11. CASE SyncSide(p)
    BY <2>11 DEF SyncSide
  <2>12. CASE RemoveSide(p)
    BY <2>12 DEF RemoveSide
  <2>13. CASE RemoveJson(p)
    BY <2>13 DEF RemoveJson
  <2>14. CASE VerifyWrite(p)
    BY <2>14 DEF VerifyWrite
  <2>15. CASE CheckSelection(p)
    <3>1. CASE SelectVerdict(p) # "proceed"
      BY <2>15, <3>1 DEF CheckSelection
    <3>2. CASE SelectVerdict(p) = "proceed"
      <4>1. /\ req[p].rev \in Revs /\ Complete(req[p].rev)
            /\ current.rev = req[p].expected
        BY <2>15, <3>2 DEF CheckSelection, SelectVerdict, SelectRequests
      <4>2. req[p].rev \in Committed
        BY <2>15, <4>1, NoWindow DEF CheckSelection, LockDiscipline, LockedSteps, WindowSteps
      <4>. QED BY <2>15, <3>2, <4>1, <4>2 DEF CheckSelection
    <3>. QED BY <3>1, <3>2
  <2>16. CASE OpenTemporary(p)
    BY <2>16 DEF OpenTemporary
  <2>17. CASE ReplaceCurrent(p)
    BY <2>17 DEF ReplaceCurrent
  <2>18. CASE RemoveTemporary(p)
    BY <2>18 DEF RemoveTemporary
  <2>19. CASE VerifySelection(p)
    BY <2>19 DEF VerifySelection
  <2>20. CASE ReadEntries(p)
    BY <2>20 DEF ReadEntries
  <2>21. CASE ReadEntriesEnds(p)
    BY <2>21 DEF ReadEntriesEnds
  <2>22. CASE ReadNames(p)
    BY <2>22 DEF ReadNames
  <2>23. CASE ReadNamesEnds(p)
    BY <2>23 DEF ReadNamesEnds
  <2>24. CASE ReadJson(p)
    BY <2>24 DEF ReadJson
  <2>25. CASE ReadOn(p)
    BY <2>25 DEF ReadOn
  <2>26. CASE ReadReturns(p)
    BY <2>26 DEF ReadReturns
  <2>. QED BY <1>4, <2>1, <2>2, <2>3, <2>4, <2>5, <2>6, <2>7, <2>8, <2>9, <2>10, <2>11, <2>12, <2>13, <2>14, <2>15, <2>16, <2>17, <2>18, <2>19, <2>20, <2>21, <2>22, <2>23, <2>24, <2>25, <2>26 DEF Run
<1>. QED BY <1>1, <1>2, <1>3, <1>4 DEF Step

LEMMA LoaderLocal ==
  ASSUME IInv, NEW p \in Procs, Step(p),
         \A r \in Committed : r \in Committed' /\ json'[r] = json[r]
  PROVE  LoaderState(p)'
<1> USE ConstantsAssumption
<1> USE DEF IInv, WInv, TInv, TypeOK, RequestKind, files, reads, procs, Goto, Return, Leave,
            WriteSteps, SelectSteps, ReadSteps, LoaderState
<1>1. CASE Call(p)
  BY <1>1 DEF Call
<1>2. CASE Crash(p)
  BY <1>2 DEF Crash
<1>3. CASE Fail(p)
  <2>1. CASE AcquireLockFails(p)
    BY <2>1 DEF AcquireLockFails
  <2>2. CASE ReleaseLockFails(p)
    BY <2>2 DEF ReleaseLockFails
  <2>3. CASE WritePairFails(p)
    BY <2>3 DEF WritePairFails
  <2>4. CASE RemoveFails(p)
    BY <2>4 DEF RemoveFails
  <2>5. CASE PublishFails(p)
    BY <2>5 DEF PublishFails
  <2>6. CASE RemoveTemporaryFails(p)
    BY <2>6 DEF RemoveTemporaryFails
  <2>7. CASE ReadFails(p)
    BY <2>7 DEF ReadFails
  <2>. QED BY <1>3, <2>1, <2>2, <2>3, <2>4, <2>5, <2>6, <2>7 DEF Fail
<1>4. CASE Run(p)
  <2>1. CASE EnsureDirectory(p)
    BY <2>1 DEF EnsureDirectory
  <2>2. CASE MakeDirectory(p)
    BY <2>2 DEF MakeDirectory
  <2>3. CASE CheckDirectoryChain(p)
    BY <2>3 DEF CheckDirectoryChain
  <2>4. CASE AcquireLock(p)
    BY <2>4 DEF AcquireLock
  <2>5. CASE ReleaseLock(p)
    BY <2>5 DEF ReleaseLock
  <2>6. CASE CheckWrite(p)
    BY <2>6 DEF CheckWrite, WriteVerdict
  <2>7. CASE OpenJson(p)
    BY <2>7 DEF OpenJson
  <2>8. CASE FillJson(p)
    BY <2>8 DEF FillJson
  <2>9. CASE OpenSide(p)
    BY <2>9 DEF OpenSide
  <2>10. CASE FillSide(p)
    BY <2>10 DEF FillSide
  <2>11. CASE SyncSide(p)
    BY <2>11 DEF SyncSide
  <2>12. CASE RemoveSide(p)
    BY <2>12 DEF RemoveSide
  <2>13. CASE RemoveJson(p)
    BY <2>13 DEF RemoveJson
  <2>14. CASE VerifyWrite(p)
    BY <2>14 DEF VerifyWrite
  <2>15. CASE CheckSelection(p)
    BY <2>15 DEF CheckSelection, SelectVerdict
  <2>16. CASE OpenTemporary(p)
    BY <2>16 DEF OpenTemporary
  <2>17. CASE ReplaceCurrent(p)
    BY <2>17 DEF ReplaceCurrent
  <2>18. CASE RemoveTemporary(p)
    BY <2>18 DEF RemoveTemporary
  <2>19. CASE VerifySelection(p)
    BY <2>19 DEF VerifySelection
  <2>20. CASE ReadEntries(p)
    BY <2>20 DEF ReadEntries, PointerCommitted
  <2>21. CASE ReadEntriesEnds(p)
    BY <2>21 DEF ReadEntriesEnds
  <2>22. CASE ReadNames(p)
    BY <2>22 DEF ReadNames, ReadRequests
  <2>23. CASE ReadNamesEnds(p)
    BY <2>23 DEF ReadNamesEnds
  <2>24. CASE ReadJson(p)
    BY <2>24 DEF ReadJson
  <2>25. CASE ReadOn(p)
    BY <2>25 DEF ReadOn
  <2>26. CASE ReadReturns(p)
    BY <2>26 DEF ReadReturns
  <2>. QED BY <1>4, <2>1, <2>2, <2>3, <2>4, <2>5, <2>6, <2>7, <2>8, <2>9, <2>10, <2>11, <2>12, <2>13, <2>14, <2>15, <2>16, <2>17, <2>18, <2>19, <2>20, <2>21, <2>22, <2>23, <2>24, <2>25, <2>26 DEF Run
<1>. QED BY <1>1, <1>2, <1>3, <1>4 DEF Step

LEMMA ToldLocal ==
  ASSUME IInv, NEW p \in Procs, Step(p),
         \A r \in Committed : r \in Committed' /\ json'[r] = json[r]
  PROVE  Told(p)'
<1> USE ConstantsAssumption
<1> USE DEF IInv, WInv, TInv, TypeOK, RequestKind, files, reads, procs, Goto, Return, Leave,
            WriteSteps, SelectSteps, ReadSteps, Told
<1>1. CASE Call(p)
  BY <1>1 DEF Call
<1>2. CASE Crash(p)
  BY <1>2 DEF Crash
<1>3. CASE Fail(p)
  <2>1. CASE AcquireLockFails(p)
    BY <2>1 DEF AcquireLockFails
  <2>2. CASE ReleaseLockFails(p)
    BY <2>2 DEF ReleaseLockFails
  <2>3. CASE WritePairFails(p)
    BY <2>3 DEF WritePairFails
  <2>4. CASE RemoveFails(p)
    BY <2>4 DEF RemoveFails
  <2>5. CASE PublishFails(p)
    BY <2>5 DEF PublishFails
  <2>6. CASE RemoveTemporaryFails(p)
    BY <2>6 DEF RemoveTemporaryFails
  <2>7. CASE ReadFails(p)
    BY <2>7 DEF ReadFails
  <2>. QED BY <1>3, <2>1, <2>2, <2>3, <2>4, <2>5, <2>6, <2>7 DEF Fail
<1>4. CASE Run(p)
  <2>1. CASE EnsureDirectory(p)
    BY <2>1 DEF EnsureDirectory
  <2>2. CASE MakeDirectory(p)
    BY <2>2 DEF MakeDirectory
  <2>3. CASE CheckDirectoryChain(p)
    BY <2>3 DEF CheckDirectoryChain
  <2>4. CASE AcquireLock(p)
    BY <2>4 DEF AcquireLock
  <2>5. CASE ReleaseLock(p)
    BY <2>5 DEF ReleaseLock
  <2>6. CASE CheckWrite(p)
    <3>1. CASE WriteVerdict(p) # "existing"
      BY <2>6, <3>1 DEF CheckWrite, WriteVerdict
    <3>2. CASE WriteVerdict(p) = "existing"
      <4>1. /\ req[p].rev \in Revs /\ Complete(req[p].rev)
            /\ json[req[p].rev] = req[p].content
        BY <2>6, <3>2 DEF CheckWrite, WriteVerdict, WriteRequests
      <4>2. req[p].rev \in Committed
        BY <2>6, <4>1, NoWindow DEF CheckWrite, LockDiscipline, LockedSteps, WindowSteps
      <4>. QED BY <2>6, <3>2, <4>1, <4>2 DEF CheckWrite
    <3>. QED BY <3>1, <3>2
  <2>7. CASE OpenJson(p)
    BY <2>7 DEF OpenJson
  <2>8. CASE FillJson(p)
    BY <2>8 DEF FillJson
  <2>9. CASE OpenSide(p)
    BY <2>9 DEF OpenSide
  <2>10. CASE FillSide(p)
    BY <2>10 DEF FillSide
  <2>11. CASE SyncSide(p)
    BY <2>11 DEF SyncSide
  <2>12. CASE RemoveSide(p)
    BY <2>12 DEF RemoveSide
  <2>13. CASE RemoveJson(p)
    BY <2>13 DEF RemoveJson
  <2>14. CASE VerifyWrite(p)
    <3>1. CASE ~Holds(req[p].rev, req[p].content)
      BY <2>14, <3>1 DEF VerifyWrite
    <3>2. CASE Holds(req[p].rev, req[p].content)
      <4>1. /\ req[p].rev \in Revs /\ Complete(req[p].rev)
            /\ json[req[p].rev] = req[p].content
        BY <2>14, <3>2 DEF VerifyWrite, Holds, Complete, WriteRequests
      <4>2. req[p].rev \in Committed
        BY <2>14, <4>1, NoWindow DEF VerifyWrite, LockDiscipline, LockedSteps, WindowSteps
      <4>. QED BY <2>14, <3>2, <4>1, <4>2 DEF VerifyWrite
    <3>. QED BY <3>1, <3>2
  <2>15. CASE CheckSelection(p)
    <3>1. CASE SelectVerdict(p) # "existing"
      <4>1. outcome'[p] = outcome[p] \/ outcome'[p] \in {"integrity", "not_found", "conflict"}
        BY <2>15, <3>1 DEF CheckSelection, SelectVerdict
      <4>2. outcome'[p] = outcome[p] => req'[p] = req[p] /\ outcome[p] # "loaded"
        BY <2>15 DEF CheckSelection, SelectRequests
      <4>. QED BY <2>15, <4>1, <4>2
    <3>2. CASE SelectVerdict(p) = "existing"
      <4>1. req[p].rev \in Revs /\ Complete(req[p].rev)
        BY <2>15, <3>2 DEF CheckSelection, SelectVerdict, SelectRequests
      <4>2. req[p].rev \in Committed /\ req[p].op # "write"
        BY <2>15, <4>1, NoWindow DEF CheckSelection, LockDiscipline, LockedSteps, WindowSteps, SelectRequests
      <4>. QED BY <2>15, <3>2, <4>1, <4>2 DEF CheckSelection
    <3>. QED BY <3>1, <3>2
  <2>16. CASE OpenTemporary(p)
    BY <2>16 DEF OpenTemporary
  <2>17. CASE ReplaceCurrent(p)
    BY <2>17 DEF ReplaceCurrent
  <2>18. CASE RemoveTemporary(p)
    BY <2>18 DEF RemoveTemporary
  <2>19. CASE VerifySelection(p)
    <3>1. req[p].rev \in Committed /\ req[p].op # "write"
      BY <2>19 DEF VerifySelection, SelectorState, SelectRequests
    <3>. QED BY <2>19, <3>1 DEF VerifySelection
  <2>20. CASE ReadEntries(p)
    BY <2>20 DEF ReadEntries
  <2>21. CASE ReadEntriesEnds(p)
    BY <2>21 DEF ReadEntriesEnds
  <2>22. CASE ReadNames(p)
    BY <2>22 DEF ReadNames
  <2>23. CASE ReadNamesEnds(p)
    BY <2>23 DEF ReadNamesEnds
  <2>24. CASE ReadJson(p)
    BY <2>24 DEF ReadJson
  <2>25. CASE ReadOn(p)
    BY <2>25 DEF ReadOn
  <2>26. CASE ReadReturns(p)
    <3>1. CASE req[p].op = "load" /\ Verified(p)
      BY <2>26, <3>1 DEF ReadReturns, Verified, LoaderState
    <3>2. CASE ~(req[p].op = "load" /\ Verified(p))
      BY <2>26, <3>2 DEF ReadReturns
    <3>. QED BY <3>1, <3>2
  <2>. QED BY <1>4, <2>1, <2>2, <2>3, <2>4, <2>5, <2>6, <2>7, <2>8, <2>9, <2>10, <2>11, <2>12, <2>13, <2>14, <2>15, <2>16, <2>17, <2>18, <2>19, <2>20, <2>21, <2>22, <2>23, <2>24, <2>25, <2>26 DEF Run
<1>. QED BY <1>1, <1>2, <1>3, <1>4 DEF Step

LEMMA ReplaceOnly ==
  ASSUME NEW p \in Procs, Step(p), ~ReplaceCurrent(p)
  PROVE  current' = current
<1> USE DEF files
<1>1. CASE Call(p)
  BY <1>1 DEF Call
<1>2. CASE Crash(p)
  BY <1>2 DEF Crash
<1>3. CASE Fail(p)
  <2>1. CASE AcquireLockFails(p)
    BY <2>1 DEF AcquireLockFails
  <2>2. CASE ReleaseLockFails(p)
    BY <2>2 DEF ReleaseLockFails
  <2>3. CASE WritePairFails(p)
    BY <2>3 DEF WritePairFails
  <2>4. CASE RemoveFails(p)
    BY <2>4 DEF RemoveFails
  <2>5. CASE PublishFails(p)
    BY <2>5 DEF PublishFails
  <2>6. CASE RemoveTemporaryFails(p)
    BY <2>6 DEF RemoveTemporaryFails
  <2>7. CASE ReadFails(p)
    BY <2>7 DEF ReadFails
  <2>. QED BY <1>3, <2>1, <2>2, <2>3, <2>4, <2>5, <2>6, <2>7 DEF Fail
<1>4. CASE Run(p)
  <2>1. CASE EnsureDirectory(p)
    BY <2>1 DEF EnsureDirectory
  <2>2. CASE MakeDirectory(p)
    BY <2>2 DEF MakeDirectory
  <2>3. CASE CheckDirectoryChain(p)
    BY <2>3 DEF CheckDirectoryChain
  <2>4. CASE AcquireLock(p)
    BY <2>4 DEF AcquireLock
  <2>5. CASE ReleaseLock(p)
    BY <2>5 DEF ReleaseLock
  <2>6. CASE CheckWrite(p)
    BY <2>6 DEF CheckWrite
  <2>7. CASE OpenJson(p)
    BY <2>7 DEF OpenJson
  <2>8. CASE FillJson(p)
    BY <2>8 DEF FillJson
  <2>9. CASE OpenSide(p)
    BY <2>9 DEF OpenSide
  <2>10. CASE FillSide(p)
    BY <2>10 DEF FillSide
  <2>11. CASE SyncSide(p)
    BY <2>11 DEF SyncSide
  <2>12. CASE RemoveSide(p)
    BY <2>12 DEF RemoveSide
  <2>13. CASE RemoveJson(p)
    BY <2>13 DEF RemoveJson
  <2>14. CASE VerifyWrite(p)
    BY <2>14 DEF VerifyWrite
  <2>15. CASE CheckSelection(p)
    BY <2>15 DEF CheckSelection
  <2>16. CASE OpenTemporary(p)
    BY <2>16 DEF OpenTemporary
  <2>17. CASE ReplaceCurrent(p)
    BY <2>17
  <2>18. CASE RemoveTemporary(p)
    BY <2>18 DEF RemoveTemporary
  <2>19. CASE VerifySelection(p)
    BY <2>19 DEF VerifySelection
  <2>20. CASE ReadEntries(p)
    BY <2>20 DEF ReadEntries
  <2>21. CASE ReadEntriesEnds(p)
    BY <2>21 DEF ReadEntriesEnds
  <2>22. CASE ReadNames(p)
    BY <2>22 DEF ReadNames
  <2>23. CASE ReadNamesEnds(p)
    BY <2>23 DEF ReadNamesEnds
  <2>24. CASE ReadJson(p)
    BY <2>24 DEF ReadJson
  <2>25. CASE ReadOn(p)
    BY <2>25 DEF ReadOn
  <2>26. CASE ReadReturns(p)
    BY <2>26 DEF ReadReturns
  <2>. QED BY <1>4, <2>1, <2>2, <2>3, <2>4, <2>5, <2>6, <2>7, <2>8, <2>9, <2>10, <2>11, <2>12, <2>13, <2>14, <2>15, <2>16, <2>17, <2>18, <2>19, <2>20, <2>21, <2>22, <2>23, <2>24, <2>25, <2>26 DEF Run
<1>. QED BY <1>1, <1>2, <1>3, <1>4 DEF Step

LEMMA PointerStep ==
  ASSUME IInv, NEW p \in Procs, Step(p),
         \A r \in Committed : r \in Committed' /\ json'[r] = json[r]
  PROVE  PointerCommitted'
<1>1. CASE ReplaceCurrent(p)
  BY <1>1 DEF ReplaceCurrent, IInv, SelectorState, PointerCommitted, Selection
<1>2. CASE ~ReplaceCurrent(p)
  <2>1. current' = current
    BY <1>2, ReplaceOnly
  <2>. QED BY <2>1 DEF IInv, PointerCommitted
<1>. QED BY <1>1, <1>2

LEMMA IStep ==
  ASSUME IInv, NEW p \in Procs, Step(p)
  PROVE  IInv'
<1>1. WInv'
  BY WStep DEF IInv
<1>2. \A r \in Committed : r \in Committed' /\ json'[r] = json[r]
  BY CommittedStable DEF IInv
<1>3. PointerCommitted'
  BY <1>2, PointerStep
<1>4. ASSUME NEW q \in Procs PROVE (SelectorState(q) /\ LoaderState(q) /\ Told(q))'
  <2>1. CASE q = p
    BY <2>1, <1>2, SelectorLocal, LoaderLocal, ToldLocal
  <2>2. CASE q # p
    <3>1. /\ pc'[q] = pc[q] /\ req'[q] = req[q] /\ outcome'[q] = outcome[q]
          /\ atRev'[q] = atRev[q] /\ bytes'[q] = bytes[q] /\ digest'[q] = digest[q]
      BY <2>2, Frame DEF IInv, WInv, TInv
    <3>2. pc[q] \in {"opentemp", "replace", "verifysel"} => current' = current
      BY <2>2, LockLocal DEF IInv, WInv, LockDiscipline, LockedSteps
    <3>3. SelectorState(q)'
      BY <3>1, <3>2, <1>2 DEF IInv, SelectorState, Selection
    <3>4. LoaderState(q)' /\ Told(q)'
      BY <3>1, <1>2 DEF IInv, LoaderState, Told
    <3>. QED BY <3>3, <3>4
  <2>. QED BY <2>1, <2>2
<1>. QED BY <1>1, <1>3, <1>4 DEF IInv

-----------------------------------------------------------------------------
(* A revision becomes committed only as the next one of a linear history.   *)

LEMMA JsonLocal ==
  ASSUME WInv, NEW p \in Procs, Step(p)
  PROVE  /\ pc[p] \notin WindowSteps => UNCHANGED <<json, side>>
         /\ pc[p] \in WindowSteps =>
              json'[req[p].rev] \in {json[req[p].rev], Absent, Torn, req[p].content}
<1> USE DEF WInv, TInv, TypeOK, RequestKind, files, procs, Goto, Return, Leave, WindowSteps,
            WriteSteps, WriteRequests
<1>1. CASE Call(p)
  BY <1>1 DEF Call
<1>2. CASE Crash(p)
  BY <1>2 DEF Crash
<1>3. CASE Fail(p)
  <2>1. CASE AcquireLockFails(p)
    BY <2>1 DEF AcquireLockFails
  <2>2. CASE ReleaseLockFails(p)
    BY <2>2 DEF ReleaseLockFails
  <2>3. CASE WritePairFails(p)
    BY <2>3 DEF WritePairFails
  <2>4. CASE RemoveFails(p)
    BY <2>4 DEF RemoveFails
  <2>5. CASE PublishFails(p)
    BY <2>5 DEF PublishFails
  <2>6. CASE RemoveTemporaryFails(p)
    BY <2>6 DEF RemoveTemporaryFails
  <2>7. CASE ReadFails(p)
    BY <2>7 DEF ReadFails
  <2>. QED BY <1>3, <2>1, <2>2, <2>3, <2>4, <2>5, <2>6, <2>7 DEF Fail
<1>4. CASE Run(p)
  <2>1. CASE EnsureDirectory(p)
    BY <2>1 DEF EnsureDirectory
  <2>2. CASE MakeDirectory(p)
    BY <2>2 DEF MakeDirectory
  <2>3. CASE CheckDirectoryChain(p)
    BY <2>3 DEF CheckDirectoryChain
  <2>4. CASE AcquireLock(p)
    BY <2>4 DEF AcquireLock
  <2>5. CASE ReleaseLock(p)
    BY <2>5 DEF ReleaseLock
  <2>6. CASE CheckWrite(p)
    BY <2>6 DEF CheckWrite
  <2>7. CASE OpenJson(p)
    BY <2>7 DEF OpenJson
  <2>8. CASE FillJson(p)
    BY <2>8 DEF FillJson
  <2>9. CASE OpenSide(p)
    BY <2>9 DEF OpenSide
  <2>10. CASE FillSide(p)
    BY <2>10 DEF FillSide
  <2>11. CASE SyncSide(p)
    BY <2>11 DEF SyncSide
  <2>12. CASE RemoveSide(p)
    BY <2>12 DEF RemoveSide
  <2>13. CASE RemoveJson(p)
    BY <2>13 DEF RemoveJson
  <2>14. CASE VerifyWrite(p)
    BY <2>14 DEF VerifyWrite
  <2>15. CASE CheckSelection(p)
    BY <2>15 DEF CheckSelection
  <2>16. CASE OpenTemporary(p)
    BY <2>16 DEF OpenTemporary
  <2>17. CASE ReplaceCurrent(p)
    BY <2>17 DEF ReplaceCurrent
  <2>18. CASE RemoveTemporary(p)
    BY <2>18 DEF RemoveTemporary
  <2>19. CASE VerifySelection(p)
    BY <2>19 DEF VerifySelection
  <2>20. CASE ReadEntries(p)
    BY <2>20 DEF ReadEntries
  <2>21. CASE ReadEntriesEnds(p)
    BY <2>21 DEF ReadEntriesEnds
  <2>22. CASE ReadNames(p)
    BY <2>22 DEF ReadNames
  <2>23. CASE ReadNamesEnds(p)
    BY <2>23 DEF ReadNamesEnds
  <2>24. CASE ReadJson(p)
    BY <2>24 DEF ReadJson
  <2>25. CASE ReadOn(p)
    BY <2>25 DEF ReadOn
  <2>26. CASE ReadReturns(p)
    BY <2>26 DEF ReadReturns
  <2>. QED BY <1>4, <2>1, <2>2, <2>3, <2>4, <2>5, <2>6, <2>7, <2>8, <2>9, <2>10, <2>11, <2>12, <2>13, <2>14, <2>15, <2>16, <2>17, <2>18, <2>19, <2>20, <2>21, <2>22, <2>23, <2>24, <2>25, <2>26 DEF Run
<1>. QED BY <1>1, <1>2, <1>3, <1>4 DEF Step

LEMMA OtherRevisions ==
  ASSUME WInv, NEW p \in Procs, Step(p), pc[p] \in WindowSteps, NEW r \in Revs, req[p].rev # r
  PROVE  json'[r] = json[r] /\ side'[r] = side[r]
<1> USE DEF WInv, TInv, TypeOK, files, procs, Goto, Return, Leave, WindowSteps
<1>1. CASE Call(p)
  BY <1>1 DEF Call
<1>2. CASE Crash(p)
  BY <1>2 DEF Crash
<1>3. CASE Fail(p)
  <2>1. CASE AcquireLockFails(p)
    BY <2>1 DEF AcquireLockFails
  <2>2. CASE ReleaseLockFails(p)
    BY <2>2 DEF ReleaseLockFails
  <2>3. CASE WritePairFails(p)
    BY <2>3 DEF WritePairFails
  <2>4. CASE RemoveFails(p)
    BY <2>4 DEF RemoveFails
  <2>5. CASE PublishFails(p)
    BY <2>5 DEF PublishFails
  <2>6. CASE RemoveTemporaryFails(p)
    BY <2>6 DEF RemoveTemporaryFails
  <2>7. CASE ReadFails(p)
    BY <2>7 DEF ReadFails
  <2>. QED BY <1>3, <2>1, <2>2, <2>3, <2>4, <2>5, <2>6, <2>7 DEF Fail
<1>4. CASE Run(p)
  <2>1. CASE EnsureDirectory(p)
    BY <2>1 DEF EnsureDirectory
  <2>2. CASE MakeDirectory(p)
    BY <2>2 DEF MakeDirectory
  <2>3. CASE CheckDirectoryChain(p)
    BY <2>3 DEF CheckDirectoryChain
  <2>4. CASE AcquireLock(p)
    BY <2>4 DEF AcquireLock
  <2>5. CASE ReleaseLock(p)
    BY <2>5 DEF ReleaseLock
  <2>6. CASE CheckWrite(p)
    BY <2>6 DEF CheckWrite
  <2>7. CASE OpenJson(p)
    BY <2>7 DEF OpenJson
  <2>8. CASE FillJson(p)
    BY <2>8 DEF FillJson
  <2>9. CASE OpenSide(p)
    BY <2>9 DEF OpenSide
  <2>10. CASE FillSide(p)
    BY <2>10 DEF FillSide
  <2>11. CASE SyncSide(p)
    BY <2>11 DEF SyncSide
  <2>12. CASE RemoveSide(p)
    BY <2>12 DEF RemoveSide
  <2>13. CASE RemoveJson(p)
    BY <2>13 DEF RemoveJson
  <2>14. CASE VerifyWrite(p)
    BY <2>14 DEF VerifyWrite
  <2>15. CASE CheckSelection(p)
    BY <2>15 DEF CheckSelection
  <2>16. CASE OpenTemporary(p)
    BY <2>16 DEF OpenTemporary
  <2>17. CASE ReplaceCurrent(p)
    BY <2>17 DEF ReplaceCurrent
  <2>18. CASE RemoveTemporary(p)
    BY <2>18 DEF RemoveTemporary
  <2>19. CASE VerifySelection(p)
    BY <2>19 DEF VerifySelection
  <2>20. CASE ReadEntries(p)
    BY <2>20 DEF ReadEntries
  <2>21. CASE ReadEntriesEnds(p)
    BY <2>21 DEF ReadEntriesEnds
  <2>22. CASE ReadNames(p)
    BY <2>22 DEF ReadNames
  <2>23. CASE ReadNamesEnds(p)
    BY <2>23 DEF ReadNamesEnds
  <2>24. CASE ReadJson(p)
    BY <2>24 DEF ReadJson
  <2>25. CASE ReadOn(p)
    BY <2>25 DEF ReadOn
  <2>26. CASE ReadReturns(p)
    BY <2>26 DEF ReadReturns
  <2>. QED BY <1>4, <2>1, <2>2, <2>3, <2>4, <2>5, <2>6, <2>7, <2>8, <2>9, <2>10, <2>11, <2>12, <2>13, <2>14, <2>15, <2>16, <2>17, <2>18, <2>19, <2>20, <2>21, <2>22, <2>23, <2>24, <2>25, <2>26 DEF Run
<1>. QED BY <1>1, <1>2, <1>3, <1>4 DEF Step

LEMMA WindowKeepsRequest ==
  ASSUME TInv, NEW p \in Procs, Step(p), pc[p] \in WindowSteps
  PROVE  req'[p] = req[p]
<1> USE DEF TInv, TypeOK, files, procs, Goto, Return, Leave, WindowSteps
<1>1. CASE Call(p)
  BY <1>1 DEF Call
<1>2. CASE Crash(p)
  BY <1>2 DEF Crash
<1>3. CASE Fail(p)
  <2>1. CASE AcquireLockFails(p)
    BY <2>1 DEF AcquireLockFails
  <2>2. CASE ReleaseLockFails(p)
    BY <2>2 DEF ReleaseLockFails
  <2>3. CASE WritePairFails(p)
    BY <2>3 DEF WritePairFails
  <2>4. CASE RemoveFails(p)
    BY <2>4 DEF RemoveFails
  <2>5. CASE PublishFails(p)
    BY <2>5 DEF PublishFails
  <2>6. CASE RemoveTemporaryFails(p)
    BY <2>6 DEF RemoveTemporaryFails
  <2>7. CASE ReadFails(p)
    BY <2>7 DEF ReadFails
  <2>. QED BY <1>3, <2>1, <2>2, <2>3, <2>4, <2>5, <2>6, <2>7 DEF Fail
<1>4. CASE Run(p)
  <2>1. CASE EnsureDirectory(p)
    BY <2>1 DEF EnsureDirectory
  <2>2. CASE MakeDirectory(p)
    BY <2>2 DEF MakeDirectory
  <2>3. CASE CheckDirectoryChain(p)
    BY <2>3 DEF CheckDirectoryChain
  <2>4. CASE AcquireLock(p)
    BY <2>4 DEF AcquireLock
  <2>5. CASE ReleaseLock(p)
    BY <2>5 DEF ReleaseLock
  <2>6. CASE CheckWrite(p)
    BY <2>6 DEF CheckWrite
  <2>7. CASE OpenJson(p)
    BY <2>7 DEF OpenJson
  <2>8. CASE FillJson(p)
    BY <2>8 DEF FillJson
  <2>9. CASE OpenSide(p)
    BY <2>9 DEF OpenSide
  <2>10. CASE FillSide(p)
    BY <2>10 DEF FillSide
  <2>11. CASE SyncSide(p)
    BY <2>11 DEF SyncSide
  <2>12. CASE RemoveSide(p)
    BY <2>12 DEF RemoveSide
  <2>13. CASE RemoveJson(p)
    BY <2>13 DEF RemoveJson
  <2>14. CASE VerifyWrite(p)
    BY <2>14 DEF VerifyWrite
  <2>15. CASE CheckSelection(p)
    BY <2>15 DEF CheckSelection
  <2>16. CASE OpenTemporary(p)
    BY <2>16 DEF OpenTemporary
  <2>17. CASE ReplaceCurrent(p)
    BY <2>17 DEF ReplaceCurrent
  <2>18. CASE RemoveTemporary(p)
    BY <2>18 DEF RemoveTemporary
  <2>19. CASE VerifySelection(p)
    BY <2>19 DEF VerifySelection
  <2>20. CASE ReadEntries(p)
    BY <2>20 DEF ReadEntries
  <2>21. CASE ReadEntriesEnds(p)
    BY <2>21 DEF ReadEntriesEnds
  <2>22. CASE ReadNames(p)
    BY <2>22 DEF ReadNames
  <2>23. CASE ReadNamesEnds(p)
    BY <2>23 DEF ReadNamesEnds
  <2>24. CASE ReadJson(p)
    BY <2>24 DEF ReadJson
  <2>25. CASE ReadOn(p)
    BY <2>25 DEF ReadOn
  <2>26. CASE ReadReturns(p)
    BY <2>26 DEF ReadReturns
  <2>. QED BY <1>4, <2>1, <2>2, <2>3, <2>4, <2>5, <2>6, <2>7, <2>8, <2>9, <2>10, <2>11, <2>12, <2>13, <2>14, <2>15, <2>16, <2>17, <2>18, <2>19, <2>20, <2>21, <2>22, <2>23, <2>24, <2>25, <2>26 DEF Run
<1>. QED BY <1>1, <1>2, <1>3, <1>4 DEF Step

LEMMA NewCommitted ==
  ASSUME WInv, NEW p \in Procs, Step(p), NEW r \in Committed', r \notin Committed
  PROVE  /\ pc[p] \in WindowSteps /\ req[p].rev = r /\ req'[p].rev = r
         /\ json'[r] = req[p].content
         /\ \A q \in Revs : q < r => q \in Committed
         /\ \A q \in Revs : q >= r => q \notin Committed
<1>1. r \in Revs /\ Complete(r)' /\ ~InWindow(r)'
  BY DEF Committed
<1>2. pc[p] \in WindowSteps /\ req[p].rev = r
  <2>1. SUFFICES ASSUME ~(pc[p] \in WindowSteps /\ req[p].rev = r) PROVE FALSE
    OBVIOUS
  <2>2. Complete(r)
    <3>1. CASE pc[p] \notin WindowSteps
      BY <3>1, <1>1, JsonLocal DEF Complete
    <3>2. CASE pc[p] \in WindowSteps
      BY <3>2, <2>1, <1>1, OtherRevisions DEF Complete
    <3>. QED BY <3>1, <3>2
  <2>3. PICK q \in Procs : pc[q] \in WindowSteps /\ req[q].rev = r
    BY <1>1, <2>2 DEF Committed, InWindow
  <2>4. q # p
    BY <2>1, <2>3
  <2>5. pc'[q] \in WindowSteps /\ req'[q].rev = r
    BY <2>3, <2>4, Frame DEF WInv, TInv
  <2>. QED BY <1>1, <2>5 DEF InWindow
<1>3. lock = p /\ req[p].rev \in Revs /\ req[p].content \in Contents
  BY <1>2 DEF WInv, TInv, RequestKind, LockDiscipline, LockedSteps, WindowSteps, WriteSteps,
              WriteRequests
<1>4. json'[r] = req[p].content
  <2>1. json[r] \in {Absent, Torn, req[p].content}
    BY <1>2 DEF WInv, WriterState, WindowSteps
  <2>. QED BY <2>1, <1>1, <1>2, JsonLocal, ConstantsAssumption DEF Complete
<1>5. ASSUME NEW q \in Procs, pc[q] \in WindowSteps PROVE q = p
  BY <1>5, <1>3 DEF WInv, LockDiscipline, LockedSteps, WindowSteps
<1>6. ASSUME NEW q \in Revs, q < r PROVE q \in Committed
  <2>1. Complete(q)
    BY <1>2, <1>6 DEF WInv, WriterState
  <2>2. req[p].rev # q
    BY <1>2, <1>6, ConstantsAssumption DEF Revs
  <2>. QED BY <2>1, <2>2, <1>5 DEF Committed, InWindow
<1>7. ASSUME NEW q \in Revs, q >= r PROVE q \notin Committed
  <2>1. CASE q = r
    BY <2>1
  <2>2. CASE q # r
    <3>1. q > r
      BY <2>2, <1>7, <1>1, ConstantsAssumption DEF Revs
    <3>2. json[q] = Absent
      BY <3>1, <1>2 DEF WInv, WriterState
    <3>. QED BY <3>2, ConstantsAssumption DEF Committed, Complete
  <2>. QED BY <2>1, <2>2
<1>8. req'[p] = req[p]
  BY <1>2, WindowKeepsRequest DEF WInv
<1>. QED BY <1>2, <1>4, <1>6, <1>7, <1>8

LEMMA LinearStep ==
  ASSUME WInv, LinearHistory, NEW p \in Procs, Step(p)
  PROVE  LinearHistory'
<1>. SUFFICES ASSUME NEW r \in Committed'
             PROVE  /\ \A q \in Revs : q < r => q \in Committed'
                    /\ r > 1 => <<json'[r - 1], json'[r]>> \in Transition
  BY DEF LinearHistory
<1>1. \A q \in Committed : q \in Committed' /\ json'[q] = json[q]
  BY CommittedStable
<1>2. r \in Revs /\ (r > 1 => r - 1 \in Revs /\ r - 1 < r)
  BY ConstantsAssumption DEF Committed, Revs
<1>3. CASE r \in Committed
  BY <1>1, <1>2, <1>3 DEF LinearHistory
<1>4. CASE r \notin Committed
  <2>1. /\ pc[p] \in WindowSteps /\ req[p].rev = r /\ json'[r] = req[p].content
        /\ \A q \in Revs : q < r => q \in Committed
    BY <1>4, NewCommitted
  <2>2. r > 1 => <<json[r - 1], req[p].content>> \in Transition
    BY <2>1 DEF WInv, WriterState
  <2>. QED BY <1>1, <1>2, <2>1, <2>2
<1>. QED BY <1>3, <1>4

LEMMA IInit == Init => IInv
<1>. SUFFICES ASSUME Init PROVE IInv
  OBVIOUS
<1>1. TInv
  BY TInit
<1>2. LockDiscipline /\ \A p \in Procs : WriterState(p)
  BY ConstantsAssumption DEF Init, LockDiscipline, WriterState, LockedSteps, WindowSteps
<1>3. PointerCommitted /\ \A p \in Procs : SelectorState(p) /\ LoaderState(p) /\ Told(p)
  BY DEF Init, PointerCommitted, SelectorState, LoaderState, Told
<1>. QED BY <1>1, <1>2, <1>3 DEF IInv, WInv

LEMMA IStutter == IInv /\ UNCHANGED vars => IInv'
BY DEF IInv, WInv, TInv, TypeOK, RequestKind, LockDiscipline, WriterState, PointerCommitted,
       SelectorState, LoaderState, Told, Committed, InWindow, Complete, Selection,
       vars, files, procs, reads

LEMMA IBox == IInv /\ [Next]_vars => IInv'
BY IStep, IStutter DEF Next, Step

LEMMA LinearBox == IInv /\ LinearHistory /\ [Next]_vars => LinearHistory'
<1>. SUFFICES ASSUME IInv, LinearHistory, [Next]_vars PROVE LinearHistory'
  OBVIOUS
<1>1. CASE UNCHANGED vars
  BY <1>1 DEF LinearHistory, Committed, Complete, InWindow, vars, files, procs
<1>2. CASE Next
  BY <1>2, LinearStep DEF IInv, Next, Step
<1>. QED BY <1>1, <1>2

-----------------------------------------------------------------------------
(* The theorems                                                             *)

\* The inductive invariant: types and request kinds, the lock discipline, what
\* each writer, selector and loader knows at each of its steps, the pointer and
\* the results.
THEOREM Invariance == Spec => []IInv
BY IInit, IBox, PTL DEF Spec

\* Every variable keeps its type.
THEOREM TypeCorrect == Spec => []TypeOK
<1>1. IInv => TypeOK
  BY DEF IInv, WInv, TInv
<1>. QED BY <1>1, Invariance, PTL

\* Between _acquire_lock and _remove_lock a process owns .write.lock.
THEOREM LockSafe == Spec => []LockDiscipline
<1>1. IInv => LockDiscipline
  BY DEF IInv, WInv
<1>. QED BY <1>1, Invariance, PTL

\* current.json never names a pair that is missing, torn or can be rolled back.
THEOREM PointerSafe == Spec => []PointerCommitted
<1>1. IInv => PointerCommitted
  BY DEF IInv
<1>. QED BY <1>1, Invariance, PTL

\* What a caller was told is created, existing or selected is on disk for good.
THEOREM AcknowledgedSafe == Spec => []AcknowledgedDurable
<1>1. IInv => AcknowledgedDurable
  BY DEF IInv, Told, AcknowledgedDurable
<1>. QED BY <1>1, Invariance, PTL

\* What an unlocked load of the current revision returned is committed.
THEOREM LoadedSafe == Spec => []LoadedDurable
<1>1. IInv => LoadedDurable
  BY DEF IInv, Told, LoadedDurable
<1>. QED BY <1>1, Invariance, PTL

\* The committed history is contiguous from 1 and follows the transition rule.
THEOREM LinearSafe == Spec => []LinearHistory
<1>1. Init => LinearHistory
  BY ConstantsAssumption DEF Init, LinearHistory, Committed, Complete
<1>. QED BY <1>1, LinearBox, Invariance, PTL DEF Spec

\* No step changes or removes a committed revision.
THEOREM HistorySafe == Spec => HistoryImmutable
<1>1. IInv /\ [Next]_vars =>
       [\A r \in Committed : r \in Committed' /\ json'[r] = json[r]]_vars
  BY CommittedStable DEF IInv, Next, Step
<1>. QED BY <1>1, Invariance, PTL DEF Spec, HistoryImmutable

\* The pointer moves only from the revision the mover's caller expected.
THEOREM SelectionSafe == Spec => NoLostUpdate
<1> DEFINE Moved == current' # current =>
                      \E p \in Procs : /\ pc[p] = "replace"
                                       /\ current.rev = req[p].expected
                                       /\ current'.rev = req[p].rev
<1>1. IInv /\ [Next]_vars => [Moved]_vars
  <2>. SUFFICES ASSUME IInv, NEW p \in Procs, Step(p), current' # current
                PROVE  Moved
    BY DEF Next, Step
  <2>1. ReplaceCurrent(p)
    BY ReplaceOnly
  <2>2. pc[p] = "replace" /\ current'.rev = atRev[p]
    BY <2>1 DEF ReplaceCurrent, Selection
  <2>3. current.rev = req[p].expected /\ atRev[p] = req[p].rev
    BY <2>2 DEF IInv, SelectorState
  <2>. QED BY <2>2, <2>3
<1>. QED BY <1>1, Invariance, PTL DEF Spec, NoLostUpdate

-----------------------------------------------------------------------------
(* Refinement                                                               *)

revisionBar == [r \in Revs |-> IF r \in Committed THEN json[r] ELSE Absent]

LEMMA RefinesAppend ==
  ASSUME IInv, LinearHistory, NEW p \in Procs, Step(p), NEW r \in Committed', r \notin Committed
  PROVE  History!Append(r, req[p].content) /\ req[p].content \in Contents /\ r \in Revs
<1>1. /\ pc[p] \in WindowSteps /\ req[p].rev = r /\ json'[r] = req[p].content
      /\ \A q \in Revs : q < r => q \in Committed
      /\ \A q \in Revs : q >= r => q \notin Committed
  BY NewCommitted DEF IInv
<1>2. \A q \in Committed : q \in Committed' /\ json'[q] = json[q]
  BY CommittedStable DEF IInv
<1>3. r \in Revs /\ Committed \subseteq Revs /\ Committed' \subseteq Revs
  BY DEF Committed
<1>4. \A q \in Revs : q # r => (q \in Committed' <=> q \in Committed)
  BY <1>1, <1>2, NewCommitted DEF IInv
<1>5. revisionBar' = [revisionBar EXCEPT ![r] = req[p].content]
  BY <1>1, <1>2, <1>3, <1>4 DEF revisionBar
<1>6. \A q \in Revs : revisionBar[q] = Absent <=> q >= r
  <2>1. \A q \in Committed : json[q] # Absent
    BY ConstantsAssumption DEF Committed, Complete
  <2>2. \A q \in Revs : q < r <=> ~(q >= r)
    BY <1>3, ConstantsAssumption DEF Revs
  <2>. QED BY <1>1, <2>1, <2>2 DEF revisionBar
<1>7. r > 1 => <<revisionBar[r - 1], req[p].content>> \in Transition
  <2>1. r > 1 => r - 1 \in Revs /\ r - 1 < r
    BY <1>3, ConstantsAssumption DEF Revs
  <2>2. r > 1 => <<json[r - 1], req[p].content>> \in Transition
    BY <1>1 DEF IInv, WInv, WriterState
  <2>. QED BY <1>1, <2>1, <2>2 DEF revisionBar
<1>8. current' = current
  <2>1. ~ReplaceCurrent(p)
    BY <1>1 DEF ReplaceCurrent, WindowSteps
  <2>. QED BY <2>1, ReplaceOnly
<1>9. req[p].content \in Contents
  BY <1>1 DEF IInv, WInv, TInv, RequestKind, WindowSteps, WriteSteps, WriteRequests
<1>. QED BY <1>3, <1>5, <1>6, <1>7, <1>8, <1>9
        DEF History!Append, History!Revs, revisionBar, Revs

LEMMA RefinesSelect ==
  ASSUME IInv, NEW p \in Procs, ReplaceCurrent(p), Committed' = Committed
  PROVE  \E r \in Revs, e \in 0 .. MaxRev : History!Select(r, e)
<1>1. /\ atRev[p] \in Committed /\ current'.rev = atRev[p] /\ json' = json
      /\ current.rev = req[p].expected
  BY DEF ReplaceCurrent, IInv, SelectorState, Selection
<1>2. atRev[p] \in Revs /\ revisionBar[atRev[p]] # Absent /\ revisionBar' = revisionBar
  BY <1>1, ConstantsAssumption DEF Committed, Complete, revisionBar
<1>3. req[p].expected \in 0 .. MaxRev
  BY DEF ReplaceCurrent, IInv, WInv, TInv, RequestKind, SelectSteps, SelectRequests
<1>4. History!Select(atRev[p], req[p].expected)
  BY <1>1, <1>2 DEF History!Select, History!Revs, revisionBar, Revs
<1>. QED BY <1>2, <1>3, <1>4

\* The files, the lock and all the interleavings implement the append-only history
\* with compare-and-swap selection.
THEOREM Refinement == Spec => ImplementsHistory
<1>1. Init => History!Init
  <2>. SUFFICES ASSUME Init PROVE History!Init
    OBVIOUS
  <2>1. Committed = {}
    BY ConstantsAssumption DEF Init, Committed, Complete
  <2>. QED BY <2>1 DEF Init, NoPointer, History!Init, History!Revs, Revs
<1>2. IInv /\ LinearHistory /\ [Next]_vars => [History!Next]_(History!vars)
  <2>. SUFFICES ASSUME IInv, LinearHistory, [Next]_vars PROVE [History!Next]_(History!vars)
    OBVIOUS
  <2>1. CASE UNCHANGED vars
    BY <2>1 DEF History!vars, Committed, Complete, InWindow, vars, files, procs
  <2>2. ASSUME NEW p \in Procs, Step(p) PROVE [History!Next]_(History!vars)
    <3>1. CASE \E r \in Committed' : r \notin Committed
      <4>1. PICK r \in Committed' : r \notin Committed
        BY <3>1
      <4>2. History!Append(r, req[p].content) /\ req[p].content \in Contents /\ r \in Revs
        BY <2>2, <4>1, RefinesAppend
      <4>3. r \in History!Revs
        BY <4>2 DEF History!Revs, Revs
      <4>4. \E s \in History!Revs, c \in Contents : History!Append(s, c)
        BY <4>2, <4>3 DEF History!Append
      <4>. QED BY <4>4 DEF History!Next
    <3>2. CASE Committed' \subseteq Committed
      <4>1. \A q \in Committed : q \in Committed' /\ json'[q] = json[q]
        BY <2>2, CommittedStable DEF IInv
      <4>2. Committed' = Committed
        BY <3>2, <4>1
      <4>3. CASE ReplaceCurrent(p)
        BY <4>2, <4>3, RefinesSelect DEF History!Next, History!Revs, Revs
      <4>4. CASE ~ReplaceCurrent(p)
        <5>1. current' = current
          BY <2>2, <4>4, ReplaceOnly
        <5>. QED BY <5>1, <4>1, <4>2 DEF History!vars
      <4>. QED BY <4>3, <4>4
    <3>. QED BY <3>1, <3>2
  <2>. QED BY <2>1, <2>2 DEF Next, Step
<1>. QED BY <1>1, <1>2, Invariance, LinearSafe, PTL DEF Spec, ImplementsHistory, History!Spec
=============================================================================

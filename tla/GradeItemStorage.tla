---------------------------- MODULE GradeItemStorage ----------------------------
(***************************************************************************)
(* The canonical store of one Grade Item (meridian/grade_item_storage.py), *)
(* one file-system operation per step.                                     *)
(*                                                                         *)
(* Several processes call the store.  Writers and selectors serialise on   *)
(* the file .write.lock; readers take no lock.  A revision is two files,   *)
(* r.json and r.json.sha256, created exclusively one after the other; the  *)
(* selection is current.json, replaced by renaming a temporary file.  A    *)
(* process may die between any two steps (Crash), and a system call may    *)
(* fail (the ...Fails actions).  The digest of a content is modelled by    *)
(* the content itself: distinct contents have distinct digests.            *)
(***************************************************************************)
EXTENDS Naturals, FiniteSets

CONSTANTS Procs,        \* processes that use the store
          MaxRev,       \* bound on revision numbers
          Contents,     \* canonical byte contents of a revision
          Transition,   \* pairs of consecutive contents the domain accepts
          Ops,          \* the operations that are called
          MaxCrashes,   \* bound on the crashes of a behaviour
          MaxIOErrors,  \* bound on the failing system calls of a behaviour
          Absent,       \* the state of a file that does not exist
          Torn,         \* the state of a file created and not filled
          NoProc,       \* lock: the lock file does not exist
          Orphan        \* lock: the lock file exists and no process owns it

ASSUME ConstantsAssumption ==
  /\ MaxRev \in Nat \ {0}
  /\ MaxCrashes \in Nat
  /\ MaxIOErrors \in Nat
  /\ Transition \subseteq Contents \X Contents
  /\ Absent \notin Contents
  /\ Torn \notin Contents
  /\ Absent # Torn
  /\ NoProc \notin Procs
  /\ Orphan \notin Procs
  /\ NoProc # Orphan

Revs == 1 .. MaxRev
FileStates == Contents \cup {Absent, Torn}

\* The canonical current.json: revision 0 is the missing pointer.
Pointers == [rev : Revs, sha : Contents]
NoPointer == [rev |-> 0, sha |-> Absent]

WriteRequests == [op : {"write"}, rev : Revs, content : Contents]
SelectRequests == [op : {"select"}, rev : Revs, expected : 0 .. MaxRev]
ReadRequests == [op : {"list", "load", "ids"}]
Requests == WriteRequests \cup SelectRequests \cup ReadRequests

VARIABLES dir,       \* the item's directory exists
          lock,      \* the owner of .write.lock
          json,      \* r.json, per revision number
          side,      \* r.json.sha256, per revision number
          current,   \* current.json
          temp,      \* a file .current.json.*.tmp exists in the directory
          pc,        \* the next step of each process
          req,       \* the call each process is executing, or its last one
          atRev,     \* the revision each process is reading or selecting
          bytes,     \* the bytes it read from r.json
          digest,    \* the digest its pointer demands, or its selection records
          upto,      \* the highest revision the names it listed announce
          outcome,   \* the result, or the error, of the last call
          crashes,   \* processes killed so far
          ioErrors   \* system calls that failed so far

files == <<dir, lock, json, side, current, temp>>
reads == <<atRev, bytes, digest, upto>>
procs == <<pc, req, reads, outcome>>
vars == <<files, procs, crashes, ioErrors>>

WriteSteps == {"ensure", "mkdir", "check", "openjson", "filljson", "openside",
               "fillside", "sync", "cleanside", "cleanjson", "verify"}
SelectSteps == {"chain", "cas", "opentemp", "replace", "cleantemp", "verifysel"}
ReadSteps == {"entries", "names", "readjson", "readside"}
Steps == WriteSteps \cup SelectSteps \cup ReadSteps \cup {"idle", "lock", "unlock"}

\* The steps between _acquire_lock and _remove_lock.
LockedSteps == {"check", "openjson", "filljson", "openside", "fillside", "sync",
                "cleanside", "cleanjson", "verify", "cas", "opentemp", "replace",
                "cleantemp", "verifysel", "unlock"}

\* The steps at which a writer may still remove the pair it is creating.
WindowSteps == {"openjson", "filljson", "openside", "fillside", "sync",
                "cleanside", "cleanjson"}

Outcomes == {"none", "created", "existing", "updated", "listed", "loaded",
             "empty", "conflict", "locked", "not_found", "integrity",
             "write_error", "read_error", "crashed"}

TypeOK ==
  /\ dir \in BOOLEAN
  /\ lock \in Procs \cup {NoProc, Orphan}
  /\ json \in [Revs -> FileStates]
  /\ side \in [Revs -> FileStates]
  /\ current \in Pointers \cup {NoPointer}
  /\ temp \in BOOLEAN
  /\ pc \in [Procs -> Steps]
  /\ req \in [Procs -> Requests]
  /\ atRev \in [Procs -> 0 .. MaxRev]
  /\ bytes \in [Procs -> FileStates]
  /\ digest \in [Procs -> FileStates]
  /\ upto \in [Procs -> 0 .. MaxRev]
  /\ outcome \in [Procs -> Outcomes]
  /\ crashes \in 0 .. MaxCrashes
  /\ ioErrors \in 0 .. MaxIOErrors

Init ==
  /\ dir = FALSE
  /\ lock = NoProc
  /\ json = [r \in Revs |-> Absent]
  /\ side = [r \in Revs |-> Absent]
  /\ current = NoPointer
  /\ temp = FALSE
  /\ pc = [p \in Procs |-> "idle"]
  /\ req = [p \in Procs |-> [op |-> "load"]]
  /\ atRev = [p \in Procs |-> 0]
  /\ bytes = [p \in Procs |-> Absent]
  /\ digest = [p \in Procs |-> Absent]
  /\ upto = [p \in Procs |-> 0]
  /\ outcome = [p \in Procs |-> "none"]
  /\ crashes = 0
  /\ ioErrors = 0

-----------------------------------------------------------------------------
(* Reading the store *)

\* load_grade_item_revision succeeds with content c.
Holds(r, c) == c \in Contents /\ json[r] = c /\ side[r] = c
Complete(r) == json[r] \in Contents /\ side[r] = json[r]

\* list_grade_item_revisions returns 1 .. n.
HistoryIs(n) ==
  /\ \A r \in Revs : IF r <= n THEN Complete(r) ELSE json[r] = Absent /\ side[r] = Absent
  /\ \A r \in Revs : r < n => <<json[r], json[r + 1]>> \in Transition

\* The names that listing sees agree and are contiguous: the files' contents
\* are read later, one at a time.
NamesAre(n) ==
  \A r \in Revs : (json[r] # Absent <=> r <= n) /\ (side[r] # Absent <=> r <= n)

-----------------------------------------------------------------------------
(* Moving a process *)

Goto(p, step) == pc' = [pc EXCEPT ![p] = step]

\* A call that holds no lock returns to its caller.
Return(p, result) == Goto(p, "idle") /\ outcome' = [outcome EXCEPT ![p] = result]

\* A call that holds the lock leaves the try block with this result.
Leave(p, result) == Goto(p, "unlock") /\ outcome' = [outcome EXCEPT ![p] = result]

IOError == ioErrors < MaxIOErrors /\ ioErrors' = ioErrors + 1 /\ UNCHANGED crashes
NoFault == UNCHANGED <<crashes, ioErrors>>

Call(p) ==
  /\ pc[p] = "idle"
  /\ \E q \in Requests :
       /\ q.op \in Ops
       /\ req' = [req EXCEPT ![p] = q]
       /\ Goto(p, CASE q.op = "write" -> "ensure"
                    [] q.op = "select" -> "chain"
                    [] OTHER -> "entries")
  /\ atRev' = [atRev EXCEPT ![p] = 0]
  /\ bytes' = [bytes EXCEPT ![p] = Absent]
  /\ digest' = [digest EXCEPT ![p] = Absent]
  /\ upto' = [upto EXCEPT ![p] = 0]
  /\ outcome' = [outcome EXCEPT ![p] = "none"]
  /\ NoFault /\ UNCHANGED files

-----------------------------------------------------------------------------
(* The directory and the lock *)

\* exists() and mkdir() are two calls: another writer may create it between.
EnsureDirectory(p) ==
  /\ pc[p] = "ensure"
  /\ Goto(p, IF dir THEN "lock" ELSE "mkdir")
  /\ NoFault /\ UNCHANGED <<files, req, reads, outcome>>

MakeDirectory(p) ==
  /\ pc[p] = "mkdir"
  /\ IF dir THEN Return(p, "write_error") /\ UNCHANGED dir
            ELSE dir' = TRUE /\ Goto(p, "lock") /\ UNCHANGED outcome
  /\ NoFault /\ UNCHANGED <<lock, json, side, current, temp, req, reads>>

CheckDirectoryChain(p) ==
  /\ pc[p] = "chain"
  /\ IF dir THEN Goto(p, "lock") /\ UNCHANGED outcome ELSE Return(p, "not_found")
  /\ NoFault /\ UNCHANGED <<files, req, reads>>

\* Faulty variant: the lock file is opened with "wb", not with "xb".
AcquireLockShared(p) ==
  /\ pc[p] = "lock"
  /\ lock' = p
  /\ Goto(p, IF req[p].op = "write" THEN "check" ELSE "cas")
  /\ NoFault /\ UNCHANGED <<dir, json, side, current, temp, req, reads, outcome>>

AcquireLock(p) ==
  /\ pc[p] = "lock"
  /\ IF lock = NoProc
     THEN /\ lock' = p
          /\ Goto(p, IF req[p].op = "write" THEN "check" ELSE "cas")
          /\ UNCHANGED outcome
     ELSE Return(p, "locked") /\ UNCHANGED lock
  /\ NoFault /\ UNCHANGED <<dir, json, side, current, temp, req, reads>>

\* Creating the lock file fails; or it is created, then writing or syncing it
\* fails, and _acquire_lock raises before the try block whose finally clause
\* would remove the file.
AcquireLockFails(p) ==
  /\ pc[p] = "lock"
  /\ lock = NoProc
  /\ lock' \in {NoProc, Orphan}
  /\ Return(p, "write_error")
  /\ IOError /\ UNCHANGED <<dir, json, side, current, temp, req, reads>>

\* Faulty variant: the lock is not removed after a refused call.
ReleaseLockOnSuccess(p) ==
  /\ pc[p] = "unlock"
  /\ lock' = IF outcome[p] = "conflict" THEN Orphan ELSE NoProc
  /\ Goto(p, "idle")
  /\ NoFault /\ UNCHANGED <<dir, json, side, current, temp, req, reads, outcome>>

ReleaseLock(p) ==
  /\ pc[p] = "unlock"
  /\ lock' = NoProc
  /\ Goto(p, "idle")
  /\ NoFault /\ UNCHANGED <<dir, json, side, current, temp, req, reads, outcome>>

\* unlink fails in the finally clause: its error replaces the result.
ReleaseLockFails(p) ==
  /\ pc[p] = "unlock"
  /\ lock' = Orphan
  /\ Return(p, "write_error")
  /\ IOError /\ UNCHANGED <<dir, json, side, current, temp, req, reads>>

-----------------------------------------------------------------------------
(* write_grade_item_revision, under the lock *)

\* Faulty variants: an existing revision of other bytes is overwritten, or passed
\* for the candidate; a gap in the numbers is accepted; the transition rule is
\* not applied; a half pair is written again.
WriteVerdictOverwrites(p) ==
  IF temp THEN "integrity" ELSE IF Holds(req[p].rev, req[p].content) THEN "existing" ELSE "proceed"

WriteVerdictAnyBytes(p) ==
  CASE temp -> "integrity"
    [] ~temp /\ Complete(req[p].rev) -> "existing"
    [] OTHER -> IF HistoryIs(req[p].rev - 1) THEN "proceed" ELSE "conflict"

WriteVerdictGap(p) ==
  CASE temp -> "integrity"
    [] ~temp /\ json[req[p].rev] # Absent -> "conflict"
    [] OTHER -> IF \E n \in 0 .. req[p].rev - 1 : HistoryIs(n) THEN "proceed" ELSE "integrity"

WriteVerdictNoTransition(p) ==
  CASE temp -> "integrity"
    [] ~temp /\ json[req[p].rev] # Absent -> "conflict"
    [] OTHER -> IF /\ \A r \in Revs : Complete(r) <=> r < req[p].rev
                   /\ \A r \in Revs : ~Complete(r) => json[r] = Absent /\ side[r] = Absent
                THEN "proceed" ELSE "conflict"

WriteVerdictRepairs(p) ==
  CASE temp -> "integrity"
    [] ~temp /\ Complete(req[p].rev) -> "conflict"
    [] OTHER -> IF \A r \in Revs : r < req[p].rev => Complete(r) THEN "proceed" ELSE "conflict"

\* What the checks before the first created file decide.
WriteVerdict(p) ==
  LET r == req[p].rev
      c == req[p].content
  IN CASE temp -> "integrity"
       [] ~temp /\ (json[r] # Absent \/ side[r] # Absent) ->
            IF ~Complete(r) THEN "integrity"
            ELSE IF json[r] = c THEN "existing" ELSE "conflict"
       [] OTHER ->
            IF ~ \E n \in 0 .. MaxRev : HistoryIs(n) THEN "integrity"
            ELSE IF /\ HistoryIs(r - 1)
                    /\ r > 1 => <<json[r - 1], c>> \in Transition
                 THEN "proceed" ELSE "conflict"

CheckWrite(p) ==
  /\ pc[p] = "check"
  /\ IF WriteVerdict(p) = "proceed"
     THEN Goto(p, "openjson") /\ UNCHANGED outcome
     ELSE Leave(p, WriteVerdict(p))
  /\ NoFault /\ UNCHANGED <<files, req, reads>>

OpenJson(p) ==
  /\ pc[p] = "openjson"
  /\ json' = [json EXCEPT ![req[p].rev] = Torn]
  /\ Goto(p, "filljson")
  /\ NoFault /\ UNCHANGED <<dir, lock, side, current, temp, req, reads, outcome>>

FillJson(p) ==
  /\ pc[p] = "filljson"
  /\ json' = [json EXCEPT ![req[p].rev] = req[p].content]
  /\ Goto(p, "openside")
  /\ NoFault /\ UNCHANGED <<dir, lock, side, current, temp, req, reads, outcome>>

OpenSide(p) ==
  /\ pc[p] = "openside"
  /\ side' = [side EXCEPT ![req[p].rev] = Torn]
  /\ Goto(p, "fillside")
  /\ NoFault /\ UNCHANGED <<dir, lock, json, current, temp, req, reads, outcome>>

\* From here every reader finds a verified pair; fsync may still fail.
FillSide(p) ==
  /\ pc[p] = "fillside"
  /\ side' = [side EXCEPT ![req[p].rev] = req[p].content]
  /\ Goto(p, "sync")
  /\ NoFault /\ UNCHANGED <<dir, lock, json, current, temp, req, reads, outcome>>

SyncSide(p) ==
  /\ pc[p] = "sync"
  /\ Goto(p, "verify")
  /\ NoFault /\ UNCHANGED <<files, req, reads, outcome>>

\* An OSError of the pair's open, write, flush or fsync: the error handler
\* removes what was created, sidecar first.
WritePairFails(p) ==
  /\ \/ pc[p] = "openjson" /\ Leave(p, "write_error") /\ UNCHANGED json
     \/ /\ pc[p] = "filljson"
        /\ \/ UNCHANGED json
           \/ json' = [json EXCEPT ![req[p].rev] = req[p].content]
        /\ Goto(p, "cleanjson") /\ UNCHANGED outcome
     \/ pc[p] = "openside" /\ Goto(p, "cleanjson") /\ UNCHANGED <<json, outcome>>
     \/ pc[p] \in {"fillside", "sync"} /\ Goto(p, "cleanside") /\ UNCHANGED <<json, outcome>>
  /\ IOError /\ UNCHANGED <<dir, lock, side, current, temp, req, reads>>

RemoveSide(p) ==
  /\ pc[p] = "cleanside"
  /\ side' = [side EXCEPT ![req[p].rev] = Absent]
  /\ Goto(p, "cleanjson")
  /\ NoFault /\ UNCHANGED <<dir, lock, json, current, temp, req, reads, outcome>>

RemoveJson(p) ==
  /\ pc[p] = "cleanjson"
  /\ json' = [json EXCEPT ![req[p].rev] = Absent]
  /\ Leave(p, "write_error")
  /\ NoFault /\ UNCHANGED <<dir, lock, side, current, temp, req, reads>>

\* _remove_file swallows the error of unlink and leaves the file.
RemoveFails(p) ==
  /\ \/ pc[p] = "cleanside" /\ Goto(p, "cleanjson") /\ UNCHANGED outcome
     \/ pc[p] = "cleanjson" /\ Leave(p, "write_error")
  /\ IOError /\ UNCHANGED <<files, req, reads>>

VerifyWrite(p) ==
  /\ pc[p] = "verify"
  /\ Leave(p, IF Holds(req[p].rev, req[p].content) THEN "created" ELSE "integrity")
  /\ NoFault /\ UNCHANGED <<files, req, reads>>

-----------------------------------------------------------------------------
(* select_grade_item_revision, under the lock *)

\* Faulty variants: the expected current revision is not compared; the target's
\* sidecar is not read.
SelectVerdictNoCompare(p) ==
  IF ~temp /\ Complete(req[p].rev) THEN "proceed" ELSE "integrity"

SelectVerdictUnverified(p) ==
  IF ~temp /\ json[req[p].rev] # Absent /\ current.rev = req[p].expected
  THEN "proceed" ELSE "integrity"

SelectVerdict(p) ==
  LET r == req[p].rev
  IN CASE temp -> "integrity"
       [] ~temp /\ (json[r] = Absent \/ side[r] = Absent) -> "not_found"
       [] ~temp /\ json[r] # Absent /\ side[r] # Absent /\ ~Complete(r) -> "integrity"
       [] OTHER -> IF current.rev # req[p].expected THEN "conflict"
                   ELSE IF current = [rev |-> r, sha |-> json[r]] THEN "existing" ELSE "proceed"

CheckSelection(p) ==
  /\ pc[p] = "cas"
  /\ IF SelectVerdict(p) = "proceed"
     THEN /\ Goto(p, "opentemp")
          /\ atRev' = [atRev EXCEPT ![p] = req[p].rev]
          /\ digest' = [digest EXCEPT ![p] = json[req[p].rev]]
          /\ UNCHANGED outcome
     ELSE Leave(p, SelectVerdict(p)) /\ UNCHANGED <<atRev, digest>>
  /\ NoFault /\ UNCHANGED <<files, req, bytes, upto>>

\* Faulty variant: the digest is taken from the read buffer, not from the target.
SelectionOfBuffer(p) == [rev |-> atRev[p], sha |-> bytes[p]]

\* The GradeItemCurrentSelection built from the verified target.
Selection(p) == [rev |-> atRev[p], sha |-> digest[p]]

\* The temporary file appears in the directory that every check enumerates.
OpenTemporary(p) ==
  /\ pc[p] = "opentemp"
  /\ temp' = TRUE
  /\ Goto(p, "replace")
  /\ NoFault /\ UNCHANGED <<dir, lock, json, side, current, req, reads, outcome>>

ReplaceCurrent(p) ==
  /\ pc[p] = "replace"
  /\ current' = Selection(p)
  /\ temp' = FALSE
  /\ Goto(p, "verifysel")
  /\ NoFault /\ UNCHANGED <<dir, lock, json, side, req, reads, outcome>>

PublishFails(p) ==
  /\ \/ pc[p] = "opentemp" /\ Leave(p, "write_error")
     \/ pc[p] = "replace" /\ Goto(p, "cleantemp") /\ UNCHANGED outcome
  /\ IOError /\ UNCHANGED <<files, req, reads>>

RemoveTemporary(p) ==
  /\ pc[p] = "cleantemp"
  /\ temp' = FALSE
  /\ Leave(p, "write_error")
  /\ NoFault /\ UNCHANGED <<dir, lock, json, side, current, req, reads>>

RemoveTemporaryFails(p) ==
  /\ pc[p] = "cleantemp"
  /\ Leave(p, "write_error")
  /\ IOError /\ UNCHANGED <<files, req, reads>>

VerifySelection(p) ==
  /\ pc[p] = "verifysel"
  /\ Leave(p, CASE current # Selection(p) -> "integrity"
                [] current = Selection(p) /\ req[p].expected = 0 -> "created"
                [] OTHER -> "updated")
  /\ NoFault /\ UNCHANGED <<files, req, reads>>

\* Reading a file fails while the lock is held; nothing is undone.
ReadFails(p) ==
  /\ pc[p] \in {"check", "verify", "cas", "verifysel"}
  /\ Leave(p, "read_error")
  /\ IOError /\ UNCHANGED <<files, req, reads>>
-----------------------------------------------------------------------------
(* The readers, which take no lock *)

\* _validate_item_directory_entries finds only the names the store knows, and the
\* call goes on to its first file: the pointer's target, the revision 1 that
\* names the item, or the list of names.
ReadEntries(p) ==
  /\ pc[p] = "entries"
  /\ dir /\ ~temp
  /\ \/ /\ req[p].op = "load" /\ current # NoPointer
        /\ atRev' = [atRev EXCEPT ![p] = current.rev]
        /\ digest' = [digest EXCEPT ![p] = current.sha]
        /\ Goto(p, "readjson")
     \/ /\ req[p].op = "ids"
        /\ atRev' = [atRev EXCEPT ![p] = 1]
        /\ Goto(p, "readjson") /\ UNCHANGED digest
     \/ /\ req[p].op = "list"
        /\ Goto(p, "names") /\ UNCHANGED <<atRev, digest>>
  /\ NoFault /\ UNCHANGED <<files, req, bytes, upto, outcome>>

\* There is nothing to read, or a temporary file is in the way.
ReadEntriesEnds(p) ==
  /\ pc[p] = "entries"
  /\ \/ ~dir /\ Return(p, IF req[p].op = "load" THEN "empty" ELSE "listed")
     \/ dir /\ temp /\ Return(p, "integrity")
     \/ /\ dir /\ ~temp /\ req[p].op = "load" /\ current = NoPointer
        /\ Return(p, "empty")
  /\ NoFault /\ UNCHANGED <<files, req, reads>>

ReadNames(p) ==
  /\ pc[p] = "names"
  /\ ~temp
  /\ \E n \in Revs :
       /\ NamesAre(n)
       /\ upto' = [upto EXCEPT ![p] = n]
  /\ atRev' = [atRev EXCEPT ![p] = 1]
  /\ Goto(p, "readjson")
  /\ NoFault /\ UNCHANGED <<files, req, bytes, digest, outcome>>

\* No revision, or names that are not a contiguous set of pairs.
ReadNamesEnds(p) ==
  /\ pc[p] = "names"
  /\ temp \/ \A n \in Revs : ~NamesAre(n)
  /\ Return(p, IF ~temp /\ NamesAre(0) /\ req[p].op = "list" THEN "listed" ELSE "integrity")
  /\ NoFault /\ UNCHANGED <<files, req, reads>>

ReadJson(p) ==
  /\ pc[p] = "readjson"
  /\ IF json[atRev[p]] = Absent
     THEN Return(p, "not_found") /\ UNCHANGED bytes
     ELSE /\ bytes' = [bytes EXCEPT ![p] = json[atRev[p]]]
          /\ Goto(p, "readside") /\ UNCHANGED outcome
  /\ NoFault /\ UNCHANGED <<files, req, atRev, digest, upto>>

\* Faulty variant: the sidecar only has to exist.
VerifiedByPresence(p) == side[atRev[p]] # Absent

\* The sidecar verifies the bytes that were read before it.
Verified(p) == /\ bytes[p] \in Contents
               /\ side[atRev[p]] = bytes[p]
               /\ req[p].op = "load" => bytes[p] = digest[p]

\* Faulty variant: the loop over the listed revisions never advances.
ReadOnForever(p) ==
  /\ pc[p] = "readside"
  /\ Verified(p)
  /\ \/ req[p].op = "ids" /\ upto[p] = 0 /\ Goto(p, "names")
     \/ req[p].op # "load" /\ atRev[p] < upto[p] /\ Goto(p, "readjson")
  /\ NoFault /\ UNCHANGED <<files, req, reads, outcome>>

\* The revision is verified and there is more to read.
ReadOn(p) ==
  /\ pc[p] = "readside"
  /\ Verified(p)
  /\ \/ /\ req[p].op = "ids" /\ upto[p] = 0
        /\ Goto(p, "names") /\ UNCHANGED atRev
     \/ /\ req[p].op # "load" /\ atRev[p] < upto[p]
        /\ atRev' = [atRev EXCEPT ![p] = @ + 1]
        /\ Goto(p, "readjson")
  /\ NoFault /\ UNCHANGED <<files, req, bytes, digest, upto, outcome>>

ReadReturns(p) ==
  /\ pc[p] = "readside"
  /\ \/ side[atRev[p]] = Absent /\ Return(p, "not_found")
     \/ side[atRev[p]] # Absent /\ ~Verified(p) /\ Return(p, "integrity")
     \/ Verified(p) /\ req[p].op = "load" /\ Return(p, "loaded")
     \/ /\ Verified(p) /\ req[p].op # "load" /\ atRev[p] = upto[p]
        /\ Return(p, "listed")
  /\ NoFault /\ UNCHANGED <<files, req, reads>>

-----------------------------------------------------------------------------
\* The process is killed; another takes its place.  Its files stay.
Crash(p) ==
  /\ pc[p] # "idle"
  /\ crashes < MaxCrashes
  /\ crashes' = crashes + 1
  /\ lock' = IF lock = p THEN Orphan ELSE lock
  /\ Return(p, "crashed")
  /\ UNCHANGED <<dir, json, side, current, temp, req, reads, ioErrors>>

\* What a running call does next when no system call fails.
Run(p) ==
  \/ EnsureDirectory(p) \/ MakeDirectory(p) \/ CheckDirectoryChain(p)
  \/ AcquireLock(p) \/ ReleaseLock(p)
  \/ CheckWrite(p) \/ OpenJson(p) \/ FillJson(p) \/ OpenSide(p) \/ FillSide(p)
  \/ SyncSide(p) \/ RemoveSide(p) \/ RemoveJson(p) \/ VerifyWrite(p)
  \/ CheckSelection(p) \/ OpenTemporary(p) \/ ReplaceCurrent(p)
  \/ RemoveTemporary(p) \/ VerifySelection(p)
  \/ ReadEntries(p) \/ ReadEntriesEnds(p) \/ ReadNames(p) \/ ReadNamesEnds(p)
  \/ ReadJson(p) \/ ReadOn(p) \/ ReadReturns(p)

Fail(p) ==
  \/ AcquireLockFails(p) \/ ReleaseLockFails(p) \/ WritePairFails(p)
  \/ RemoveFails(p) \/ PublishFails(p) \/ RemoveTemporaryFails(p) \/ ReadFails(p)

Next == \E p \in Procs : Call(p) \/ Run(p) \/ Fail(p) \/ Crash(p)

Spec == Init /\ [][Next]_vars

\* A synchronous call that was started runs until it returns.  Nothing forces a
\* process to call, to crash or to meet an I/O error.
FairSpec == Spec /\ \A p \in Procs : WF_vars(Run(p))
-----------------------------------------------------------------------------
(* What the store guarantees *)

\* A writer that may still undo it has not settled revision r.
InWindow(r) == \E p \in Procs : pc[p] \in WindowSteps /\ req[p].rev = r

\* The revisions that are part of the item's immutable history.
Committed == {r \in Revs : Complete(r) /\ ~InWindow(r)}

\* Only the owner of .write.lock is between _acquire_lock and _remove_lock, and
\* the lock file has an owner only while that process is there.
LockDiscipline ==
  /\ \A p \in Procs : pc[p] \in LockedSteps => lock = p
  /\ lock \in Procs => pc[lock] \in LockedSteps

\* current.json always names a committed revision, by its exact digest: no crash,
\* failed call or interleaving publishes a pointer to a pair that can vanish.
PointerCommitted ==
  current # NoPointer => /\ current.rev \in Committed
                         /\ json[current.rev] = current.sha

\* A revision the store reported as created or existing, and one it reported as
\* selected, is and stays on disk, whatever the other processes do meanwhile.
AcknowledgedDurable ==
  \A p \in Procs :
    outcome[p] \in {"created", "existing", "updated"} =>
      /\ req[p].rev \in Committed
      /\ req[p].op = "write" => json[req[p].rev] = req[p].content

\* What load_current_grade_item_revision returned without a lock, one file after
\* the other, is a committed revision.
LoadedDurable ==
  \A p \in Procs :
    outcome[p] = "loaded" => /\ atRev[p] \in Committed
                             /\ json[atRev[p]] = bytes[p]

\* A listing is taken without a lock too, and may include a pair its writer has
\* not synced yet; as long as no system call failed, that pair is there to stay,
\* even when the writer is killed.
ListedDurable ==
  ioErrors = 0 =>
    \A p \in Procs :
      outcome[p] = "listed" => \A r \in 1 .. upto[p] : Complete(r)

\* The committed history starts at revision 1, has no hole, and each revision is
\* an accepted successor of the one before it.
LinearHistory ==
  \A r \in Committed :
    /\ \A q \in Revs : q < r => q \in Committed
    /\ r > 1 => <<json[r - 1], json[r]>> \in Transition

\* "Revision persistence never overwrites a historical revision": no step of any
\* process changes or removes a committed pair.
HistoryImmutable ==
  [][\A r \in Committed : r \in Committed' /\ json'[r] = json[r]]_vars

\* "A stale expectation fails rather than silently winning a race": the pointer
\* moves only when it still is the one the mover's caller expected.
NoLostUpdate ==
  [][current' # current =>
       \E p \in Procs : /\ pc[p] = "replace"
                        /\ current.rev = req[p].expected
                        /\ current'.rev = req[p].rev]_vars

\* What a dead or failed call left behind.
HalfPair(r) == (json[r] # Absent \/ side[r] # Absent) /\ ~Complete(r) /\ ~InWindow(r)
StrayTemporary == temp /\ \A p \in Procs : pc[p] \notin {"replace", "cleantemp"}

\* "Unexpected residual files fail closed rather than becoming invisible state": a
\* left-over half pair is never taken up again and stops every later revision, a
\* left-over temporary file also stops every later selection, and so does a lock
\* file without an owner, which nothing removes.
FailClosed ==
  [][/\ \A r \in Revs : HalfPair(r) => HalfPair(r)' /\ UNCHANGED <<json, side>>
     /\ StrayTemporary => UNCHANGED <<json, side, current>>
     /\ lock = Orphan => lock' = Orphan /\ UNCHANGED <<json, side, current>>]_vars

\* The store implements the append-only history with compare-and-swap selection.
History == INSTANCE GradeItemHistory WITH
  revision <- [r \in Revs |-> IF r \in Committed THEN json[r] ELSE Absent],
  selected <- current.rev

ImplementsHistory == History!Spec

\* Until a process is killed or a system call fails, a lock that is taken is released.
LockReleased == (lock # NoProc) ~> (lock = NoProc \/ crashes + ioErrors > 0)

\* Every call returns, whatever fails around it.
CallsReturn == \A p \in Procs : pc[p] # "idle" ~> pc[p] = "idle"
=============================================================================

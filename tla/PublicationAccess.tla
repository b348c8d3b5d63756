---------------------------- MODULE PublicationAccess ----------------------------
(***************************************************************************)
(* How a teacher grants access to publications: preview_publication_access *)
(* and commit_publication_access (publication_authorization_setup.py) on   *)
(* the one policy file of a workspace, which no lock protects.  A preview  *)
(* reads the file twice: it is bound to the bytes of the first read and    *)
(* extends the grants of the second.  The commit compares with the first,  *)
(* writes a temporary file, compares again and renames it over the policy. *)
(***************************************************************************)
EXTENDS Naturals, Sequences, FiniteSets

CONSTANTS Procs,      \* menus and processes in which access is set up
          Grants,     \* grants a teacher may review
          MaxEdits,   \* bound on the policies written by hand
          MaxCrashes, \* bound on the crashes of a behaviour
          MaxFaults,  \* bound on the steps that raise
          Absent,     \* there is no policy file
          Torn        \* a file that is not a valid policy

\* The bytes of a policy: its version and its grants in their order.
Policies == [version : Nat \ {0}, grants : Seq(Grants)]

ASSUME AccessAssumption ==
  /\ MaxEdits \in Nat /\ MaxCrashes \in Nat /\ MaxFaults \in Nat
  /\ IsFiniteSet(Procs) /\ IsFiniteSet(Grants) /\ Absent # Torn
  /\ Absent \notin Policies /\ Torn \notin Policies

Files == Policies \cup {Absent, Torn}

IsPolicy(f) == f \notin {Absent, Torn}
GrantsOf(f) == IF IsPolicy(f) THEN {f.grants[i] : i \in DOMAIN f.grants} ELSE {}

VARIABLES file,     \* authorization-policy.json
          strays,   \* temporary files dead or failed calls left behind
          pc,       \* the next step of each process
          before,   \* the bytes that the first read of a running preview gave
          plan,     \* the preview each process holds
          outcome,  \* the result of its last call
          fresh,    \* history: the file has not been replaced since p's last comparison
          edits, crashes, faults

calls == <<pc, before, plan, outcome>>
counters == <<edits, crashes, faults>>
vars == <<file, strays, calls, fresh, counters>>

Steps == {"idle", "grants", "compare", "temp", "fill", "latest", "replace", "cleanup", "load"}
Outcomes == {"none", "previewed", "invalid", "changed", "committed", "raised", "crashed"}

\* agreed is history, no field of the code's plan: both reads of the preview gave the
\* same bytes.
Plans == [old : Files, grant : Grants, changed : BOOLEAN, proposed : Policies \cup {Torn},
          agreed : BOOLEAN]

NoPlan == [old |-> Absent]

\* preview_publication_access for an existing grant, and for a new one: what the commit
\* compares with is the first read, old; the grants, and the number of the next version,
\* come from the second one, f.
Proposal(old, f, g) ==
  [old |-> old, grant |-> g, changed |-> g \notin GrantsOf(f), agreed |-> old = f,
   proposed |-> IF g \in GrantsOf(f) THEN old
                ELSE IF f = Absent THEN [version |-> 1, grants |-> <<g>>]
                ELSE [version |-> f.version + 1, grants |-> Append(f.grants, g)]]

Init ==
  /\ file \in {Absent} \cup {[version |-> 1, grants |-> <<g>>] : g \in Grants}
  /\ strays = 0
  /\ pc = [p \in Procs |-> "idle"]
  /\ before = [p \in Procs |-> Absent]
  /\ plan = [p \in Procs |-> NoPlan]
  /\ outcome = [p \in Procs |-> "none"]
  /\ fresh = [p \in Procs |-> FALSE]
  /\ edits = 0 /\ crashes = 0 /\ faults = 0

Goto(p, step) == pc' = [pc EXCEPT ![p] = step]
Then(p, step) == Goto(p, step) /\ UNCHANGED outcome
Return(p, result) == Goto(p, "idle") /\ outcome' = [outcome EXCEPT ![p] = result]
\* Through the finally clause that removes the temporary file.
Leave(p, result) == Goto(p, "cleanup") /\ outcome' = [outcome EXCEPT ![p] = result]
Fault == faults < MaxFaults /\ faults' = faults + 1 /\ UNCHANGED <<edits, crashes>>

\* The first read, and the whole preview where there is no policy yet.
Preview(p) ==
  /\ pc[p] = "idle" /\ before' = [before EXCEPT ![p] = file]
  /\ IF file = Absent
     THEN /\ \E g \in Grants : plan' = [plan EXCEPT ![p] = Proposal(Absent, Absent, g)]
          /\ Return(p, "previewed")
     ELSE plan' = [plan EXCEPT ![p] = NoPlan] /\ Then(p, "grants")
  /\ UNCHANGED <<file, strays, fresh, counters>>

\* The second read, through load_publication_authorizer; nothing compares the two.
ReadGrants(p) ==
  /\ pc[p] = "grants" /\ before' = [before EXCEPT ![p] = Absent]
  /\ IF IsPolicy(file)
     THEN /\ \E g \in Grants : plan' = [plan EXCEPT ![p] = Proposal(before[p], file, g)]
          /\ Return(p, "previewed")
     ELSE Return(p, "invalid") /\ UNCHANGED plan
  /\ UNCHANGED <<file, strays, fresh, counters>>

\* The teacher types AUTHORIZE.  A plan stays usable however often it was committed.
Commit(p) ==
  /\ pc[p] = "idle" /\ plan[p] # NoPlan /\ Then(p, "compare")
  /\ UNCHANGED <<file, strays, before, plan, fresh, counters>>

Compare(p) ==
  /\ pc[p] = "compare"
  /\ IF file # plan[p].old THEN Return(p, "changed")
     ELSE Then(p, IF plan[p].changed THEN "temp" ELSE "load")
  /\ UNCHANGED <<file, strays, before, plan, fresh, counters>>

\* The directory and a temporary file of its own name; it counts as a stray until the
\* call has renamed or removed it.
MakeTemp(p) ==
  /\ pc[p] = "temp" /\ Then(p, "fill")
  /\ strays' = strays + 1
  /\ UNCHANGED <<file, before, plan, fresh, counters>>

\* Faulty variant: the new policy is written over the old one.
FillInPlace(p) ==
  /\ pc[p] = "fill" /\ Then(p, "latest")
  /\ file' = Torn
  /\ UNCHANGED <<strays, before, plan, fresh, counters>>

\* Written and synchronised.
FillTemp(p) ==
  /\ pc[p] = "fill" /\ Then(p, "latest")
  /\ UNCHANGED <<file, strays, before, plan, fresh, counters>>

\* Faulty variant: the policy is not read again after the temporary file was written.
LatestAssumed(p) ==
  /\ pc[p] = "latest" /\ Then(p, "replace")
  /\ fresh' = [fresh EXCEPT ![p] = TRUE]
  /\ UNCHANGED <<file, strays, before, plan, counters>>

\* Faulty variant: the refused call returns without its finally clause.
LatestLeftBehind(p) ==
  /\ pc[p] = "latest"
  /\ IF file # plan[p].old THEN Return(p, "changed") ELSE Then(p, "replace")
  /\ fresh' = [fresh EXCEPT ![p] = TRUE]
  /\ UNCHANGED <<file, strays, before, plan, counters>>

Latest(p) ==
  /\ pc[p] = "latest"
  /\ IF file # plan[p].old THEN Leave(p, "changed") ELSE Then(p, "replace")
  /\ fresh' = [fresh EXCEPT ![p] = TRUE]
  /\ UNCHANGED <<file, strays, before, plan, counters>>

\* Every other process that has compared before this has compared in vain.
Replaced(p) == fresh' = [q \in Procs |-> fresh[q] /\ q = p]

\* Faulty variant: only the new grant is written.
ReplaceAlone(p) ==
  /\ pc[p] = "replace" /\ Then(p, "load")
  /\ file' = [plan[p].proposed EXCEPT !.grants = <<plan[p].grant>>]
  /\ strays' = strays - 1 /\ Replaced(p)
  /\ UNCHANGED <<before, plan, counters>>

Replace(p) ==
  /\ pc[p] = "replace" /\ Then(p, "load")
  /\ file' = plan[p].proposed
  /\ strays' = strays - 1 /\ Replaced(p)
  /\ UNCHANGED <<before, plan, counters>>

Cleanup(p) ==
  /\ pc[p] = "cleanup" /\ Then(p, "idle")
  /\ strays' = strays - 1
  /\ UNCHANGED <<file, before, plan, fresh, counters>>

CleanupRaises(p) ==
  /\ pc[p] = "cleanup" /\ Return(p, "raised")
  /\ UNCHANGED <<file, strays, before, plan, fresh>> /\ Fault

\* The call returns an authorizer of whatever policy is there by now, its own or not.
Load(p) ==
  /\ pc[p] = "load"
  /\ IF IsPolicy(file) THEN Return(p, "committed") ELSE Return(p, "raised")
  /\ UNCHANGED <<file, strays, before, plan, fresh, counters>>

Raises(p) ==
  /\ before' = [before EXCEPT ![p] = Absent]
  /\ \/ pc[p] \in {"grants", "compare", "temp", "load"} /\ Return(p, "raised")
     \/ pc[p] \in {"fill", "latest", "replace"} /\ Leave(p, "raised")
  /\ UNCHANGED <<file, strays, plan, fresh>> /\ Fault

\* A process that is killed forgets its plan.
Crash(p) ==
  /\ pc[p] # "idle" /\ crashes < MaxCrashes /\ crashes' = crashes + 1
  /\ plan' = [plan EXCEPT ![p] = NoPlan] /\ before' = [before EXCEPT ![p] = Absent]
  /\ Return(p, "crashed")
  /\ UNCHANGED <<file, strays, fresh, edits, faults>>

\* The file may be edited by hand, for another policy or for something invalid.
Edit ==
  /\ edits < MaxEdits /\ edits' = edits + 1
  /\ \E f \in {Absent, Torn} \cup {[version |-> 1, grants |-> <<g>>] : g \in Grants} :
       f # file /\ file' = f
  /\ fresh' = [p \in Procs |-> FALSE]
  /\ UNCHANGED <<strays, calls, crashes, faults>>

Run(p) == \/ ReadGrants(p) \/ Compare(p) \/ MakeTemp(p) \/ FillTemp(p) \/ Latest(p)
          \/ Replace(p) \/ Cleanup(p) \/ Load(p)

Next == Edit \/ \E p \in Procs : \/ Preview(p) \/ Commit(p) \/ Run(p) \/ CleanupRaises(p)
                                 \/ Raises(p) \/ Crash(p)

Spec == Init /\ [][Next]_vars

-----------------------------------------------------------------------------
(* What granting access promises *)

\* In particular, temporary files only accumulate through crashes and failing clean-ups.
TypeOK ==
  /\ file \in Files
  /\ strays \in 0 .. Cardinality(Procs) + MaxCrashes + MaxFaults
  /\ pc \in [Procs -> Steps]
  /\ before \in [Procs -> Files]
  /\ plan \in [Procs -> Plans \cup {NoPlan}]
  /\ outcome \in [Procs -> Outcomes]
  /\ fresh \in [Procs -> BOOLEAN]
  /\ edits \in 0 .. MaxEdits /\ crashes \in 0 .. MaxCrashes /\ faults \in 0 .. MaxFaults

\* No crash, failed step or interleaving leaves a policy that cannot be loaded: such a
\* file only ever comes from a hand edit.
NeverTorn == edits = 0 => file # Torn

\* Outside two windows the optimistic protocol is exact: a stored policy is the one that
\* was there plus the one grant its teacher confirmed, whatever was edited, granted or
\* revoked between the preview and the last comparison.  The windows are told by history:
\* ~fresh, the file was replaced between the last comparison and the rename; ~agreed, it
\* was replaced between the two reads of the preview, so that the plan carries the bytes
\* of one policy and the grants of another.
AddsExactlyItsGrant ==
  [][file' # file /\ edits' = edits =>
       \E p \in Procs :
         /\ pc[p] = "replace"
         /\ fresh[p] /\ plan[p].agreed =>
              GrantsOf(file') = GrantsOf(file) \cup {plan[p].grant}]_vars

\* The docstring of commit_publication_access: it "does not silently overwrite" a
\* "changed file".
NothingOverwritten ==
  [][\A p \in Procs : Replace(p) => file = plan[p].old]_vars
=============================================================================

------------------------- MODULE PublicationAccessProofs -------------------------
(***************************************************************************)
(* The optimistic protocol of commit_publication_access, for any number of *)
(* processes: as long as nothing replaced the policy since its second      *)
(* comparison, a writer that renames still has in place the bytes its      *)
(* preview read first, and whatever fails, what it renames is a whole      *)
(* policy.  Where both reads of the preview agreed, that policy is the one *)
(* in place and the reviewed grant.                                        *)
(***************************************************************************)
EXTENDS PublicationAccess, FiniteSetTheorems, TLAPS

\* A plan is the proposal for the two reads of its preview, the second of which is left
\* out where there is no policy; a writer has one that changes something, and as long as
\* its comparison is fresh the bytes of the first read are still there.
IInv ==
  /\ file \in Files /\ edits \in Nat
  /\ pc \in [Procs -> Steps]
  /\ DOMAIN plan = Procs /\ DOMAIN fresh = Procs
  /\ \A p \in Procs : plan[p] # NoPlan =>
       \E old \in Files, f \in Policies \cup {Absent}, g \in Grants :
         plan[p] = Proposal(old, f, g) /\ (old = Absent => f = Absent)
  /\ \A p \in Procs : pc[p] \notin {"idle", "cleanup", "grants"} => plan[p] # NoPlan
  /\ before \in [Procs -> Files]
  /\ \A p \in Procs : pc[p] = "grants" => before[p] # Absent
  /\ \A p \in Procs : pc[p] \in {"temp", "fill", "latest", "replace"} => plan[p].changed
  /\ \A p \in Procs : pc[p] = "replace" /\ fresh[p] => file = plan[p].old
  /\ edits = 0 => file # Torn

\* What a changing proposal stores: the policy of the second read and the new grant.
LEMMA ProposalAdds ==
  ASSUME NEW old \in Files, NEW f \in Policies \cup {Absent}, NEW g \in Grants,
         Proposal(old, f, g).changed
  PROVE  /\ Proposal(old, f, g).old = old /\ Proposal(old, f, g).grant = g
         /\ Proposal(old, f, g).agreed => old = f
         /\ Proposal(old, f, g).proposed \in Policies
         /\ GrantsOf(Proposal(old, f, g).proposed) = GrantsOf(f) \cup {g}
<1>1. g \notin GrantsOf(f)
  BY DEF Proposal
<1>2. Proposal(old, f, g) =
        [old |-> old, grant |-> g, changed |-> TRUE, agreed |-> old = f,
         proposed |-> IF f = Absent THEN [version |-> 1, grants |-> <<g>>]
                      ELSE [version |-> f.version + 1, grants |-> Append(f.grants, g)]]
  BY <1>1 DEF Proposal
<1>3. /\ Proposal(old, f, g).old = old /\ Proposal(old, f, g).grant = g
      /\ Proposal(old, f, g).agreed => old = f
  BY DEF Proposal
<1>4. CASE f = Absent
  <2>1. Proposal(old, f, g).proposed = [version |-> 1, grants |-> <<g>>]
    BY <1>2, <1>4
  <2>2. [version |-> 1, grants |-> <<g>>] \in Policies
    BY DEF Policies
  <2>3. IsPolicy([version |-> 1, grants |-> <<g>>])
    BY <2>2, AccessAssumption DEF IsPolicy
  <2>4. GrantsOf([version |-> 1, grants |-> <<g>>]) = {g}
    BY <2>3 DEF GrantsOf
  <2>5. GrantsOf(f) = {}
    BY <1>4 DEF GrantsOf, IsPolicy
  <2> QED BY <1>3, <2>1, <2>2, <2>4, <2>5
<1>5. CASE f # Absent
  <2> DEFINE h == [version |-> f.version + 1, grants |-> Append(f.grants, g)]
  <2>1. f \in Policies /\ f.version \in Nat \ {0} /\ f.grants \in Seq(Grants)
    BY <1>5 DEF Policies
  <2>2. Proposal(old, f, g).proposed = h
    BY <1>2, <1>5
  <2>3. h \in Policies
    BY <2>1 DEF Policies
  <2>4. IsPolicy(h) /\ IsPolicy(f)
    BY <2>1, <2>3, AccessAssumption DEF IsPolicy
  <2>5. DOMAIN Append(f.grants, g) = 1 .. Len(f.grants) + 1 /\ DOMAIN f.grants = 1 .. Len(f.grants)
        /\ Append(f.grants, g)[Len(f.grants) + 1] = g
        /\ \A i \in 1 .. Len(f.grants) : Append(f.grants, g)[i] = f.grants[i]
    BY <2>1
  <2>6. Len(f.grants) \in Nat
    BY <2>1
  <2>7. {Append(f.grants, g)[i] : i \in DOMAIN Append(f.grants, g)}
          = {f.grants[i] : i \in DOMAIN f.grants} \cup {g}
    BY <2>5, <2>6
  <2>8. GrantsOf(h) = GrantsOf(f) \cup {g}
    BY <2>4, <2>7 DEF GrantsOf
  <2> HIDE DEF h
  <2> QED BY <1>3, <2>2, <2>3, <2>8
<1> QED BY <1>4, <1>5

-----------------------------------------------------------------------------
(* The steps *)

LEMMA InitInv == Init => IInv
<1> SUFFICES ASSUME Init PROVE IInv
  OBVIOUS
<1>1. file \in Files
  <2>1. \A g \in Grants : [version |-> 1, grants |-> <<g>>] \in Policies
    BY DEF Policies
  <2> QED BY <2>1 DEF Init, Files
<1>2. before \in [Procs -> Files]
  BY DEF Init, Files
<1>3. file # Torn
  <2>1. \A g \in Grants : [version |-> 1, grants |-> <<g>>] \in Policies
    BY DEF Policies
  <2> QED BY <2>1, AccessAssumption DEF Init
<1> QED BY <1>1, <1>3, <1>2 DEF Init, IInv, Steps

LEMMA PreviewStep == ASSUME IInv, NEW p \in Procs, Preview(p) PROVE IInv'
<1>1. pc[p] = "idle" /\ file' = file /\ fresh' = fresh /\ edits' = edits
      /\ before' = [before EXCEPT ![p] = file]
  BY DEF Preview, counters
<1>2. before' \in [Procs -> Files]
  BY <1>1 DEF IInv
<1>3. DOMAIN plan' = Procs /\ \A q \in Procs \ {p} : plan'[q] = plan[q]
  BY DEF Preview, IInv
<1>4. plan'[p] # NoPlan => \E g \in Grants : plan'[p] = Proposal(Absent, Absent, g)
  BY DEF Preview, IInv
<1>5. Absent \in Files /\ Absent \in Policies \cup {Absent}
  BY DEF Files
<1>6. CASE file = Absent
  <2>1. pc' = [pc EXCEPT ![p] = "idle"]
    BY <1>6 DEF Preview, Return, Goto
  <2> QED BY <1>1, <1>2, <1>3, <1>4, <1>5, <2>1 DEF IInv, Steps
<1>7. CASE file # Absent
  <2>1. pc' = [pc EXCEPT ![p] = "grants"]
    BY <1>7 DEF Preview, Then, Goto
  <2> QED BY <1>1, <1>2, <1>3, <1>4, <1>5, <1>7, <2>1 DEF IInv, Steps
<1> QED BY <1>6, <1>7

LEMMA ReadGrantsStep == ASSUME IInv, NEW p \in Procs, ReadGrants(p) PROVE IInv'
<1>1. pc' = [pc EXCEPT ![p] = "idle"] /\ pc[p] = "grants" /\ file' = file /\ fresh' = fresh
      /\ before' = [before EXCEPT ![p] = Absent] /\ edits' = edits
  BY DEF ReadGrants, Return, Goto, counters
<1>2. before' \in [Procs -> Files] /\ before[p] \in Files /\ before[p] # Absent
  BY <1>1 DEF IInv, Files
<1>3. DOMAIN plan' = Procs /\ \A q \in Procs \ {p} : plan'[q] = plan[q]
  BY DEF ReadGrants, IInv
<1>4. CASE IsPolicy(file)
  <2>1. file \in Policies
    BY <1>4 DEF IInv, Files, IsPolicy
  <2>2. PICK g \in Grants : plan'[p] = Proposal(before[p], file, g)
    BY <1>4 DEF ReadGrants, IInv
  <2> QED BY <1>1, <1>2, <1>3, <2>1, <2>2 DEF IInv, Steps
<1>5. CASE ~IsPolicy(file)
  <2>1. plan' = plan
    BY <1>5 DEF ReadGrants
  <2> QED BY <1>1, <1>2, <2>1 DEF IInv, Steps
<1> QED BY <1>4, <1>5

LEMMA ReplaceStep == ASSUME IInv, NEW p \in Procs, Replace(p) PROVE IInv'
<1>1. pc' = [pc EXCEPT ![p] = "load"] /\ plan' = plan /\ file' = plan[p].proposed
      /\ fresh' = [q \in Procs |-> fresh[q] /\ q = p] /\ edits' = edits /\ before' = before
  BY DEF Replace, Then, Goto, Replaced, counters
<1>2. plan[p] # NoPlan /\ plan[p].changed
  BY DEF Replace, IInv
<1>3. file' \in Policies
  <2>1. PICK old \in Files, f \in Policies \cup {Absent}, g \in Grants :
          plan[p] = Proposal(old, f, g)
    BY <1>2 DEF IInv
  <2> QED BY <1>1, <1>2, <2>1, ProposalAdds
<1>4. \A q \in Procs : pc'[q] = "replace" => ~fresh'[q]
  BY <1>1 DEF IInv
<1>5. file' \in Files /\ file' # Torn
  BY <1>3, AccessAssumption DEF Files
<1> QED BY <1>1, <1>2, <1>3, <1>4, <1>5 DEF IInv, Steps

LEMMA RunStep ==
  ASSUME IInv, NEW p \in Procs,
         \/ Commit(p) \/ Compare(p) \/ MakeTemp(p) \/ FillTemp(p) \/ Latest(p) \/ Cleanup(p)
         \/ CleanupRaises(p) \/ Load(p) \/ Raises(p) \/ Crash(p)
  PROVE  IInv'
<1> USE DEF IInv, Steps, Goto, Then, Return, Leave, counters, Fault
<1>1. Absent \in Files
  BY DEF Files
<1>2. CASE Commit(p)
  BY <1>2 DEF Commit
<1>3. CASE Compare(p)
  BY <1>3 DEF Compare
<1>4. CASE MakeTemp(p) \/ FillTemp(p) \/ Cleanup(p) \/ CleanupRaises(p)
  BY <1>4 DEF MakeTemp, FillTemp, Cleanup, CleanupRaises
<1>5. CASE Latest(p)
  BY <1>5 DEF Latest
<1>6. CASE Load(p)
  BY <1>6 DEF Load
<1>7. CASE Raises(p)
  BY <1>7, <1>1 DEF Raises
<1>8. CASE Crash(p)
  BY <1>8, <1>1 DEF Crash
<1> QED BY <1>2, <1>3, <1>4, <1>5, <1>6, <1>7, <1>8

LEMMA EditStep == ASSUME IInv, Edit PROVE IInv'
<1>1. file' \in Files
  <2>1. \A g \in Grants : [version |-> 1, grants |-> <<g>>] \in Policies
    BY DEF Policies
  <2> QED BY <2>1 DEF Edit, Files
<1> QED BY <1>1 DEF Edit, calls, IInv

LEMMA StepInv == IInv /\ [Next]_vars => IInv'
<1> SUFFICES ASSUME IInv, [Next]_vars PROVE IInv'
  OBVIOUS
<1>1. CASE UNCHANGED vars
  BY <1>1 DEF vars, calls, counters, IInv
<1> QED BY <1>1, PreviewStep, ReadGrantsStep, ReplaceStep, RunStep, EditStep DEF Next, Run

\* A writer whose comparison is fresh, and whose preview read one policy, stores what is
\* there and its own grant, nothing else.
LEMMA FreshAdds ==
  ASSUME IInv, NEW p \in Procs, Replace(p), fresh[p], plan[p].agreed
  PROVE  GrantsOf(file') = GrantsOf(file) \cup {plan[p].grant}
<1>1. file = plan[p].old /\ plan[p].changed /\ plan[p] # NoPlan /\ file' = plan[p].proposed
  BY DEF Replace, IInv
<1>2. PICK old \in Files, f \in Policies \cup {Absent}, g \in Grants :
        plan[p] = Proposal(old, f, g)
  BY <1>1 DEF IInv
<1> QED BY <1>1, <1>2, ProposalAdds

\* The two comparisons of commit_publication_access are exact outside two windows, the one
\* between the second comparison and the rename and the one between the two reads of the
\* preview.
THEOREM AddsExactly == Spec => AddsExactlyItsGrant
<1> DEFINE Exact == file' # file /\ edits' = edits =>
              \E p \in Procs :
                /\ pc[p] = "replace"
                /\ fresh[p] /\ plan[p].agreed =>
                     GrantsOf(file') = GrantsOf(file) \cup {plan[p].grant}
<1>1. IInv /\ [Next]_vars => [Exact]_vars
  <2> SUFFICES ASSUME IInv, Next, file' # file, edits' = edits
               PROVE  \E p \in Procs :
                        /\ pc[p] = "replace"
                        /\ fresh[p] /\ plan[p].agreed =>
                             GrantsOf(file') = GrantsOf(file) \cup {plan[p].grant}
    OBVIOUS
  <2>1. ~Edit
    BY DEF Edit, IInv
  <2>2. PICK p \in Procs : \/ Preview(p) \/ Commit(p) \/ Run(p) \/ CleanupRaises(p)
                           \/ Raises(p) \/ Crash(p)
    BY <2>1 DEF Next
  <2>3. Replace(p)
    BY <2>2 DEF Run, ReadGrants, Preview, Commit, Compare, MakeTemp, FillTemp, Latest, Cleanup, Load,
                CleanupRaises, Raises, Crash
  <2> QED BY <2>3, FreshAdds DEF Replace
<1> QED BY <1>1, InitInv, StepInv, PTL DEF Spec, AddsExactlyItsGrant

\* No crash, failed call or interleaving of commit_publication_access leaves a policy
\* that cannot be loaded.
THEOREM PolicyWhole == Spec => []NeverTorn
<1>1. IInv => NeverTorn
  BY DEF IInv, NeverTorn
<1> QED BY <1>1, InitInv, StepInv, PTL DEF Spec

-----------------------------------------------------------------------------
(* Temporary files: each belongs to a running call, or a fault accounts for it *)

Working == {p \in Procs : pc[p] \in {"fill", "latest", "replace", "cleanup"}}

StrayInv ==
  /\ strays \in Nat /\ crashes \in 0 .. MaxCrashes /\ faults \in 0 .. MaxFaults
  /\ Cardinality(Working) <= strays
  /\ strays <= Cardinality(Working) + crashes + faults

LEMMA WorkingFinite == IsFiniteSet(Working) /\ Cardinality(Working) \in Nat
                       /\ IsFiniteSet(Working)' /\ Cardinality(Working)' \in Nat
<1>1. Working \in SUBSET Procs /\ Working' \in SUBSET Procs
  BY DEF Working
<1> QED BY <1>1, FS_Subset, FS_CardinalityType, AccessAssumption

\* A call that starts to work adds itself, one that stops removes itself.
LEMMA Enters ==
  ASSUME pc \in [Procs -> Steps], NEW p \in Procs, NEW s \in Steps,
         pc' = [pc EXCEPT ![p] = s]
  PROVE  /\ p \in Working /\ p \in Working' => Cardinality(Working)' = Cardinality(Working)
         /\ p \notin Working /\ p \notin Working' =>
              Cardinality(Working)' = Cardinality(Working)
         /\ p \notin Working /\ p \in Working' =>
              Cardinality(Working)' = Cardinality(Working) + 1
         /\ p \in Working /\ p \notin Working' =>
              Cardinality(Working)' = Cardinality(Working) - 1
<1>1. p \in Working' => Working' = Working \cup {p}
  BY DEF Working
<1>2. p \notin Working' => Working' = Working \ {p}
  BY DEF Working
<1>3. Cardinality(Working \cup {p}) =
        IF p \in Working THEN Cardinality(Working) ELSE Cardinality(Working) + 1
  BY WorkingFinite, FS_AddElement
<1>4. Cardinality(Working \ {p}) =
        IF p \in Working THEN Cardinality(Working) - 1 ELSE Cardinality(Working)
  BY WorkingFinite, FS_RemoveElement
<1> QED BY <1>1, <1>2, <1>3, <1>4

\* A process at one of these steps is counted.
LEMMA Counted == \A p \in Procs : p \in Working => Cardinality(Working) >= 1
<1> SUFFICES ASSUME NEW p \in Procs, p \in Working PROVE Cardinality(Working) >= 1
  OBVIOUS
<1>1. Cardinality(Working) # 0
  BY WorkingFinite, FS_EmptySet
<1> QED BY <1>1, WorkingFinite

LEMMA StrayStep ==
  ASSUME IInv, StrayInv, NEW p \in Procs,
         \/ Preview(p) \/ Commit(p) \/ Run(p) \/ CleanupRaises(p) \/ Raises(p) \/ Crash(p)
  PROVE  StrayInv'
<1>1. pc \in [Procs -> Steps]
  BY DEF IInv
<1>2. PICK s \in Steps : pc' = [pc EXCEPT ![p] = s]
  <2> USE DEF Goto, Then, Return, Leave, Steps
  <2>1. CASE Preview(p) \/ Commit(p)
    BY <2>1 DEF Preview, Commit
  <2>2. CASE Run(p)
    BY <2>2 DEF Run, ReadGrants, Compare, MakeTemp, FillTemp, Latest, Replace, Cleanup, Load
  <2>3. CASE CleanupRaises(p) \/ Raises(p) \/ Crash(p)
    BY <2>3 DEF CleanupRaises, Raises, Crash
  <2> QED BY <2>1, <2>2, <2>3
<1>3. (p \in Working <=> pc[p] \in {"fill", "latest", "replace", "cleanup"})
      /\ (p \in Working' <=> s \in {"fill", "latest", "replace", "cleanup"})
  BY <1>1, <1>2 DEF Working
<1>4. p \in Working => Cardinality(Working) >= 1
  BY Counted
<1>5. /\ Cardinality(Working) \in Nat /\ Cardinality(Working)' \in Nat
      /\ MaxCrashes \in Nat /\ MaxFaults \in Nat
  BY WorkingFinite, AccessAssumption
<1>6. pc'[p] = s
  BY <1>1, <1>2
<1>7. /\ p \in Working /\ p \in Working' => Cardinality(Working)' = Cardinality(Working)
      /\ p \notin Working /\ p \notin Working' =>
           Cardinality(Working)' = Cardinality(Working)
      /\ p \notin Working /\ p \in Working' =>
           Cardinality(Working)' = Cardinality(Working) + 1
      /\ p \in Working /\ p \notin Working' =>
           Cardinality(Working)' = Cardinality(Working) - 1
  BY <1>1, <1>2, Enters
<1>8. CASE Preview(p) \/ ReadGrants(p) \/ Commit(p) \/ Compare(p) \/ Load(p)
  <2>1. strays' = strays /\ UNCHANGED counters
    BY <1>8 DEF Preview, ReadGrants, Commit, Compare, Load
  <2>2. p \notin Working
    BY <1>3, <1>8 DEF Preview, ReadGrants, Commit, Compare, Load
  <2>3. p \notin Working'
    BY <1>1, <1>3, <1>6, <1>8 DEF Preview, ReadGrants, Commit, Compare, Load, Goto, Then,
         Return
  <2> QED BY <2>1, <2>2, <2>3, <1>5, <1>7 DEF StrayInv, counters
<1>9. CASE MakeTemp(p)
  <2>1. strays' = strays + 1 /\ UNCHANGED counters /\ p \notin Working /\ p \in Working'
    BY <1>1, <1>3, <1>6, <1>9 DEF MakeTemp, Then, Goto
  <2> QED BY <2>1, <1>5, <1>7 DEF StrayInv, counters
<1>10. CASE FillTemp(p) \/ Latest(p)
  <2>1. strays' = strays /\ UNCHANGED counters /\ p \in Working
    BY <1>3, <1>10 DEF FillTemp, Latest
  <2>2. p \in Working'
    BY <1>1, <1>3, <1>6, <1>10 DEF FillTemp, Latest, Leave, Then, Goto
  <2> QED BY <2>1, <2>2, <1>5, <1>7 DEF StrayInv, counters
<1>11. CASE Replace(p) \/ Cleanup(p)
  <2>1. strays' = strays - 1 /\ UNCHANGED counters /\ p \in Working /\ p \notin Working'
    BY <1>1, <1>3, <1>6, <1>11 DEF Replace, Cleanup, Then, Goto
  <2> QED BY <2>1, <1>4, <1>5, <1>7 DEF StrayInv, counters
<1>12. CASE CleanupRaises(p)
  <2>1. strays' = strays /\ crashes' = crashes /\ faults < MaxFaults /\ faults' = faults + 1
        /\ p \in Working /\ p \notin Working'
    BY <1>1, <1>3, <1>6, <1>12 DEF CleanupRaises, Return, Goto, Fault
  <2> QED BY <2>1, <1>4, <1>5, <1>7 DEF StrayInv
<1>13. CASE Raises(p)
  <2>1. strays' = strays /\ crashes' = crashes /\ faults < MaxFaults /\ faults' = faults + 1
    BY <1>13 DEF Raises, Fault
  <2>2. p \in Working <=> p \in Working'
    BY <1>1, <1>3, <1>6, <1>13 DEF Raises, Return, Leave, Goto
  <2> QED BY <2>1, <2>2, <1>5, <1>7 DEF StrayInv
<1>14. CASE Crash(p)
  <2>1. strays' = strays /\ faults' = faults /\ crashes < MaxCrashes /\ crashes' = crashes + 1
    BY <1>14 DEF Crash
  <2>2. p \notin Working'
    BY <1>1, <1>3, <1>6, <1>14 DEF Crash, Return, Goto
  <2> QED BY <2>1, <2>2, <1>4, <1>5, <1>7 DEF StrayInv
<1> QED BY <1>8, <1>9, <1>10, <1>11, <1>12, <1>13, <1>14 DEF Run

LEMMA StrayInit == Init => StrayInv
<1> SUFFICES ASSUME Init PROVE StrayInv
  OBVIOUS
<1>1. Working = {}
  BY DEF Init, Working
<1>2. Cardinality(Working) = 0
  BY <1>1, FS_EmptySet
<1> QED BY <1>2, AccessAssumption DEF Init, StrayInv

LEMMA StrayBox == IInv /\ StrayInv /\ [Next]_vars => StrayInv'
<1> SUFFICES ASSUME IInv, StrayInv, [Next]_vars PROVE StrayInv'
  OBVIOUS
<1>1. CASE UNCHANGED vars
  BY <1>1 DEF vars, calls, counters, StrayInv, Working
<1>2. CASE Edit
  BY <1>2 DEF Edit, calls, StrayInv, Working
<1> QED BY <1>1, <1>2, StrayStep DEF Next

-----------------------------------------------------------------------------
(* Types *)

\* The variables whose type the two invariants above do not give.
RestType ==
  /\ outcome \in [Procs -> Outcomes]
  /\ fresh \in [Procs -> BOOLEAN]
  /\ plan \in [Procs -> Plans \cup {NoPlan}]
  /\ edits \in 0 .. MaxEdits

LEMMA PlanType ==
  ASSUME NEW old \in Files, NEW f \in Policies \cup {Absent}, NEW g \in Grants,
         old = Absent => f = Absent
  PROVE  Proposal(old, f, g) \in Plans
<1>1. PICK b \in BOOLEAN, c \in BOOLEAN : b = (g \notin GrantsOf(f)) /\ c = (old = f)
  OBVIOUS
<1>2. Proposal(old, f, g).proposed \in Policies \cup {Torn}
  <2>1. CASE Proposal(old, f, g).changed
    BY <2>1, ProposalAdds
  <2>2. CASE ~Proposal(old, f, g).changed
    <3>1. g \in GrantsOf(f)
      BY <2>2 DEF Proposal
    <3>2. f # Absent
      BY <3>1 DEF GrantsOf, IsPolicy
    <3>3. old \in Policies \cup {Torn}
      BY <3>2 DEF Files
    <3> QED BY <3>1, <3>3 DEF Proposal
  <2> QED BY <2>1, <2>2
<1>3. PICK h \in Policies \cup {Torn} : h = Proposal(old, f, g).proposed
  BY <1>2
<1>4. Proposal(old, f, g) =
        [old |-> old, grant |-> g, changed |-> b, agreed |-> c, proposed |-> h]
  BY <1>1, <1>3 DEF Proposal
<1>5. [old |-> old, grant |-> g, changed |-> b, agreed |-> c, proposed |-> h] \in Plans
  BY DEF Plans
<1> QED BY <1>4, <1>5

LEMMA RestStep ==
  ASSUME IInv, RestType, [Next]_vars
  PROVE  RestType'
<1>1. CASE UNCHANGED vars
  BY <1>1 DEF vars, calls, counters, RestType
<1>2. CASE Edit
  BY <1>2, AccessAssumption DEF Edit, calls, RestType
<1>3. ASSUME NEW p \in Procs, Preview(p) PROVE RestType'
  <2>1. CASE file = Absent
    <3>1. PICK g \in Grants : plan' = [plan EXCEPT ![p] = Proposal(Absent, Absent, g)]
      BY <1>3, <2>1 DEF Preview
    <3>2. Proposal(Absent, Absent, g) \in Plans
      BY PlanType DEF Files
    <3> QED BY <1>3, <2>1, <3>1, <3>2 DEF Preview, Return, RestType, Outcomes, counters
  <2>2. CASE file # Absent
    BY <1>3, <2>2 DEF Preview, Then, RestType, Outcomes, counters
  <2> QED BY <2>1, <2>2
<1>4. ASSUME NEW p \in Procs, ReadGrants(p) PROVE RestType'
  <2>1. CASE IsPolicy(file)
    <3>1. PICK g \in Grants : plan' = [plan EXCEPT ![p] = Proposal(before[p], file, g)]
      BY <1>4, <2>1 DEF ReadGrants
    <3>2. file \in Policies /\ before[p] \in Files /\ before[p] # Absent
      BY <1>4, <2>1 DEF ReadGrants, IInv, Files, IsPolicy
    <3>3. Proposal(before[p], file, g) \in Plans
      BY <3>2, PlanType
    <3> QED BY <1>4, <2>1, <3>1, <3>3 DEF ReadGrants, Return, RestType, Outcomes, counters
  <2>2. CASE ~IsPolicy(file)
    BY <1>4, <2>2 DEF ReadGrants, Return, RestType, Outcomes, counters
  <2> QED BY <2>1, <2>2
<1>5. ASSUME NEW p \in Procs, Commit(p) \/ Compare(p) \/ MakeTemp(p) \/ FillTemp(p)
      PROVE  RestType'
  BY <1>5 DEF Commit, Compare, MakeTemp, FillTemp, Then, Return, RestType, Outcomes, counters
<1>6. ASSUME NEW p \in Procs, Latest(p) \/ Replace(p) \/ Cleanup(p) PROVE RestType'
  BY <1>6 DEF Latest, Replace, Replaced, Cleanup, Then, Leave, RestType, Outcomes, counters
<1>7. ASSUME NEW p \in Procs, Load(p) PROVE RestType'
  BY <1>7 DEF Load, Return, RestType, Outcomes, counters
<1>8. ASSUME NEW p \in Procs, CleanupRaises(p) \/ Raises(p) \/ Crash(p) PROVE RestType'
  BY <1>8 DEF CleanupRaises, Raises, Crash, Fault, Return, Leave, RestType, Outcomes
<1> QED BY <1>1, <1>2, <1>3, <1>4, <1>5, <1>6, <1>7, <1>8 DEF Next, Run

LEMMA RestInit == Init => RestType
  BY AccessAssumption DEF Init, RestType, Outcomes

\* Types, and the bound on stray temporary files: at most one for each call under way,
\* for each crash and for each failing clean-up.
THEOREM TypeCorrect == Spec => []TypeOK
<1>1. IInv /\ StrayInv /\ RestType => TypeOK
  <2> SUFFICES ASSUME IInv, StrayInv, RestType PROVE TypeOK
    OBVIOUS
  <2>1. Working \in SUBSET Procs
    BY DEF Working
  <2>2. Cardinality(Working) <= Cardinality(Procs) /\ Cardinality(Procs) \in Nat
    BY <2>1, FS_Subset, FS_CardinalityType, AccessAssumption
  <2>3. strays \in 0 .. Cardinality(Procs) + MaxCrashes + MaxFaults
    BY <2>2, WorkingFinite, AccessAssumption DEF StrayInv
  <2> QED BY <2>3 DEF IInv, StrayInv, RestType, TypeOK, Files
<1>2. IInv /\ RestType /\ [Next]_vars => RestType'
  BY RestStep
<1> QED BY <1>1, <1>2, InitInv, StepInv, StrayInit, StrayBox, RestInit, PTL DEF Spec

-----------------------------------------------------------------------------
(* Every call ends *)

\* The steps a call has left, at most: comparing, writing and renaming come in this
\* order, and a refusal or a failure goes to the end or to the clean-up before it.
Left(step) ==
  CASE step = "idle" -> 0
    [] step \in {"grants", "load", "cleanup"} -> 1
    [] step = "replace" -> 2
    [] step = "latest" -> 3
    [] step = "fill" -> 4
    [] step = "temp" -> 5
    [] step = "compare" -> 6

StepsLeft(p) == Left(pc[p])

LEMMA LeftType == \A step \in Steps : Left(step) \in 0 .. 6
  BY DEF Left, Steps

LEMMA StepsLower ==
  ASSUME TypeOK, NEW p \in Procs, Run(p) \/ CleanupRaises(p) \/ Raises(p) \/ Crash(p)
  PROVE  StepsLeft(p)' < StepsLeft(p)
<1>1. pc \in [Procs -> Steps]
  BY DEF TypeOK
<1> USE DEF Goto, Then, Return, Leave, StepsLeft, Left
<1>2. CASE ReadGrants(p) \/ Compare(p) \/ MakeTemp(p) \/ FillTemp(p)
  BY <1>1, <1>2 DEF ReadGrants, Compare, MakeTemp, FillTemp
<1>3. CASE Latest(p) \/ Replace(p) \/ Cleanup(p) \/ Load(p)
  BY <1>1, <1>3 DEF Latest, Replace, Cleanup, Load
<1>4. CASE CleanupRaises(p) \/ Raises(p)
  BY <1>1, <1>4 DEF CleanupRaises, Raises
<1>5. CASE Crash(p)
  BY <1>1, <1>5 DEF Crash, Steps
<1> QED BY <1>2, <1>3, <1>4, <1>5 DEF Run

\* The steps of the process p.
Step(p) == Preview(p) \/ Commit(p) \/ Run(p) \/ CleanupRaises(p) \/ Raises(p) \/ Crash(p)

LEMMA Frame ==
  ASSUME TypeOK, NEW p \in Procs, NEW q \in Procs, q # p, Step(q)
  PROVE  pc'[p] = pc[p]
<1>1. pc \in [Procs -> Steps]
  BY DEF TypeOK
<1> USE DEF Goto, Then, Return, Leave
<1>2. CASE Preview(q) \/ Commit(q)
  BY <1>1, <1>2 DEF Preview, Commit
<1>3. CASE Run(q)
  BY <1>1, <1>3
     DEF Run, ReadGrants, Compare, MakeTemp, FillTemp, Latest, Replace, Cleanup, Load
<1>4. CASE CleanupRaises(q) \/ Raises(q) \/ Crash(q)
  BY <1>1, <1>4 DEF CleanupRaises, Raises, Crash
<1> QED BY <1>2, <1>3, <1>4 DEF Step

\* A preview takes two steps, and a commit at most six and one more to clean up, however
\* the other processes and the teacher's editor interleave with them and whatever fails:
\* a preview reads twice, a commit compares twice, and neither starts again.
THEOREM CallsAreFinite ==
  Spec => [][\A p \in Procs :
               /\ Commit(p) => StepsLeft(p)' = 6
               /\ Preview(p) => StepsLeft(p)' \in {0, 1}
               /\ Run(p) \/ CleanupRaises(p) \/ Raises(p) \/ Crash(p) =>
                    StepsLeft(p)' \in 0 .. StepsLeft(p) - 1
               /\ ~Step(p) => StepsLeft(p)' = StepsLeft(p)]_vars
<1> DEFINE Counts(p) ==
      /\ Commit(p) => StepsLeft(p)' = 6
      /\ Preview(p) => StepsLeft(p)' \in {0, 1}
      /\ Run(p) \/ CleanupRaises(p) \/ Raises(p) \/ Crash(p) =>
           StepsLeft(p)' \in 0 .. StepsLeft(p) - 1
      /\ ~Step(p) => StepsLeft(p)' = StepsLeft(p)
<1>1. TypeOK /\ TypeOK' /\ [Next]_vars => [\A p \in Procs : Counts(p)]_vars
  <2> SUFFICES ASSUME TypeOK, TypeOK', Next, NEW p \in Procs PROVE Counts(p)
    OBVIOUS
  <2>1. Commit(p) => StepsLeft(p)' = 6
    BY DEF TypeOK, Commit, Then, Goto, StepsLeft, Left
  <2>2. ASSUME Run(p) \/ CleanupRaises(p) \/ Raises(p) \/ Crash(p)
        PROVE  StepsLeft(p)' \in 0 .. StepsLeft(p) - 1
    <3>1. StepsLeft(p) \in 0 .. 6 /\ StepsLeft(p)' \in 0 .. 6
      BY LeftType DEF StepsLeft, TypeOK
    <3> QED BY <2>2, <3>1, StepsLower
  <2>3. Preview(p) => StepsLeft(p)' \in {0, 1}
    BY DEF TypeOK, Preview, Then, Return, Goto, StepsLeft, Left
  <2>4. ASSUME ~Step(p) PROVE StepsLeft(p)' = StepsLeft(p)
    <3>1. CASE Edit
      BY <3>1 DEF Edit, calls, StepsLeft
    <3>2. ASSUME NEW q \in Procs, Step(q) PROVE StepsLeft(p)' = StepsLeft(p)
      BY <2>4, <3>2, Frame DEF StepsLeft
    <3> QED BY <3>1, <3>2 DEF Next, Step
  <2> QED BY <2>1, <2>2, <2>3, <2>4
<1> QED BY <1>1, TypeCorrect, PTL DEF Spec

-----------------------------------------------------------------------------
(* A policy that nobody else touches *)

\* Between its second comparison and its rename a writer's comparison is still good.
SoleInv == \A p \in Procs : pc[p] = "replace" => fresh[p]

LEMMA SoleStep ==
  ASSUME TypeOK, SoleInv, Next, MaxEdits = 0, \A p, q \in Procs : p = q
  PROVE  SoleInv'
<1>1. pc \in [Procs -> Steps] /\ fresh \in [Procs -> BOOLEAN]
  BY DEF TypeOK
<1>2. ~Edit
  BY DEF Edit, TypeOK
<1>3. PICK p \in Procs : Step(p)
  BY <1>2 DEF Next, Step
<1>4. pc'[p] = "replace" => fresh'[p]
  <2> USE DEF Goto, Then, Return, Leave, SoleInv
  <2>1. CASE Latest(p)
    BY <1>1, <2>1 DEF Latest
  <2>2. CASE ~Latest(p)
    <3>1. pc'[p] # "replace"
      BY <1>1, <1>3, <2>2 DEF Step, Run, Preview, ReadGrants, Commit, Compare, MakeTemp, FillTemp, Replace,
           Cleanup, Load, CleanupRaises, Raises, Crash
    <3> QED BY <3>1
  <2> QED BY <2>1, <2>2
<1> QED BY <1>4 DEF SoleInv

\* Where one process sets up access and nobody edits the file by hand, a commit really
\* overwrites nothing: the docstring of commit_publication_access fails only through the
\* window the second comparison leaves to others.
THEOREM SoleWriterOverwritesNothing ==
  ASSUME MaxEdits = 0, \A p, q \in Procs : p = q
  PROVE  Spec => NothingOverwritten
<1>1. Init => SoleInv
  BY DEF Init, SoleInv
<1>2. TypeOK /\ SoleInv /\ [Next]_vars => SoleInv'
  <2>1. CASE UNCHANGED vars
    BY <2>1 DEF vars, calls, SoleInv
  <2> QED BY <2>1, SoleStep
<1>3. IInv /\ SoleInv => \A p \in Procs : pc[p] = "replace" => file = plan[p].old
  BY DEF IInv, SoleInv
<1>4. IInv /\ SoleInv /\ [Next]_vars =>
        [\A p \in Procs : Replace(p) => file = plan[p].old]_vars
  BY <1>3 DEF Replace
<1> QED BY <1>1, <1>2, <1>4, TypeCorrect, InitInv, StepInv, PTL DEF Spec, NothingOverwritten
=============================================================================

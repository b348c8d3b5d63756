------------------------ MODULE ReportingSnapshotsProofs ------------------------
(***************************************************************************)
(* A report explains its rows from moments of the call, and what a freeze  *)
(* commits was in force at one of them.                                    *)
(*                                                                         *)
(* What is read before a moment t and again, unchanged, after it was there *)
(* at t, unless it has returned in between (an override never returns).    *)
(* The end of the first capture of a row is such a moment for the row; the *)
(* second verification of the publications is one for the whole report.    *)
(***************************************************************************)
EXTENDS ReportingSnapshots, TLAPS

\* The overrides of a come after those of b.
Later(b, a) ==
  \A r \in Rows :
    /\ b.override[r].revision <= a.override[r].revision
    /\ b.override[r].revision = a.override[r].revision => b.override[r] = a.override[r]

\* Where b and a agree, t is no exception.
Squeezed(b, t, a) ==
  /\ b.activation = a.activation => t.activation = a.activation
  /\ \A r \in Rows : /\ b.base[r] = a.base[r] => t.base[r] = a.base[r]
                     /\ b.evidence[r] = a.evidence[r] => t.evidence[r] = a.evidence[r]

\* t lies between the moments of B and those of A.  From here on ms are the moments of the
\* call, w is the present one, and bk tells whether something has returned.
Between(bk, B, t, A) ==
  /\ \A b \in B : Later(b, t)
  /\ \A a \in A : Later(t, a)
  /\ bk \/ \A b \in B, a \in A : Squeezed(b, t, a)

\* What a capture of row r has read when it comes to step s, it has read from moments of S.
ReadFrom(S, read, r, s) ==
  /\ s \in Reads \ {"base"} => \E m \in S : m.base[r] = read.base
  /\ s \in Reads \ {"base", "activation"} => \E m \in S : m.activation = read.activation
  /\ s \in Reads \ {"base", "activation", "evidence"} => \E m \in S : m.evidence[r] = read.evidence
  /\ s \in {"override again", "base again"} => \E m \in S : m.override[r] = read.override

\* The first capture of row r was complete at t.
FirstBefore(ms, w, bk, t, s, m, r) ==
  \E B \in SUBSET ms, A \in SUBSET ms :
    /\ Between(bk, B, t, A) /\ w \in A /\ t.base[r] = m.first.base
    /\ ReadFrom(B, m.first, r, "base again") /\ ReadFrom(A, m.read, r, s)

\* The row a call m is explaining at step s.
Captured(ms, w, bk, S, s, m) ==
  LET r == Len(m.rows) + 1 IN
  /\ m.round = 1 => ReadFrom(ms, m.read, r, s)
  /\ m.round = 2 => \E t \in S : FirstBefore(ms, w, bk, t, s, m, r)

\* What row shows agrees with itself.
Explained(row) ==
  /\ row.grade = "override" =>
       row.override.kind = "override" /\ row.override.source = row.base /\ row.fresh
  /\ row.grade = "base" => row.base \in Calculated

\* TrueIn, of a row that is explained, and ShownIn.
TrueAt(bk, w, r, row) == /\ Explained(row)
                         /\ row # Unavailable => row.override = w.override[r]
                         /\ bk \/ row = RowIn(w, r)
ShownAt(bk, w, r, row) == /\ row # Unavailable => row.override = w.override[r]
                          /\ bk \/ (row.base = w.base[r] /\ (row.fresh => row = RowIn(w, r)))

RowsTrue(bk, S, rows) == \A r \in 1 .. Len(rows) : \E w \in S : TrueAt(bk, w, r, rows[r])

Explaining(ms, w, bk, S, s, m) ==
  RowsTrue(bk, S, m.rows) /\ (s \in Reads => Captured(ms, w, bk, S, s, m))

\* The final observation follows a moment t at which the publications were in force and the
\* rows of the initial one were complete.
ConfirmingAfter(ms, w, bk, t, s, m) ==
  \E B \in SUBSET ms, A \in SUBSET ms :
    /\ Between(bk, B, t, A) /\ w \in A
    /\ RowsTrue(bk, B, m.kept) /\ Explaining(ms, w, bk, A, s, m)
Confirming(ms, w, bk, s, m) == \E t \in ms : ~t.moved /\ ConfirmingAfter(ms, w, bk, t, s, m)

Frozen(ms, bk, rows) == \E w \in ms : ~w.moved /\ \A r \in Rows : ShownAt(bk, w, r, rows[r])

\* What a call m knows at step s of the moments it has seen.
Observed(ms, w, bk, s, m) ==
  /\ s \in Reads \cup {"report"} /\ m.pass # "final" => Explaining(ms, w, bk, ms, s, m)
  /\ s \in Reads \cup {"report"} /\ m.pass = "final" => Confirming(ms, w, bk, s, m)
  /\ s = "verify" /\ m.pass = "final" => RowsTrue(bk, ms, m.kept)
  /\ s \in Writes => Frozen(ms, bk, m.kept)
  /\ RowsTrue(bk, ms, m.rows)

\* Which call can be at which step.
Placed(j, s, m) ==
  /\ s \in Steps /\ m \in Locals
  /\ s = "idle" <=> m.pass = "none"
  /\ s = "idle" => m = NoCall
  /\ Len(m.rows) <= N /\ (s \in Reads => Len(m.rows) < N)
  /\ s \in {"report"} \cup Writes => Len(m.rows) = N
  /\ s = "verify" => m.rows = <<>> /\ m.pass \in {"initial", "final"}
  /\ s \in {"report", "verify"} => m.round = 1
  /\ m.round = 2 <=> m.first # NoWitness
  /\ m.pass = "final" => Len(m.kept) = N
  /\ s \in Writes => m.pass = "final"
  /\ s \in Reads \ {"base"} => m.read.base \in Results
  /\ (s = "json" => j = Absent) /\ (s = "digest" => j = m.kept)

\* The moments of a call are states of the stores up to now.
Past(ms, w) == w \in Worlds /\ ms \subseteq Worlds /\ \A m \in ms : Later(m, w)

\* The stores, the files and the counters.
StoresType ==
  /\ Past(moments, world) /\ (pc # "idle" => world \in moments)
  /\ json \in Seq(ReportRows) \cup {Absent} /\ digest \in BOOLEAN
  /\ lock \in {"free", "held", "orphan"}
  /\ reviewed \in Seq(ReportRows) \cup {Absent}
  /\ back \in BOOLEAN
  /\ changes \in 0 .. MaxChanges /\ failures \in 0 .. MaxFailures

\* The inductive invariant.
IInv == StoresType /\ Placed(json, pc, my) /\ Observed(moments, world, back, pc, my)

-----------------------------------------------------------------------------
(* Worlds and moments *)

LEMMA WorldFields ==
  ASSUME NEW w \in Worlds, NEW r \in Rows
  PROVE  /\ w.base[r] \in Results \cup {Absent} /\ w.activation \in Activations
         /\ w.evidence[r] \in Evidence /\ w.override[r] \in Overrides
         /\ w.override[r].revision \in 0 .. MaxOverride /\ w.override[r].revision \in Nat
  BY ReportingAssumption DEF Worlds, Overrides

LEMMA LaterTransitive ==
  ASSUME NEW a \in Worlds, NEW b \in Worlds, NEW c \in Worlds, Later(a, b), Later(b, c)
  PROVE  Later(a, c)
  <1>1. ASSUME NEW r \in Rows
        PROVE  /\ a.override[r].revision <= c.override[r].revision
               /\ a.override[r].revision = c.override[r].revision => a.override[r] = c.override[r]
    <2>1. /\ a.override[r].revision \in Nat /\ b.override[r].revision \in Nat
          /\ c.override[r].revision \in Nat
      BY WorldFields
    <2>. QED BY <2>1 DEF Later
  <1>. QED BY <1>1 DEF Later

LEMMA LaterSame == ASSUME NEW w \in Worlds PROVE Later(w, w)
  <1>1. ASSUME NEW r \in Rows PROVE w.override[r].revision <= w.override[r].revision
    BY WorldFields
  <1>. QED BY <1>1 DEF Later

\* An override that was there before t and after it was there at t.
LEMMA OverrideSqueezed ==
  ASSUME NEW b \in Worlds, NEW t \in Worlds, NEW a \in Worlds, Later(b, t), Later(t, a),
         NEW r \in Rows, b.override[r] = a.override[r]
  PROVE  t.override[r] = a.override[r]
  <1>1. /\ a.override[r].revision \in Nat /\ b.override[r].revision \in Nat
        /\ t.override[r].revision \in Nat
    BY WorldFields
  <1>2. t.override[r].revision = a.override[r].revision BY <1>1 DEF Later
  <1>. QED BY <1>2 DEF Later

\* The present lies between all moments of the call and itself.
LEMMA BetweenNow ==
  ASSUME NEW ms, NEW w, NEW bk, Past(ms, w)
  PROVE  Between(bk, ms, w, {w})
  <1>1. \A a \in {w} : Later(w, a) BY LaterSame DEF Past
  <1>2. \A b \in ms, a \in {w} : Squeezed(b, w, a) BY DEF Squeezed
  <1>. QED BY <1>1, <1>2 DEF Between, Past

\* What has been read stays read.
LEMMA ReadFromGrows ==
  ASSUME NEW S, NEW S2, S \subseteq S2, NEW read, NEW r, NEW s, ReadFrom(S, read, r, s)
  PROVE  ReadFrom(S2, read, r, s)
  BY DEF ReadFrom

-----------------------------------------------------------------------------
(* The stores change *)

\* Whatever changes has not had its new value before.
NoReturn(ms, w, w2) ==
  \A m \in ms :
    /\ m.activation = w2.activation => w2.activation = w.activation
    /\ \A r \in Rows : /\ m.base[r] = w2.base[r] => w2.base[r] = w.base[r]
                       /\ m.evidence[r] = w2.evidence[r] => w2.evidence[r] = w.evidence[r]

\* The stores change from w to w2.
Moves(ms, w, bk, w2, bk2) ==
  /\ w2 \in Worlds /\ Later(w, w2) /\ (bk => bk2) /\ (bk2 \/ NoReturn(ms, w, w2))

\* What a step of the stores does.
WorldStep ==
  /\ Moves(moments, world, back, world', back') /\ back' \in BOOLEAN
  /\ moments' = IF pc = "idle" THEN moments ELSE moments \cup {world'}
  /\ changes' \in 0 .. MaxChanges
  /\ UNCHANGED <<json, digest, lock, pc, my, reviewed, failures>>

LEMMA ChangeIsStep ==
  ASSUME StoresType, NEW store, NEW w \in Worlds, Change(store, w), Later(world, w)
  PROVE  WorldStep
  <1>1. changes \in 0 .. MaxChanges /\ changes < MaxChanges /\ changes' = changes + 1
    BY DEF Change, StoresType
  <1>2. changes' \in 0 .. MaxChanges BY <1>1, ReportingAssumption
  <1>3. back' = (back \/ Returns(w)) /\ world' = w BY DEF Change
  <1>4. back' \in BOOLEAN /\ (back => back') /\ (Returns(w) => back') BY <1>3
  <1>5. ~Returns(w) => NoReturn(moments, world, w) BY DEF Returns, NoReturn
  <1>6. Moves(moments, world, back, world', back') BY <1>3, <1>4, <1>5 DEF Moves
  <1>. QED BY <1>2, <1>3, <1>4, <1>6 DEF Change, WorldStep, files

\* A store that changes nothing else, and no override.
LEMMA SameOverrides ==
  ASSUME NEW v \in Worlds, NEW w \in Worlds, w.override = v.override
  PROVE  Later(v, w)
  <1>1. Later(v, v) BY LaterSame
  <1>. QED BY <1>1 DEF Later

LEMMA StoresStep ==
  ASSUME StoresType,
         SelectResult \/ SelectActivation \/ ChangeEvidence \/ SelectOverride \/ MovePublication
  PROVE  WorldStep
  <1>. world \in Worlds BY DEF StoresType, Past
  <1>1. CASE SelectResult
    <2>1. PICK r \in Rows : \E result \in Results \ {world.base[r]} :
            Change("result", [world EXCEPT !.base[r] = result])
      BY <1>1 DEF SelectResult
    <2>2. PICK result \in Results : Change("result", [world EXCEPT !.base[r] = result])
      BY <2>1
    <2>. DEFINE w == [world EXCEPT !.base[r] = result]
    <2>3. w \in Worlds /\ w.override = world.override BY DEF Worlds
    <2>. QED BY <2>2, <2>3, SameOverrides, ChangeIsStep
  <1>2. CASE SelectActivation
    <2>1. PICK activation \in Activations :
            Change("activation", [world EXCEPT !.activation = activation])
      BY <1>2 DEF SelectActivation
    <2>. DEFINE w == [world EXCEPT !.activation = activation]
    <2>2. w \in Worlds /\ w.override = world.override BY DEF Worlds
    <2>. QED BY <2>1, <2>2, SameOverrides, ChangeIsStep
  <1>3. CASE ChangeEvidence
    <2>1. PICK r \in Rows : \E evidence \in Evidence \ {world.evidence[r]} :
            Change("evidence", [world EXCEPT !.evidence[r] = evidence])
      BY <1>3 DEF ChangeEvidence
    <2>2. PICK evidence \in Evidence : Change("evidence", [world EXCEPT !.evidence[r] = evidence])
      BY <2>1
    <2>. DEFINE w == [world EXCEPT !.evidence[r] = evidence]
    <2>3. w \in Worlds /\ w.override = world.override BY DEF Worlds
    <2>. QED BY <2>2, <2>3, SameOverrides, ChangeIsStep
  <1>4. CASE SelectOverride
    <2>1. PICK r \in Rows, kind \in {"override", "withdraw"}, source \in Results :
            /\ world.override[r].revision < MaxOverride
            /\ Change("override", [world EXCEPT !.override[r] =
                 [revision |-> world.override[r].revision + 1, kind |-> kind, source |-> source]])
      BY <1>4 DEF SelectOverride
    <2>. DEFINE o == [revision |-> world.override[r].revision + 1, kind |-> kind,
                      source |-> source]
                w == [world EXCEPT !.override[r] = o]
    <2>2. /\ world.override \in [Rows -> Overrides] /\ world.override[r].revision \in Nat
          /\ \A q \in Rows : world.override[q].revision \in Nat
      BY WorldFields DEF Worlds
    <2>3. o.revision = world.override[r].revision + 1 /\ o \in Overrides
      <3>1. o.revision = world.override[r].revision + 1 OBVIOUS
      <3>2. o.revision \in 0 .. MaxOverride BY <2>1, <2>2, <3>1, ReportingAssumption
      <3>. QED BY <3>1, <3>2 DEF Overrides
    <2>. HIDE DEF o
    <2>4. w \in Worlds /\ \A q \in Rows : w.override[q] = IF q = r THEN o ELSE world.override[q]
      BY <2>2, <2>3 DEF Worlds
    <2>5. Change("override", w) BY <2>1 DEF o
    <2>. HIDE DEF w
    <2>6. Later(world, w) BY <2>2, <2>3, <2>4 DEF Later
    <2>. QED BY <2>4, <2>5, <2>6, ChangeIsStep
  <1>5. CASE MovePublication
    <2>. DEFINE w == [world EXCEPT !.moved = TRUE]
    <2>1. Change("publication", w) BY <1>5 DEF MovePublication
    <2>2. w \in Worlds /\ w.override = world.override BY DEF Worlds
    <2>. QED BY <2>1, <2>2, SameOverrides, ChangeIsStep
  <1>. QED BY <1>1, <1>2, <1>3, <1>4, <1>5

\* A new state of the stores comes after t too: where it agrees with a moment of B it is
\* what the stores held before, or has returned.
LEMMA BetweenGrows ==
  ASSUME NEW ms, NEW w, NEW bk, NEW w2, NEW bk2, Past(ms, w), Moves(ms, w, bk, w2, bk2),
         NEW B \in SUBSET ms, NEW A \in SUBSET ms, NEW t \in ms, Between(bk, B, t, A), w \in A
  PROVE  Between(bk2, B, t, A \cup {w2})
  <1>1. \A a \in A \cup {w2} : Later(t, a)
    <2>1. t \in Worlds /\ w \in Worlds /\ w2 \in Worlds BY DEF Past, Moves
    <2>2. Later(t, w) /\ Later(w, w2) BY DEF Between, Moves
    <2>3. Later(t, w2) BY <2>1, <2>2, LaterTransitive
    <2>. QED BY <2>3 DEF Between
  <1>2. CASE bk2 BY <1>1, <1>2 DEF Between
  <1>3. CASE ~bk2
    <2>1. ~bk /\ NoReturn(ms, w, w2) BY <1>3 DEF Moves
    <2>2. \A b \in B, a \in A : Squeezed(b, t, a) BY <2>1 DEF Between
    <2>3. ASSUME NEW b \in B PROVE Squeezed(b, t, w2)
      <3>1. Squeezed(b, t, w) /\ b \in ms BY <2>2
      <3>. QED BY <2>1, <3>1 DEF NoReturn, Squeezed
    <2>4. \A b \in B, a \in A \cup {w2} : Squeezed(b, t, a) BY <2>2, <2>3
    <2>. QED BY <1>1, <2>4 DEF Between
  <1>. QED BY <1>2, <1>3

LEMMA RowsStay ==
  ASSUME NEW bk, NEW bk2, bk => bk2, NEW S, NEW S2, S \subseteq S2, NEW rows,
         RowsTrue(bk, S, rows)
  PROVE  RowsTrue(bk2, S2, rows)
  BY DEF RowsTrue, TrueAt

LEMMA FirstBeforeStays ==
  ASSUME NEW ms, NEW w, NEW bk, NEW w2, NEW bk2, Past(ms, w), Moves(ms, w, bk, w2, bk2),
         NEW t \in ms, NEW s, NEW m, NEW r, FirstBefore(ms, w, bk, t, s, m, r)
  PROVE  FirstBefore(ms \cup {w2}, w2, bk2, t, s, m, r)
  <1>1. PICK B \in SUBSET ms, A \in SUBSET ms :
          /\ Between(bk, B, t, A) /\ w \in A /\ t.base[r] = m.first.base
          /\ ReadFrom(B, m.first, r, "base again") /\ ReadFrom(A, m.read, r, s)
    BY DEF FirstBefore
  <1>2. Between(bk2, B, t, A \cup {w2}) BY <1>1, BetweenGrows
  <1>3. ReadFrom(A \cup {w2}, m.read, r, s) BY <1>1, ReadFromGrows
  <1>4. B \in SUBSET (ms \cup {w2}) /\ A \cup {w2} \in SUBSET (ms \cup {w2}) OBVIOUS
  <1>. QED BY <1>1, <1>2, <1>3, <1>4 DEF FirstBefore

LEMMA ExplainingStays ==
  ASSUME NEW ms, NEW w, NEW bk, NEW w2, NEW bk2, Past(ms, w), Moves(ms, w, bk, w2, bk2),
         NEW S \in SUBSET ms, NEW s, NEW m, Explaining(ms, w, bk, S, s, m)
  PROVE  Explaining(ms \cup {w2}, w2, bk2, S \cup {w2}, s, m)
  <1>1. RowsTrue(bk2, S \cup {w2}, m.rows) BY RowsStay DEF Explaining, Moves
  <1>2. ASSUME s \in Reads PROVE Captured(ms \cup {w2}, w2, bk2, S \cup {w2}, s, m)
    <2>. DEFINE r == Len(m.rows) + 1
    <2>1. Captured(ms, w, bk, S, s, m) BY <1>2 DEF Explaining
    <2>2. m.round = 1 => ReadFrom(ms \cup {w2}, m.read, r, s)
      BY <2>1, ReadFromGrows DEF Captured
    <2>3. ASSUME m.round = 2
          PROVE  \E t \in S \cup {w2} : FirstBefore(ms \cup {w2}, w2, bk2, t, s, m, r)
      <3>1. PICK t \in S : FirstBefore(ms, w, bk, t, s, m, r) BY <2>1, <2>3 DEF Captured
      <3>2. FirstBefore(ms \cup {w2}, w2, bk2, t, s, m, r) BY <3>1, FirstBeforeStays
      <3>. QED BY <3>2
    <2>. QED BY <2>2, <2>3 DEF Captured
  <1>. QED BY <1>1, <1>2 DEF Explaining

LEMMA ConfirmingStays ==
  ASSUME NEW ms, NEW w, NEW bk, NEW w2, NEW bk2, Past(ms, w), Moves(ms, w, bk, w2, bk2),
         NEW s, NEW m, Confirming(ms, w, bk, s, m)
  PROVE  Confirming(ms \cup {w2}, w2, bk2, s, m)
  <1>1. PICK t \in ms : ~t.moved /\ ConfirmingAfter(ms, w, bk, t, s, m) BY DEF Confirming
  <1>2. PICK B \in SUBSET ms, A \in SUBSET ms :
          /\ Between(bk, B, t, A) /\ w \in A
          /\ RowsTrue(bk, B, m.kept) /\ Explaining(ms, w, bk, A, s, m)
    BY <1>1 DEF ConfirmingAfter
  <1>3. Between(bk2, B, t, A \cup {w2}) BY <1>2, BetweenGrows
  <1>4. RowsTrue(bk2, B, m.kept) BY <1>2, RowsStay DEF Moves
  <1>5. Explaining(ms \cup {w2}, w2, bk2, A \cup {w2}, s, m) BY <1>2, ExplainingStays
  <1>6. B \in SUBSET (ms \cup {w2}) /\ A \cup {w2} \in SUBSET (ms \cup {w2}) OBVIOUS
  <1>7. ConfirmingAfter(ms \cup {w2}, w2, bk2, t, s, m)
    BY <1>3, <1>4, <1>5, <1>6 DEF ConfirmingAfter
  <1>. QED BY <1>1, <1>7 DEF Confirming

LEMMA FrozenStays ==
  ASSUME NEW ms, NEW ms2, ms \subseteq ms2, NEW bk, NEW bk2, bk => bk2, NEW rows,
         Frozen(ms, bk, rows)
  PROVE  Frozen(ms2, bk2, rows)
  BY DEF Frozen, ShownAt

LEMMA ObservedStays ==
  ASSUME NEW ms, NEW w, NEW bk, NEW w2, NEW bk2, Past(ms, w), Moves(ms, w, bk, w2, bk2),
         NEW s, NEW m, Observed(ms, w, bk, s, m)
  PROVE  Observed(ms \cup {w2}, w2, bk2, s, m)
  <1>. DEFINE ms2 == ms \cup {w2}
  <1>1. (bk => bk2) /\ ms \subseteq ms2 /\ ms \in SUBSET ms BY DEF Moves
  <1>2. s \in Reads \cup {"report"} /\ m.pass # "final" => Explaining(ms2, w2, bk2, ms2, s, m)
    BY <1>1, ExplainingStays DEF Observed
  <1>3. s \in Reads \cup {"report"} /\ m.pass = "final" => Confirming(ms2, w2, bk2, s, m)
    BY ConfirmingStays DEF Observed
  <1>4. s = "verify" /\ m.pass = "final" => RowsTrue(bk2, ms2, m.kept)
    BY <1>1, RowsStay DEF Observed
  <1>5. s \in Writes => Frozen(ms2, bk2, m.kept) BY <1>1, FrozenStays DEF Observed
  <1>6. RowsTrue(bk2, ms2, m.rows) BY <1>1, RowsStay DEF Observed
  <1>. HIDE DEF ms2
  <1>7. Observed(ms2, w2, bk2, s, m) BY <1>2, <1>3, <1>4, <1>5, <1>6 DEF Observed
  <1>. QED BY <1>7 DEF ms2

\* A process that is not called knows nothing.
LEMMA IdleObserves ==
  ASSUME NEW ms, NEW w, NEW bk
  PROVE  Observed(ms, w, bk, "idle", NoCall)
  <1>1. NoCall.rows = <<>> /\ Len(NoCall.rows) = 0 BY DEF NoCall
  <1>2. RowsTrue(bk, ms, NoCall.rows) BY <1>1 DEF RowsTrue
  <1>. QED BY <1>2 DEF Observed, Reads, Writes

LEMMA PastGrows ==
  ASSUME NEW ms, NEW w, NEW w2 \in Worlds, Past(ms, w), Later(w, w2)
  PROVE  Past(ms, w2) /\ Past(ms \cup {w2}, w2)
  <1>1. ASSUME NEW m \in ms PROVE Later(m, w2)
    BY LaterTransitive DEF Past
  <1>2. Later(w2, w2) BY LaterSame
  <1>. QED BY <1>1, <1>2 DEF Past

LEMMA StoresKeep ==
  ASSUME IInv, WorldStep
  PROVE  IInv'
  <1>1. /\ UNCHANGED <<json, digest, lock, pc, my, reviewed, failures>>
        /\ changes' \in 0 .. MaxChanges /\ back' \in BOOLEAN
        /\ Moves(moments, world, back, world', back')
    BY DEF WorldStep
  <1>2. Past(moments, world) /\ Observed(moments, world, back, pc, my) BY DEF IInv, StoresType
  <1>3. Past(moments, world') /\ Past(moments \cup {world'}, world')
    BY <1>1, <1>2, PastGrows DEF Moves
  <1>4. Placed(json, pc, my)' BY <1>1 DEF IInv
  <1>5. CASE pc = "idle"
    <2>1. moments' = moments BY <1>5 DEF WorldStep
    <2>2. StoresType' BY <1>1, <1>3, <1>5, <2>1 DEF IInv, StoresType
    <2>3. my = NoCall BY <1>5 DEF IInv, Placed
    <2>4. Observed(moments', world', back', "idle", NoCall) BY IdleObserves
    <2>. QED BY <1>1, <1>4, <1>5, <2>2, <2>3, <2>4 DEF IInv
  <1>6. CASE pc # "idle"
    <2>1. moments' = moments \cup {world'} BY <1>6 DEF WorldStep
    <2>2. StoresType' BY <1>1, <1>3, <1>6, <2>1 DEF IInv, StoresType
    <2>3. Observed(moments', world', back', pc, my) BY <1>1, <1>2, <2>1, ObservedStays
    <2>. QED BY <1>1, <1>4, <2>2, <2>3 DEF IInv
  <1>. QED BY <1>5, <1>6

-----------------------------------------------------------------------------
(* A row is captured *)

LEMMA StepKeeps ==
  ASSUME IInv, NEW s, NEW m, Step(s, m), pc # "idle", Placed(json, s, m),
         Observed(moments, world, back, s, m)
  PROVE  IInv'
  <1>1. /\ UNCHANGED <<world, json, digest, lock, reviewed, moments, back, changes, failures>>
        /\ pc' = s /\ my' = m
    BY DEF Step, Goto, files, history, counters
  <1>2. StoresType' BY <1>1 DEF IInv, StoresType
  <1>. QED BY <1>1, <1>2 DEF IInv

\* What a capture explains, whatever moments S it explains from, the call knows.
LEMMA Capturing ==
  ASSUME NEW ms, NEW w, NEW bk, w \in ms, NEW s \in Reads, NEW m,
         NEW s2 \in Reads \cup {"report"}, NEW m2, m2.pass = m.pass, m2.kept = m.kept,
         Observed(ms, w, bk, s, m),
         \A S \in SUBSET ms : w \in S /\ Explaining(ms, w, bk, S, s, m)
                              => Explaining(ms, w, bk, S, s2, m2)
  PROVE  Observed(ms, w, bk, s2, m2)
  <1>1. s2 # "verify" /\ s2 \notin Writes BY DEF Reads, Writes
  <1>2. CASE m.pass # "final"
    <2>1. Explaining(ms, w, bk, ms, s2, m2) BY <1>2 DEF Observed
    <2>. QED BY <1>1, <1>2, <2>1 DEF Observed, Explaining
  <1>3. CASE m.pass = "final"
    <2>1. Confirming(ms, w, bk, s, m) BY <1>3 DEF Observed
    <2>2. PICK t \in ms : ~t.moved /\ ConfirmingAfter(ms, w, bk, t, s, m) BY <2>1 DEF Confirming
    <2>3. PICK B \in SUBSET ms, A \in SUBSET ms :
            /\ Between(bk, B, t, A) /\ w \in A
            /\ RowsTrue(bk, B, m.kept) /\ Explaining(ms, w, bk, A, s, m)
      BY <2>2 DEF ConfirmingAfter
    <2>4. Explaining(ms, w, bk, A, s2, m2) BY <2>3
    <2>5. ConfirmingAfter(ms, w, bk, t, s2, m2) BY <2>3, <2>4 DEF ConfirmingAfter
    <2>6. Confirming(ms, w, bk, s2, m2) BY <2>2, <2>5 DEF Confirming
    <2>7. RowsTrue(bk, ms, m2.rows) BY <2>4, RowsStay DEF Explaining
    <2>. QED BY <1>1, <1>3, <2>6, <2>7 DEF Observed
  <1>. QED BY <1>2, <1>3

\* One more read of the row.
LEMMA ReadingKeeps ==
  ASSUME IInv, NEW s \in Reads, NEW m, pc \in Reads, Step(s, m), Placed(json, s, m),
         m.pass = my.pass, m.kept = my.kept, m.rows = my.rows, m.round = my.round,
         m.first = my.first,
         \A S \in SUBSET moments : world \in S /\ ReadFrom(S, my.read, Row, pc)
                                   => ReadFrom(S, m.read, Row, s)
  PROVE  IInv'
  <1>1. pc # "idle" /\ world \in moments /\ Observed(moments, world, back, pc, my)
    BY DEF IInv, StoresType, Reads
  <1>2. ASSUME NEW S \in SUBSET moments, world \in S, Explaining(moments, world, back, S, pc, my)
        PROVE  Explaining(moments, world, back, S, s, m)
    <2>1. Captured(moments, world, back, S, pc, my) /\ RowsTrue(back, S, m.rows)
      BY <1>2 DEF Explaining
    <2>2. m.round = 1 => ReadFrom(moments, m.read, Row, s)
      BY <1>1, <2>1 DEF Captured, Row
    <2>3. ASSUME m.round = 2
          PROVE  \E t \in S : FirstBefore(moments, world, back, t, s, m, Row)
      <3>1. PICK t \in S : FirstBefore(moments, world, back, t, pc, my, Row)
        BY <2>1, <2>3 DEF Captured, Row
      <3>2. FirstBefore(moments, world, back, t, s, m, Row) BY <3>1 DEF FirstBefore
      <3>. QED BY <3>2
    <2>4. Row = Len(m.rows) + 1 BY DEF Row
    <2>5. Captured(moments, world, back, S, s, m) BY <2>2, <2>3, <2>4 DEF Captured
    <2>. QED BY <2>1, <2>5 DEF Explaining
  <1>3. Observed(moments, world, back, s, m) BY <1>1, <1>2, Capturing
  <1>. QED BY <1>1, <1>3, StepKeeps

\* The witness is one more field.
LEMMA Witnessed ==
  ASSUME IInv, pc \in Reads, NEW read \in Witnesses, NEW s \in Reads \ {"base"},
         read.base \in Results
  PROVE  LET m == [my EXCEPT !.read = read] IN
         /\ Placed(json, s, m) /\ m.read = read
         /\ m.pass = my.pass /\ m.kept = my.kept /\ m.rows = my.rows /\ m.round = my.round
         /\ m.first = my.first
  <1>. DEFINE m == [my EXCEPT !.read = read]
  <1>1. my \in Locals /\ Placed(json, pc, my) BY DEF IInv, Placed
  <1>2. /\ m \in Locals /\ m.read = read /\ m.pass = my.pass /\ m.kept = my.kept
        /\ m.rows = my.rows /\ m.round = my.round /\ m.first = my.first
    BY <1>1 DEF Locals
  <1>. HIDE DEF m
  <1>3. s \in Steps /\ s # "idle" /\ pc # "idle" BY DEF Steps, Reads
  <1>4. s \notin {"report", "verify"} /\ s \notin Writes /\ s # "json" /\ s # "digest" BY DEF Reads, Writes
  <1>5. Placed(json, s, m) BY <1>1, <1>2, <1>3, <1>4 DEF Placed
  <1>. QED BY <1>2, <1>5 DEF m

LEMMA RowInRows ==
  ASSUME IInv, pc \in Reads
  PROVE  Row \in Rows /\ Row = Len(my.rows) + 1 /\ my \in Locals /\ world \in moments
         /\ world \in Worlds /\ my.read \in Witnesses
  <1>1. my \in Locals /\ Len(my.rows) < N BY DEF IInv, Placed
  <1>2. my.rows \in Seq(ReportRows) /\ my.read \in Witnesses BY <1>1 DEF Locals
  <1>3. Len(my.rows) \in Nat BY <1>2
  <1>4. Len(my.rows) + 1 \in 1 .. N BY <1>1, <1>3, ReportingAssumption
  <1>5. world \in moments /\ world \in Worlds BY DEF IInv, StoresType, Past, Reads
  <1>. QED BY <1>1, <1>2, <1>4, <1>5 DEF Row, Rows

LEMMA ReadSteps ==
  ASSUME IInv, ReadActivation \/ ReadEvidence \/ ReadOverride
  PROVE  IInv'
  <1>1. CASE ReadActivation
    <2>. DEFINE read == [my.read EXCEPT !.activation = world.activation]
                m == [my EXCEPT !.read = read]
    <2>1. pc = "activation" /\ Step("evidence", m) BY <1>1 DEF ReadActivation
    <2>2. pc \in Reads /\ "evidence" \in Reads \ {"base"} BY <2>1 DEF Reads
    <2>3. my.read \in Witnesses /\ my.read.base \in Results /\ world.activation \in Activations
          /\ world \in moments
      BY <2>1, <2>2, RowInRows, ReportingAssumption DEF IInv, Placed, Worlds
    <2>4. read \in Witnesses /\ read.base = my.read.base /\ read.activation = world.activation
      BY <2>3 DEF Witnesses
    <2>5. \A S \in SUBSET moments : world \in S /\ ReadFrom(S, my.read, Row, pc)
                                     => ReadFrom(S, read, Row, "evidence")
      <3>. HIDE DEF read
      <3>. QED BY <2>1, <2>4 DEF ReadFrom, Reads
    <2>. HIDE DEF read
    <2>6. /\ Placed(json, "evidence", m) /\ m.read = read
          /\ m.pass = my.pass /\ m.kept = my.kept /\ m.rows = my.rows /\ m.round = my.round
          /\ m.first = my.first
      BY <2>2, <2>3, <2>4, Witnessed
    <2>. HIDE DEF m
    <2>. QED BY <2>1, <2>2, <2>5, <2>6, ReadingKeeps
  <1>2. CASE ReadEvidence
    <2>. DEFINE read == [my.read EXCEPT !.evidence = world.evidence[Row]]
                m == [my EXCEPT !.read = read]
    <2>1. pc = "evidence" /\ Step("activation again", m) BY <1>2 DEF ReadEvidence
    <2>2. pc \in Reads /\ "activation again" \in Reads \ {"base"} BY <2>1 DEF Reads
    <2>3. my.read \in Witnesses /\ my.read.base \in Results /\ world.evidence[Row] \in Evidence
          /\ world \in moments
      BY <2>1, <2>2, RowInRows, WorldFields DEF IInv, Placed
    <2>4. /\ read \in Witnesses /\ read.base = my.read.base
          /\ read.activation = my.read.activation /\ read.evidence = world.evidence[Row]
      BY <2>3 DEF Witnesses
    <2>5. \A S \in SUBSET moments : world \in S /\ ReadFrom(S, my.read, Row, pc)
                                     => ReadFrom(S, read, Row, "activation again")
      <3>. HIDE DEF read
      <3>. QED BY <2>1, <2>4 DEF ReadFrom, Reads
    <2>. HIDE DEF read
    <2>6. /\ Placed(json, "activation again", m) /\ m.read = read
          /\ m.pass = my.pass /\ m.kept = my.kept /\ m.rows = my.rows /\ m.round = my.round
          /\ m.first = my.first
      BY <2>2, <2>3, <2>4, Witnessed
    <2>. HIDE DEF m
    <2>. QED BY <2>1, <2>2, <2>5, <2>6, ReadingKeeps
  <1>3. CASE ReadOverride
    <2>. DEFINE read == [my.read EXCEPT !.override = world.override[Row]]
                m == [my EXCEPT !.read = read]
    <2>1. pc = "override" /\ Step("override again", m) BY <1>3 DEF ReadOverride
    <2>2. pc \in Reads /\ "override again" \in Reads \ {"base"} BY <2>1 DEF Reads
    <2>3. my.read \in Witnesses /\ my.read.base \in Results /\ world.override[Row] \in Overrides
          /\ world \in moments
      BY <2>1, <2>2, RowInRows, WorldFields DEF IInv, Placed
    <2>4. /\ read \in Witnesses /\ read.base = my.read.base
          /\ read.activation = my.read.activation /\ read.evidence = my.read.evidence
          /\ read.override = world.override[Row]
      BY <2>3 DEF Witnesses
    <2>5. \A S \in SUBSET moments : world \in S /\ ReadFrom(S, my.read, Row, pc)
                                     => ReadFrom(S, read, Row, "override again")
      <3>. HIDE DEF read
      <3>. QED BY <2>1, <2>4 DEF ReadFrom, Reads
    <2>. HIDE DEF read
    <2>6. /\ Placed(json, "override again", m) /\ m.read = read
          /\ m.pass = my.pass /\ m.kept = my.kept /\ m.rows = my.rows /\ m.round = my.round
          /\ m.first = my.first
      BY <2>2, <2>3, <2>4, Witnessed
    <2>. HIDE DEF m
    <2>. QED BY <2>1, <2>2, <2>5, <2>6, ReadingKeeps
  <1>. QED BY <1>1, <1>2, <1>3

\* A second look at a store that has not changed.
LEMMA SecondLooks ==
  ASSUME IInv,
         \/ pc = "activation again" /\ Step("override", my)
         \/ pc = "override again" /\ Step("base again", my)
  PROVE  IInv'
  <1>1. PICK s \in {"override", "base again"} :
          Step(s, my) /\ pc = (IF s = "override" THEN "activation again" ELSE "override again")
    OBVIOUS
  <1>2. pc \in Reads /\ s \in Reads BY <1>1 DEF Reads
  <1>3. Placed(json, pc, my) BY DEF IInv
  <1>4. Placed(json, s, my)
    <2>1. s \in Steps /\ s # "idle" /\ pc # "idle" /\ s # "base" /\ pc # "base"
      BY <1>1 DEF Steps, Reads
    <2>2. s \notin {"report", "verify"} /\ s \notin Writes /\ s # "json" /\ s # "digest"
      BY <1>1 DEF Writes
    <2>. QED BY <1>2, <1>3, <2>1, <2>2 DEF Placed
  <1>5. \A S \in SUBSET moments : world \in S /\ ReadFrom(S, my.read, Row, pc)
                                   => ReadFrom(S, my.read, Row, s)
    BY <1>1 DEF ReadFrom, Reads
  <1>. QED BY <1>1, <1>2, <1>4, <1>5, ReadingKeeps

LEMMA IdlePlaced == ASSUME NEW j PROVE Placed(j, "idle", NoCall)
  <1>1. NoWitness \in Witnesses /\ NoOverride \in Overrides
    BY ReportingAssumption DEF NoWitness, Witnesses, NoOverride, Overrides
  <1>2. NoCall \in Locals /\ Len(NoCall.rows) = 0 /\ 0 <= N
    BY <1>1, ReportingAssumption DEF NoCall, Locals
  <1>3. NoCall.pass = "none" /\ NoCall.round = 1 /\ NoCall.first = NoWitness BY DEF NoCall
  <1>. QED BY <1>2, <1>3 DEF Placed, Steps, Reads, Writes

LEMMA EndKeeps ==
  ASSUME IInv, End, reviewed' \in Seq(ReportRows) \cup {Absent}
  PROVE  IInv'
  <1>1. /\ UNCHANGED <<world, json, digest, lock, changes, failures>>
        /\ pc' = "idle" /\ my' = NoCall /\ moments' = {} /\ back' = FALSE
    BY DEF End, Goto, files, counters
  <1>2. StoresType' BY <1>1 DEF IInv, StoresType, Past
  <1>3. Placed(json', "idle", NoCall) BY IdlePlaced
  <1>4. Observed({}, world', FALSE, "idle", NoCall) BY IdleObserves
  <1>. QED BY <1>1, <1>2, <1>3, <1>4 DEF IInv

\* The base result is read, or was missing.
LEMMA BaseRead ==
  ASSUME IInv, pc = "base", world.base[Row] # Absent,
         Step("activation", [my EXCEPT !.read.base = world.base[Row]])
  PROVE  IInv'
  <1>. DEFINE read == [my.read EXCEPT !.base = world.base[Row]]
              m == [my EXCEPT !.read = read]
  <1>1. Step("activation", m) OBVIOUS
  <1>2. pc \in Reads /\ "activation" \in Reads \ {"base"} BY DEF Reads
  <1>3. my.read \in Witnesses /\ world.base[Row] \in Results /\ world \in moments
    BY <1>2, RowInRows, WorldFields
  <1>4. read \in Witnesses /\ read.base = world.base[Row] BY <1>3 DEF Witnesses
  <1>5. \A S \in SUBSET moments : world \in S /\ ReadFrom(S, my.read, Row, pc)
                                   => ReadFrom(S, read, Row, "activation")
    <2>. HIDE DEF read
    <2>. QED BY <1>4 DEF ReadFrom, Reads
  <1>. HIDE DEF read
  <1>6. /\ Placed(json, "activation", m) /\ m.read = read
        /\ m.pass = my.pass /\ m.kept = my.kept /\ m.rows = my.rows /\ m.round = my.round
        /\ m.first = my.first
    BY <1>2, <1>3, <1>4, Witnessed
  <1>. HIDE DEF m
  <1>. QED BY <1>1, <1>2, <1>5, <1>6, ReadingKeeps

LEMMA RowExplained == ASSUME NEW read \in Witnesses PROVE Explained(RowOf(read))
  <1>. DEFINE fresh == Fresh(read.base, read.activation, read.evidence)
              source == EffectiveSource(read.base, fresh, read.override)
  <1>1. fresh \in BOOLEAN BY DEF Fresh
  <1>. HIDE DEF fresh
  <1>2. ASSUME source = "override"
        PROVE  read.override.kind = "override" /\ read.override.source = read.base /\ fresh
    <2>1. Applicability(read.base, fresh, read.override) = "applicable"
      BY <1>2 DEF EffectiveSource
    <2>2. read.override.kind \in {"none", "override", "withdraw"} BY DEF Witnesses, Overrides
    <2>. QED BY <1>1, <2>1, <2>2 DEF Applicability
  <1>3. source = "base" => read.base \in Calculated BY DEF EffectiveSource
  <1>. HIDE DEF source
  <1>4. RowOf(read) = [base |-> read.base, fresh |-> fresh, override |-> read.override,
                       grade |-> source]
    BY DEF RowOf, fresh, source
  <1>. QED BY <1>2, <1>3, <1>4 DEF Explained

\* Both captures agree: the row was true at the end of the first.
LEMMA CapturedTwice ==
  ASSUME NEW ms, NEW w, NEW bk, Past(ms, w), NEW t \in ms, NEW r \in Rows, NEW m,
         m.read \in Witnesses, m.read = m.first, m.read.base \in Results,
         FirstBefore(ms, w, bk, t, "base again", m, r)
  PROVE  TrueAt(bk, t, r, RowOf(m.read))
  <1>1. PICK B \in SUBSET ms, A \in SUBSET ms :
          /\ Between(bk, B, t, A) /\ w \in A /\ t.base[r] = m.first.base
          /\ ReadFrom(B, m.first, r, "base again") /\ ReadFrom(A, m.read, r, "base again")
    BY DEF FirstBefore
  <1>. DEFINE read == m.read
  <1>. HIDE DEF read
  <1>2. /\ \E b \in B : b.activation = read.activation
        /\ \E b \in B : b.evidence[r] = read.evidence
        /\ \E b \in B : b.override[r] = read.override
        /\ \E a \in A : a.activation = read.activation
        /\ \E a \in A : a.evidence[r] = read.evidence
        /\ \E a \in A : a.override[r] = read.override
    BY <1>1 DEF ReadFrom, Reads, read
  <1>3. t.base[r] = read.base /\ t.base[r] # Absent BY <1>1, ReportingAssumption DEF read
  <1>4. \A v \in ms : v \in Worlds BY DEF Past
  <1>5. t.override[r] = read.override
    <2>1. PICK b \in B : b.override[r] = read.override BY <1>2
    <2>2. PICK a \in A : a.override[r] = read.override BY <1>2
    <2>3. Later(b, t) /\ Later(t, a) /\ b \in Worlds /\ t \in Worlds /\ a \in Worlds
      BY <1>1, <1>4 DEF Between
    <2>4. b.override[r] = a.override[r] BY <2>1, <2>2
    <2>5. t.override[r] = a.override[r] BY <2>3, <2>4, OverrideSqueezed
    <2>. QED BY <2>2, <2>5
  <1>6. ASSUME ~bk PROVE t.activation = read.activation /\ t.evidence[r] = read.evidence
    <2>1. \A b \in B, a \in A : Squeezed(b, t, a) BY <1>1, <1>6 DEF Between
    <2>2. t.activation = read.activation
      <3>1. PICK b \in B : b.activation = read.activation BY <1>2
      <3>2. PICK a \in A : a.activation = read.activation BY <1>2
      <3>3. Squeezed(b, t, a) BY <2>1
      <3>. QED BY <3>1, <3>2, <3>3 DEF Squeezed
    <2>3. t.evidence[r] = read.evidence
      <3>1. PICK b \in B : b.evidence[r] = read.evidence BY <1>2
      <3>2. PICK a \in A : a.evidence[r] = read.evidence BY <1>2
      <3>3. Squeezed(b, t, a) BY <2>1
      <3>. QED BY <3>1, <3>2, <3>3 DEF Squeezed
    <2>. QED BY <2>2, <2>3
  <1>7. RowOf(read).override = t.override[r] BY <1>5 DEF RowOf
  <1>8. ASSUME ~bk PROVE RowOf(read) = RowIn(t, r)
    <2>1. read = [base |-> t.base[r], activation |-> t.activation,
                  evidence |-> t.evidence[r], override |-> t.override[r]]
      BY <1>3, <1>5, <1>6, <1>8 DEF Witnesses, read
    <2>. QED BY <1>3, <2>1 DEF RowIn
  <1>9. Explained(RowOf(read)) BY RowExplained DEF read
  <1>. QED BY <1>7, <1>8, <1>9 DEF TrueAt, read

LEMMA RowOfType ==
  ASSUME NEW read \in Witnesses PROVE RowOf(read) \in ReportRows
  <1>. DEFINE fresh == Fresh(read.base, read.activation, read.evidence)
  <1>1. fresh \in BOOLEAN BY DEF Fresh
  <1>2. EffectiveSource(read.base, fresh, read.override) \in {"override", "base", "none"}
    BY DEF EffectiveSource
  <1>. HIDE DEF fresh
  <1>3. RowOf(read) = [base |-> read.base, fresh |-> fresh, override |-> read.override,
                       grade |-> EffectiveSource(read.base, fresh, read.override)]
    BY DEF RowOf, fresh
  <1>. QED BY <1>1, <1>2, <1>3 DEF ReportRows, Witnesses

LEMMA RowsAppend ==
  ASSUME NEW bk, NEW S, NEW rows \in Seq(ReportRows), NEW row \in ReportRows,
         RowsTrue(bk, S, rows), NEW t \in S, TrueAt(bk, t, Len(rows) + 1, row)
  PROVE  RowsTrue(bk, S, Append(rows, row))
  <1>. DEFINE all == Append(rows, row)
  <1>1. Len(rows) \in Nat /\ Len(all) = Len(rows) + 1 OBVIOUS
  <1>2. all[Len(rows) + 1] = row /\ \A r \in 1 .. Len(rows) : all[r] = rows[r] OBVIOUS
  <1>. HIDE DEF all
  <1>3. ASSUME NEW r \in 1 .. Len(all) PROVE \E v \in S : TrueAt(bk, v, r, all[r])
    <2>1. r = Len(rows) + 1 \/ r \in 1 .. Len(rows) BY <1>1
    <2>. QED BY <1>2, <2>1 DEF RowsTrue
  <1>. QED BY <1>3 DEF RowsTrue, all

LEMMA SecondRound == ASSUME NEW n, n = 2 PROVE n # 1
  OBVIOUS

LEMMA NoWitnessType == NoWitness \in Witnesses
  BY ReportingAssumption DEF NoWitness, Witnesses, NoOverride, Overrides

\* The next row, or the report is complete.
LEMMA NextRowKeeps ==
  ASSUME IInv, pc \in Reads, NEW row \in ReportRows, Step(AfterRow, NextRow(row)),
         \A S \in SUBSET moments :
           world \in S /\ Explaining(moments, world, back, S, pc, my)
           => \E t \in S : TrueAt(back, t, Row, row)
  PROVE  IInv'
  <1>. DEFINE s == AfterRow
              m == NextRow(row)
  <1>1. Row \in 1 .. N /\ Row = Len(my.rows) + 1 /\ my \in Locals /\ world \in moments
    BY RowInRows DEF Rows
  <1>2. my.rows \in Seq(ReportRows) BY <1>1 DEF Locals
  <1>3. NoWitness \in Witnesses /\ Append(my.rows, row) \in Seq(ReportRows)
    BY <1>2, NoWitnessType
  <1>4. /\ m \in Locals /\ m.pass = my.pass /\ m.kept = my.kept /\ m.round = 1
        /\ m.rows = Append(my.rows, row) /\ m.read = NoWitness /\ m.first = NoWitness
    BY <1>1, <1>2, <1>3 DEF NextRow, Locals
  <1>5. Len(m.rows) = Row /\ Len(m.rows) \in Nat BY <1>1, <1>2, <1>4
  <1>6. s = IF Row = N THEN "report" ELSE "base" BY DEF AfterRow
  <1>7. Placed(json, pc, my) /\ pc # "idle" BY DEF IInv, Reads
  <1>. HIDE DEF s, m
  <1>8. Step(s, m) BY DEF s, m
  <1>9. Placed(json, s, m)
    <2>1. Len(m.rows) <= N /\ (s = "base" => Len(m.rows) < N) /\ (s = "report" => Len(m.rows) = N)
      BY <1>1, <1>5, <1>6, ReportingAssumption
    <2>2. s \in {"base", "report"} BY <1>6
    <2>3. s \in Steps /\ s # "idle" /\ s # "verify" /\ s \notin Writes /\ s # "json" /\ s # "digest"
          /\ (s \in Reads => s = "base")
      BY <2>2 DEF Steps, Reads, Writes
    <2>4. m.pass # "none" /\ (m.pass = "final" => Len(m.kept) = N) BY <1>4, <1>7 DEF Placed
    <2>. QED BY <1>4, <2>1, <2>2, <2>3, <2>4 DEF Placed
  <1>10. s \in Reads \cup {"report"} /\ (s \in Reads => s = "base") BY <1>6 DEF Reads
  <1>11. ASSUME NEW S \in SUBSET moments, world \in S,
                Explaining(moments, world, back, S, pc, my)
         PROVE  Explaining(moments, world, back, S, s, m)
    <2>1. PICK t \in S : TrueAt(back, t, Row, row) BY <1>11
    <2>2. RowsTrue(back, S, my.rows) BY <1>11 DEF Explaining
    <2>3. RowsTrue(back, S, m.rows) BY <1>1, <1>2, <1>4, <2>1, <2>2, RowsAppend
    <2>4. s \in Reads => Captured(moments, world, back, S, s, m)
      BY <1>4, <1>10 DEF Captured, ReadFrom
    <2>. QED BY <2>3, <2>4 DEF Explaining
  <1>12. Observed(moments, world, back, pc, my) BY DEF IInv
  <1>13. Observed(moments, world, back, s, m)
    BY <1>1, <1>4, <1>10, <1>11, <1>12, Capturing
  <1>. QED BY <1>7, <1>8, <1>9, <1>13, StepKeeps

LEMMA ReadBaseKeeps ==
  ASSUME IInv, ReadBase
  PROVE  IInv'
  <1>1. pc = "base" /\ pc \in Reads BY DEF ReadBase, Reads
  <1>2. CASE world.base[Row] # Absent BY <1>1, <1>2, BaseRead DEF ReadBase
  <1>3. CASE world.base[Row] = Absent
    <2>1. Step(AfterRow, NextRow(Unavailable)) BY <1>3 DEF ReadBase
    <2>2. Unavailable \in ReportRows
      BY ReportingAssumption DEF Unavailable, ReportRows, NoOverride, Overrides
    <2>3. TrueAt(back, world, Row, Unavailable) BY <1>3 DEF TrueAt, RowIn, Explained, Unavailable
    <2>. QED BY <1>1, <2>1, <2>2, <2>3, NextRowKeeps
  <1>. QED BY <1>2, <1>3

\* The second capture starts where the first has ended.
LEMMA SecondCapture ==
  ASSUME IInv, pc = "base again", world.base[Row] = my.read.base, my.round = 1,
         Step("base", [my EXCEPT !.round = 2, !.first = my.read, !.read = NoWitness])
  PROVE  IInv'
  <1>1. PICK m : /\ m = [my EXCEPT !.round = 2, !.first = my.read, !.read = NoWitness]
                 /\ Step("base", m)
    OBVIOUS
  <1>2. pc \in Reads \ {"base"} /\ "base" \in Reads BY DEF Reads
  <1>3. my \in Locals /\ my.read \in Witnesses /\ world \in moments BY <1>2, RowInRows
  <1>4. NoWitness \in Witnesses BY NoWitnessType
  <1>5. /\ m \in Locals /\ m.pass = my.pass /\ m.kept = my.kept /\ m.rows = my.rows
        /\ m.round = 2 /\ m.first = my.read /\ m.read = NoWitness
    BY <1>1, <1>3, <1>4 DEF Locals
  <1>6. Placed(json, pc, my) /\ Observed(moments, world, back, pc, my) /\ Past(moments, world)
    BY DEF IInv, StoresType
  <1>7. Placed(json, "base", m)
    <2>1. m.first # NoWitness
      <3>1. my.read.base \in Results BY <1>2, <1>6 DEF Placed
      <3>2. NoWitness.base = Absent BY DEF NoWitness
      <3>. QED BY <1>5, <3>1, <3>2, ReportingAssumption
    <2>2. Len(m.rows) < N /\ Len(m.rows) <= N /\ m.pass # "none"
          /\ (m.pass = "final" => Len(m.kept) = N)
      BY <1>2, <1>5, <1>6 DEF Placed, Reads
    <2>. QED BY <1>5, <2>1, <2>2 DEF Placed, Steps, Reads, Writes
  <1>8. ASSUME NEW S \in SUBSET moments, world \in S, Explaining(moments, world, back, S, pc, my)
        PROVE  Explaining(moments, world, back, S, "base", m)
    <2>1. ReadFrom(moments, m.first, Row, "base again")
      BY <1>2, <1>5, <1>8 DEF Explaining, Captured, Row
    <2>2. Between(back, moments, world, {world}) BY <1>6, BetweenNow
    <2>3. ReadFrom({world}, m.read, Row, "base") BY DEF ReadFrom
    <2>4. world.base[Row] = m.first.base BY <1>5
    <2>5. FirstBefore(moments, world, back, world, "base", m, Row)
      <3>1. moments \in SUBSET moments /\ {world} \in SUBSET moments /\ world \in {world}
        BY <1>3
      <3>. QED BY <2>1, <2>2, <2>3, <2>4, <3>1 DEF FirstBefore
    <2>6. Captured(moments, world, back, S, "base", m)
      <3>1. \E t \in S : FirstBefore(moments, world, back, t, "base", m, Row) BY <1>8, <2>5
      <3>2. m.rows = my.rows BY <1>5
      <3>3. Row = Len(m.rows) + 1 BY <3>2 DEF Row
      <3>4. m.round = 2 BY <1>5
      <3>5. ~(m.round = 1) BY <3>4, SecondRound
      <3>. QED BY <3>1, <3>3, <3>5 DEF Captured
    <2>7. RowsTrue(back, S, m.rows) BY <1>5, <1>8 DEF Explaining
    <2>. QED BY <2>6, <2>7 DEF Explaining
  <1>9. Observed(moments, world, back, "base", m)
    BY <1>2, <1>3, <1>5, <1>6, <1>8, Capturing
  <1>. QED BY <1>1, <1>2, <1>7, <1>9, StepKeeps DEF Reads

LEMMA RowCaptured ==
  ASSUME IInv, pc = "base again", my.round = 2, my.read = my.first,
         Step(AfterRow, NextRow(RowOf(my.read)))
  PROVE  IInv'
  <1>1. pc \in Reads \ {"base"} BY DEF Reads
  <1>2. Row \in Rows /\ my.read \in Witnesses /\ RowOf(my.read) \in ReportRows
    BY <1>1, RowInRows, RowOfType
  <1>3. my.read.base \in Results /\ Past(moments, world) BY <1>1 DEF IInv, Placed, StoresType
  <1>4. ASSUME NEW S \in SUBSET moments, world \in S, Explaining(moments, world, back, S, pc, my)
        PROVE  \E t \in S : TrueAt(back, t, Row, RowOf(my.read))
    <2>1. PICK t \in S : FirstBefore(moments, world, back, t, "base again", my, Row)
      BY <1>1, <1>4 DEF Explaining, Captured, Row
    <2>. QED BY <1>2, <1>3, <2>1, CapturedTwice
  <1>. QED BY <1>1, <1>2, <1>4, NextRowKeeps

LEMMA CaptureKeeps ==
  ASSUME IInv, Capture
  PROVE  IInv'
  <1>. reviewed \in Seq(ReportRows) \cup {Absent} BY DEF IInv, StoresType
  <1>1. CASE ReadBase BY <1>1, ReadBaseKeeps
  <1>2. CASE ReadActivation \/ ReadEvidence \/ ReadOverride BY <1>2, ReadSteps
  <1>3. CASE ActivationAgain BY <1>3, SecondLooks, EndKeeps DEF ActivationAgain, Refuse
  <1>4. CASE OverrideAgain BY <1>4, SecondLooks, EndKeeps DEF OverrideAgain, Refuse
  <1>5. CASE BaseAgain
    <2>1. CASE Refuse BY <2>1, EndKeeps DEF Refuse
    <2>2. CASE /\ world.base[Row] = my.read.base /\ my.round = 1
               /\ Step("base", [my EXCEPT !.round = 2, !.first = my.read, !.read = NoWitness])
      BY <1>5, <2>2, SecondCapture DEF BaseAgain
    <2>3. CASE /\ my.round = 2 /\ my.read = my.first
               /\ Step(AfterRow, NextRow(RowOf(my.read)))
      BY <1>5, <2>3, RowCaptured DEF BaseAgain
    <2>. QED BY <1>5, <2>1, <2>2, <2>3 DEF BaseAgain
  <1>. QED BY <1>1, <1>2, <1>3, <1>4, <1>5 DEF Capture

-----------------------------------------------------------------------------
(* The freeze *)

\* The first row is about to be captured.
LEMMA NoRowsYet ==
  ASSUME NEW ms, NEW w, NEW bk, NEW S, NEW m, m.rows = <<>>, m.round = 1
  PROVE  Explaining(ms, w, bk, S, "base", m)
  <1>1. RowsTrue(bk, S, m.rows) BY DEF RowsTrue
  <1>2. ReadFrom(ms, m.read, Len(m.rows) + 1, "base") BY DEF ReadFrom
  <1>3. ~(m.round = 2) BY SecondRound
  <1>. QED BY <1>1, <1>2, <1>3 DEF Explaining, Captured

LEMMA RowInFields ==
  ASSUME NEW w \in Worlds, NEW r \in Rows
  PROVE  /\ RowIn(w, r).base = w.base[r]
         /\ RowIn(w, r).fresh => /\ w.base[r] # Absent /\ RowIn(w, r) # Unavailable
                                 /\ BasisOf[w.base[r]] = <<w.activation, w.evidence[r]>>
  <1>1. CASE w.base[r] = Absent BY <1>1 DEF RowIn, Unavailable
  <1>2. CASE w.base[r] # Absent
    <2>. DEFINE fresh == BasisOf[w.base[r]] = <<w.activation, w.evidence[r]>>
    <2>1. RowIn(w, r).base = w.base[r] /\ RowIn(w, r).fresh = fresh
      BY <1>2 DEF RowIn, RowOf, Fresh
    <2>2. RowIn(w, r) # Unavailable BY <1>2, <2>1 DEF Unavailable
    <2>. QED BY <1>2, <2>1, <2>2
  <1>. QED BY <1>1, <1>2

\* Two observations agree: what they show was there in between.
LEMMA ShownBetween ==
  ASSUME NEW bk, NEW b \in Worlds, NEW t \in Worlds, NEW a \in Worlds,
         Later(b, t), Later(t, a), bk \/ Squeezed(b, t, a), NEW r \in Rows, NEW row,
         TrueAt(bk, b, r, row), TrueAt(bk, a, r, row)
  PROVE  ShownAt(bk, t, r, row)
  <1>1. ASSUME row # Unavailable PROVE row.override = t.override[r]
    <2>1. row.override = b.override[r] /\ row.override = a.override[r] BY <1>1 DEF TrueAt
    <2>2. b.override[r] = a.override[r] BY <2>1
    <2>3. t.override[r] = a.override[r] BY <2>2, OverrideSqueezed
    <2>. QED BY <2>1, <2>3
  <1>2. ASSUME ~bk PROVE row.base = t.base[r] /\ (row.fresh => row = RowIn(t, r))
    <2>1. row = RowIn(b, r) /\ row = RowIn(a, r) /\ Squeezed(b, t, a) BY <1>2 DEF TrueAt
    <2>2. row.base = b.base[r] /\ row.base = a.base[r] BY <2>1, RowInFields
    <2>3. t.base[r] = a.base[r] BY <2>1, <2>2 DEF Squeezed
    <2>4. ASSUME row.fresh PROVE row = RowIn(t, r)
      <3>1. /\ b.base[r] # Absent /\ row # Unavailable
            /\ BasisOf[b.base[r]] = <<b.activation, b.evidence[r]>>
            /\ BasisOf[a.base[r]] = <<a.activation, a.evidence[r]>>
        BY <2>1, <2>4, RowInFields
      <3>2. b.activation = a.activation /\ b.evidence[r] = a.evidence[r] BY <2>2, <3>1
      <3>3. t.activation = a.activation /\ t.evidence[r] = a.evidence[r]
        BY <2>1, <3>2 DEF Squeezed
      <3>4. t.override[r] = a.override[r] /\ b.override[r] = a.override[r]
        BY <1>1, <3>1 DEF TrueAt
      <3>. QED BY <2>1, <2>2, <2>3, <3>1, <3>2, <3>3, <3>4 DEF RowIn
    <2>. QED BY <2>2, <2>3, <2>4
  <1>. QED BY <1>1, <1>2 DEF ShownAt

LEMMA Confirmed ==
  ASSUME NEW ms, NEW w, NEW bk, Past(ms, w), NEW s, NEW m, Confirming(ms, w, bk, s, m),
         m.rows = m.kept, Len(m.rows) = N
  PROVE  Frozen(ms, bk, m.kept)
  <1>1. PICK t \in ms : ~t.moved /\ ConfirmingAfter(ms, w, bk, t, s, m) BY DEF Confirming
  <1>2. PICK B \in SUBSET ms, A \in SUBSET ms :
          /\ Between(bk, B, t, A) /\ w \in A
          /\ RowsTrue(bk, B, m.kept) /\ Explaining(ms, w, bk, A, s, m)
    BY <1>1 DEF ConfirmingAfter
  <1>3. RowsTrue(bk, A, m.kept) BY <1>2 DEF Explaining
  <1>4. ASSUME NEW r \in Rows PROVE ShownAt(bk, t, r, m.kept[r])
    <2>1. r \in 1 .. Len(m.kept) BY DEF Rows
    <2>2. PICK b \in B : TrueAt(bk, b, r, m.kept[r]) BY <1>2, <2>1 DEF RowsTrue
    <2>3. PICK a \in A : TrueAt(bk, a, r, m.kept[r]) BY <1>3, <2>1 DEF RowsTrue
    <2>4. b \in Worlds /\ t \in Worlds /\ a \in Worlds BY DEF Past
    <2>5. Later(b, t) /\ Later(t, a) /\ (bk \/ Squeezed(b, t, a)) BY <1>2 DEF Between
    <2>. QED BY <2>2, <2>3, <2>4, <2>5, ShownBetween
  <1>. QED BY <1>1, <1>4 DEF Frozen

LEMMA ReportKeeps ==
  ASSUME IInv, Report
  PROVE  IInv'
  <1>1. /\ pc = "report" /\ Placed(json, pc, my) /\ Observed(moments, world, back, pc, my)
        /\ Past(moments, world) /\ reviewed \in Seq(ReportRows) \cup {Absent}
    BY DEF Report, IInv, StoresType
  <1>2. my \in Locals /\ my.rows \in Seq(ReportRows) /\ Len(my.rows) = N /\ my.round = 1
        /\ my.first = NoWitness /\ <<>> \in Seq(ReportRows)
    <2>1. my \in Locals /\ Len(my.rows) = N /\ my.round = 1 BY <1>1 DEF Placed
    <2>2. my.first = NoWitness BY <1>1, <2>1, SecondRound DEF Placed
    <2>. QED BY <2>1, <2>2 DEF Locals
  <1>3. CASE my.pass = "prepare" BY <1>2, <1>3, EndKeeps DEF Report
  <1>4. CASE my.pass = "commit" /\ my.rows = reviewed
    <2>1. PICK m : m = [my EXCEPT !.pass = "initial", !.rows = <<>>] /\ Step("verify", m)
      BY <1>4 DEF Report
    <2>2. /\ m \in Locals /\ m.pass = "initial" /\ m.rows = <<>> /\ m.round = 1
          /\ m.first = NoWitness
      BY <1>2, <2>1 DEF Locals
    <2>3. Placed(json, "verify", m)
      <3>1. Len(m.rows) <= N BY <2>2, ReportingAssumption
      <3>2. ~(m.round = 2) BY <2>2, SecondRound
      <3>. QED BY <2>2, <3>1, <3>2 DEF Placed, Steps, Reads, Writes
    <2>4. RowsTrue(back, moments, m.rows) BY <2>2 DEF RowsTrue
    <2>5. Observed(moments, world, back, "verify", m)
      BY <2>2, <2>4 DEF Observed, Reads, Writes
    <2>. QED BY <1>1, <2>1, <2>3, <2>5, StepKeeps
  <1>5. CASE my.pass = "initial"
    <2>1. PICK m : /\ m = [my EXCEPT !.pass = "final", !.rows = <<>>, !.kept = my.rows]
                   /\ Step("verify", m)
      BY <1>5 DEF Report
    <2>2. /\ m \in Locals /\ m.pass = "final" /\ m.rows = <<>> /\ m.round = 1
          /\ m.first = NoWitness /\ m.kept = my.rows
      BY <1>2, <2>1 DEF Locals
    <2>3. Placed(json, "verify", m)
      <3>1. Len(m.rows) <= N /\ Len(m.kept) = N BY <1>2, <2>2, ReportingAssumption
      <3>2. ~(m.round = 2) BY <2>2, SecondRound
      <3>. QED BY <2>2, <3>1, <3>2 DEF Placed, Steps, Reads, Writes
    <2>4. RowsTrue(back, moments, m.rows) BY <2>2 DEF RowsTrue
    <2>5. RowsTrue(back, moments, m.kept) BY <1>1, <2>2 DEF Observed
    <2>6. Observed(moments, world, back, "verify", m)
      BY <2>2, <2>4, <2>5 DEF Observed, Reads, Writes
    <2>. QED BY <1>1, <2>1, <2>3, <2>6, StepKeeps
  <1>6. CASE my.pass = "final" /\ my.rows = my.kept
    <2>1. Step("lock", my) BY <1>6 DEF Report
    <2>2. Placed(json, "lock", my) BY <1>1, <1>6 DEF Placed, Steps, Reads, Writes
    <2>3. Confirming(moments, world, back, pc, my) /\ RowsTrue(back, moments, my.rows)
      BY <1>1, <1>6 DEF Observed
    <2>4. Frozen(moments, back, my.kept) BY <1>1, <1>2, <1>6, <2>3, Confirmed
    <2>5. Observed(moments, world, back, "lock", my)
      BY <2>3, <2>4 DEF Observed, Reads, Writes
    <2>. QED BY <1>1, <2>1, <2>2, <2>5, StepKeeps
  <1>7. CASE Refuse BY <1>1, <1>7, EndKeeps DEF Refuse
  <1>. QED BY <1>3, <1>4, <1>5, <1>6, <1>7 DEF Report

LEMMA VerifyKeeps ==
  ASSUME IInv, Verify
  PROVE  IInv'
  <1>1. /\ pc = "verify" /\ Placed(json, pc, my) /\ Observed(moments, world, back, pc, my)
        /\ Past(moments, world) /\ reviewed \in Seq(ReportRows) \cup {Absent}
        /\ world \in moments
    BY DEF Verify, IInv, StoresType
  <1>2. CASE Refuse BY <1>1, <1>2, EndKeeps DEF Refuse
  <1>3. CASE ~world.moved /\ Step("base", my)
    <2>1. /\ my \in Locals /\ my.rows = <<>> /\ my.round = 1
          /\ my.pass \in {"initial", "final"}
      BY <1>1 DEF Placed
    <2>2. Placed(json, "base", my)
      <3>1. Len(my.rows) < N /\ Len(my.rows) <= N BY <2>1, ReportingAssumption
      <3>. QED BY <1>1, <2>1, <3>1 DEF Placed, Steps, Reads, Writes
    <2>3. \A S : Explaining(moments, world, back, S, "base", my) BY <2>1, NoRowsYet
    <2>4. ASSUME my.pass = "final" PROVE Confirming(moments, world, back, "base", my)
      <3>1. Between(back, moments, world, {world}) BY <1>1, BetweenNow
      <3>2. RowsTrue(back, moments, my.kept) BY <1>1, <2>4 DEF Observed
      <3>3. moments \in SUBSET moments /\ {world} \in SUBSET moments /\ world \in {world}
        BY <1>1
      <3>4. ConfirmingAfter(moments, world, back, world, "base", my)
        BY <2>3, <3>1, <3>2, <3>3 DEF ConfirmingAfter
      <3>. QED BY <1>1, <1>3, <3>4 DEF Confirming
    <2>5. RowsTrue(back, moments, my.rows) BY <2>3 DEF Explaining
    <2>6. Observed(moments, world, back, "base", my)
      BY <2>3, <2>4, <2>5 DEF Observed, Reads, Writes
    <2>. QED BY <1>1, <1>3, <2>2, <2>6, StepKeeps
  <1>. QED BY <1>2, <1>3 DEF Verify

\* The call ends, whatever becomes of the files.
LEMMA CallEnds ==
  ASSUME IInv, UNCHANGED world, pc' = "idle", my' = NoCall, moments' = {}, back' = FALSE,
         json' \in Seq(ReportRows) \cup {Absent}, digest' \in BOOLEAN,
         lock' \in {"free", "held", "orphan"}, reviewed' \in Seq(ReportRows) \cup {Absent},
         changes' = changes, failures' \in 0 .. MaxFailures
  PROVE  IInv'
  <1>1. StoresType' BY DEF IInv, StoresType, Past
  <1>2. Placed(json', "idle", NoCall) BY IdlePlaced
  <1>3. Observed({}, world', FALSE, "idle", NoCall) BY IdleObserves
  <1>. QED BY <1>1, <1>2, <1>3 DEF IInv

\* A write goes on; the candidate is the one that was confirmed.
LEMMA WritingKeeps ==
  ASSUME IInv, pc \in Writes, pc' \in Writes, UNCHANGED <<world, my, reviewed, moments, back>>,
         json' \in Seq(ReportRows) \cup {Absent}, digest' \in BOOLEAN,
         lock' \in {"free", "held", "orphan"}, changes' = changes,
         failures' \in 0 .. MaxFailures,
         (pc' = "json" => json' = Absent) /\ (pc' = "digest" => json' = my.kept)
  PROVE  IInv'
  <1>1. /\ Placed(json, pc, my) /\ Observed(moments, world, back, pc, my)
        /\ pc # "idle" /\ pc' # "idle" /\ pc' \in Steps
        /\ pc' \notin Reads /\ pc' \notin {"report", "verify"}
        /\ pc \notin Reads /\ pc \notin {"report", "verify"}
    BY DEF IInv, Writes, Reads, Steps
  <1>2. StoresType' BY <1>1 DEF IInv, StoresType
  <1>3. Placed(json', pc', my) BY <1>1 DEF Placed
  <1>4. Observed(moments, world, back, pc', my) BY <1>1 DEF Observed
  <1>. QED BY <1>2, <1>3, <1>4 DEF IInv

LEMMA WritesKeep ==
  ASSUME IInv, Lock \/ Existing \/ WriteJson \/ WriteDigest \/ Unlock
  PROVE  IInv'
  <1>1. /\ json \in Seq(ReportRows) \cup {Absent} /\ digest \in BOOLEAN
        /\ lock \in {"free", "held", "orphan"} /\ reviewed \in Seq(ReportRows) \cup {Absent}
        /\ failures \in 0 .. MaxFailures /\ my \in Locals
    BY DEF IInv, StoresType, Placed
  <1>2. CASE Lock
    <2>1. CASE Refuse BY <1>1, <2>1, EndKeeps DEF Refuse
    <2>2. CASE /\ lock = "free" /\ lock' = "held" /\ Goto("existing")
               /\ UNCHANGED <<world, json, digest, my, reviewed, history, counters>>
      BY <1>1, <1>2, <2>2, WritingKeeps DEF Lock, Goto, Writes, history, counters
    <2>. QED BY <1>2, <2>1, <2>2 DEF Lock
  <1>3. CASE Existing
    <2>1. PICK s \in {"unlock", "json"} : Step(s, my) /\ (s = "json" => json = Absent)
      BY <1>3 DEF Existing
    <2>. QED BY <1>1, <1>3, <2>1, WritingKeeps
         DEF Existing, Step, Goto, Writes, files, history, counters
  <1>4. CASE WriteJson
    <2>1. my.kept \in Seq(ReportRows) BY <1>1 DEF Locals
    <2>. QED BY <1>1, <1>4, <2>1, WritingKeeps DEF WriteJson, Goto, Writes, history, counters
  <1>5. CASE WriteDigest
    BY <1>1, <1>5, WritingKeeps DEF WriteDigest, Goto, Writes, history, counters
  <1>6. CASE Unlock
    BY <1>1, <1>6, CallEnds DEF Unlock, Goto, counters
  <1>. QED BY <1>2, <1>3, <1>4, <1>5, <1>6

LEMMA FaultsKeep ==
  ASSUME IInv, Raise \/ Crash
  PROVE  IInv'
  <1>1. /\ json \in Seq(ReportRows) \cup {Absent} /\ digest \in BOOLEAN
        /\ lock \in {"free", "held", "orphan"} /\ reviewed \in Seq(ReportRows) \cup {Absent}
    BY DEF IInv, StoresType
  <1>2. failures' \in 0 .. MaxFailures
    <2>1. failures \in 0 .. MaxFailures /\ failures < MaxFailures /\ failures' = failures + 1
      BY DEF IInv, StoresType, Raise, Crash
    <2>. QED BY <2>1, ReportingAssumption
  <1>3. CASE Raise
    <2>1. UNCHANGED <<world, reviewed, changes>> BY <1>3 DEF Raise
    <2>2. CASE /\ \/ pc = "json" /\ json' \in {Absent, my.kept} /\ UNCHANGED digest
                  \/ pc = "digest" /\ json' \in {Absent, json} /\ digest' \in {digest, TRUE}
               /\ Goto("unlock") /\ UNCHANGED <<lock, my, history>>
      <3>1. pc \in Writes /\ pc' \in Writes /\ pc' # "json" /\ pc' # "digest"
        BY <2>2 DEF Goto, Writes
      <3>2. my.kept \in Seq(ReportRows) BY DEF IInv, Placed, Locals
      <3>3. json' \in Seq(ReportRows) \cup {Absent} /\ digest' \in BOOLEAN
        BY <1>1, <2>2, <3>2
      <3>. QED BY <1>1, <1>2, <2>1, <2>2, <3>1, <3>3, WritingKeeps DEF history
    <2>3. CASE /\ \/ pc = "lock" /\ lock = "free" /\ lock' \in {"free", "orphan"}
                  \/ pc = "unlock" /\ lock' = "orphan"
               /\ Goto("idle") /\ my' = NoCall /\ moments' = {} /\ back' = FALSE
               /\ UNCHANGED <<json, digest>>
      BY <1>1, <1>2, <2>1, <2>3, CallEnds DEF Goto
    <2>. QED BY <1>3, <2>2, <2>3 DEF Raise
  <1>4. CASE Crash
    BY <1>1, <1>2, <1>4, CallEnds DEF Crash, Goto
  <1>. QED BY <1>3, <1>4

LEMMA BeginKeeps ==
  ASSUME IInv, NEW pass \in {"prepare", "commit"}, Begin(pass),
         reviewed' \in Seq(ReportRows) \cup {Absent}
  PROVE  IInv'
  <1>1. /\ pc' = "base" /\ my' = [NoCall EXCEPT !.pass = pass] /\ moments' = {world}
        /\ UNCHANGED <<world, json, digest, lock, back, changes, failures>>
    BY DEF Begin, Goto, files, counters
  <1>2. world \in Worlds BY DEF IInv, StoresType, Past
  <1>3. Past({world}, world) BY <1>2, LaterSame DEF Past
  <1>4. StoresType' BY <1>1, <1>3 DEF IInv, StoresType
  <1>5. PICK m : m = [NoCall EXCEPT !.pass = pass] OBVIOUS
  <1>6. NoCall \in Locals BY IdlePlaced DEF Placed
  <1>7. /\ m \in Locals /\ m.pass = pass /\ m.rows = <<>> /\ m.round = 1
        /\ m.first = NoWitness
    <2>1. NoCall.rows = <<>> /\ NoCall.round = 1 /\ NoCall.first = NoWitness BY DEF NoCall
    <2>. QED BY <1>5, <1>6, <2>1 DEF Locals
  <1>8. Placed(json, "base", m)
    <2>1. Len(m.rows) < N /\ Len(m.rows) <= N BY <1>7, ReportingAssumption
    <2>2. ~(m.round = 2) BY <1>7, SecondRound
    <2>. QED BY <1>7, <2>1, <2>2 DEF Placed, Steps, Reads, Writes
  <1>9. Explaining({world}, world, back, {world}, "base", m) BY <1>7, NoRowsYet
  <1>10. Observed({world}, world, back, "base", m)
    BY <1>7, <1>9 DEF Observed, Explaining, Reads, Writes
  <1>. QED BY <1>1, <1>4, <1>5, <1>8, <1>10 DEF IInv

-----------------------------------------------------------------------------
(* The inductive invariant *)

LEMMA InitInv == Init => IInv
  <1>. SUFFICES ASSUME Init PROVE IInv OBVIOUS
  <1>1. Past(moments, world) BY ReportingAssumption DEF Init, Past
  <1>2. 0 \in 0 .. MaxChanges /\ 0 \in 0 .. MaxFailures BY ReportingAssumption
  <1>3. StoresType BY <1>1, <1>2 DEF Init, StoresType
  <1>4. Placed(json, "idle", NoCall) BY IdlePlaced
  <1>5. Observed(moments, world, back, "idle", NoCall) BY IdleObserves
  <1>. QED BY <1>3, <1>4, <1>5 DEF Init, IInv

LEMMA NextKeeps == IInv /\ [Next]_vars => IInv'
  <1>. SUFFICES ASSUME IInv, [Next]_vars PROVE IInv' OBVIOUS
  <1>. reviewed \in Seq(ReportRows) \cup {Absent} BY DEF IInv, StoresType
  <1>1. CASE SelectResult \/ SelectActivation \/ ChangeEvidence \/ SelectOverride
             \/ MovePublication
    <2>1. WorldStep BY <1>1, StoresStep DEF IInv
    <2>. QED BY <2>1, StoresKeep
  <1>2. CASE Prepare BY <1>2, BeginKeeps DEF Prepare
  <1>3. CASE Commit BY <1>3, BeginKeeps DEF Commit
  <1>4. CASE Capture BY <1>4, CaptureKeeps
  <1>5. CASE Freeze BY <1>5, ReportKeeps, VerifyKeeps, WritesKeep DEF Freeze
  <1>6. CASE Raise \/ Crash BY <1>6, FaultsKeep
  <1>7. CASE UNCHANGED vars
    BY <1>7 DEF vars, files, history, counters, IInv, StoresType
  <1>. QED BY <1>1, <1>2, <1>3, <1>4, <1>5, <1>6, <1>7 DEF Next

LEMMA Invariant == Spec => []IInv
  BY InitInv, NextKeeps, PTL DEF Spec

-----------------------------------------------------------------------------
(* What a report and a snapshot promise *)

\* Only a few actions write files.
LEMMA FilesWritten ==
  ASSUME Next, ~UNCHANGED files
  PROVE  Lock \/ WriteJson \/ WriteDigest \/ Unlock \/ Raise \/ Crash
  <1>1. \A store, w : ~Change(store, w) BY DEF Change
  <1>2. \A s, m : ~Step(s, m) BY DEF Step
  <1>3. ~End /\ ~Refuse BY DEF End, Refuse
  <1>4. ~SelectResult /\ ~SelectActivation /\ ~ChangeEvidence /\ ~SelectOverride
        /\ ~MovePublication
    BY <1>1 DEF SelectResult, SelectActivation, ChangeEvidence, SelectOverride, MovePublication
  <1>5. ~Prepare /\ ~Commit BY DEF Prepare, Commit, Begin
  <1>6. ~Capture
    BY <1>2, <1>3 DEF Capture, ReadBase, ReadActivation, ReadEvidence, ActivationAgain,
       ReadOverride, OverrideAgain, BaseAgain
  <1>7. ~Report /\ ~Verify /\ ~Existing BY <1>2, <1>3 DEF Report, Verify, Existing
  <1>. QED BY <1>4, <1>5, <1>6, <1>7 DEF Next, Freeze

LEMMA DigestWritten ==
  ASSUME Next, digest' # digest
  PROVE  pc = "digest" /\ (WriteDigest \/ Raise)
  <1>1. Lock \/ WriteJson \/ WriteDigest \/ Unlock \/ Raise \/ Crash
    BY FilesWritten DEF files
  <1>2. ~Lock /\ ~WriteJson /\ ~Unlock /\ ~Crash
    BY DEF Lock, Refuse, End, WriteJson, Unlock, Crash, files
  <1>3. (WriteDigest \/ Raise) => pc = "digest" BY DEF WriteDigest, Raise
  <1>. QED BY <1>1, <1>2, <1>3

LEMMA JsonWritten ==
  ASSUME Next, json' # json
  PROVE  WriteJson \/ Raise
  <1>1. Lock \/ WriteJson \/ WriteDigest \/ Unlock \/ Raise \/ Crash
    BY FilesWritten DEF files
  <1>2. ~Lock /\ ~WriteDigest /\ ~Unlock /\ ~Crash
    BY DEF Lock, Refuse, End, WriteDigest, Unlock, Crash, files
  <1>. QED BY <1>1, <1>2

\* The stores, the snapshot's files and the reporter's call are of their types.
THEOREM TypeCorrect == Spec => []TypeOK
  <1>1. IInv => TypeOK
    <2>. SUFFICES ASSUME IInv PROVE TypeOK OBVIOUS
    <2>1. Placed(json, pc, my) /\ StoresType BY DEF IInv
    <2>. QED BY <2>1 DEF Placed, StoresType, Past, TypeOK
  <1>. QED BY <1>1, Invariant, PTL

\* Every row of a report was true at one moment of the call.
THEOREM RowsSafe == Spec => []RowsWereTrue
  <1>1. IInv => RowsWereTrue
    BY DEF IInv, Observed, RowsTrue, TrueAt, RowsWereTrue, TrueIn
  <1>. QED BY <1>1, Invariant, PTL

\* An overriding Grade that is reported was in force at one moment of the call.
THEOREM EffectiveSafe == Spec => []EffectiveWasInForce
  <1>1. IInv => EffectiveWasInForce
    <2>. SUFFICES ASSUME IInv, NEW r \in 1 .. Len(my.rows), NEW row, row = my.rows[r] PROVE
           /\ row.grade = "override" => \E w \in moments :
                /\ w.override[r] = row.override /\ row.override.kind = "override"
                /\ \/ back
                   \/ /\ w.base[r] = row.override.source
                      /\ BasisOf[w.base[r]] = <<w.activation, w.evidence[r]>>
           /\ row.grade = "base" => row.base \in Calculated
      BY DEF EffectiveWasInForce
    <2>1. PICK w \in moments : TrueAt(back, w, r, row) BY DEF IInv, Observed, RowsTrue
    <2>2. w \in Worlds /\ r \in Rows
      <3>1. my.rows \in Seq(ReportRows) /\ Len(my.rows) <= N
        BY DEF IInv, Placed, Locals
      <3>. QED BY <3>1, ReportingAssumption DEF IInv, StoresType, Past, Rows
    <2>3. Explained(row) BY <2>1 DEF TrueAt
    <2>4. ASSUME row.grade = "override"
          PROVE  /\ w.override[r] = row.override /\ row.override.kind = "override"
                 /\ \/ back
                    \/ /\ w.base[r] = row.override.source
                       /\ BasisOf[w.base[r]] = <<w.activation, w.evidence[r]>>
      <3>1. row # Unavailable BY <2>4 DEF Unavailable
      <3>2. w.override[r] = row.override BY <2>1, <3>1 DEF TrueAt
      <3>3. row.override.kind = "override" /\ row.override.source = row.base /\ row.fresh
        BY <2>3, <2>4 DEF Explained
      <3>4. ASSUME ~back
            PROVE  /\ w.base[r] = row.override.source
                   /\ BasisOf[w.base[r]] = <<w.activation, w.evidence[r]>>
        <4>1. row = RowIn(w, r) BY <2>1, <3>4 DEF TrueAt
        <4>. QED BY <2>2, <3>3, <4>1, RowInFields
      <3>. QED BY <3>2, <3>3, <3>4
    <2>. QED BY <2>3, <2>4 DEF Explained
  <1>. QED BY <1>1, Invariant, PTL

\* What a committed snapshot shows, and a pair that a failing commit leaves behind, was in
\* force at one moment of the commit, when its publications were.
THEOREM FrozenSafe == Spec => FrozenWasOneState
  <1>1. IInv /\ [Next]_vars =>
          [digest' # digest /\ json' # Absent =>
             \E w \in moments : ~w.moved /\ \A r \in Rows : ShownIn(w, r, json[r])]_vars
    <2>. SUFFICES ASSUME IInv, Next, digest' # digest, json' # Absent
                  PROVE  \E w \in moments : ~w.moved /\ \A r \in Rows : ShownIn(w, r, json[r])
      OBVIOUS
    <2>1. pc = "digest" BY DigestWritten
    <2>2. Frozen(moments, back, json)
      BY <2>1 DEF IInv, Placed, Observed, Writes
    <2>. QED BY <2>2 DEF Frozen, ShownAt, ShownIn
  <1>. QED BY <1>1, Invariant, PTL DEF Spec, FrozenWasOneState

\* Nothing overwrites a snapshot's file, and only the call that wrote it removes it.
THEOREM NothingReplacedSafe == Spec => NothingReplaced
  <1>1. IInv /\ [Next]_vars =>
          [json # Absent /\ json' # json => json' = Absent /\ pc \in {"json", "digest"}]_vars
    <2>. SUFFICES ASSUME IInv, Next, json # Absent, json' # json
                  PROVE  json' = Absent /\ pc \in {"json", "digest"}
      OBVIOUS
    <2>1. WriteJson \/ Raise BY JsonWritten
    <2>2. CASE WriteJson
      <3>1. pc = "json" /\ json = Absent BY <2>2 DEF WriteJson, IInv, Placed
      <3>. QED BY <3>1
    <2>3. CASE Raise
      <3>1. pc = "json" => json = Absent BY DEF IInv, Placed
      <3>. QED BY <2>3, <3>1 DEF Raise
    <2>. QED BY <2>1, <2>2, <2>3
  <1>. QED BY <1>1, Invariant, PTL DEF Spec, NothingReplaced

-----------------------------------------------------------------------------
(* Every call ends *)

\* The passes over the report that follow this one, with their verifications and the write.
Rest(pass) ==
  CASE pass = "prepare" -> 0
    [] pass = "final" -> 5
    [] pass = "initial" -> 14 * N + 7
    [] pass = "commit" -> 28 * N + 9

\* The reads a capture has left.
ReadsLeft(step) ==
  CASE step = "base again" -> 1
    [] step = "override again" -> 2
    [] step = "override" -> 3
    [] step = "activation again" -> 4
    [] step = "evidence" -> 5
    [] step = "activation" -> 6
    [] step = "base" -> 7

\* The steps a call m has left, at most: two captures of seven reads for each row.
Left(step, m) ==
  CASE step = "idle" -> 0
    [] step = "unlock" -> 1
    [] step = "digest" -> 2
    [] step = "json" -> 3
    [] step = "existing" -> 4
    [] step = "lock" -> 5
    [] step = "report" -> 1 + Rest(m.pass)
    [] step = "verify" -> 14 * N + 2 + Rest(m.pass)
    [] step \in Reads -> 14 * (N - Len(m.rows) - 1) + 7 * (2 - m.round) + ReadsLeft(step) + 1
                         + Rest(m.pass)

StepsLeft == Left(pc, my)

\* The same, case by case.
IsLeft(n, step, m) ==
  /\ step = "idle" => n = 0
  /\ step = "unlock" => n = 1
  /\ step = "digest" => n = 2
  /\ step = "json" => n = 3
  /\ step = "existing" => n = 4
  /\ step = "lock" => n = 5
  /\ step = "report" => n = 1 + Rest(m.pass)
  /\ step = "verify" => n = 14 * N + 2 + Rest(m.pass)
  /\ step \in Reads => n = 14 * (N - Len(m.rows) - 1) + 7 * (2 - m.round) + ReadsLeft(step) + 1
                           + Rest(m.pass)

LEMMA LeftIs ==
  ASSUME NEW step, NEW m
  PROVE  IsLeft(Left(step, m), step, m)
<1>1. step \in Reads => step \notin {"idle", "unlock", "digest", "json", "existing", "lock",
                                     "report", "verify"}
  BY DEF Reads
<1>2. step \in Reads =>
        Left(step, m) = 14 * (N - Len(m.rows) - 1) + 7 * (2 - m.round) + ReadsLeft(step) + 1
                        + Rest(m.pass)
  BY <1>1, Zenon DEF Left
<1>3. /\ step = "idle" => Left(step, m) = 0
      /\ step = "unlock" => Left(step, m) = 1
      /\ step = "digest" => Left(step, m) = 2
      /\ step = "json" => Left(step, m) = 3
      /\ step = "existing" => Left(step, m) = 4
      /\ step = "lock" => Left(step, m) = 5
  BY <1>1, Zenon DEF Left
<1>4. /\ step = "report" => Left(step, m) = 1 + Rest(m.pass)
      /\ step = "verify" => Left(step, m) = 14 * N + 2 + Rest(m.pass)
  BY <1>1, Zenon DEF Left
<1> QED BY <1>2, <1>3, <1>4 DEF IsLeft

LEMMA RestIs ==
  /\ Rest("prepare") = 0 /\ Rest("final") = 5
  /\ Rest("initial") = 14 * N + 7 /\ Rest("commit") = 28 * N + 9
  BY Zenon DEF Rest

LEMMA ReadsLeftIs ==
  /\ ReadsLeft("base again") = 1 /\ ReadsLeft("override again") = 2
  /\ ReadsLeft("override") = 3 /\ ReadsLeft("activation again") = 4
  /\ ReadsLeft("evidence") = 5 /\ ReadsLeft("activation") = 6 /\ ReadsLeft("base") = 7
  BY Zenon DEF ReadsLeft

LEMMA ReadsLeftType == ASSUME NEW step \in Reads PROVE ReadsLeft(step) \in 1 .. 7
<1>1. ReadsLeft(step) \in {1, 2, 3, 4, 5, 6, 7}
  BY ReadsLeftIs, Zenon DEF Reads
<1> QED BY <1>1

\* What of a call the number of its steps depends on.
LEMMA Sizes ==
  ASSUME NEW m \in Locals
  PROVE  /\ Len(m.rows) \in Nat /\ m.round \in {1, 2} /\ N \in Nat \ {0}
         /\ (m.pass # "none" => Rest(m.pass) \in Nat)
<1>1. m.rows \in Seq(ReportRows) /\ m.round \in {1, 2}
      /\ m.pass \in {"none", "prepare", "commit", "initial", "final"}
  BY DEF Locals
<1>2. Rest("prepare") \in Nat /\ Rest("final") \in Nat /\ Rest("initial") \in Nat
      /\ Rest("commit") \in Nat
  BY RestIs, ReportingAssumption
<1> QED BY <1>1, <1>2, ReportingAssumption

LEMMA LeftType ==
  ASSUME NEW j, NEW step, NEW m, Placed(j, step, m)
  PROVE  Left(step, m) \in Nat /\ (step # "idle" => Left(step, m) > 0)
<1> DEFINE n == Left(step, m)
           l == Len(m.rows)
           k == ReadsLeft(step)
           rest == Rest(m.pass)
<1>1. m \in Locals /\ step \in Steps /\ (step # "idle" => m.pass # "none")
  BY DEF Placed
<1>2. l \in Nat /\ m.round \in {1, 2} /\ N \in Nat \ {0} /\ (step # "idle" => rest \in Nat)
  BY <1>1, Sizes
<1>3. IsLeft(n, step, m)
  BY LeftIs
<1>4. CASE step \in Reads
  <2>1. n = 14 * (N - l - 1) + 7 * (2 - m.round) + k + 1 + rest
    BY <1>3, <1>4 DEF IsLeft
  <2>2. l < N /\ step # "idle"
    BY <1>4 DEF Placed, Reads
  <2>3. k \in 1 .. 7
    BY <1>4, ReadsLeftType
  <2> HIDE DEF n, l, k, rest
  <2>4. n \in Nat /\ n > 0
    BY <1>2, <2>1, <2>2, <2>3
  <2> QED BY <2>4 DEF n
<1>5. CASE step \in {"report", "verify"}
  <2>1. n \in {1 + rest, 14 * N + 2 + rest} /\ step # "idle"
    BY <1>3, <1>5 DEF IsLeft
  <2> HIDE DEF n, l, k, rest
  <2>2. n \in Nat /\ n > 0
    BY <1>2, <2>1
  <2> QED BY <2>2 DEF n
<1>6. CASE step \in Writes \cup {"idle"}
  <2> QED BY <1>3, <1>6 DEF IsLeft, Writes
<1> QED BY <1>1, <1>4, <1>5, <1>6 DEF Steps

\* A call that ends, and one that reads on in the same row.
LEMMA Ends ==
  ASSUME IInv, pc # "idle", pc' = "idle"
  PROVE  StepsLeft' < StepsLeft
<1>1. StepsLeft \in Nat /\ StepsLeft > 0
  BY LeftType DEF StepsLeft, IInv
<1>2. StepsLeft' = 0
  BY LeftIs DEF StepsLeft, IsLeft
<1> QED BY <1>1, <1>2

LEMMA ReadsOn ==
  ASSUME IInv, pc \in Reads, NEW step \in Reads, NEW m, Step(step, m),
         ReadsLeft(step) < ReadsLeft(pc), m.rows = my.rows, m.round = my.round, m.pass = my.pass
  PROVE  StepsLeft' < StepsLeft
<1> DEFINE n == StepsLeft
           l == Len(my.rows)
           a == ReadsLeft(pc)
           b == ReadsLeft(step)
           rest == Rest(my.pass)
<1>1. my \in Locals /\ my.pass # "none"
  BY DEF IInv, Placed, Reads
<1>2. l \in Nat /\ my.round \in {1, 2} /\ N \in Nat /\ rest \in Nat
  BY <1>1, Sizes
<1>3. a \in 1 .. 7 /\ b \in 1 .. 7
  BY ReadsLeftType
<1>4. n = 14 * (N - l - 1) + 7 * (2 - my.round) + a + 1 + rest
  BY LeftIs DEF IsLeft, StepsLeft
<1>5. pc' = step /\ my' = m
  BY DEF Step, Goto
<1>6. n' = 14 * (N - l - 1) + 7 * (2 - my.round) + b + 1 + rest
  <2>1. IsLeft(Left(step, m), step, m)
    BY LeftIs
  <2>2. n' = Left(step, m)
    BY <1>5 DEF StepsLeft
  <2> QED BY <2>1, <2>2 DEF IsLeft
<1>7. PICK x : x = n'
  OBVIOUS
<1>8. x = 14 * (N - l - 1) + 7 * (2 - my.round) + b + 1 + rest
  BY <1>6, <1>7
<1>9. b < a
  OBVIOUS
<1> HIDE DEF n, l, a, b, rest
<1>10. x < n
  BY <1>2, <1>3, <1>4, <1>8, <1>9
<1> QED BY <1>7, <1>10 DEF n

\* The row is complete: the next one is read, or the report is there.
LEMMA RowLowers ==
  ASSUME IInv, pc \in Reads, NEW row \in ReportRows, Step(AfterRow, NextRow(row)),
         pc = "base" \/ my.round = 2
  PROVE  StepsLeft' < StepsLeft
<1> DEFINE n == StepsLeft
           l == Len(my.rows)
           k == ReadsLeft(pc)
           rest == Rest(my.pass)
           m == NextRow(row)
<1>1. my \in Locals /\ my.pass # "none" /\ l < N
  BY DEF IInv, Placed, Reads
<1>2. l \in Nat /\ my.round \in {1, 2} /\ N \in Nat /\ rest \in Nat
  BY <1>1, Sizes
<1>3. k \in 1 .. 7 /\ (pc = "base" => k = 7)
  BY ReadsLeftType, ReadsLeftIs
<1>4. n = 14 * (N - l - 1) + 7 * (2 - my.round) + k + 1 + rest
  BY LeftIs DEF IsLeft, StepsLeft
<1>5. pc' = AfterRow /\ my' = m
  BY DEF Step, Goto
<1>6. m.pass = my.pass /\ m.round = 1 /\ Len(m.rows) = l + 1
  <2>1. my.rows \in Seq(ReportRows)
    BY <1>1 DEF Locals
  <2>2. m.rows = Append(my.rows, row) /\ m.pass = my.pass /\ m.round = 1
    BY <1>1 DEF NextRow, Locals
  <2> QED BY <2>1, <2>2
<1>7. IsLeft(n', AfterRow, m)
  BY <1>5, LeftIs DEF StepsLeft
<1>8. CASE l + 1 = N
  <2>1. AfterRow = "report"
    BY <1>8 DEF AfterRow, Row
  <2>2. n' = 1 + rest
    BY <1>6, <1>7, <2>1 DEF IsLeft
  <2>3. PICK x : x = n'
    OBVIOUS
  <2>4. x = 1 + rest
    BY <2>2, <2>3
  <2> HIDE DEF n, l, k, rest, m
  <2>5. x < n
    BY <1>1, <1>2, <1>3, <1>4, <1>8, <2>4
  <2> QED BY <2>3, <2>5 DEF n
<1>9. CASE l + 1 # N
  <2>1. AfterRow = "base" /\ AfterRow \in Reads
    BY <1>9 DEF AfterRow, Row, Reads
  <2>2. n' = 14 * (N - (l + 1) - 1) + 7 * (2 - 1) + 7 + 1 + rest
    BY <1>6, <1>7, <2>1, ReadsLeftIs DEF IsLeft
  <2>3. PICK x : x = n'
    OBVIOUS
  <2>4. x = 14 * (N - (l + 1) - 1) + 7 * (2 - 1) + 7 + 1 + rest
    BY <2>2, <2>3
  <2>5. pc = "base" => k = 7
    BY <1>3
  <2> HIDE DEF n, l, k, rest, m
  <2>6. x < n
    <3>1. CASE my.round = 2
      BY <1>1, <1>2, <1>3, <1>4, <2>4, <3>1
    <3>2. CASE my.round = 1
      BY <1>1, <1>2, <1>3, <1>4, <2>4, <2>5, <3>2
    <3> QED BY <1>2, <3>1, <3>2
  <2> QED BY <2>3, <2>6 DEF n
<1> QED BY <1>8, <1>9

\* The first capture is complete, and the second begins.
LEMMA RoundLowers ==
  ASSUME IInv, pc \in Reads, my.round = 1,
         Step("base", [my EXCEPT !.round = 2, !.first = my.read, !.read = NoWitness])
  PROVE  StepsLeft' < StepsLeft
<1> DEFINE n == StepsLeft
           l == Len(my.rows)
           k == ReadsLeft(pc)
           rest == Rest(my.pass)
           m == [my EXCEPT !.round = 2, !.first = my.read, !.read = NoWitness]
<1>1. my \in Locals /\ my.pass # "none"
  BY DEF IInv, Placed, Reads
<1>2. l \in Nat /\ N \in Nat /\ rest \in Nat /\ k \in 1 .. 7
  BY <1>1, Sizes, ReadsLeftType
<1>3. "base" \in Reads
  BY DEF Reads
<1>4. n = 14 * (N - l - 1) + 7 * (2 - 1) + k + 1 + rest
  BY LeftIs DEF IsLeft, StepsLeft
<1>5. m.rows = my.rows /\ m.round = 2 /\ m.pass = my.pass
  BY <1>1 DEF Locals
<1>6. pc' = "base" /\ my' = m
  BY DEF Step, Goto
<1>7. IsLeft(n', "base", m)
  BY <1>6, LeftIs DEF StepsLeft
<1>8. n' = 14 * (N - l - 1) + 7 * (2 - 2) + 7 + 1 + rest
  BY <1>3, <1>5, <1>7, ReadsLeftIs DEF IsLeft
<1>9. PICK x : x = n'
  OBVIOUS
<1>10. x = 14 * (N - l - 1) + 7 * (2 - 2) + 7 + 1 + rest
  BY <1>8, <1>9
<1> HIDE DEF n, l, k, rest, m
<1>11. x < n
  BY <1>2, <1>4, <1>10
<1> QED BY <1>9, <1>11 DEF n


\* The reads of a capture come in their order.
LEMMA ReadsInOrder ==
  /\ ReadsLeft("activation") < ReadsLeft("base")
  /\ ReadsLeft("evidence") < ReadsLeft("activation")
  /\ ReadsLeft("activation again") < ReadsLeft("evidence")
  /\ ReadsLeft("override") < ReadsLeft("activation again")
  /\ ReadsLeft("override again") < ReadsLeft("override")
  /\ ReadsLeft("base again") < ReadsLeft("override again")
<1>1. 1 < 2 /\ 2 < 3 /\ 3 < 4 /\ 4 < 5 /\ 5 < 6 /\ 6 < 7
  OBVIOUS
<1> QED BY <1>1, ReadsLeftIs, Zenon

LEMMA CaptureLowers ==
  ASSUME IInv, Capture
  PROVE  StepsLeft' < StepsLeft
<1>1. my \in Locals /\ pc \in Reads /\ pc # "idle"
  BY DEF IInv, Placed, Capture, ReadBase, ReadActivation, ReadEvidence, ActivationAgain,
         ReadOverride, OverrideAgain, BaseAgain, Reads
<1>2. CASE Refuse
  BY <1>1, <1>2, Ends DEF Refuse, End, Goto
<1>3. CASE ~Refuse /\ ReadBase
  <2>1. CASE Step(AfterRow, NextRow(Unavailable))
    <3>1. Unavailable \in ReportRows
      BY ReportingAssumption DEF Unavailable, ReportRows, NoOverride, Overrides
    <3> QED BY <1>1, <1>3, <2>1, <3>1, RowLowers DEF ReadBase
  <2>2. CASE Step("activation", [my EXCEPT !.read.base = world.base[Row]])
    <3> DEFINE m == [my EXCEPT !.read.base = world.base[Row]]
    <3>1. m.rows = my.rows /\ m.round = my.round /\ m.pass = my.pass
      BY <1>1 DEF Locals
    <3>2. "activation" \in Reads /\ pc = "base"
      BY <1>3 DEF ReadBase, Reads
    <3> HIDE DEF m
    <3> QED BY <1>1, <2>2, <3>1, <3>2, ReadsOn, ReadsInOrder DEF m
  <2> QED BY <1>3, <2>1, <2>2 DEF ReadBase
<1>4. CASE ReadActivation
  <2> DEFINE m == [my EXCEPT !.read.activation = world.activation]
  <2>1. m.rows = my.rows /\ m.round = my.round /\ m.pass = my.pass
    BY <1>1 DEF Locals
  <2>2. "evidence" \in Reads /\ pc = "activation" /\ Step("evidence", m)
    BY <1>4 DEF ReadActivation, Reads
  <2> HIDE DEF m
  <2> QED BY <1>1, <2>1, <2>2, ReadsOn, ReadsInOrder
<1>5. CASE ReadEvidence
  <2> DEFINE m == [my EXCEPT !.read.evidence = world.evidence[Row]]
  <2>1. m.rows = my.rows /\ m.round = my.round /\ m.pass = my.pass
    BY <1>1 DEF Locals
  <2>2. "activation again" \in Reads /\ pc = "evidence" /\ Step("activation again", m)
    BY <1>5 DEF ReadEvidence, Reads
  <2> HIDE DEF m
  <2> QED BY <1>1, <2>1, <2>2, ReadsOn, ReadsInOrder
<1>6. CASE ReadOverride
  <2> DEFINE m == [my EXCEPT !.read.override = world.override[Row]]
  <2>1. m.rows = my.rows /\ m.round = my.round /\ m.pass = my.pass
    BY <1>1 DEF Locals
  <2>2. "override again" \in Reads /\ pc = "override" /\ Step("override again", m)
    BY <1>6 DEF ReadOverride, Reads
  <2> HIDE DEF m
  <2> QED BY <1>1, <2>1, <2>2, ReadsOn, ReadsInOrder
<1>7. CASE ~Refuse /\ (ActivationAgain \/ OverrideAgain)
  <2>1. \/ pc = "activation again" /\ Step("override", my)
        \/ pc = "override again" /\ Step("base again", my)
    BY <1>7 DEF ActivationAgain, OverrideAgain
  <2>2. "override" \in Reads /\ "base again" \in Reads
    BY DEF Reads
  <2> QED BY <1>1, <2>1, <2>2, ReadsOn, ReadsInOrder
<1>8. CASE ~Refuse /\ BaseAgain
  <2>1. CASE /\ my.round = 1
             /\ Step("base", [my EXCEPT !.round = 2, !.first = my.read, !.read = NoWitness])
    BY <1>1, <2>1, RoundLowers
  <2>2. CASE my.round = 2 /\ Step(AfterRow, NextRow(RowOf(my.read)))
    <3>1. my.read \in Witnesses /\ my.read.base \in Results
      BY <1>8 DEF BaseAgain, IInv, Placed, Locals, Reads
    <3>2. RowOf(my.read) \in ReportRows
      BY <3>1, RowOfType
    <3> QED BY <1>1, <2>2, <3>2, RowLowers
  <2> QED BY <1>8, <2>1, <2>2 DEF BaseAgain
<1> QED BY <1>2, <1>3, <1>4, <1>5, <1>6, <1>7, <1>8 DEF Capture

\* Between two passes.
LEMMA ReportLowers ==
  ASSUME IInv, Report
  PROVE  StepsLeft' < StepsLeft
<1> DEFINE n == StepsLeft
           rest == Rest(my.pass)
<1>1. my \in Locals /\ my.pass # "none" /\ pc = "report"
  BY DEF Report, IInv, Placed
<1>2. N \in Nat /\ n = 1 + rest
  BY <1>1, LeftIs, ReportingAssumption DEF IsLeft, StepsLeft
<1>3. CASE End
  BY <1>1, <1>3, Ends DEF End, Goto
<1>4. CASE /\ my.pass = "commit"
           /\ Step("verify", [my EXCEPT !.pass = "initial", !.rows = <<>>])
  <2>1. StepsLeft' = 14 * N + 2 + Rest("initial")
    <3>1. PICK m : m = [my EXCEPT !.pass = "initial", !.rows = <<>>]
      OBVIOUS
    <3>2. m.pass = "initial" /\ pc' = "verify" /\ my' = m
      BY <1>1, <1>4, <3>1 DEF Step, Goto, Locals
    <3>3. IsLeft(StepsLeft', "verify", m)
      BY <3>2, LeftIs DEF StepsLeft
    <3> QED BY <3>2, <3>3 DEF IsLeft
  <2>2. rest = 28 * N + 9
    BY <1>4, RestIs
  <2>3. StepsLeft' = 14 * N + 2 + 14 * N + 7
    BY <2>1, RestIs, ReportingAssumption
  <2> HIDE DEF rest
  <2> QED BY <1>2, <2>2, <2>3
<1>5. CASE /\ my.pass = "initial"
           /\ Step("verify", [my EXCEPT !.pass = "final", !.rows = <<>>, !.kept = my.rows])
  <2>1. StepsLeft' = 14 * N + 2 + Rest("final")
    <3>1. PICK m : m = [my EXCEPT !.pass = "final", !.rows = <<>>, !.kept = my.rows]
      OBVIOUS
    <3>2. m.pass = "final" /\ pc' = "verify" /\ my' = m
      BY <1>1, <1>5, <3>1 DEF Step, Goto, Locals
    <3>3. IsLeft(StepsLeft', "verify", m)
      BY <3>2, LeftIs DEF StepsLeft
    <3> QED BY <3>2, <3>3 DEF IsLeft
  <2>2. rest = 14 * N + 7
    BY <1>5, RestIs
  <2>3. StepsLeft' = 14 * N + 2 + 5
    BY <2>1, RestIs, ReportingAssumption
  <2> HIDE DEF rest
  <2> QED BY <1>2, <2>2, <2>3
<1>6. CASE my.pass = "final" /\ Step("lock", my)
  <2>1. pc' = "lock" /\ my' = my
    BY <1>6 DEF Step, Goto
  <2>2. StepsLeft' = 5
    BY <2>1, LeftIs DEF StepsLeft, IsLeft
  <2>3. rest = 5
    BY <1>6, RestIs
  <2> HIDE DEF rest
  <2> QED BY <1>2, <2>2, <2>3
<1> QED BY <1>3, <1>4, <1>5, <1>6 DEF Report, Refuse

\* A pass begins with the first row.
LEMMA FirstRow ==
  ASSUME NEW m, m.rows = <<>>, m.round = 1
  PROVE  Left("base", m) = 14 * N + 1 + Rest(m.pass)
<1>1. IsLeft(Left("base", m), "base", m) /\ "base" \in Reads
  BY LeftIs DEF Reads
<1>2. Left("base", m) = 14 * (N - 0 - 1) + 7 * (2 - 1) + 7 + 1 + Rest(m.pass)
  BY <1>1, ReadsLeftIs DEF IsLeft
<1>3. 14 * (N - 0 - 1) + 7 * (2 - 1) + 7 + 1 = 14 * N + 1
  BY ReportingAssumption
<1> QED BY <1>2, <1>3

LEMMA VerifyLowers ==
  ASSUME IInv, Verify
  PROVE  StepsLeft' < StepsLeft
<1>1. /\ my \in Locals /\ my.pass # "none" /\ pc = "verify" /\ my.rows = <<>> /\ my.round = 1
  BY DEF Verify, IInv, Placed
<1>2. Rest(my.pass) \in Nat /\ N \in Nat
  BY <1>1, Sizes
<1>3. CASE Refuse
  BY <1>1, <1>3, Ends DEF Refuse, End, Goto
<1>4. CASE Step("base", my)
  <2>1. StepsLeft' = 14 * N + 1 + Rest(my.pass)
    BY <1>1, <1>4, FirstRow DEF Step, Goto, StepsLeft
  <2>2. StepsLeft = 14 * N + 2 + Rest(my.pass)
    BY <1>1, LeftIs DEF IsLeft, StepsLeft
  <2> QED BY <1>2, <2>1, <2>2
<1> QED BY <1>3, <1>4 DEF Verify

LEMMA WritesLower ==
  ASSUME IInv, Lock \/ Existing \/ WriteJson \/ WriteDigest \/ Unlock \/ Raise
  PROVE  StepsLeft' < StepsLeft
<1>1. CASE pc \in Writes /\ pc' = "idle"
  BY <1>1, Ends DEF Writes
<1>2. CASE \/ pc = "lock" /\ pc' = "existing"
           \/ pc = "existing" /\ pc' \in {"json", "unlock"}
           \/ pc = "json" /\ pc' \in {"digest", "unlock"}
           \/ pc = "digest" /\ pc' = "unlock"
  <2>1. IsLeft(StepsLeft, pc, my) /\ IsLeft(StepsLeft', pc', my')
    BY LeftIs DEF StepsLeft
  <2> QED BY <1>2, <2>1 DEF IsLeft
<1>3. \/ pc \in Writes /\ pc' = "idle"
      \/ pc = "lock" /\ pc' = "existing"
      \/ pc = "existing" /\ pc' \in {"json", "unlock"}
      \/ pc = "json" /\ pc' \in {"digest", "unlock"}
      \/ pc = "digest" /\ pc' = "unlock"
  BY DEF Lock, Existing, WriteJson, WriteDigest, Unlock, Raise, Refuse, End, Step, Goto, Writes
<1> QED BY <1>1, <1>2, <1>3

LEMMA BeginLeft ==
  ASSUME NEW pass \in {"prepare", "commit"}, Begin(pass)
  PROVE  StepsLeft' = IF pass = "prepare" THEN 14 * N + 1 ELSE 42 * N + 10
<1> DEFINE m == [NoCall EXCEPT !.pass = pass]
<1>1. m.rows = <<>> /\ m.round = 1 /\ m.pass = pass
  BY DEF NoCall
<1>2. pc' = "base" /\ my' = m
  BY DEF Begin, Goto
<1> HIDE DEF m
<1>3. StepsLeft' = 14 * N + 1 + Rest(pass)
  BY <1>1, <1>2, FirstRow DEF StepsLeft
<1>4. CASE pass = "prepare"
  BY <1>3, <1>4, RestIs, ReportingAssumption
<1>5. CASE pass = "commit"
  BY <1>3, <1>5, RestIs, ReportingAssumption
<1> QED BY <1>4, <1>5

\* The reporter holds the lock exactly while it is in the locked section.
LockHeld == lock = "held" <=> pc \in Writes \ {"lock"}

LEMMA LockStep == IInv /\ LockHeld /\ [Next]_vars => LockHeld'
<1> SUFFICES ASSUME IInv, LockHeld, [Next]_vars PROVE LockHeld'
  OBVIOUS
<1> USE DEF LockHeld, Writes
<1>1. CASE UNCHANGED vars
  BY <1>1 DEF vars, files
<1>2. CASE SelectResult \/ SelectActivation \/ ChangeEvidence \/ SelectOverride
           \/ MovePublication
  BY <1>2 DEF SelectResult, SelectActivation, ChangeEvidence, SelectOverride, MovePublication,
              Change, files
<1>3. CASE Prepare \/ Commit
  BY <1>3 DEF Prepare, Commit, Begin, Goto, files
<1>4. CASE Capture
  BY <1>4 DEF Capture, ReadBase, ReadActivation, ReadEvidence, ActivationAgain, ReadOverride,
              OverrideAgain, BaseAgain, Step, Refuse, End, Goto, AfterRow, files
<1>5. CASE Report \/ Verify
  BY <1>5 DEF Report, Verify, Step, Refuse, End, Goto, files
<1>6. CASE Lock \/ Existing \/ WriteJson \/ WriteDigest \/ Unlock
  BY <1>6 DEF Lock, Existing, WriteJson, WriteDigest, Unlock, Step, Refuse, End, Goto, files
<1>7. CASE Raise \/ Crash
  BY <1>7 DEF Raise, Crash, Goto
<1> QED BY <1>1, <1>2, <1>3, <1>4, <1>5, <1>6, <1>7 DEF Next, Freeze

Moved == SelectResult \/ SelectActivation \/ ChangeEvidence \/ SelectOverride \/ MovePublication

\* A report of N rows takes at most 14 * N + 1 steps and a freeze 42 * N + 10, however often
\* the stores change under it: a row that has moved is refused, never captured again.
THEOREM CallsAreFinite ==
  Spec => [][/\ Prepare => StepsLeft' = 14 * N + 1
             /\ Commit => StepsLeft' = 42 * N + 10
             /\ Capture \/ Freeze \/ Raise \/ Crash => StepsLeft' \in 0 .. StepsLeft - 1
             /\ Moved => StepsLeft' = StepsLeft]_vars
<1> DEFINE Counts ==
      /\ Prepare => StepsLeft' = 14 * N + 1
      /\ Commit => StepsLeft' = 42 * N + 10
      /\ Capture \/ Freeze \/ Raise \/ Crash => StepsLeft' \in 0 .. StepsLeft - 1
      /\ Moved => StepsLeft' = StepsLeft
<1>1. IInv /\ IInv' /\ LockHeld /\ [Next]_vars => [Counts]_vars
  <2> SUFFICES ASSUME IInv, IInv', LockHeld, Next PROVE Counts
    OBVIOUS
  <2>1. /\ Prepare => StepsLeft' = 14 * N + 1
        /\ Commit => StepsLeft' = 42 * N + 10
    BY BeginLeft DEF Prepare, Commit
  <2>2. ASSUME Capture \/ Freeze \/ Raise \/ Crash PROVE StepsLeft' \in 0 .. StepsLeft - 1
    <3>1. StepsLeft' < StepsLeft
      <4>1. Crash => pc # "idle" /\ pc' = "idle"
        BY DEF Crash, Goto, LockHeld, Writes
      <4> QED BY <2>2, <4>1, CaptureLowers, ReportLowers, VerifyLowers, WritesLower, Ends DEF Freeze
    <3>2. StepsLeft \in Nat /\ StepsLeft' \in Nat
      BY LeftType DEF StepsLeft, IInv
    <3> QED BY <3>1, <3>2
  <2>3. Moved => StepsLeft' = StepsLeft
    BY DEF Moved, SelectResult, SelectActivation, ChangeEvidence, SelectOverride,
           MovePublication, Change, StepsLeft
  <2> QED BY <2>1, <2>2, <2>3
<1>2. Init => LockHeld
  BY DEF Init, LockHeld, Writes
<1> QED BY <1>1, <1>2, LockStep, Invariant, PTL DEF Spec
=============================================================================

------------------------ MODULE AssetCheckpointProofs ------------------------
(***************************************************************************)
(* Proofs about AssetCheckpoint for any properties, values and texts and   *)
(* for any order of the operations.                                        *)
(***************************************************************************)
EXTENDS AssetCheckpoint, SequenceTheorems, TLAPS

-----------------------------------------------------------------------------
(* The levels of an asset: what is in memory, the local checkpoint and the *)
(* server's, as the transactions give them.                                *)

Level1(a) == Kept(a.txns[1], a.field)
Level2(a) == Kept(a.txns[2], Level1(a))

\* A transaction notes only what differs.
Differs(txn, fields) == \A k \in Keys : txn[k] # fields[k]

Tracked(a) ==
    /\ a \in Asset
    /\ Depth(a) \in {0, 1, 2}
    /\ Depth(a) = 0 => ~a.isModified
    /\ Depth(a) # 0 =>
          Differs(a.txns[1], a.field) /\ (a.isModified <=> HasOriginals(a.txns[1]))
    /\ Depth(a) = 2 => Differs(a.txns[2], Level1(a))

Buffers(a) == <<a.published, a.local, a.current, a.localModified>>
Flags(a) == <<a.updating, a.failed>>

LEMMA FieldFacts ==
    ASSUME NEW f \in Fields, NEW k \in Keys
    PROVE  /\ f[k] # Unset /\ f[k] \in Domain(k)
           /\ \A v \in Domain(k) : /\ [f EXCEPT ![k] = v] \in Fields
                                   /\ [f EXCEPT ![k] = v][k] = v
                                   /\ \A j \in Keys \ {k} : [f EXCEPT ![k] = v][j] = f[j]
<1>1. f \in [Keys -> AllValues] /\ f[k] \in Domain(k) /\ f[k] \in AllValues
  BY DEF Fields
<1>2. Unset \notin AllValues
  BY AssetAssumption DEF AllValues
<1>3. Domain(k) \subseteq AllValues
  BY DEF Domain, AllValues
<1> HIDE DEF Domain, AllValues
<1>4. ASSUME NEW v \in Domain(k) PROVE [f EXCEPT ![k] = v] \in Fields
  BY <1>1, <1>3 DEF Fields
<1> QED
  BY <1>1, <1>2, <1>4

LEMMA KeyFacts ==
    /\ "Category" \in Keys /\ "Definition" \in Keys /\ Props \subseteq Keys
    /\ Domain("Category") = Categories /\ Domain("Definition") = Versions \cup {Never}
    /\ \A p \in Props : p \notin {"Category", "Definition"} /\ Domain(p) = Values
BY AssetAssumption DEF Keys, Domain

LEMMA KeptFacts ==
    ASSUME NEW t \in Originals, NEW f \in Fields
    PROVE  /\ Kept(t, f) \in Fields
           /\ \A k \in Keys : Kept(t, f)[k] = IF t[k] = Unset THEN f[k] ELSE t[k]
           /\ Differs(t, f) => (HasOriginals(t) <=> Kept(t, f) # f)
<1>1. \A k \in Keys : Kept(t, f)[k] = IF t[k] = Unset THEN f[k] ELSE t[k]
  BY DEF Kept
<1>2. /\ \A k \in Keys : t[k] \in (Domain(k) \cup {Unset}) \cap (AllValues \cup {Unset})
      /\ \A k \in Keys : f[k] \in Domain(k) \cap AllValues
      /\ f \in [Keys -> AllValues]
  BY DEF Originals, Fields
<1> HIDE DEF Domain, AllValues
<1>3. Kept(t, f) \in Fields
  BY <1>1, <1>2 DEF Fields, Kept
<1>4. (\A k \in Keys : Kept(t, f)[k] = f[k]) => Kept(t, f) = f
  BY <1>2 DEF Kept
<1>5. Differs(t, f) => (HasOriginals(t) <=> Kept(t, f) # f)
  BY <1>1, <1>4 DEF Differs, HasOriginals
<1> QED
  BY <1>1, <1>3, <1>5

LEMMA NoOriginalsFacts ==
    /\ NoOriginals \in Originals /\ ~HasOriginals(NoOriginals)
    /\ \A f \in Fields : Differs(NoOriginals, f) /\ Kept(NoOriginals, f) = f
<1>1. NoOriginals \in Originals /\ ~HasOriginals(NoOriginals)
  BY DEF NoOriginals, Originals, HasOriginals
<1>2. ASSUME NEW f \in Fields PROVE Differs(NoOriginals, f)
  BY FieldFacts DEF NoOriginals, Differs
<1> QED
  BY <1>1, <1>2, KeptFacts

\* The parts of an asset
LEMMA Parts ==
    ASSUME NEW a \in Asset
    PROVE  /\ a.field \in Fields /\ a.txns \in Seq(Originals) /\ Depth(a) \in Nat
           /\ a.isModified \in BOOLEAN /\ a.changes \in AssetChanges
           /\ a.published \in Texts /\ a.local \in Texts /\ a.current \in Texts
           /\ a.localModified \in BOOLEAN /\ a.updating \in BOOLEAN
           /\ a.failed \in BOOLEAN
           /\ Depth(a) # 0 => a.txns[1] \in Originals /\ Level1(a) \in Fields
           /\ Depth(a) >= 2 => a.txns[2] \in Originals /\ Level2(a) \in Fields
           /\ Depth(a) = 0 <=> a.txns = << >>
<1>1. /\ a.field \in Fields /\ a.txns \in Seq(Originals) /\ Depth(a) \in Nat
      /\ a.isModified \in BOOLEAN /\ a.changes \in AssetChanges
      /\ a.published \in Texts /\ a.local \in Texts /\ a.current \in Texts
      /\ a.localModified \in BOOLEAN /\ a.updating \in BOOLEAN
      /\ a.failed \in BOOLEAN
  BY LenProperties DEF Asset, Depth
<1>2. Depth(a) # 0 => a.txns[1] \in Originals
  BY <1>1, ElementOfSeq DEF Depth
<1>3. Depth(a) >= 2 => a.txns[2] \in Originals
  BY <1>1, ElementOfSeq DEF Depth
<1>4. Depth(a) = 0 <=> a.txns = << >>
  BY <1>1, EmptySeq DEF Depth
<1> QED
  BY <1>1, <1>2, <1>3, <1>4, KeptFacts DEF Level1, Level2

LEMMA ModifiedFacts ==
    ASSUME NEW a \in Asset, NEW flag \in BOOLEAN, NEW b, b = SetModified(a, flag)
    PROVE  /\ b \in Asset /\ b.isModified = flag
           /\ b.field = a.field /\ b.txns = a.txns
           /\ Buffers(b) = Buffers(a) /\ Flags(b) = Flags(a)
           /\ a.isModified = flag \/ IsUpdating(a) => b.changes = a.changes
           /\ a.isModified # flag /\ ~IsUpdating(a) =>
                 b.changes = IF flag
                             THEN (IF a.changes \in {"Modified", "New"} THEN a.changes
                                   ELSE "Modified")
                             ELSE (IF HasOriginals(a.txns[2]) THEN "Unpublished" ELSE "None")
<1> DEFINE d == [a EXCEPT !.isModified = flag]
           c == [d EXCEPT !.changes = NotedChanges(d)]
<1>1. /\ d \in Asset /\ d.isModified = flag /\ d.changes = a.changes
      /\ d.field = a.field /\ d.txns = a.txns
      /\ Buffers(d) = Buffers(a) /\ Flags(d) = Flags(a)
  BY DEF Asset, Buffers, Flags
<1>2. NotedChanges(d) = IF flag
                        THEN (IF a.changes \in {"Modified", "New"} THEN a.changes
                              ELSE "Modified")
                        ELSE (IF HasOriginals(a.txns[2]) THEN "Unpublished" ELSE "None")
  BY <1>1 DEF NotedChanges
<1>3. NotedChanges(d) \in AssetChanges
  BY <1>2, Parts DEF AssetChanges
<1> HIDE DEF d
<1>4. /\ c \in Asset /\ c.isModified = flag /\ c.changes = NotedChanges(d)
      /\ c.field = d.field /\ c.txns = d.txns
      /\ Buffers(c) = Buffers(d) /\ Flags(c) = Flags(d)
  BY <1>1, <1>3 DEF Asset, Buffers, Flags
<1>5. b = IF a.isModified = flag \/ IsUpdating(a) THEN d ELSE c
  BY DEF SetModified, d
<1> HIDE DEF c
<1> QED
  BY <1>1, <1>2, <1>4, <1>5

\* Changes is what SaveAssets, Publish and Revert take it for.
Agrees(a) ==
    a.changes \notin {"New", "Deleted"} =>
        a.changes = CASE a.isModified -> "Modified"
                      [] ~a.isModified /\ HasOriginals(a.txns[2]) -> "Unpublished"
                      [] OTHER -> "None"

\* Transactions of an asset with some of them replaced
LEMMA TxnFacts ==
    ASSUME NEW a \in Asset, NEW t \in Originals, Depth(a) # 0
    PROVE  LET s == [a.txns EXCEPT ![1] = t] IN
           /\ s \in Seq(Originals) /\ Len(s) = Depth(a) /\ s[1] = t
           /\ Depth(a) >= 2 => s[2] = a.txns[2]
<1>1. a.txns \in Seq(Originals) /\ Len(a.txns) \in Nat /\ 1 \in 1..Len(a.txns)
  BY Parts DEF Depth
<1>2. [a.txns EXCEPT ![1] = t] \in Seq(Originals)
      /\ Len([a.txns EXCEPT ![1] = t]) = Len(a.txns)
  BY <1>1, ExceptSeq
<1> QED
  BY <1>1, <1>2 DEF Depth

LEMMA NotedFacts ==
    ASSUME NEW t \in Originals, NEW f \in Fields, Differs(t, f), NEW g \in Fields
    PROVE  LET top == [k \in Keys |-> Noted(t[k], f[k], g[k])] IN
           /\ top \in Originals /\ Differs(top, g) /\ Kept(top, g) = Kept(t, f)
<1> DEFINE top == [k \in Keys |-> Noted(t[k], f[k], g[k])]
<1>1. /\ \A k \in Keys : t[k] \in (Domain(k) \cup {Unset}) \cap (AllValues \cup {Unset})
      /\ \A k \in Keys : f[k] \in Domain(k) \cap AllValues
      /\ \A k \in Keys : g[k] \in Domain(k) \cap AllValues
      /\ \A k \in Keys : t[k] # f[k] /\ f[k] # Unset /\ g[k] # Unset
  BY FieldFacts DEF Originals, Fields, Differs
<1> HIDE DEF Domain, AllValues
<1>2. \A k \in Keys : top[k] = Noted(t[k], f[k], g[k])
  OBVIOUS
<1>3. ASSUME NEW k \in Keys
      PROVE  /\ Noted(t[k], f[k], g[k]) \in {t[k], f[k], Unset}
             /\ Noted(t[k], f[k], g[k]) # g[k]
             /\ (IF Noted(t[k], f[k], g[k]) = Unset THEN g[k] ELSE Noted(t[k], f[k], g[k]))
                   = IF t[k] = Unset THEN f[k] ELSE t[k]
  BY <1>1 DEF Noted
<1>4. top \in Originals
  BY <1>1, <1>2, <1>3 DEF Originals
<1>5. Differs(top, g)
  BY <1>2, <1>3 DEF Differs
<1> HIDE DEF top
<1>6. Kept(top, g) = Kept(t, f)
  BY <1>2, <1>3 DEF Kept
<1> QED
  BY <1>4, <1>5, <1>6 DEF top

\* Values that change while transactions are open
LEMMA SetFieldsFacts ==
    ASSUME NEW a, Tracked(a), NEW g \in Fields
    PROVE  LET b == SetFields(a, g) IN
           /\ Tracked(b) /\ b.field = g /\ Depth(b) = Depth(a)
           /\ Depth(a) # 0 => Level1(b) = Level1(a)
           /\ Depth(a) = 2 => Level2(b) = Level2(a)
           /\ Buffers(b) = Buffers(a) /\ Flags(b) = Flags(a)
           /\ IsUpdating(a) => b.changes = a.changes
           /\ ~IsUpdating(a) /\ Agrees(a) => Agrees(b)
           /\ a.changes # "Deleted" => b.changes # "Deleted"
<1> DEFINE s == SetFields(a, g)
           b == [a EXCEPT !.field = g]
<1>1. a \in Asset /\ a.field \in Fields /\ a.txns \in Seq(Originals) /\ Depth(a) \in {0, 1, 2}
      /\ (Depth(a) = 0 <=> a.txns = << >>)
  BY Parts DEF Tracked
<1>2. /\ b \in Asset /\ b.field = g /\ b.txns = a.txns /\ b.isModified = a.isModified
      /\ b.changes = a.changes /\ Buffers(b) = Buffers(a) /\ Flags(b) = Flags(a)
  BY <1>1 DEF Asset, Buffers, Flags
<1>3. CASE a.field = g
  <2>1. s = a
    BY <1>3 DEF SetFields
  <2> QED
    BY <1>3, <2>1
<1>4. CASE a.field # g /\ a.txns = << >>
  <2>1. s = b
    BY <1>4 DEF SetFields
  <2>2. Depth(a) = 0 /\ Depth(b) = 0 /\ IsUpdating(a)
    BY <1>1, <1>2, <1>4 DEF Depth, IsUpdating
  <2> HIDE DEF b
  <2> QED
    BY <1>2, <2>1, <2>2 DEF Tracked
<1>5. CASE a.field # g /\ a.txns # << >>
  <2> DEFINE top == [k \in Keys |-> Noted(a.txns[1][k], a.field[k], g[k])]
             c == [b EXCEPT !.txns = [a.txns EXCEPT ![1] = top]]
  <2>1. /\ Depth(a) \in {1, 2} /\ a.txns[1] \in Originals /\ Differs(a.txns[1], a.field)
        /\ (a.isModified <=> HasOriginals(a.txns[1])) /\ a.isModified \in BOOLEAN
        /\ Level1(a) \in Fields /\ (Depth(a) = 2 => a.txns[2] \in Originals)
        /\ a.changes \in AssetChanges
    BY <1>1, <1>5, Parts DEF Tracked
  <2>2. top \in Originals /\ Differs(top, g) /\ Kept(top, g) = Kept(a.txns[1], a.field)
    BY <1>1, <2>1, NotedFacts
  <2> HIDE DEF top
  <2>3. s = SetModified([b EXCEPT !.txns[1] = top], HasOriginals(top))
    BY <1>5 DEF SetFields, top
  <2>4. [b EXCEPT !.txns[1] = top] = c
    BY <1>2
  <2>5. /\ [a.txns EXCEPT ![1] = top] \in Seq(Originals)
        /\ Len([a.txns EXCEPT ![1] = top]) = Depth(a)
        /\ [a.txns EXCEPT ![1] = top][1] = top
        /\ Depth(a) >= 2 => [a.txns EXCEPT ![1] = top][2] = a.txns[2]
    BY <1>1, <2>1, <2>2, TxnFacts
  <2> HIDE DEF b
  <2>6. /\ c \in Asset /\ c.field = g /\ c.isModified = a.isModified
        /\ c.changes = a.changes /\ Buffers(c) = Buffers(a) /\ Flags(c) = Flags(a)
        /\ c.txns = [a.txns EXCEPT ![1] = top]
    BY <1>2, <2>5 DEF Asset, Buffers, Flags
  <2>7. /\ Depth(c) = Depth(a) /\ c.txns[1] = top /\ (Depth(a) = 2 => c.txns[2] = a.txns[2])
    BY <2>1, <2>5, <2>6 DEF Depth
  <2> HIDE DEF c
  <2>8. PICK flag \in BOOLEAN : flag = HasOriginals(top)
    BY DEF HasOriginals
  <2>9. /\ s \in Asset /\ s.isModified = flag
        /\ s.field = c.field /\ s.txns = c.txns
        /\ Buffers(s) = Buffers(c) /\ Flags(s) = Flags(c)
        /\ c.isModified = flag \/ IsUpdating(c) => s.changes = c.changes
        /\ c.isModified # flag /\ ~IsUpdating(c) =>
              s.changes = IF flag
                          THEN (IF c.changes \in {"Modified", "New"} THEN c.changes
                                ELSE "Modified")
                          ELSE (IF HasOriginals(c.txns[2]) THEN "Unpublished" ELSE "None")
    <3>1. s = SetModified(c, flag)
      BY <2>3, <2>4, <2>8
    <3> HIDE DEF s
    <3>2. s \in Asset /\ s.isModified = flag
      BY <2>6, <2>8, <3>1, ModifiedFacts
    <3>3. s.field = c.field /\ s.txns = c.txns /\ Buffers(s) = Buffers(c) /\ Flags(s) = Flags(c)
      BY <2>6, <2>8, <3>1, ModifiedFacts
    <3>4. c.isModified = flag \/ IsUpdating(c) => s.changes = c.changes
      BY <2>6, <2>8, <3>1, ModifiedFacts
    <3> QED
      BY <2>6, <2>8, <3>1, <3>2, <3>3, <3>4, ModifiedFacts, ZenonT(40)
  <2> HIDE DEF s
  <2>10. Depth(s) = Depth(a) /\ s.txns[1] = top /\ (Depth(a) = 2 => s.txns[2] = a.txns[2])
    BY <2>7, <2>9 DEF Depth
  <2>11. Level1(s) = Level1(a) /\ (Depth(a) = 2 => Level2(s) = Level2(a))
    BY <2>2, <2>6, <2>9, <2>10 DEF Level1, Level2
  <2>12. Tracked(s)
    <3>1. /\ s \in Asset /\ Depth(s) \in {1, 2} /\ s.txns[1] = top /\ s.field = g
          /\ (s.isModified <=> HasOriginals(top))
      BY <2>1, <2>6, <2>8, <2>9, <2>10
    <3>2. Depth(s) = 2 => Differs(s.txns[2], Level1(s))
      BY <2>10, <2>11 DEF Tracked
    <3> QED
      BY <2>2, <3>1, <3>2 DEF Tracked
  <2>13. IsUpdating(c) <=> IsUpdating(a)
    BY <2>6, <2>7 DEF IsUpdating, Flags
  <2>14. ASSUME ~IsUpdating(a), Agrees(a) PROVE Agrees(s)
    <3>1. Depth(a) = 2 /\ s.txns[2] = a.txns[2] /\ c.txns[2] = a.txns[2]
      BY <1>1, <2>7, <2>10, <2>14 DEF IsUpdating
    <3>2. CASE s.isModified = a.isModified
      <4>1. s.changes = a.changes
        BY <2>6, <2>9, <3>2
      <4> QED
        BY <2>14, <3>1, <3>2, <4>1 DEF Agrees
    <3>3. CASE s.isModified # a.isModified
      <4>1. s.changes = IF s.isModified
                        THEN (IF a.changes \in {"Modified", "New"} THEN a.changes
                              ELSE "Modified")
                        ELSE (IF HasOriginals(a.txns[2]) THEN "Unpublished" ELSE "None")
        BY <2>6, <2>9, <2>13, <2>14, <3>1, <3>3
      <4> QED
        BY <2>8, <2>9, <3>1, <4>1 DEF Agrees
    <3> QED
      BY <3>2, <3>3
  <2>15. IsUpdating(a) => s.changes = a.changes
    BY <2>6, <2>9, <2>13
  <2>16. a.changes # "Deleted" => s.changes # "Deleted"
    <3>1. CASE c.isModified = flag \/ IsUpdating(c)
      BY <2>6, <2>9, <3>1
    <3>2. CASE ~(c.isModified = flag \/ IsUpdating(c))
      BY <2>9, <3>2
    <3> QED
      BY <3>1, <3>2
  <2> QED
    BY <2>1, <2>6, <2>9, <2>10, <2>11, <2>12, <2>14, <2>15, <2>16 DEF s
<1> QED
  BY <1>3, <1>4, <1>5

LEMMA BeginFacts ==
    ASSUME NEW a, Tracked(a), Depth(a) # 2, NEW b, b = BeginTransaction(a)
    PROVE  /\ Tracked(b) /\ b.field = a.field /\ Depth(b) = Depth(a) + 1
           /\ Level1(b) = a.field
           /\ Depth(a) = 1 => /\ Level2(b) = Level1(a)
                              /\ b.txns[2] = a.txns[1]
           /\ Buffers(b) = Buffers(a) /\ Flags(b) = Flags(a) /\ ~b.isModified
<1> DEFINE s == <<NoOriginals>> \o a.txns
           c == [a EXCEPT !.txns = s]
<1>1. /\ a \in Asset /\ a.field \in Fields /\ a.txns \in Seq(Originals)
      /\ Depth(a) \in {0, 1} /\ Depth(a) = Len(a.txns)
  BY Parts DEF Tracked, Depth
<1>2. /\ s \in Seq(Originals) /\ Len(s) = Depth(a) + 1 /\ s[1] = NoOriginals
      /\ Depth(a) = 1 => s[2] = a.txns[1]
  <2>1. <<NoOriginals>> \in Seq(Originals) /\ Len(<<NoOriginals>>) = 1
        /\ <<NoOriginals>>[1] = NoOriginals
    BY NoOriginalsFacts
  <2>2. /\ s \in Seq(Originals) /\ Len(s) = 1 + Len(a.txns)
        /\ \A i \in 1..(1 + Len(a.txns)) :
              s[i] = IF i <= 1 THEN <<NoOriginals>>[i] ELSE a.txns[i - 1]
    BY <1>1, <2>1, ConcatProperties
  <2>3. s[1] = <<NoOriginals>>[1]
    BY <1>1, <2>2
  <2>4. Depth(a) = 1 => s[2] = a.txns[2 - 1]
    BY <1>1, <2>2
  <2> HIDE DEF s
  <2> QED
    BY <1>1, <2>1, <2>2, <2>3, <2>4
<1> HIDE DEF s
<1>3. /\ c \in Asset /\ c.field = a.field /\ c.txns = s
      /\ Buffers(c) = Buffers(a) /\ Flags(c) = Flags(a)
  BY <1>1, <1>2 DEF Asset, Buffers, Flags
<1>4. b = SetModified(c, FALSE)
  BY DEF BeginTransaction, s
<1> HIDE DEF c
<1>5. /\ b \in Asset /\ b.isModified = FALSE /\ b.field = a.field /\ b.txns = s
      /\ Buffers(b) = Buffers(a) /\ Flags(b) = Flags(a)
  <2>1. /\ b \in Asset /\ b.isModified = FALSE
    BY <1>3, <1>4, ModifiedFacts
  <2>2. /\ b.field = c.field /\ b.txns = c.txns
        /\ Buffers(b) = Buffers(c) /\ Flags(b) = Flags(c)
    BY <1>3, <1>4, ModifiedFacts
  <2> QED
    BY <1>3, <2>1, <2>2
<1>6. Depth(b) = Depth(a) + 1 /\ b.txns[1] = NoOriginals
      /\ (Depth(a) = 1 => b.txns[2] = a.txns[1])
  BY <1>2, <1>5 DEF Depth
<1>7. Level1(b) = a.field /\ (Depth(a) = 1 => Level2(b) = Level1(a))
  BY <1>1, <1>5, <1>6, NoOriginalsFacts DEF Level1, Level2
<1>8. Tracked(b)
  <2>1. Depth(b) \in {1, 2}
    <3>1. Depth(a) = 0 \/ Depth(a) = 1
      BY <1>1
    <3>2. Depth(b) = Depth(a) + 1
      BY <1>6
    <3> QED
      BY <3>1, <3>2
  <2>2. Differs(b.txns[1], b.field) /\ ~HasOriginals(b.txns[1])
    <3>1. Differs(NoOriginals, a.field) /\ ~HasOriginals(NoOriginals)
      BY <1>1, NoOriginalsFacts
    <3> QED
      BY <1>5, <1>6, <3>1
  <2>3. Depth(b) = 2 => Differs(b.txns[2], Level1(b))
    BY <1>1, <1>6, <1>7 DEF Tracked
  <2> QED
    BY <1>5, <2>1, <2>2, <2>3 DEF Tracked
<1> QED
  BY <1>5, <1>6, <1>7, <1>8

\* What is left when the newest transaction goes
LEMMA DiscardFacts ==
    ASSUME NEW a \in Asset, Depth(a) \in {1, 2}, NEW b, b = DiscardTransaction(a),
           Depth(a) = 2 => Differs(a.txns[2], a.field)
    PROVE  /\ Tracked(b) /\ b.field = a.field /\ Depth(b) = Depth(a) - 1
           /\ Depth(a) = 2 => Level1(b) = Kept(a.txns[2], a.field)
           /\ Buffers(b) = Buffers(a) /\ Flags(b) = Flags(a) /\ b.changes = a.changes
<1> DEFINE rest == Tail(a.txns)
           c == [a EXCEPT !.txns = rest]
<1>1. a.field \in Fields /\ a.txns \in Seq(Originals) /\ a.txns # << >>
      /\ Depth(a) = Len(a.txns) /\ a.changes \in AssetChanges
  <2>1. a.field \in Fields /\ a.txns \in Seq(Originals) /\ a.txns # << >>
        /\ a.changes \in AssetChanges
    BY Parts
  <2> QED
    BY <2>1 DEF Depth
<1>2. /\ rest \in Seq(Originals) /\ Len(rest) = Depth(a) - 1
      /\ Depth(a) = 2 => rest[1] = a.txns[2]
  <2>1. /\ rest \in Seq(Originals) /\ Len(rest) = Len(a.txns) - 1
        /\ \A i \in 1..(Len(a.txns) - 1) : rest[i] = a.txns[i + 1]
    BY <1>1, HeadTailProperties
  <2>2. Depth(a) = 2 => rest[1] = a.txns[1 + 1]
    BY <1>1, <2>1
  <2> HIDE DEF rest
  <2> QED
    BY <1>1, <2>1, <2>2
<1>3. PICK flag \in BOOLEAN : flag <=> (rest # << >> /\ HasOriginals(rest[1]))
  BY DEF HasOriginals
<1>4. b = SetModified([a EXCEPT !.txns = rest], rest # << >> /\ HasOriginals(rest[1]))
  BY DEF DiscardTransaction
<1>5. flag = (rest # << >> /\ HasOriginals(rest[1]))
  BY <1>3 DEF HasOriginals
<1> HIDE DEF rest
<1>6. b = SetModified(c, flag)
  BY <1>4, <1>5
<1>7. /\ c \in Asset /\ c.field = a.field /\ c.txns = rest /\ c.changes = a.changes
      /\ Buffers(c) = Buffers(a) /\ Flags(c) = Flags(a)
  BY <1>1, <1>2 DEF Asset, Buffers, Flags
<1> HIDE DEF c
<1>8. Depth(c) = Depth(a) - 1 /\ IsUpdating(c)
  <2>1. Depth(c) = Depth(a) - 1
    BY <1>2, <1>7 DEF Depth
  <2> QED
    BY <2>1 DEF IsUpdating
<1>9. b \in Asset /\ b.isModified = flag
  BY <1>3, <1>6, <1>7, ModifiedFacts
<1>10. /\ b.field = a.field /\ b.txns = rest /\ b.changes = a.changes
       /\ Buffers(b) = Buffers(a) /\ Flags(b) = Flags(a)
  <2>1. b.field = c.field /\ b.txns = c.txns /\ Buffers(b) = Buffers(c) /\ Flags(b) = Flags(c)
    BY <1>3, <1>6, <1>7, ModifiedFacts
  <2>2. b.changes = c.changes
    BY <1>3, <1>6, <1>7, <1>8, ModifiedFacts
  <2> QED
    BY <1>7, <2>1, <2>2
<1>11. Depth(b) = Depth(a) - 1 /\ (Depth(a) = 2 => b.txns[1] = a.txns[2])
  BY <1>2, <1>10 DEF Depth
<1>12. Tracked(b)
  <2>1. CASE Depth(a) = 1
    <3>1. Depth(b) = 0 /\ rest = << >>
      BY <1>1, <1>2, <1>11, <2>1, EmptySeq
    <3>2. ~b.isModified
      BY <1>3, <1>9, <3>1
    <3> QED
      BY <1>9, <3>1, <3>2 DEF Tracked
  <2>2. CASE Depth(a) = 2
    <3>1. Depth(b) = 1 /\ rest # << >> /\ rest[1] = a.txns[2]
      <4>1. Depth(b) = 1 /\ Len(rest) = 1 /\ rest \in Seq(Originals) /\ rest[1] = a.txns[2]
        BY <1>2, <1>11, <2>2
      <4>2. rest = << >> => Len(rest) = 0
        OBVIOUS
      <4> QED
        BY <4>1, <4>2
    <3>2. b.isModified <=> HasOriginals(b.txns[1])
      BY <1>3, <1>9, <1>10, <3>1
    <3> QED
      BY <1>9, <1>10, <1>11, <2>2, <3>1, <3>2 DEF Tracked
  <2> QED
    BY <2>1, <2>2
<1> QED
  BY <1>9, <1>10, <1>11, <1>12 DEF Level1

LEMMA BaseCommitFacts ==
    ASSUME NEW a, Tracked(a), Depth(a) # 0, NEW b, b = BaseCommit(a)
    PROVE  /\ Tracked(b) /\ b.field = a.field /\ Depth(b) = Depth(a) - 1
           /\ Depth(a) = 2 => Level1(b) = Level2(a)
           /\ Buffers(b) = Buffers(a) /\ Flags(b) = Flags(a) /\ b.changes = a.changes
<1>1. a \in Asset /\ a.field \in Fields /\ a.txns \in Seq(Originals) /\ Depth(a) \in {1, 2}
  BY Parts DEF Tracked
<1>2. CASE Depth(a) = 1
  <2>1. b = DiscardTransaction(a)
    BY <1>2 DEF BaseCommit
  <2> QED
    BY <1>1, <1>2, <2>1, DiscardFacts
<1>3. CASE Depth(a) = 2
  <2> DEFINE t == CommitInto(a.txns[2], a.txns[1], a.field)
             s == [a.txns EXCEPT ![2] = t]
             c == [a EXCEPT !.txns = s]
  <2>1. /\ a.txns[1] \in Originals /\ a.txns[2] \in Originals
        /\ Differs(a.txns[1], a.field) /\ Differs(a.txns[2], Level1(a))
        /\ a.changes \in AssetChanges
    BY <1>1, <1>3, Parts DEF Tracked
  <2>2. /\ \A k \in Keys : Domain(k) \subseteq AllValues
        /\ \A k \in Keys : a.txns[1][k] \in (Domain(k) \cup {Unset}) \cap (AllValues \cup {Unset})
        /\ \A k \in Keys : a.txns[2][k] \in (Domain(k) \cup {Unset}) \cap (AllValues \cup {Unset})
        /\ \A k \in Keys : a.field[k] # Unset /\ a.txns[1][k] # a.field[k]
        /\ \A k \in Keys : a.txns[2][k] # IF a.txns[1][k] = Unset THEN a.field[k] ELSE a.txns[1][k]
    BY <1>1, <2>1, FieldFacts, KeptFacts DEF Originals, Domain, AllValues, Differs, Level1
  <2>3. \A k \in Keys : t[k] = CASE a.txns[1][k] = Unset -> a.txns[2][k]
                      [] a.txns[1][k] # Unset /\ a.txns[2][k] = Unset -> a.txns[1][k]
                      [] a.txns[1][k] # Unset /\ a.txns[2][k] = a.field[k] -> Unset
                      [] OTHER -> a.txns[2][k]
    BY DEF CommitInto
  <2>4. ASSUME NEW k \in Keys
        PROVE  /\ t[k] \in {a.txns[1][k], a.txns[2][k], Unset} /\ t[k] # a.field[k]
               /\ (IF t[k] = Unset THEN a.field[k] ELSE t[k])
                    = IF a.txns[2][k] = Unset
                      THEN (IF a.txns[1][k] = Unset THEN a.field[k] ELSE a.txns[1][k])
                      ELSE a.txns[2][k]
    <3> HIDE DEF t
    <3> QED
      BY <2>2, <2>3
  <2>5. t = [k \in Keys |-> t[k]]
    BY DEF CommitInto
  <2> HIDE DEF t
  <2>6. t \in Originals
    <3>1. \A k \in Keys : t[k] \in (Domain(k) \cup {Unset}) \cap (AllValues \cup {Unset})
      BY <2>2, <2>4
    <3> QED
      BY <2>5, <3>1 DEF Originals
  <2>7. Differs(t, a.field) /\ Kept(t, a.field) = Level2(a)
    BY <2>4 DEF Differs, Kept, Level1, Level2
  <2>8. /\ s \in Seq(Originals) /\ Len(s) = 2 /\ s[2] = t
    <3>1. Len(a.txns) = 2 /\ 2 \in 1..Len(a.txns)
      BY <1>3 DEF Depth
    <3>2. s \in Seq(Originals) /\ Len(s) = Len(a.txns)
      <4>1. a.txns \in Seq(Originals) /\ t \in Originals /\ 2 \in 1..Len(a.txns)
        BY <1>1, <2>6, <3>1
      <4> QED
        BY <4>1, ExceptSeq
    <3> QED
      BY <1>1, <3>1, <3>2
  <2>9. b = DiscardTransaction(c)
    <3>1. [a EXCEPT !.txns[2] = CommitInto(@, a.txns[1], a.field)] = c
      BY <1>1 DEF t, Asset
    <3> QED
      BY <1>3, <3>1 DEF BaseCommit
  <2> HIDE DEF s
  <2>10. /\ c \in Asset /\ c.field = a.field /\ c.txns = s /\ c.changes = a.changes
        /\ Buffers(c) = Buffers(a) /\ Flags(c) = Flags(a)
    BY <1>1, <2>1, <2>8 DEF Asset, Buffers, Flags
  <2> HIDE DEF c
  <2>11. Depth(c) = 2 /\ c.txns[2] = t
    BY <2>8, <2>10 DEF Depth
  <2>12. /\ Tracked(b) /\ b.field = c.field /\ Depth(b) = 2 - 1
         /\ Level1(b) = Kept(c.txns[2], c.field)
         /\ Buffers(b) = Buffers(c) /\ Flags(b) = Flags(c) /\ b.changes = c.changes
    BY <2>7, <2>9, <2>10, <2>11, DiscardFacts
  <2> QED
    BY <1>3, <2>7, <2>10, <2>11, <2>12
<1> QED
  BY <1>1, <1>2, <1>3

LEMMA BaseRevertFacts ==
    ASSUME NEW a, Tracked(a), Depth(a) # 0, NEW b, b = BaseRevert(a)
    PROVE  /\ Tracked(b) /\ b.field = Level1(a) /\ Depth(b) = Depth(a) - 1
           /\ Depth(a) = 2 => Level1(b) = Level2(a)
           /\ Buffers(b) = Buffers(a) /\ Flags(b) = Flags(a) /\ b.changes = a.changes
<1> DEFINE c == [a EXCEPT !.field = Level1(a)]
<1>1. /\ a \in Asset /\ a.field \in Fields /\ a.txns \in Seq(Originals)
      /\ Depth(a) \in {1, 2} /\ Level1(a) \in Fields /\ a.changes \in AssetChanges
  BY Parts DEF Tracked
<1>2. b = DiscardTransaction(c)
  <2>1. [a EXCEPT !.field = [k \in Keys |-> IF a.txns[1][k] = Unset THEN @[k]
                                            ELSE a.txns[1][k]]] = c
    BY <1>1 DEF Level1, Kept, Asset
  <2> QED
    BY <2>1 DEF BaseRevert
<1>3. /\ c \in Asset /\ c.field = Level1(a) /\ c.txns = a.txns /\ c.changes = a.changes
      /\ Buffers(c) = Buffers(a) /\ Flags(c) = Flags(a)
  <2> HIDE DEF Level1
  <2> QED
    BY <1>1 DEF Asset, Buffers, Flags
<1> HIDE DEF c
<1>4. Depth(c) = Depth(a) /\ (Depth(a) = 2 => Differs(c.txns[2], c.field))
  BY <1>3 DEF Depth, Tracked
<1>5. /\ Tracked(b) /\ b.field = c.field /\ Depth(b) = Depth(c) - 1
      /\ Depth(c) = 2 => Level1(b) = Kept(c.txns[2], c.field)
      /\ Buffers(b) = Buffers(c) /\ Flags(b) = Flags(c) /\ b.changes = c.changes
  BY <1>1, <1>2, <1>3, <1>4, DiscardFacts
<1> QED
  BY <1>1, <1>3, <1>4, <1>5 DEF Level2

-----------------------------------------------------------------------------
(* The definition: three buffers, and the version of each level            *)

\* Other buffers, the same values
Moved(a, b) ==
    /\ b \in Asset /\ b.field = a.field /\ b.txns = a.txns
    /\ b.isModified = a.isModified /\ b.changes = a.changes /\ Flags(b) = Flags(a)

\* Other values in memory, the same checkpoints
Follows(a, b) ==
    /\ Tracked(b) /\ Depth(b) = Depth(a)
    /\ Depth(a) # 0 => Level1(b) = Level1(a)
    /\ Depth(a) = 2 => Level2(b) = Level2(a)
    /\ Flags(b) = Flags(a)
    /\ ~IsUpdating(a) /\ Agrees(a) => Agrees(b)
    /\ a.changes # "Deleted" => b.changes # "Deleted"

OnlyText(a, b) == \A k \in Keys \ {"Definition"} : b.field[k] = a.field[k]

LEMMA FollowsSelf ==
    ASSUME NEW a, Tracked(a)
    PROVE  Follows(a, a) /\ OnlyText(a, a)
BY DEF Follows, OnlyText

LEMMA FollowsMoved ==
    ASSUME NEW a, Tracked(a), NEW b, Moved(a, b)
    PROVE  Follows(a, b) /\ OnlyText(a, b) /\ DefinitionState(b) = DefinitionState(a)
<1>1. Depth(b) = Depth(a) /\ Level1(b) = Level1(a) /\ Level2(b) = Level2(a)
  BY DEF Moved, Depth, Level1, Level2
<1>2. Tracked(b)
  BY <1>1 DEF Moved, Tracked
<1>3. Agrees(a) => Agrees(b)
  BY DEF Moved, Agrees
<1> QED
  BY <1>1, <1>2, <1>3 DEF Moved, Follows, OnlyText, DefinitionState

LEMMA FollowsTrans ==
    ASSUME NEW a, NEW b, NEW c, Follows(a, b), Follows(b, c)
    PROVE  Follows(a, c) /\ (OnlyText(a, b) /\ OnlyText(b, c) => OnlyText(a, c))
<1>1. IsUpdating(b) <=> IsUpdating(a)
  BY DEF Follows, IsUpdating, Flags
<1> QED
  BY <1>1 DEF Follows, OnlyText

LEMMA StateFacts ==
    ASSUME NEW f \in Fields
    PROVE  StateOf(f["Definition"]) \in States /\ TextOf(f["Definition"]) \in Texts
<1>1. f["Definition"] \in Versions \cup {Never}
  BY FieldFacts, KeyFacts
<1> QED
  BY <1>1, AssetAssumption DEF StateOf, TextOf, Versions, States

LEMMA VersionFacts ==
    ASSUME NEW a, Tracked(a), NEW state \in States, NEW b, b = UpdateVersion(a, state)
    PROVE  /\ Follows(a, b) /\ OnlyText(a, b) /\ Buffers(b) = Buffers(a)
           /\ DefinitionState(b) = state
           /\ TextOf(b.field["Definition"]) = TextIn(a, state)
           /\ Definition(b) = TextIn(a, state)
<1> DEFINE v == [text |-> TextIn(a, state), state |-> state]
           g == [a.field EXCEPT !["Definition"] = v]
<1>1. a \in Asset /\ a.field \in Fields
  BY Parts DEF Tracked
<1>2. v \in Versions
  BY <1>1, Parts DEF Versions, TextIn
<1>3. v # Never /\ v \in Domain("Definition") /\ v.state = state /\ v.text = TextIn(a, state)
  BY <1>2, AssetAssumption, KeyFacts
<1> HIDE DEF v
<1>4. g \in Fields /\ g["Definition"] = v /\ \A k \in Keys \ {"Definition"} : g[k] = a.field[k]
  BY <1>1, <1>3, FieldFacts, KeyFacts
<1>5. b = SetFields(a, g)
  BY DEF UpdateVersion, SetField, v
<1> HIDE DEF g
<1>6. /\ Tracked(b) /\ b.field = g /\ Depth(b) = Depth(a)
      /\ Depth(a) # 0 => Level1(b) = Level1(a)
      /\ Depth(a) = 2 => Level2(b) = Level2(a)
      /\ Buffers(b) = Buffers(a) /\ Flags(b) = Flags(a)
      /\ ~IsUpdating(a) /\ Agrees(a) => Agrees(b)
      /\ a.changes # "Deleted" => b.changes # "Deleted"
  BY <1>4, <1>5, SetFieldsFacts
<1>7. DefinitionState(b) = state /\ TextOf(b.field["Definition"]) = TextIn(a, state)
  BY <1>3, <1>4, <1>6 DEF DefinitionState, StateOf, TextOf
<1>8. TextIn(b, state) = TextIn(a, state)
  BY <1>6 DEF TextIn, Buffers
<1> QED
  BY <1>4, <1>6, <1>7, <1>8 DEF Follows, OnlyText, Definition

\* The buffers move, and then the version is taken.
LEMMA MovedVersion ==
    ASSUME NEW a, Tracked(a), NEW c, Moved(a, c), NEW state \in States,
           NEW b, b = UpdateVersion(c, state)
    PROVE  /\ Follows(a, b) /\ OnlyText(a, b) /\ Buffers(b) = Buffers(c)
           /\ DefinitionState(b) = state
           /\ TextOf(b.field["Definition"]) = TextIn(c, state)
           /\ Definition(b) = TextIn(c, state)
<1>1. Follows(a, c) /\ OnlyText(a, c) /\ Tracked(c)
  BY FollowsMoved DEF Follows
<1>2. /\ Follows(c, b) /\ OnlyText(c, b) /\ Buffers(b) = Buffers(c)
      /\ DefinitionState(b) = state
      /\ TextOf(b.field["Definition"]) = TextIn(c, state)
      /\ Definition(b) = TextIn(c, state)
  BY <1>1, VersionFacts
<1> QED
  BY <1>1, <1>2, FollowsTrans

\* The state of the text that the file has
Saved(a) == IF a.localModified THEN "Unpublished" ELSE "None"

\* A local text is not the published one, a current text not the saved one, and only
\* what is in memory can have been modified since the checkpoints.
TextsOK(a) ==
    /\ a.local # Empty => a.localModified /\ a.local # a.published
    /\ DefinitionState(a) # "Modified" => a.current = Empty
    /\ DefinitionState(a) = "Modified" => a.current # LocalDefinition(a)
    /\ Depth(a) # 0 => StateOf(Level1(a)["Definition"]) # "Modified"
    /\ Depth(a) = 2 => StateOf(Level2(a)["Definition"]) # "Modified"

\* While no text is cleared, a state names the buffer that has the text of a level.
Exact(a) ==
    /\ a.localModified <=> a.local # Empty
    /\ DefinitionState(a) = "Modified" => a.current # Empty
    /\ DefinitionState(a) \in {"Modified", Saved(a)}
    /\ TextOf(a.field["Definition"]) = Definition(a)
    /\ Depth(a) = 1 => /\ StateOf(Level1(a)["Definition"]) = "None"
                       /\ TextOf(Level1(a)["Definition"]) = a.published
    /\ Depth(a) = 2 => /\ StateOf(Level1(a)["Definition"]) = Saved(a)
                       /\ TextOf(Level1(a)["Definition"]) = LocalDefinition(a)
                       /\ StateOf(Level2(a)["Definition"]) = "None"
                       /\ TextOf(Level2(a)["Definition"]) = a.published

LEMMA SetPublishedFacts ==
    ASSUME NEW a, Tracked(a), Depth(a) = 0, TextsOK(a), DefinitionState(a) = "None",
           NEW text \in Texts, NEW b, b = SetDefinition(a, text), a.local = Empty
    PROVE  /\ Follows(a, b) /\ OnlyText(a, b) /\ TextsOK(b) /\ DefinitionState(b) = "None"
           /\ Exact(a) => Exact(b) /\ TextOf(b.field["Definition"]) = text
<1>1. b = SetPublished(a, text)
  BY DEF SetDefinition
<1>2. CASE a.published = text
  <2>1. b = a
    BY <1>1, <1>2 DEF SetPublished
  <2>2. Exact(a) => TextOf(a.field["Definition"]) = text
    BY <1>2 DEF Exact, Definition, TextIn
  <2> QED
    BY <2>1, <2>2, FollowsSelf
<1>3. CASE a.published # text
  <2> DEFINE c == [a EXCEPT !.published = text]
  <2>1. b = UpdateVersion(c, "None")
    BY <1>1, <1>3 DEF SetPublished
  <2>2. /\ Moved(a, c) /\ c.published = text
        /\ c.local = a.local /\ c.current = a.current /\ c.localModified = a.localModified
    BY DEF Moved, Tracked, Asset, Flags
  <2> HIDE DEF c
  <2>3. /\ Follows(a, b) /\ OnlyText(a, b) /\ Buffers(b) = Buffers(c)
        /\ DefinitionState(b) = "None"
        /\ TextOf(b.field["Definition"]) = TextIn(c, "None")
        /\ Definition(b) = TextIn(c, "None")
    BY <2>1, <2>2, MovedVersion DEF States
  <2>4. /\ b.published = text /\ b.local = Empty /\ b.current = a.current
        /\ b.localModified = a.localModified /\ TextIn(c, "None") = text
    BY <2>2, <2>3 DEF Buffers, TextIn
  <2>5. Depth(b) = 0
    BY <2>3 DEF Follows
  <2>6. TextsOK(b)
    BY <2>3, <2>4, <2>5 DEF TextsOK
  <2>7. Exact(a) => Exact(b)
    BY <2>3, <2>4, <2>5 DEF Exact, Saved
  <2> QED
    BY <2>3, <2>4, <2>6, <2>7
<1> QED
  BY <1>2, <1>3

LEMMA SetLocalFacts ==
    ASSUME NEW a, Tracked(a), Depth(a) = 1, TextsOK(a), DefinitionState(a) # "Modified",
           NEW text \in Texts, NEW b, b = SetDefinition(a, text)
    PROVE  /\ Follows(a, b) /\ OnlyText(a, b) /\ TextsOK(b)
           /\ DefinitionState(b) # "Modified"
           /\ Exact(a) /\ a.local = Empty =>
                 /\ Exact(b)
                 /\ TextOf(b.field["Definition"]) =
                       IF text = Empty THEN TextOf(a.field["Definition"]) ELSE text
<1>1. b = SetLocal(a, text) /\ a.current = Empty
  BY DEF SetDefinition, TextsOK
<1>2. CASE text = a.published /\ a.local # Empty
  <2> DEFINE c == [a EXCEPT !.local = Empty, !.localModified = FALSE]
  <2>1. b = UpdateVersion(c, "None")
    BY <1>1, <1>2 DEF SetLocal
  <2>2. /\ Moved(a, c) /\ c.published = a.published
        /\ c.local = Empty /\ c.current = a.current /\ c.localModified = FALSE
    BY AssetAssumption DEF Moved, Tracked, Asset, Flags
  <2> HIDE DEF c
  <2>3. /\ Follows(a, b) /\ OnlyText(a, b) /\ Buffers(b) = Buffers(c)
        /\ DefinitionState(b) = "None"
    BY <2>1, <2>2, MovedVersion DEF States
  <2>4. b.local = Empty /\ b.current = Empty
    BY <1>1, <2>2, <2>3 DEF Buffers
  <2>5. Depth(b) = 1 /\ Level1(b) = Level1(a)
    BY <2>3 DEF Follows
  <2>6. TextsOK(b)
    BY <2>3, <2>4, <2>5 DEF TextsOK
  <2> QED
    BY <1>2, <2>3, <2>6
<1>3. CASE text # a.published /\ text # a.local
  <2> DEFINE c == [a EXCEPT !.local = text, !.localModified = TRUE]
  <2>1. b = UpdateVersion(c, "Unpublished")
    BY <1>1, <1>3 DEF SetLocal
  <2>2. /\ Moved(a, c) /\ c.published = a.published
        /\ c.local = text /\ c.current = a.current /\ c.localModified = TRUE
    BY DEF Moved, Tracked, Asset, Flags
  <2> HIDE DEF c
  <2>3. /\ Follows(a, b) /\ OnlyText(a, b) /\ Buffers(b) = Buffers(c)
        /\ DefinitionState(b) = "Unpublished"
        /\ TextOf(b.field["Definition"]) = TextIn(c, "Unpublished")
        /\ Definition(b) = TextIn(c, "Unpublished")
    BY <2>1, <2>2, MovedVersion DEF States
  <2>4. /\ b.published = a.published /\ b.local = text /\ b.current = Empty
        /\ b.localModified = TRUE /\ TextIn(c, "Unpublished") = text
    BY <1>1, <2>2, <2>3 DEF Buffers, TextIn
  <2>5. Depth(b) = 1 /\ Level1(b) = Level1(a)
    BY <2>3 DEF Follows
  <2>6. TextsOK(b)
    BY <1>3, <2>3, <2>4, <2>5 DEF TextsOK
  <2>7. Exact(a) /\ a.local = Empty => Exact(b)
    BY <1>3, <2>3, <2>4, <2>5 DEF Exact, Saved
  <2> QED
    BY <1>3, <2>3, <2>4, <2>6, <2>7
<1>4. CASE ~(text = a.published /\ a.local # Empty) /\ ~(text # a.published /\ text # a.local)
  <2>1. b = a
    BY <1>1, <1>4 DEF SetLocal
  <2>2. Exact(a) /\ a.local = Empty =>
           TextOf(a.field["Definition"]) = IF text = Empty THEN TextOf(a.field["Definition"])
                                           ELSE text
    BY <1>4 DEF Exact, Saved, Definition, TextIn
  <2> QED
    BY <2>1, <2>2, FollowsSelf
<1> QED
  BY <1>2, <1>3, <1>4

LEMMA SetCurrentFacts ==
    ASSUME NEW a, Tracked(a), Depth(a) = 2, TextsOK(a),
           NEW text \in Texts, NEW b, b = SetDefinition(a, text)
    PROVE  /\ Follows(a, b) /\ OnlyText(a, b) /\ TextsOK(b)
           /\ Exact(a) /\ text # Empty =>
                 Exact(b) /\ TextOf(b.field["Definition"]) = text
<1> DEFINE saved == text = LocalDefinition(a)
           state == IF a.localModified THEN "Unpublished" ELSE "None"
<1>1. b = SetCurrent(a, text) /\ state \in States
  BY DEF SetDefinition, States
<1>2. CASE saved /\ DefinitionState(a) = state
  <2>1. b = a
    BY <1>1, <1>2 DEF SetCurrent, BackTo
  <2>2. Exact(a) => TextOf(a.field["Definition"]) = text
    BY <1>2 DEF Exact, Definition, TextIn, LocalDefinition
  <2> QED
    BY <2>1, <2>2, FollowsSelf
<1>3. CASE saved /\ DefinitionState(a) # state
  <2> DEFINE c == [a EXCEPT !.current = Empty]
  <2>1. b = UpdateVersion(c, state)
    BY <1>1, <1>3 DEF SetCurrent, BackTo
  <2>2. /\ Moved(a, c) /\ c.published = a.published
        /\ c.local = a.local /\ c.current = Empty /\ c.localModified = a.localModified
    BY AssetAssumption DEF Moved, Tracked, Asset, Flags
  <2> HIDE DEF c, state
  <2>3. /\ Follows(a, b) /\ OnlyText(a, b) /\ Buffers(b) = Buffers(c)
        /\ DefinitionState(b) = state
        /\ TextOf(b.field["Definition"]) = TextIn(c, state)
        /\ Definition(b) = TextIn(c, state)
    BY <1>1, <2>1, <2>2, MovedVersion
  <2>4. /\ b.published = a.published /\ b.local = a.local /\ b.current = Empty
        /\ b.localModified = a.localModified /\ TextIn(c, state) = text
    BY <1>3, <2>2, <2>3 DEF Buffers, TextIn, LocalDefinition, state
  <2>5. /\ Depth(b) = 2 /\ Level1(b) = Level1(a) /\ Level2(b) = Level2(a)
        /\ state # "Modified" /\ state = Saved(b) /\ Saved(b) = Saved(a)
        /\ LocalDefinition(b) = LocalDefinition(a)
    BY <2>3, <2>4 DEF Follows, state, Saved, LocalDefinition
  <2>6. TextsOK(b)
    BY <2>3, <2>4, <2>5 DEF TextsOK
  <2>7. Exact(a) => Exact(b)
    BY <2>3, <2>4, <2>5 DEF Exact
  <2> QED
    BY <2>3, <2>4, <2>6, <2>7
<1>4. CASE ~saved /\ a.current # text
  <2> DEFINE c == [a EXCEPT !.current = text]
  <2>1. b = UpdateVersion(c, "Modified")
    BY <1>1, <1>4 DEF SetCurrent
  <2>2. /\ Moved(a, c) /\ c.published = a.published
        /\ c.local = a.local /\ c.current = text /\ c.localModified = a.localModified
    BY DEF Moved, Tracked, Asset, Flags
  <2> HIDE DEF c
  <2>3. /\ Follows(a, b) /\ OnlyText(a, b) /\ Buffers(b) = Buffers(c)
        /\ DefinitionState(b) = "Modified"
        /\ TextOf(b.field["Definition"]) = TextIn(c, "Modified")
        /\ Definition(b) = TextIn(c, "Modified")
    BY <2>1, <2>2, MovedVersion DEF States
  <2>4. /\ b.published = a.published /\ b.local = a.local /\ b.current = text
        /\ b.localModified = a.localModified /\ TextIn(c, "Modified") = text
    BY <2>2, <2>3 DEF Buffers, TextIn
  <2>5. /\ Depth(b) = 2 /\ Level1(b) = Level1(a) /\ Level2(b) = Level2(a)
        /\ Saved(b) = Saved(a) /\ LocalDefinition(b) = LocalDefinition(a)
    BY <2>3, <2>4 DEF Follows, Saved, LocalDefinition
  <2>6. TextsOK(b)
    BY <1>4, <2>3, <2>4, <2>5 DEF TextsOK
  <2>7. Exact(a) /\ text # Empty => Exact(b)
    BY <2>3, <2>4, <2>5 DEF Exact
  <2> QED
    BY <2>3, <2>4, <2>6, <2>7
<1>5. CASE ~saved /\ a.current = text /\ text = Empty /\ Definition(a) # Empty
  <2>1. b = UpdateVersion(a, "Modified")
    BY <1>1, <1>5 DEF SetCurrent
  <2>2. /\ Follows(a, b) /\ OnlyText(a, b) /\ Buffers(b) = Buffers(a)
        /\ DefinitionState(b) = "Modified"
    BY <2>1, VersionFacts DEF States
  <2>3. /\ b.published = a.published /\ b.local = a.local /\ b.current = text
        /\ b.localModified = a.localModified
    BY <1>5, <2>2 DEF Buffers
  <2>4. /\ Depth(b) = 2 /\ Level1(b) = Level1(a) /\ Level2(b) = Level2(a)
        /\ LocalDefinition(b) = LocalDefinition(a)
    BY <2>2, <2>3 DEF Follows, LocalDefinition
  <2>5. TextsOK(b)
    BY <1>5, <2>2, <2>3, <2>4 DEF TextsOK
  <2> QED
    BY <1>5, <2>2, <2>5
<1>6. CASE ~saved /\ a.current = text /\ ~(text = Empty /\ Definition(a) # Empty)
  <2>1. b = a
    BY <1>1, <1>6 DEF SetCurrent
  <2>2. Exact(a) /\ text # Empty => TextOf(a.field["Definition"]) = text
    BY <1>6 DEF Exact, TextsOK, Definition, TextIn
  <2> QED
    BY <2>1, <2>2, FollowsSelf
<1> QED
  BY <1>2, <1>3, <1>4, <1>5, <1>6

\* What SaveCurrent makes of an asset whose definition was modified
LEMMA KeepCurrentFacts ==
    ASSUME NEW a, Tracked(a), Depth(a) = 2, TextsOK(a), DefinitionState(a) = "Modified",
           NEW b, b = KeepCurrent(a)
    PROVE  /\ Follows(a, b) /\ OnlyText(a, b)
           /\ DefinitionState(b) # "Modified" /\ b.current = Empty
           /\ b.local # Empty => b.localModified /\ b.local # b.published
           /\ Exact(a) =>
                 /\ b.localModified <=> b.local # Empty
                 /\ DefinitionState(b) = Saved(b) /\ b.published = a.published
                 /\ TextOf(b.field["Definition"]) = Definition(b)
                 /\ TextOf(b.field["Definition"]) = TextOf(a.field["Definition"])
<1>1. a.current # LocalDefinition(a) /\ a.current \in Texts
      /\ (a.local # Empty => a.localModified /\ a.local # a.published)
  BY Parts DEF TextsOK, Tracked
<1>2. Exact(a) => a.current # Empty /\ TextOf(a.field["Definition"]) = a.current
  BY DEF Exact, Definition, TextIn
<1>3. CASE a.current = a.published
  <2> DEFINE c == [a EXCEPT !.current = Empty, !.local = Empty, !.localModified = FALSE]
  <2>1. b = UpdateVersion(c, "None")
    BY <1>3 DEF KeepCurrent
  <2>2. /\ Moved(a, c) /\ c.published = a.published
        /\ c.local = Empty /\ c.current = Empty /\ c.localModified = FALSE
    BY AssetAssumption DEF Moved, Tracked, Asset, Flags
  <2> HIDE DEF c
  <2>3. /\ Follows(a, b) /\ OnlyText(a, b) /\ Buffers(b) = Buffers(c)
        /\ DefinitionState(b) = "None"
        /\ TextOf(b.field["Definition"]) = TextIn(c, "None")
        /\ Definition(b) = TextIn(c, "None")
    BY <2>1, <2>2, MovedVersion DEF States
  <2>4. /\ b.published = a.published /\ b.local = Empty /\ b.current = Empty
        /\ b.localModified = FALSE /\ TextIn(c, "None") = a.published
    BY <2>2, <2>3 DEF Buffers, TextIn
  <2> QED
    BY <1>2, <1>3, <2>3, <2>4 DEF Saved
<1>4. CASE a.current # a.published /\ a.local # a.current
  <2> DEFINE c == [a EXCEPT !.local = a.current, !.current = Empty, !.localModified = TRUE]
  <2>1. b = UpdateVersion(c, "Unpublished")
    BY <1>4 DEF KeepCurrent
  <2>2. /\ Moved(a, c) /\ c.published = a.published
        /\ c.local = a.current /\ c.current = Empty /\ c.localModified = TRUE
    BY <1>1, AssetAssumption DEF Moved, Tracked, Asset, Flags
  <2> HIDE DEF c
  <2>3. /\ Follows(a, b) /\ OnlyText(a, b) /\ Buffers(b) = Buffers(c)
        /\ DefinitionState(b) = "Unpublished"
        /\ TextOf(b.field["Definition"]) = TextIn(c, "Unpublished")
        /\ Definition(b) = TextIn(c, "Unpublished")
    BY <2>1, <2>2, MovedVersion DEF States
  <2>4. /\ b.published = a.published /\ b.local = a.current /\ b.current = Empty
        /\ b.localModified = TRUE /\ TextIn(c, "Unpublished") = a.current
    BY <2>2, <2>3 DEF Buffers, TextIn
  <2> QED
    BY <1>2, <1>4, <2>3, <2>4 DEF Saved
<1>5. CASE a.current # a.published /\ a.local = a.current
  <2>1. a.local = Empty /\ a.localModified \in BOOLEAN /\ ~a.localModified
    BY <1>1, <1>5, Parts DEF LocalDefinition, Tracked
  <2>2. b = UpdateVersion(a, "Unpublished")
    BY <1>5, <2>1 DEF KeepCurrent
  <2>3. /\ Follows(a, b) /\ OnlyText(a, b) /\ Buffers(b) = Buffers(a)
        /\ DefinitionState(b) = "Unpublished"
    BY <2>2, VersionFacts DEF States
  <2>4. b.local = Empty /\ b.current = Empty
    BY <1>5, <2>1, <2>3 DEF Buffers
  <2> QED
    BY <1>2, <1>5, <2>1, <2>3, <2>4
<1> QED
  BY <1>3, <1>4, <1>5

-----------------------------------------------------------------------------
(* Commit, revert and the checkpoints                                      *)

LEMMA WithChangesFacts ==
    ASSUME NEW a, Tracked(a), NEW changes \in AssetChanges, NEW b, b = WithChanges(a, changes)
    PROVE  /\ Tracked(b) /\ b.field = a.field /\ b.txns = a.txns /\ b.changes = changes
           /\ b.isModified = a.isModified
           /\ Depth(b) = Depth(a) /\ Level1(b) = Level1(a) /\ Level2(b) = Level2(a)
           /\ Buffers(b) = Buffers(a) /\ Flags(b) = Flags(a)
<1>1. /\ b \in Asset /\ b.field = a.field /\ b.txns = a.txns /\ b.changes = changes
      /\ b.isModified = a.isModified
      /\ Buffers(b) = Buffers(a) /\ Flags(b) = Flags(a)
  BY DEF Tracked, Asset, WithChanges, Buffers, Flags
<1>2. Depth(b) = Depth(a) /\ Level1(b) = Level1(a) /\ Level2(b) = Level2(a)
  BY <1>1 DEF Depth, Level1, Level2
<1> QED
  BY <1>1, <1>2 DEF Tracked

LEMMA BufferFacts ==
    ASSUME NEW a, NEW b, Buffers(b) = Buffers(a)
    PROVE  /\ b.published = a.published /\ b.local = a.local /\ b.current = a.current
           /\ b.localModified = a.localModified
           /\ Saved(b) = Saved(a) /\ LocalDefinition(b) = LocalDefinition(a)
           /\ \A state : TextIn(b, state) = TextIn(a, state)
BY DEF Buffers, Saved, LocalDefinition, TextIn

\* CommitTransaction, when the current state becomes the local checkpoint
LEMMA CommitLocalFacts ==
    ASSUME NEW a, Tracked(a), Depth(a) = 2, TextsOK(a), NEW b, b = Commit(a)
    PROVE  /\ Tracked(b) /\ Depth(b) = 1 /\ OnlyText(a, b) /\ Level1(b) = Level2(a)
           /\ Flags(b) = Flags(a) /\ TextsOK(b) /\ DefinitionState(b) # "Modified"
           /\ Exact(a) => /\ Exact(b)
                          /\ TextOf(b.field["Definition"]) = TextOf(a.field["Definition"])
<1> DEFINE changes == IF a.changes = "New" THEN "Modified" ELSE a.changes
           c == WithChanges(a, changes)
           d == SaveCurrent(a)
<1>1. changes \in AssetChanges
  BY Parts DEF AssetChanges, Tracked
<1> HIDE DEF changes
<1>2. /\ Tracked(c) /\ c.field = a.field /\ Depth(c) = 2
      /\ Level1(c) = Level1(a) /\ Level2(c) = Level2(a)
      /\ Buffers(c) = Buffers(a) /\ Flags(c) = Flags(a)
  BY <1>1, WithChangesFacts
<1>3. [a EXCEPT !.changes = IF @ = "New" THEN "Modified" ELSE @] = c
  BY DEF Tracked, Asset, WithChanges, changes
<1>4. d = IF DefinitionState(c) = "Modified" THEN KeepCurrent(c) ELSE c
  BY <1>3 DEF SaveCurrent
<1> HIDE DEF c, d
<1>5. /\ TextsOK(c) /\ (Exact(a) => Exact(c)) /\ DefinitionState(c) = DefinitionState(a)
  <2>1. DefinitionState(c) = DefinitionState(a) /\ Definition(c) = Definition(a)
    BY <1>2, BufferFacts DEF DefinitionState, Definition
  <2>2. /\ c.published = a.published /\ c.local = a.local /\ c.current = a.current
        /\ c.localModified = a.localModified
        /\ Saved(c) = Saved(a) /\ LocalDefinition(c) = LocalDefinition(a)
    BY <1>2, BufferFacts
  <2>3. TextsOK(c)
    BY <1>2, <2>1, <2>2 DEF TextsOK
  <2>4. Exact(a) => Exact(c)
    BY <1>2, <2>1, <2>2 DEF Exact
  <2> QED
    BY <2>1, <2>3, <2>4
<1>6. /\ Tracked(d) /\ Depth(d) = 2 /\ Level1(d) = Level1(a) /\ Level2(d) = Level2(a)
      /\ OnlyText(a, d) /\ Flags(d) = Flags(a)
      /\ DefinitionState(d) # "Modified" /\ d.current = Empty
      /\ d.local # Empty => d.localModified /\ d.local # d.published
      /\ Exact(a) => /\ d.localModified <=> d.local # Empty
                     /\ DefinitionState(d) = Saved(d) /\ d.published = a.published
                     /\ TextOf(d.field["Definition"]) = Definition(d)
                     /\ TextOf(d.field["Definition"]) = TextOf(a.field["Definition"])
  <2>1. CASE DefinitionState(c) = "Modified"
    <3>1. d = KeepCurrent(c)
      BY <1>4, <2>1
    <3>2. /\ Follows(c, d) /\ OnlyText(c, d)
          /\ DefinitionState(d) # "Modified" /\ d.current = Empty
          /\ d.local # Empty => d.localModified /\ d.local # d.published
          /\ Exact(c) =>
                /\ d.localModified <=> d.local # Empty
                /\ DefinitionState(d) = Saved(d) /\ d.published = c.published
                /\ TextOf(d.field["Definition"]) = Definition(d)
                /\ TextOf(d.field["Definition"]) = TextOf(c.field["Definition"])
      BY <1>2, <1>5, <2>1, <3>1, KeepCurrentFacts
    <3>3. c.published = a.published
      BY <1>2, BufferFacts
    <3> QED
      BY <1>2, <1>5, <3>2, <3>3 DEF Follows, OnlyText
  <2>2. CASE DefinitionState(c) # "Modified"
    <3>1. d = c /\ c.published = a.published
      BY <1>2, <1>4, <2>2, BufferFacts
    <3>2. Exact(c) => DefinitionState(c) = Saved(c)
      BY <2>2 DEF Exact
    <3> QED
      BY <1>2, <1>5, <2>2, <3>1, <3>2 DEF TextsOK, Exact, OnlyText
  <2> QED
    BY <2>1, <2>2
<1>7. b = BaseCommit(d)
  BY DEF Commit, d
<1>8. /\ Tracked(b) /\ b.field = d.field /\ Depth(b) = 1
      /\ Level1(b) = Level2(a) /\ Buffers(b) = Buffers(d) /\ Flags(b) = Flags(a)
  BY <1>6, <1>7, BaseCommitFacts
<1>9. DefinitionState(b) = DefinitionState(d) /\ Definition(b) = Definition(d)
  BY <1>8, BufferFacts DEF DefinitionState, Definition
<1>10. /\ b.published = d.published /\ b.local = d.local /\ b.current = d.current
       /\ b.localModified = d.localModified /\ Saved(b) = Saved(d)
  BY <1>8, BufferFacts
<1>11. TextsOK(b)
  BY <1>6, <1>8, <1>9, <1>10 DEF TextsOK
<1>12. Exact(a) => Exact(b)
  BY <1>6, <1>8, <1>9, <1>10 DEF Exact
<1> QED
  BY <1>6, <1>8, <1>9, <1>11, <1>12 DEF OnlyText

\* CommitTransaction, when the local checkpoint becomes the server's
LEMMA CommitServerFacts ==
    ASSUME NEW a, Tracked(a), Depth(a) = 1, TextsOK(a), DefinitionState(a) # "Modified",
           NEW b, b = Commit(a)
    PROVE  /\ Tracked(b) /\ Depth(b) = 0 /\ OnlyText(a, b)
           /\ Flags(b) = Flags(a) /\ TextsOK(b) /\ DefinitionState(b) # "Modified"
           /\ Exact(a) => /\ Exact(b) /\ DefinitionState(b) = "None"
                          /\ TextOf(b.field["Definition"]) = TextOf(a.field["Definition"])
<1> DEFINE d == PublishLocal(a)
<1>1. b = BaseCommit(d)
  BY DEF Commit
<1> HIDE DEF d
<1>2. /\ Tracked(d) /\ Depth(d) = 1 /\ OnlyText(a, d) /\ Flags(d) = Flags(a)
      /\ DefinitionState(d) # "Modified" /\ d.current = Empty
      /\ d.local # Empty => d.localModified /\ d.local # d.published
      /\ Exact(a) => /\ d.local = Empty /\ ~d.localModified
                     /\ DefinitionState(d) = "None"
                     /\ TextOf(d.field["Definition"]) = Definition(d)
                     /\ TextOf(d.field["Definition"]) = TextOf(a.field["Definition"])
  <2>1. CASE DefinitionState(a) # "Unpublished" \/ ~a.localModified
    <3>1. d = a
      BY <2>1 DEF PublishLocal, d
    <3>2. Exact(a) => DefinitionState(a) = "None" /\ ~a.localModified /\ a.local = Empty
      BY <2>1 DEF Exact, Saved
    <3> QED
      BY <3>1, <3>2 DEF TextsOK, Exact, OnlyText
  <2>2. CASE DefinitionState(a) = "Unpublished" /\ a.localModified
    <3> DEFINE c == [a EXCEPT !.published = a.local, !.local = Empty, !.localModified = FALSE]
    <3>1. d = UpdateVersion(c, "None")
      BY <2>2 DEF PublishLocal, d
    <3>2. /\ Moved(a, c) /\ c.published = a.local
          /\ c.local = Empty /\ c.current = a.current /\ c.localModified = FALSE
      <4>1. a.local \in Texts
        BY Parts DEF Tracked
      <4> QED
        BY <4>1, AssetAssumption DEF Moved, Tracked, Asset, Flags
    <3> HIDE DEF c
    <3>3. /\ Follows(a, d) /\ OnlyText(a, d) /\ Buffers(d) = Buffers(c)
          /\ DefinitionState(d) = "None"
          /\ TextOf(d.field["Definition"]) = TextIn(c, "None")
          /\ Definition(d) = TextIn(c, "None")
      BY <3>1, <3>2, MovedVersion DEF States
    <3>4. /\ d.local = Empty /\ d.current = Empty /\ d.localModified = FALSE
          /\ TextIn(c, "None") = a.local
      BY <3>2, <3>3 DEF Buffers, TextIn, TextsOK
    <3>5. Exact(a) => TextOf(a.field["Definition"]) = a.local
      BY <2>2 DEF Exact, Definition, TextIn
    <3> QED
      BY <3>3, <3>4, <3>5 DEF Follows
  <2> QED
    BY <2>1, <2>2
<1>3. /\ Tracked(b) /\ b.field = d.field /\ Depth(b) = 0
      /\ Buffers(b) = Buffers(d) /\ Flags(b) = Flags(a)
  BY <1>1, <1>2, BaseCommitFacts
<1>4. DefinitionState(b) = DefinitionState(d) /\ Definition(b) = Definition(d)
  BY <1>3, BufferFacts DEF DefinitionState, Definition
<1>5. /\ b.published = d.published /\ b.local = d.local /\ b.current = d.current
      /\ b.localModified = d.localModified /\ Saved(b) = Saved(d)
  BY <1>3, BufferFacts
<1>6. TextsOK(b)
  BY <1>2, <1>3, <1>4, <1>5 DEF TextsOK
<1>7. Exact(a) => Exact(b)
  BY <1>2, <1>3, <1>4, <1>5 DEF Exact, Saved
<1> QED
  BY <1>2, <1>3, <1>4, <1>6, <1>7 DEF OnlyText

\* RevertTransaction finds a state that it expects.
LEMMA RevertFacts ==
    ASSUME NEW a, Tracked(a), Depth(a) # 0, TextsOK(a), NEW b, b = Revert(a)
    PROVE  /\ Tracked(b) /\ b.field = Level1(a) /\ Depth(b) = Depth(a) - 1
           /\ Depth(a) = 2 => Level1(b) = Level2(a)
           /\ Flags(b) = Flags(a) /\ TextsOK(b) /\ DefinitionState(b) # "Modified"
           /\ Exact(a) => Exact(b)
<1> DEFINE d == BaseRevert(a)
<1>1. /\ Tracked(d) /\ d.field = Level1(a) /\ Depth(d) = Depth(a) - 1
      /\ Depth(a) = 2 => Level1(d) = Level2(a)
      /\ Buffers(d) = Buffers(a) /\ Flags(d) = Flags(a)
  BY BaseRevertFacts
<1>2. b = FollowState(d)
  BY DEF Revert
<1> HIDE DEF d
<1>3. /\ d.published = a.published /\ d.local = a.local /\ d.current = a.current
      /\ d.localModified = a.localModified /\ Depth(a) \in {1, 2}
  BY <1>1, BufferFacts DEF Tracked
<1>4. DefinitionState(d) \in {"None", "Unpublished"}
  <2>1. d.field \in Fields
    BY <1>1, Parts DEF Tracked
  <2> QED
    BY <1>1, <2>1, StateFacts DEF DefinitionState, States, TextsOK
<1>5. /\ Moved(d, b) /\ b.published = a.published /\ b.current = Empty
      /\ DefinitionState(d) = "None" => b.local = Empty /\ b.localModified = FALSE
      /\ DefinitionState(d) = "Unpublished" =>
            b.local = a.local /\ b.localModified = (a.local # a.published)
  <2>1. CASE DefinitionState(d) = "None"
    <3>1. b = [d EXCEPT !.current = Empty, !.local = Empty, !.localModified = FALSE]
      BY <1>2, <2>1 DEF FollowState
    <3> QED
      BY <1>1, <1>3, <2>1, <3>1, AssetAssumption DEF Moved, Tracked, Asset, Flags
  <2>2. CASE DefinitionState(d) = "Unpublished"
    <3>1. b = [d EXCEPT !.current = Empty, !.localModified = (d.local # d.published)]
      BY <1>2, <2>2 DEF FollowState
    <3>2. (d.local # d.published) \in BOOLEAN
      OBVIOUS
    <3> QED
      BY <1>1, <1>3, <2>2, <3>1, <3>2, AssetAssumption DEF Moved, Tracked, Asset, Flags
  <2> QED
    BY <1>4, <2>1, <2>2
<1>6. /\ Follows(d, b) /\ DefinitionState(b) = DefinitionState(d) /\ b.field = d.field
  BY <1>1, <1>5, FollowsMoved DEF Moved
<1>7. /\ Tracked(b) /\ Depth(b) = Depth(a) - 1 /\ (Depth(a) = 2 => Level1(b) = Level2(a))
      /\ Flags(b) = Flags(a)
  <2>1. Depth(a) = 2 => Depth(d) # 0
    BY <1>1
  <2> QED
    BY <1>1, <1>6, <2>1 DEF Follows
<1>8. TextsOK(b)
  <2>1. b.local # Empty => b.localModified /\ b.local # b.published
    BY <1>4, <1>5 DEF TextsOK
  <2>2. Depth(b) # 0 => Depth(a) = 2 /\ Depth(b) = 1
    BY <1>3, <1>7
  <2> QED
    BY <1>3, <1>4, <1>5, <1>6, <1>7, <2>1, <2>2 DEF TextsOK
<1>9. ASSUME Exact(a) PROVE Exact(b)
  <2>1. /\ Depth(a) = 1 => DefinitionState(b) = "None"
        /\ Depth(a) = 2 => DefinitionState(b) = Saved(a)
    BY <1>1, <1>6, <1>9 DEF Exact, DefinitionState
  <2>2. /\ b.localModified <=> b.local # Empty
        /\ DefinitionState(b) = Saved(b)
        /\ Depth(a) = 2 => b.local = a.local
    BY <1>3, <1>4, <1>5, <1>6, <1>9, <2>1 DEF Exact, TextsOK, Saved
  <2>3. TextOf(b.field["Definition"]) = Definition(b)
    BY <1>1, <1>3, <1>5, <1>6, <1>9, <2>1, <2>2
       DEF Exact, Definition, TextIn, LocalDefinition, Saved
  <2>4. Depth(b) # 2 /\ (Depth(b) = 1 => Depth(a) = 2)
    BY <1>3, <1>7
  <2> QED
    BY <1>4, <1>5, <1>6, <1>7, <1>9, <2>2, <2>3, <2>4 DEF Exact
<1> QED
  BY <1>1, <1>4, <1>6, <1>7, <1>8, <1>9

\* At rest
Whole(a) ==
    /\ Tracked(a) /\ Depth(a) = 2 /\ Flags(a) = <<FALSE, FALSE>>
    /\ Agrees(a) /\ TextsOK(a)

LEMMA CreateServerFacts ==
    ASSUME NEW a, Tracked(a), Depth(a) = 0, TextsOK(a), DefinitionState(a) # "Modified",
           NEW b, b = CreateServerCheckpoint(a)
    PROVE  /\ Tracked(b) /\ Depth(b) = 1 /\ b.field = a.field /\ Level1(b) = a.field
           /\ Flags(b) = Flags(a) /\ TextsOK(b) /\ DefinitionState(b) # "Modified"
           /\ Buffers(b) = Buffers(a)
           /\ Exact(a) /\ DefinitionState(a) = "None" => Exact(b)
<1> DEFINE d == BeginTransaction(a)
<1>1. b = WithChanges(d, "None")
  BY DEF CreateServerCheckpoint
<1>2. /\ Tracked(d) /\ d.field = a.field /\ Depth(d) = 1
      /\ Level1(d) = a.field /\ Buffers(d) = Buffers(a) /\ Flags(d) = Flags(a)
  BY BeginFacts
<1> HIDE DEF d
<1>3. /\ Tracked(b) /\ b.field = d.field /\ Depth(b) = 1 /\ Level1(b) = Level1(d)
      /\ Buffers(b) = Buffers(d) /\ Flags(b) = Flags(d)
  BY <1>1, <1>2, WithChangesFacts DEF AssetChanges
<1>4. DefinitionState(b) = DefinitionState(a) /\ Definition(b) = Definition(a)
  BY <1>2, <1>3, BufferFacts DEF DefinitionState, Definition
<1>5. /\ b.published = a.published /\ b.local = a.local /\ b.current = a.current
      /\ b.localModified = a.localModified /\ Saved(b) = Saved(a)
      /\ LocalDefinition(b) = LocalDefinition(a)
  BY <1>2, <1>3, BufferFacts
<1>6. TextsOK(b)
  BY <1>2, <1>3, <1>4, <1>5 DEF TextsOK, DefinitionState
<1>7. Exact(a) /\ DefinitionState(a) = "None" => Exact(b)
  BY <1>2, <1>3, <1>4, <1>5 DEF Exact, DefinitionState, Definition, TextIn
<1> QED
  BY <1>2, <1>3, <1>4, <1>6, <1>7

LEMMA CreateLocalFacts ==
    ASSUME NEW a, Tracked(a), Depth(a) = 1, TextsOK(a), DefinitionState(a) # "Modified",
           NEW b, b = CreateLocalCheckpoint(a)
    PROVE  /\ Tracked(b) /\ Depth(b) = 2 /\ b.field = a.field
           /\ Level1(b) = a.field /\ Level2(b) = Level1(a)
           /\ Flags(b) = Flags(a) /\ Agrees(b) /\ TextsOK(b)
           /\ ~b.isModified /\ b.changes \in {"None", "Unpublished"}
           /\ Exact(a) => Exact(b)
<1> DEFINE d == BeginTransaction(a)
           changes == IF HasOriginals(a.txns[1]) THEN "Unpublished" ELSE "None"
<1>1. b = WithChanges(d, changes) /\ changes \in AssetChanges
  BY DEF CreateLocalCheckpoint, AssetChanges
<1>2. /\ Tracked(d) /\ d.field = a.field /\ Depth(d) = 2
      /\ Level1(d) = a.field /\ Level2(d) = Level1(a) /\ d.txns[2] = a.txns[1]
      /\ Buffers(d) = Buffers(a) /\ Flags(d) = Flags(a) /\ ~d.isModified
  BY BeginFacts
<1> HIDE DEF d
<1>3. /\ Tracked(b) /\ b.field = d.field /\ Depth(b) = 2 /\ Level1(b) = Level1(d)
      /\ Level2(b) = Level2(d) /\ b.txns = d.txns /\ b.changes = changes
      /\ b.isModified = d.isModified
      /\ Buffers(b) = Buffers(d) /\ Flags(b) = Flags(d)
  <2> HIDE DEF changes
  <2> QED
    BY <1>1, <1>2, WithChangesFacts
<1>4. DefinitionState(b) = DefinitionState(a) /\ Definition(b) = Definition(a)
  BY <1>2, <1>3, BufferFacts DEF DefinitionState, Definition
<1>5. /\ b.published = a.published /\ b.local = a.local /\ b.current = a.current
      /\ b.localModified = a.localModified /\ Saved(b) = Saved(a)
      /\ LocalDefinition(b) = LocalDefinition(a)
  BY <1>2, <1>3, BufferFacts
<1>6. TextsOK(b)
  BY <1>2, <1>3, <1>4, <1>5 DEF TextsOK, DefinitionState
<1>7. ~b.isModified /\ Agrees(b)
  BY <1>2, <1>3 DEF Agrees
<1>8. Exact(a) => Exact(b)
  <2>1. Exact(a) => /\ DefinitionState(a) = Saved(a)
                    /\ TextOf(a.field["Definition"]) = LocalDefinition(a)
    BY DEF Exact, Saved, Definition, TextIn, LocalDefinition
  <2> QED
    BY <1>2, <1>3, <1>4, <1>5, <2>1 DEF Exact, DefinitionState
<1> QED
  BY <1>2, <1>3, <1>6, <1>7, <1>8

LEMMA FreshFacts ==
    ASSUME NEW a, Tracked(a), Depth(a) = 0, TextsOK(a), DefinitionState(a) # "Modified",
           NEW b, b = FreshCheckpoints(a)
    PROVE  /\ Tracked(b) /\ Depth(b) = 2 /\ b.field = a.field
           /\ Level1(b) = a.field /\ Level2(b) = a.field
           /\ Flags(b) = Flags(a) /\ Agrees(b) /\ TextsOK(b)
           /\ ~b.isModified /\ b.changes = "None"
           /\ Exact(a) /\ DefinitionState(a) = "None" => Exact(b)
<1> DEFINE c == BeginTransaction(a)
           d == BeginTransaction(c)
<1>1. b = WithChanges(d, "None")
  BY DEF FreshCheckpoints
<1>2. /\ Tracked(c) /\ c.field = a.field /\ Depth(c) = 1 /\ ~c.isModified
      /\ Level1(c) = a.field /\ Buffers(c) = Buffers(a) /\ Flags(c) = Flags(a)
  BY BeginFacts
<1> HIDE DEF c
<1>3. /\ Tracked(d) /\ d.field = a.field /\ Depth(d) = 2
      /\ Level1(d) = a.field /\ Level2(d) = a.field /\ d.txns[2] = c.txns[1]
      /\ Buffers(d) = Buffers(a) /\ Flags(d) = Flags(a) /\ ~d.isModified
  BY <1>2, BeginFacts
<1> HIDE DEF d
<1>4. /\ Tracked(b) /\ b.field = d.field /\ Depth(b) = 2 /\ Level1(b) = Level1(d)
      /\ Level2(b) = Level2(d) /\ b.txns = d.txns /\ b.changes = "None"
      /\ b.isModified = d.isModified
      /\ Buffers(b) = Buffers(d) /\ Flags(b) = Flags(d)
  BY <1>1, <1>3, WithChangesFacts DEF AssetChanges
<1>5. DefinitionState(b) = DefinitionState(a) /\ Definition(b) = Definition(a)
  BY <1>3, <1>4, BufferFacts DEF DefinitionState, Definition
<1>6. /\ b.published = a.published /\ b.local = a.local /\ b.current = a.current
      /\ b.localModified = a.localModified /\ Saved(b) = Saved(a)
      /\ LocalDefinition(b) = LocalDefinition(a)
  BY <1>3, <1>4, BufferFacts
<1>7. TextsOK(b)
  BY <1>3, <1>4, <1>5, <1>6 DEF TextsOK, DefinitionState
<1>8. ~b.isModified /\ Agrees(b)
  <2>1. ~HasOriginals(b.txns[2])
    BY <1>2, <1>3, <1>4 DEF Tracked
  <2> QED
    BY <1>3, <1>4, <2>1 DEF Agrees
<1>9. Exact(a) /\ DefinitionState(a) = "None" => Exact(b)
  <2>1. Exact(a) /\ DefinitionState(a) = "None" =>
           /\ DefinitionState(a) = Saved(a)
           /\ TextOf(a.field["Definition"]) = LocalDefinition(a)
           /\ TextOf(a.field["Definition"]) = a.published
    BY DEF Exact, Saved, Definition, TextIn, LocalDefinition
  <2> QED
    BY <1>3, <1>4, <1>5, <1>6, <2>1 DEF Exact, DefinitionState
<1> QED
  BY <1>3, <1>4, <1>7, <1>8, <1>9

\* BeginUpdate, and EndUpdate once the checkpoints are there again
LEMMA UpdatingFacts ==
    ASSUME NEW a, Tracked(a), TextsOK(a), NEW b, b = BeginUpdate(a)
    PROVE  /\ Tracked(b) /\ TextsOK(b) /\ b.field = a.field /\ Depth(b) = Depth(a)
           /\ Level1(b) = Level1(a) /\ Level2(b) = Level2(a) /\ Buffers(b) = Buffers(a)
           /\ DefinitionState(b) = DefinitionState(a) /\ b.txns = a.txns
           /\ b.isModified = a.isModified
           /\ Flags(b) = <<TRUE, a.failed>>
           /\ Exact(a) => Exact(b)
<1>1. /\ b \in Asset /\ b.field = a.field /\ b.txns = a.txns /\ b.changes = a.changes
      /\ b.isModified = a.isModified
      /\ Buffers(b) = Buffers(a) /\ Flags(b) = <<TRUE, a.failed>>
  BY DEF Tracked, Asset, BeginUpdate, Buffers, Flags
<1>2. Depth(b) = Depth(a) /\ Level1(b) = Level1(a) /\ Level2(b) = Level2(a)
  BY <1>1 DEF Depth, Level1, Level2
<1>3. DefinitionState(b) = DefinitionState(a) /\ Definition(b) = Definition(a)
  BY <1>1, BufferFacts DEF DefinitionState, Definition
<1>4. /\ b.published = a.published /\ b.local = a.local /\ b.current = a.current
      /\ b.localModified = a.localModified /\ Saved(b) = Saved(a)
      /\ LocalDefinition(b) = LocalDefinition(a)
  BY <1>1, BufferFacts
<1>5. Tracked(b)
  BY <1>1, <1>2 DEF Tracked
<1>6. TextsOK(b)
  BY <1>2, <1>3, <1>4 DEF TextsOK
<1>7. Exact(a) => Exact(b)
  BY <1>1, <1>2, <1>3, <1>4 DEF Exact
<1> QED
  BY <1>1, <1>2, <1>3, <1>5, <1>6, <1>7

LEMMA EndUpdateFacts ==
    ASSUME NEW a, Tracked(a), Depth(a) = 2, TextsOK(a), Agrees(a), ~a.isModified,
           a.changes \in {"None", "Unpublished"}, NEW was \in BOOLEAN, ~a.failed,
           NEW b, b = EndUpdate(a, was)
    PROVE  /\ Whole(b) /\ b.field = a.field /\ Level1(b) = Level1(a) /\ Level2(b) = Level2(a)
           /\ Buffers(b) = Buffers(a) /\ b.changes = a.changes
           /\ Exact(a) => Exact(b)
<1> DEFINE d == [a EXCEPT !.updating = FALSE]
           e == WithChanges(d, NotedChanges(d))
<1>1. /\ d \in Asset /\ d.field = a.field /\ d.txns = a.txns /\ d.changes = a.changes
      /\ d.isModified = a.isModified
      /\ Buffers(d) = Buffers(a) /\ Flags(d) = <<FALSE, a.failed>> /\ a.failed = FALSE
  BY Parts DEF Tracked, Asset, Buffers, Flags
<1>2. b = IF d.isModified = was \/ IsUpdating(d) THEN d ELSE e
  BY DEF EndUpdate, WithChanges
<1> HIDE DEF d
<1>3. Depth(d) = 2 /\ Level1(d) = Level1(a) /\ Level2(d) = Level2(a) /\ Tracked(d)
  <2>1. Depth(d) = Depth(a) /\ Level1(d) = Level1(a) /\ Level2(d) = Level2(a)
    BY <1>1 DEF Depth, Level1, Level2
  <2> QED
    BY <1>1, <2>1 DEF Tracked
<1>4. NotedChanges(d) = a.changes
  <2>1. NotedChanges(d) = IF HasOriginals(a.txns[2]) THEN "Unpublished" ELSE "None"
    BY <1>1 DEF NotedChanges
  <2> QED
    BY <2>1 DEF Agrees
<1>5. a.changes \in AssetChanges
  BY Parts DEF Tracked
<1>6. /\ Tracked(b) /\ b.field = a.field /\ b.txns = a.txns /\ b.changes = a.changes
      /\ b.isModified = a.isModified /\ Depth(b) = 2
      /\ Level1(b) = Level1(a) /\ Level2(b) = Level2(a)
      /\ Buffers(b) = Buffers(a) /\ Flags(b) = <<FALSE, FALSE>>
  <2>1. CASE b = d
    BY <1>1, <1>3, <2>1
  <2>2. CASE b = WithChanges(d, a.changes)
    <3>1. /\ Tracked(b) /\ b.field = d.field /\ b.txns = d.txns /\ b.changes = a.changes
          /\ b.isModified = d.isModified
          /\ Depth(b) = Depth(d) /\ Level1(b) = Level1(d) /\ Level2(b) = Level2(d)
      BY <1>3, <1>5, <2>2, WithChangesFacts
    <3>2. Buffers(b) = Buffers(d)
      BY <1>3, <1>5, <2>2, WithChangesFacts
    <3>3. Flags(b) = Flags(d)
      BY <1>3, <1>5, <2>2, WithChangesFacts
    <3> QED
      BY <1>1, <1>3, <3>1, <3>2, <3>3
  <2> QED
    BY <1>2, <1>4, <2>1, <2>2
<1>7. DefinitionState(b) = DefinitionState(a) /\ Definition(b) = Definition(a)
  BY <1>6, BufferFacts DEF DefinitionState, Definition
<1>8. /\ b.published = a.published /\ b.local = a.local /\ b.current = a.current
      /\ b.localModified = a.localModified /\ Saved(b) = Saved(a)
      /\ LocalDefinition(b) = LocalDefinition(a)
  BY <1>6, BufferFacts
<1>9. TextsOK(b)
  BY <1>6, <1>7, <1>8 DEF TextsOK
<1>10. Exact(a) => Exact(b)
  BY <1>6, <1>7, <1>8 DEF Exact
<1>11. Agrees(b)
  BY <1>6 DEF Agrees
<1> QED
  BY <1>6, <1>9, <1>10, <1>11 DEF Whole

-----------------------------------------------------------------------------
(* What the operations do at rest.                                         *)

OneCategory(a) ==
    /\ Level1(a)["Category"] = a.field["Category"]
    /\ Level2(a)["Category"] = a.field["Category"]

\* A value other than the definition is set
LEMMA SetOtherFacts ==
    ASSUME NEW a, Tracked(a), TextsOK(a),
           NEW g \in Fields, g["Definition"] = a.field["Definition"],
           NEW b, b = SetFields(a, g)
    PROVE  /\ Follows(a, b) /\ TextsOK(b) /\ b.field = g
           /\ DefinitionState(b) = DefinitionState(a) /\ b.local = a.local
           /\ Exact(a) => Exact(b)
<1>1. /\ Tracked(b) /\ b.field = g /\ Depth(b) = Depth(a)
      /\ Depth(a) # 0 => Level1(b) = Level1(a)
      /\ Depth(a) = 2 => Level2(b) = Level2(a)
  BY SetFieldsFacts
<1>2. Buffers(b) = Buffers(a)
  BY SetFieldsFacts
<1>3. Flags(b) = Flags(a)
  BY SetFieldsFacts
<1>4. /\ ~IsUpdating(a) /\ Agrees(a) => Agrees(b)
      /\ a.changes # "Deleted" => b.changes # "Deleted"
  BY SetFieldsFacts
<1>5. /\ b.published = a.published /\ b.local = a.local /\ b.current = a.current
      /\ b.localModified = a.localModified /\ Saved(b) = Saved(a)
      /\ LocalDefinition(b) = LocalDefinition(a)
  BY <1>2, BufferFacts
<1>6. DefinitionState(b) = DefinitionState(a) /\ Definition(b) = Definition(a)
  BY <1>1, <1>2, BufferFacts DEF DefinitionState, Definition
<1>7. TextsOK(b)
  BY <1>1, <1>5, <1>6 DEF TextsOK
<1>8. Exact(a) => Exact(b)
  BY <1>1, <1>5, <1>6 DEF Exact
<1> QED
  BY <1>1, <1>3, <1>4, <1>5, <1>6, <1>7, <1>8 DEF Follows

LEMMA SetFieldFacts ==
    ASSUME NEW a, Tracked(a), TextsOK(a),
           NEW k \in Keys, k # "Definition", NEW v \in Domain(k),
           NEW b, b = SetField(a, k, v)
    PROVE  /\ Follows(a, b) /\ TextsOK(b) /\ b.field[k] = v
           /\ \A j \in Keys \ {k} : b.field[j] = a.field[j]
           /\ DefinitionState(b) = DefinitionState(a) /\ b.local = a.local
           /\ Exact(a) => Exact(b)
<1> DEFINE g == [a.field EXCEPT ![k] = v]
<1>1. a.field \in Fields
  BY Parts DEF Tracked
<1>2. /\ g \in Fields /\ g[k] = v /\ \A j \in Keys \ {k} : g[j] = a.field[j]
      /\ g["Definition"] = a.field["Definition"]
  BY <1>1, FieldFacts, KeyFacts
<1>3. b = SetFields(a, g)
  BY DEF SetField
<1> HIDE DEF g
<1> QED
  BY <1>2, <1>3, SetOtherFacts

LEMMA AssignFacts ==
    ASSUME NEW a, Tracked(a), TextsOK(a), NEW props \in [Props -> Values],
           NEW b, b = Assign(a, props)
    PROVE  /\ Follows(a, b) /\ TextsOK(b)
           /\ \A p \in Props : b.field[p] = props[p]
           /\ b.field["Category"] = a.field["Category"]
           /\ DefinitionState(b) = DefinitionState(a) /\ b.local = a.local
           /\ TextOf(b.field["Definition"]) = TextOf(a.field["Definition"])
           /\ Exact(a) => Exact(b)
<1> DEFINE g == [k \in Keys |-> IF k \in Props THEN props[k] ELSE a.field[k]]
<1>1. a.field \in Fields
  BY Parts DEF Tracked
<1>2. \A k \in Keys : g[k] \in Domain(k)
  BY <1>1, FieldFacts, KeyFacts
<1>3. \A k \in Keys : Domain(k) \subseteq AllValues
  BY DEF Domain, AllValues
<1>4. g \in Fields
  BY <1>2, <1>3 DEF Fields
<1>5. /\ \A p \in Props : g[p] = props[p]
      /\ g["Category"] = a.field["Category"] /\ g["Definition"] = a.field["Definition"]
  BY KeyFacts
<1>6. b = SetFields(a, g)
  BY DEF Assign
<1> HIDE DEF g
<1> QED
  BY <1>4, <1>5, <1>6, SetOtherFacts

\* The current state becomes the local checkpoint
LEMMA UpdateLocalFacts ==
    ASSUME NEW a, Whole(a), NEW b, b = UpdateLocalCheckpoint(a)
    PROVE  /\ Whole(b) /\ OnlyText(a, b)
           /\ Level1(b) = b.field /\ Level2(b) = Level2(a) /\ b.changes # "Deleted"
           /\ Exact(a) => /\ Exact(b)
                          /\ TextOf(b.field["Definition"]) = TextOf(a.field["Definition"])
<1> DEFINE c == Commit(a)
<1>1. Tracked(a) /\ Depth(a) = 2 /\ TextsOK(a) /\ Flags(a) = <<FALSE, FALSE>>
  BY DEF Whole
<1>2. /\ Tracked(c) /\ Depth(c) = 1 /\ OnlyText(a, c) /\ Level1(c) = Level2(a)
      /\ TextsOK(c) /\ DefinitionState(c) # "Modified"
      /\ Exact(a) => /\ Exact(c)
                     /\ TextOf(c.field["Definition"]) = TextOf(a.field["Definition"])
  BY <1>1, CommitLocalFacts
<1>3. Flags(c) = Flags(a)
  BY <1>1, CommitLocalFacts
<1>4. b = CreateLocalCheckpoint(c)
  BY DEF UpdateLocalCheckpoint
<1> HIDE DEF c
<1>5. /\ Tracked(b) /\ Depth(b) = 2 /\ b.field = c.field
      /\ Level1(b) = c.field /\ Level2(b) = Level1(c)
      /\ Agrees(b) /\ TextsOK(b) /\ (Exact(c) => Exact(b))
      /\ b.changes \in {"None", "Unpublished"}
  BY <1>2, <1>4, CreateLocalFacts
<1>6. Flags(b) = Flags(c)
  BY <1>2, <1>4, CreateLocalFacts
<1>7. Whole(b)
  BY <1>1, <1>3, <1>5, <1>6 DEF Whole
<1> QED
  BY <1>2, <1>5, <1>7 DEF OnlyText

\* ... and then the server's
LEMMA UpdateServerFacts ==
    ASSUME NEW a, Whole(a), NEW b, b = UpdateServerCheckpoint(a)
    PROVE  /\ Whole(b) /\ OnlyText(a, b)
           /\ Level1(b) = b.field /\ Level2(b) = b.field /\ b.changes # "Deleted"
           /\ Exact(a) => /\ Exact(b)
                          /\ TextOf(b.field["Definition"]) = TextOf(a.field["Definition"])
<1> DEFINE c == Commit(a)
           d == Commit(c)
<1>1. Tracked(a) /\ Depth(a) = 2 /\ TextsOK(a) /\ Flags(a) = <<FALSE, FALSE>>
  BY DEF Whole
<1>2. /\ Tracked(c) /\ Depth(c) = 1 /\ OnlyText(a, c)
      /\ TextsOK(c) /\ DefinitionState(c) # "Modified"
      /\ Exact(a) => /\ Exact(c)
                     /\ TextOf(c.field["Definition"]) = TextOf(a.field["Definition"])
  BY <1>1, CommitLocalFacts
<1>3. Flags(c) = Flags(a)
  BY <1>1, CommitLocalFacts
<1>4. b = FreshCheckpoints(d)
  BY DEF UpdateServerCheckpoint
<1> HIDE DEF c
<1>5. /\ Tracked(d) /\ Depth(d) = 0 /\ OnlyText(c, d)
      /\ TextsOK(d) /\ DefinitionState(d) # "Modified"
      /\ Exact(c) => /\ Exact(d) /\ DefinitionState(d) = "None"
                     /\ TextOf(d.field["Definition"]) = TextOf(c.field["Definition"])
  BY <1>2, CommitServerFacts
<1>6. Flags(d) = Flags(c)
  BY <1>2, CommitServerFacts
<1> HIDE DEF d
<1>7. /\ Tracked(b) /\ Depth(b) = 2 /\ b.field = d.field
      /\ Level1(b) = d.field /\ Level2(b) = d.field
      /\ Agrees(b) /\ TextsOK(b) /\ b.changes = "None"
      /\ Exact(d) /\ DefinitionState(d) = "None" => Exact(b)
  BY <1>4, <1>5, FreshFacts
<1>8. Flags(b) = Flags(d)
  BY <1>4, <1>5, FreshFacts
<1>9. Whole(b)
  BY <1>1, <1>3, <1>6, <1>7, <1>8 DEF Whole
<1> QED
  BY <1>2, <1>5, <1>7, <1>9 DEF OnlyText

LEMMA RestoreLocalFacts ==
    ASSUME NEW a, Whole(a), NEW b, b = RestoreLocalCheckpoint(a)
    PROVE  /\ Whole(b) /\ b.field = Level1(a)
           /\ Level1(b) = Level1(a) /\ Level2(b) = Level2(a) /\ b.changes # "Deleted"
           /\ Exact(a) => Exact(b)
<1> DEFINE c == Revert(a)
<1>1. Tracked(a) /\ Depth(a) # 0 /\ TextsOK(a)
  BY DEF Whole
<1>2. Depth(a) = 2 /\ Flags(a) = <<FALSE, FALSE>>
  BY DEF Whole
<1>3. /\ Tracked(c) /\ Depth(c) = 1 /\ c.field = Level1(a) /\ Level1(c) = Level2(a)
      /\ TextsOK(c) /\ DefinitionState(c) # "Modified"
      /\ Exact(a) => Exact(c)
  BY <1>1, <1>2, RevertFacts
<1>4. Flags(c) = Flags(a)
  BY <1>1, RevertFacts
<1>5. b = CreateLocalCheckpoint(c)
  BY DEF RestoreLocalCheckpoint
<1> HIDE DEF c
<1>6. /\ Tracked(b) /\ Depth(b) = 2 /\ b.field = c.field
      /\ Level1(b) = c.field /\ Level2(b) = Level1(c)
      /\ Agrees(b) /\ TextsOK(b) /\ (Exact(c) => Exact(b))
      /\ b.changes \in {"None", "Unpublished"}
  BY <1>3, <1>5, CreateLocalFacts
<1>7. Flags(b) = Flags(c)
  BY <1>3, <1>5, CreateLocalFacts
<1>8. Whole(b)
  BY <1>2, <1>4, <1>6, <1>7 DEF Whole
<1> QED
  BY <1>3, <1>6, <1>8

\* Both checkpoints are reverted while the changes are held back
LEMMA RevertTwiceFacts ==
    ASSUME NEW a, Whole(a), NEW b, b = Revert(Revert(BeginUpdate(a)))
    PROVE  /\ Tracked(b) /\ Depth(b) = 0 /\ b.field = Level2(a)
           /\ Flags(b) = <<TRUE, FALSE>>
           /\ TextsOK(b) /\ DefinitionState(b) # "Modified"
           /\ Exact(a) => Exact(b) /\ DefinitionState(b) = "None" /\ b.local = Empty
<1> DEFINE c == BeginUpdate(a)
           d == Revert(c)
<1>1. Tracked(a) /\ Depth(a) = 2 /\ TextsOK(a) /\ Flags(a) = <<FALSE, FALSE>>
      /\ a.failed = FALSE
  BY DEF Whole, Flags
<1>2. /\ Tracked(c) /\ Depth(c) = 2 /\ Level2(c) = Level2(a) /\ TextsOK(c)
      /\ Exact(a) => Exact(c)
  BY <1>1, UpdatingFacts
<1>3. Flags(c) = <<TRUE, FALSE>>
  BY <1>1, UpdatingFacts
<1> HIDE DEF c
<1>4. /\ Tracked(d) /\ Depth(d) = 1 /\ Level1(d) = Level2(c) /\ TextsOK(d)
      /\ Exact(c) => Exact(d)
  BY <1>2, RevertFacts
<1>5. Flags(d) = Flags(c)
  BY <1>2, RevertFacts
<1>6. b = Revert(d)
  BY DEF c
<1> HIDE DEF d
<1>7. /\ Tracked(b) /\ Depth(b) = 0 /\ b.field = Level1(d)
      /\ TextsOK(b) /\ DefinitionState(b) # "Modified" /\ (Exact(d) => Exact(b))
  BY <1>4, <1>6, RevertFacts
<1>8. Flags(b) = Flags(d)
  BY <1>4, <1>6, RevertFacts
<1>9. Exact(a) => DefinitionState(b) = "None"
  BY <1>1, <1>2, <1>4, <1>7 DEF Exact, DefinitionState
<1>10. Exact(b) /\ DefinitionState(b) = "None" => b.local = Empty
  BY DEF Exact, Saved
<1> QED
  BY <1>2, <1>3, <1>4, <1>5, <1>7, <1>8, <1>9, <1>10

LEMMA RestoreServerFacts ==
    ASSUME NEW a, Whole(a), NEW b, b = RestoreServerCheckpoint(a)
    PROVE  /\ Whole(b) /\ b.field = Level2(a)
           /\ Level1(b) = Level2(a) /\ Level2(b) = Level2(a) /\ b.changes # "Deleted"
           /\ Exact(a) => Exact(b)
<1> DEFINE c == Revert(Revert(BeginUpdate(a)))
           d == FreshCheckpoints(c)
<1>1. a.isModified \in BOOLEAN
  BY Parts DEF Whole, Tracked
<1>2. /\ Tracked(c) /\ Depth(c) = 0 /\ c.field = Level2(a)
      /\ TextsOK(c) /\ DefinitionState(c) # "Modified"
      /\ Exact(a) => Exact(c) /\ DefinitionState(c) = "None"
  BY RevertTwiceFacts
<1>3. Flags(c) = <<TRUE, FALSE>>
  BY RevertTwiceFacts
<1>4. b = EndUpdate(d, a.isModified)
  BY DEF RestoreServerCheckpoint
<1> HIDE DEF c
<1>5. /\ Tracked(d) /\ Depth(d) = 2 /\ d.field = c.field
      /\ Level1(d) = c.field /\ Level2(d) = c.field
      /\ Agrees(d) /\ TextsOK(d) /\ ~d.isModified /\ d.changes = "None"
      /\ Exact(c) /\ DefinitionState(c) = "None" => Exact(d)
  BY <1>2, FreshFacts
<1>6. Flags(d) = Flags(c)
  BY <1>2, FreshFacts
<1> HIDE DEF d
<1>7. ~d.failed
  BY <1>3, <1>6 DEF Flags
<1>8. /\ Whole(b) /\ b.field = d.field /\ Level1(b) = Level1(d) /\ Level2(b) = Level2(d)
      /\ b.changes = d.changes /\ (Exact(d) => Exact(b))
  BY <1>1, <1>4, <1>5, <1>7, EndUpdateFacts
<1> QED
  BY <1>2, <1>5, <1>8

\* A line of the user's file is read
LEMMA DeserializeFacts ==
    ASSUME NEW a, Tracked(a), Depth(a) = 1, TextsOK(a), DefinitionState(a) # "Modified",
           NEW line \in Lines, NEW b, b = Deserialize(a, line)
    PROVE  /\ Follows(a, b) /\ TextsOK(b) /\ DefinitionState(b) # "Modified"
           /\ b.field["Category"] = a.field["Category"]
           /\ line # Malformed => \A p \in Props : b.field[p] = line.props[p]
           /\ Exact(a) /\ a.local = Empty => Exact(b)
           /\ Exact(a) /\ a.local = Empty /\ line # Malformed =>
                 TextOf(b.field["Definition"]) =
                    IF line.text = Empty THEN TextOf(a.field["Definition"]) ELSE line.text
<1>1. CASE line = Malformed
  BY <1>1, FollowsSelf DEF Deserialize
<1>2. CASE line # Malformed
  <2> DEFINE c == Assign(a, line.props)
  <2>1. line.props \in [Props -> Values] /\ line.text \in Texts
    BY <1>2 DEF Lines
  <2>2. /\ Follows(a, c) /\ TextsOK(c)
        /\ \A p \in Props : c.field[p] = line.props[p]
        /\ c.field["Category"] = a.field["Category"]
        /\ DefinitionState(c) = DefinitionState(a) /\ c.local = a.local
        /\ TextOf(c.field["Definition"]) = TextOf(a.field["Definition"])
        /\ Exact(a) => Exact(c)
    BY <2>1, AssignFacts
  <2>3. b = SetDefinition(c, line.text)
    BY <1>2 DEF Deserialize
  <2> HIDE DEF c
  <2>4. Tracked(c) /\ Depth(c) = 1
    BY <2>2 DEF Follows
  <2>5. /\ Follows(c, b) /\ OnlyText(c, b) /\ TextsOK(b) /\ DefinitionState(b) # "Modified"
        /\ Exact(c) /\ c.local = Empty =>
              /\ Exact(b)
              /\ TextOf(b.field["Definition"]) =
                    IF line.text = Empty THEN TextOf(c.field["Definition"]) ELSE line.text
    BY <2>1, <2>2, <2>3, <2>4, SetLocalFacts
  <2>6. Follows(a, b)
    BY <2>2, <2>5, FollowsTrans
  <2>7. /\ b.field["Category"] = a.field["Category"]
        /\ \A p \in Props : b.field[p] = line.props[p]
    BY <2>2, <2>5, KeyFacts DEF OnlyText
  <2> QED
    BY <2>2, <2>5, <2>6, <2>7
<1> QED
  BY <1>1, <1>2

\* What the line gives becomes the local checkpoint and the state in memory.
LEMMA ReadFacts ==
    ASSUME NEW a, Tracked(a), Depth(a) = 1, TextsOK(a), DefinitionState(a) # "Modified",
           ~a.failed, NEW line \in Lines, NEW was \in BOOLEAN,
           NEW b, b = EndUpdate(CreateLocalCheckpoint(Deserialize(a, line)), was)
    PROVE  /\ Whole(b) /\ Level1(b) = b.field /\ Level2(b) = Level1(a)
           /\ b.changes # "Deleted"
           /\ b.field["Category"] = a.field["Category"]
           /\ line # Malformed => \A p \in Props : b.field[p] = line.props[p]
           /\ Exact(a) /\ a.local = Empty => Exact(b)
           /\ Exact(a) /\ a.local = Empty /\ line # Malformed =>
                 TextOf(b.field["Definition"]) =
                    IF line.text = Empty THEN TextOf(a.field["Definition"]) ELSE line.text
<1> DEFINE c == Deserialize(a, line)
           d == CreateLocalCheckpoint(c)
<1>1. /\ Follows(a, c) /\ TextsOK(c) /\ DefinitionState(c) # "Modified"
      /\ c.field["Category"] = a.field["Category"]
      /\ line # Malformed => \A p \in Props : c.field[p] = line.props[p]
      /\ Exact(a) /\ a.local = Empty => Exact(c)
      /\ Exact(a) /\ a.local = Empty /\ line # Malformed =>
            TextOf(c.field["Definition"]) =
               IF line.text = Empty THEN TextOf(a.field["Definition"]) ELSE line.text
  BY DeserializeFacts
<1> HIDE DEF c
<1>2. Tracked(c) /\ Depth(c) = 1 /\ Level1(c) = Level1(a)
  BY <1>1 DEF Follows
<1>3. ~c.failed
  BY <1>1 DEF Follows, Flags
<1>4. /\ Tracked(d) /\ Depth(d) = 2 /\ d.field = c.field
      /\ Level1(d) = c.field /\ Level2(d) = Level1(c)
      /\ Agrees(d) /\ TextsOK(d) /\ ~d.isModified /\ d.changes \in {"None", "Unpublished"}
      /\ Exact(c) => Exact(d)
  BY <1>1, <1>2, CreateLocalFacts
<1>5. Flags(d) = Flags(c)
  BY <1>1, <1>2, CreateLocalFacts
<1>6. b = EndUpdate(d, was)
  BY DEF c
<1> HIDE DEF d
<1>7. ~d.failed
  BY <1>3, <1>5 DEF Flags
<1>8. /\ Whole(b) /\ b.field = d.field /\ Level1(b) = Level1(d) /\ Level2(b) = Level2(d)
      /\ b.changes = d.changes /\ (Exact(d) => Exact(b))
  BY <1>4, <1>6, <1>7, EndUpdateFacts
<1> QED
  BY <1>1, <1>2, <1>4, <1>8

LEMMA ResetLocalFacts ==
    ASSUME NEW a, Whole(a), NEW line \in Lines, NEW b, b = ResetLocalCheckpoint(a, line)
    PROVE  /\ Whole(b) /\ Level1(b) = b.field /\ Level2(b) = Level2(a)
           /\ b.changes # "Deleted"
           /\ b.field["Category"] = Level2(a)["Category"]
           /\ line # Malformed => \A p \in Props : b.field[p] = line.props[p]
           /\ Exact(a) => Exact(b)
           /\ Exact(a) /\ line # Malformed =>
                 TextOf(b.field["Definition"]) =
                    IF line.text = Empty THEN TextOf(Level2(a)["Definition"]) ELSE line.text
<1> DEFINE c == Revert(Revert(BeginUpdate(a)))
           d == BeginTransaction(c)
<1>1. a.isModified \in BOOLEAN
  BY Parts DEF Whole, Tracked
<1>2. /\ Tracked(c) /\ Depth(c) = 0 /\ c.field = Level2(a)
      /\ TextsOK(c) /\ DefinitionState(c) # "Modified"
      /\ Exact(a) => Exact(c) /\ DefinitionState(c) = "None" /\ c.local = Empty
  BY RevertTwiceFacts
<1>3. Flags(c) = <<TRUE, FALSE>>
  BY RevertTwiceFacts
<1> HIDE DEF c
<1>4. Tracked(d) /\ Depth(d) = 1 /\ d.field = c.field /\ Level1(d) = c.field
  BY <1>2, BeginFacts
<1>5. Buffers(d) = Buffers(c)
  BY <1>2, BeginFacts
<1>6. Flags(d) = Flags(c)
  BY <1>2, BeginFacts
<1>7. b = EndUpdate(CreateLocalCheckpoint(Deserialize(d, line)), a.isModified)
  BY DEF ResetLocalCheckpoint, c
<1> HIDE DEF d
<1>8. /\ d.published = c.published /\ d.local = c.local /\ d.current = c.current
      /\ d.localModified = c.localModified /\ Saved(d) = Saved(c)
      /\ LocalDefinition(d) = LocalDefinition(c)
  BY <1>5, BufferFacts
<1>9. DefinitionState(d) = DefinitionState(c) /\ Definition(d) = Definition(c)
  BY <1>4, <1>5, BufferFacts DEF DefinitionState, Definition
<1>10. TextsOK(d)
  BY <1>2, <1>4, <1>8, <1>9 DEF TextsOK, DefinitionState
<1>11. Exact(c) /\ DefinitionState(c) = "None" => Exact(d)
  BY <1>2, <1>4, <1>8, <1>9 DEF Exact, DefinitionState, Definition, TextIn
<1>12. ~d.failed
  BY <1>3, <1>6 DEF Flags
<1>13. /\ Whole(b) /\ Level1(b) = b.field /\ Level2(b) = Level1(d)
       /\ b.changes # "Deleted"
       /\ b.field["Category"] = d.field["Category"]
       /\ line # Malformed => \A p \in Props : b.field[p] = line.props[p]
       /\ Exact(d) /\ d.local = Empty => Exact(b)
       /\ Exact(d) /\ d.local = Empty /\ line # Malformed =>
             TextOf(b.field["Definition"]) =
                IF line.text = Empty THEN TextOf(d.field["Definition"]) ELSE line.text
  BY <1>1, <1>2, <1>4, <1>7, <1>9, <1>10, <1>12, ReadFacts
<1> QED
  BY <1>2, <1>4, <1>8, <1>11, <1>13

\* Only Changes is set, to a value it has nothing to agree with.
LEMMA MarkedFacts ==
    ASSUME NEW a, Whole(a), NEW changes \in {"New", "Deleted"},
           NEW b, b = WithChanges(a, changes)
    PROVE  /\ Whole(b) /\ b.field = a.field /\ b.changes = changes
           /\ Level1(b) = Level1(a) /\ Level2(b) = Level2(a)
           /\ Exact(a) => Exact(b)
<1>1. Tracked(a) /\ Depth(a) = 2 /\ TextsOK(a) /\ Flags(a) = <<FALSE, FALSE>>
  BY DEF Whole
<1>2. changes \in AssetChanges
  BY DEF AssetChanges
<1>3. /\ Tracked(b) /\ b.field = a.field /\ b.changes = changes
      /\ Depth(b) = Depth(a) /\ Level1(b) = Level1(a) /\ Level2(b) = Level2(a)
  BY <1>1, <1>2, WithChangesFacts
<1>4. Buffers(b) = Buffers(a)
  BY <1>1, <1>2, WithChangesFacts
<1>5. Flags(b) = Flags(a)
  BY <1>1, <1>2, WithChangesFacts
<1>6. DefinitionState(b) = DefinitionState(a) /\ Definition(b) = Definition(a)
  BY <1>3, <1>4, BufferFacts DEF DefinitionState, Definition
<1>7. /\ b.published = a.published /\ b.local = a.local /\ b.current = a.current
      /\ b.localModified = a.localModified /\ Saved(b) = Saved(a)
      /\ LocalDefinition(b) = LocalDefinition(a)
  BY <1>4, BufferFacts
<1>8. TextsOK(b)
  BY <1>1, <1>3, <1>6, <1>7 DEF TextsOK
<1>9. Exact(a) => Exact(b)
  BY <1>3, <1>6, <1>7 DEF Exact
<1>10. Agrees(b)
  BY <1>3 DEF Agrees
<1> QED
  BY <1>1, <1>3, <1>5, <1>8, <1>9, <1>10 DEF Whole

\* Values are set at rest.
LEMMA FollowsWhole ==
    ASSUME NEW a, Whole(a), NEW b, Follows(a, b), TextsOK(b)
    PROVE  /\ Whole(b) /\ Level1(b) = Level1(a) /\ Level2(b) = Level2(a)
           /\ a.changes # "Deleted" => b.changes # "Deleted"
<1>1. Tracked(a) /\ Depth(a) = 2 /\ Agrees(a) /\ Flags(a) = <<FALSE, FALSE>>
  BY DEF Whole
<1>2. a.updating = FALSE
  BY <1>1 DEF Flags
<1>3. ~IsUpdating(a)
  BY <1>1, <1>2 DEF IsUpdating
<1> QED
  BY <1>1, <1>3 DEF Whole, Follows

\* The category the server gives a local asset
LEMMA GivenCategory ==
    ASSUME NEW a, Whole(a), NEW category \in Categories,
           NEW c, c = IF a.field["Category"] = Local THEN SetField(a, "Category", category)
                      ELSE a
    PROVE  /\ Whole(c) /\ (Exact(a) => Exact(c))
           /\ \A p \in Props : c.field[p] = a.field[p]
           /\ c.field["Definition"] = a.field["Definition"]
           /\ c.field["Category"] \in {category} \cup (Categories \ {Local})
<1>1. Tracked(a) /\ TextsOK(a)
  BY DEF Whole
<1>2. CASE a.field["Category"] = Local
  <2>1. c = SetField(a, "Category", category)
    BY <1>2
  <2>2. "Category" \in Keys /\ category \in Domain("Category")
    BY KeyFacts
  <2>3. /\ Follows(a, c) /\ TextsOK(c) /\ c.field["Category"] = category
        /\ \A j \in Keys \ {"Category"} : c.field[j] = a.field[j]
        /\ Exact(a) => Exact(c)
    BY <1>1, <2>1, <2>2, SetFieldFacts
  <2> QED
    BY <2>3, FollowsWhole, KeyFacts
<1>3. CASE a.field["Category"] # Local
  <2>1. a.field["Category"] \in Categories
    BY <1>1, Parts, FieldFacts, KeyFacts DEF Tracked
  <2> QED
    BY <1>3, <2>1
<1> QED
  BY <1>2, <1>3

\* The server's answer to an upload: what is in memory is published, in that category,
\* ...
LEMMA SuccessFacts ==
    ASSUME NEW a, Whole(a), NEW category \in Categories,
           NEW b, b = Answer(a, TRUE, category)
    PROVE  /\ Whole(b) /\ b.changes # "Deleted" /\ (Exact(a) => Exact(b))
           /\ Level1(b) = b.field /\ Level2(b) = b.field
           /\ \A p \in Props : b.field[p] = a.field[p]
<1> DEFINE c == IF a.field["Category"] = Local THEN SetField(a, "Category", category)
                ELSE a
           d == UpdateLocalCheckpoint(c)
<1>1. b = UpdateServerCheckpoint(d)
  BY DEF Answer
<1>2. /\ Whole(c) /\ (Exact(a) => Exact(c))
      /\ \A p \in Props : c.field[p] = a.field[p]
      /\ c.field["Definition"] = a.field["Definition"]
  BY GivenCategory
<1> HIDE DEF c
<1>3. /\ Whole(d) /\ OnlyText(c, d)
      /\ Exact(c) => /\ Exact(d)
                     /\ TextOf(d.field["Definition"]) = TextOf(c.field["Definition"])
  BY <1>2, UpdateLocalFacts
<1> HIDE DEF d
<1>4. /\ Whole(b) /\ OnlyText(d, b)
      /\ Level1(b) = b.field /\ Level2(b) = b.field /\ b.changes # "Deleted"
      /\ Exact(d) => /\ Exact(b)
                     /\ TextOf(b.field["Definition"]) = TextOf(d.field["Definition"])
  BY <1>1, <1>3, UpdateServerFacts
<1>5. \A p \in Props : b.field[p] = c.field[p]
  BY <1>3, <1>4, KeyFacts DEF OnlyText
<1> QED
  BY <1>2, <1>3, <1>4, <1>5

LEMMA SuccessText ==
    ASSUME NEW a, Whole(a), Exact(a), NEW category \in Categories,
           NEW b, b = Answer(a, TRUE, category)
    PROVE  TextOf(b.field["Definition"]) = TextOf(a.field["Definition"])
<1> DEFINE c == IF a.field["Category"] = Local THEN SetField(a, "Category", category)
                ELSE a
           d == UpdateLocalCheckpoint(c)
<1>1. b = UpdateServerCheckpoint(d)
  BY DEF Answer
<1>2. Whole(c) /\ Exact(c) /\ c.field["Definition"] = a.field["Definition"]
  BY GivenCategory
<1> HIDE DEF c
<1>3. Whole(d) /\ Exact(d) /\ TextOf(d.field["Definition"]) = TextOf(c.field["Definition"])
  BY <1>2, UpdateLocalFacts
<1> HIDE DEF d
<1>4. TextOf(b.field["Definition"]) = TextOf(d.field["Definition"])
  BY <1>1, <1>3, UpdateServerFacts
<1> QED
  BY <1>2, <1>3, <1>4

LEMMA SuccessCategory ==
    ASSUME NEW a, Whole(a), NEW category \in Categories,
           NEW b, b = Answer(a, TRUE, category)
    PROVE  b.field["Category"] \in {category} \cup (Categories \ {Local})
<1> DEFINE c == IF a.field["Category"] = Local THEN SetField(a, "Category", category)
                ELSE a
           d == UpdateLocalCheckpoint(c)
<1>1. b = UpdateServerCheckpoint(d)
  BY DEF Answer
<1>2. Whole(c) /\ c.field["Category"] \in {category} \cup (Categories \ {Local})
  BY GivenCategory
<1> HIDE DEF c
<1>3. Whole(d) /\ OnlyText(c, d)
  BY <1>2, UpdateLocalFacts
<1> HIDE DEF d
<1>4. OnlyText(d, b)
  BY <1>1, <1>3, UpdateServerFacts
<1> QED
  BY <1>2, <1>3, <1>4, KeyFacts DEF OnlyText

\* ... or what was saved comes back.
LEMMA FailureFacts ==
    ASSUME NEW a, Whole(a), NEW category, NEW b, b = Answer(a, FALSE, category)
    PROVE  /\ a.changes = "None" => b = a
           /\ a.changes # "None" => /\ b.field = Level1(a) /\ Level1(b) = Level1(a)
                                    /\ Level2(b) = Level2(a)
           /\ Whole(b) /\ (Exact(a) => Exact(b))
           /\ a.changes # "Deleted" => b.changes # "Deleted"
<1>1. CASE a.changes = "None"
  BY <1>1 DEF Answer
<1>2. CASE a.changes # "None"
  <2>1. b = RestoreLocalCheckpoint(a)
    BY <1>2 DEF Answer
  <2> QED
    BY <1>2, <2>1, RestoreLocalFacts
<1> QED
  BY <1>1, <1>2

LEMMA AnswerFacts ==
    ASSUME NEW a, Whole(a), NEW succeeded \in BOOLEAN, NEW category \in Categories,
           NEW b, b = Answer(a, succeeded, category)
    PROVE  /\ Whole(b) /\ (Exact(a) => Exact(b))
           /\ a.changes # "Deleted" => b.changes # "Deleted"
<1>1. CASE succeeded = TRUE
  BY <1>1, SuccessFacts
<1>2. CASE succeeded = FALSE
  BY <1>2, FailureFacts
<1> QED
  BY <1>1, <1>2

-----------------------------------------------------------------------------
(* How an asset comes to be.                                               *)

LEMMA ConstructedFacts ==
    /\ Tracked(Constructed) /\ Depth(Constructed) = 0 /\ TextsOK(Constructed)
    /\ DefinitionState(Constructed) = "None" /\ Constructed.local = Empty
    /\ Flags(Constructed) = <<FALSE, FALSE>> /\ Exact(Constructed)
    /\ TextOf(Constructed.field["Definition"]) = Empty
    /\ Constructed.field["Category"] = Promoted
<1>1. \A k \in Keys : Constructed.field[k] \in Domain(k)
  BY EditAssumption DEF Constructed, Domain, Categories, Keys
<1>2. \A k \in Keys : Domain(k) \subseteq AllValues
  BY DEF Domain, AllValues
<1>3. Constructed.field \in Fields
  <2>1. Constructed.field = [k \in Keys |-> Constructed.field[k]]
    BY DEF Constructed
  <2> QED
    BY <1>1, <1>2, <2>1 DEF Fields
<1>4. << >> \in Seq(Originals) /\ Len(<< >>) = 0
  BY EmptySeq
<1>5. /\ Constructed \in Asset /\ Constructed.txns = << >> /\ ~Constructed.isModified
      /\ Constructed.published = Empty /\ Constructed.local = Empty
      /\ Constructed.current = Empty /\ ~Constructed.localModified
      /\ Flags(Constructed) = <<FALSE, FALSE>>
  BY <1>3, <1>4, AssetAssumption DEF Constructed, Asset, AssetChanges, Flags
<1>6. Depth(Constructed) = 0
  BY <1>4, <1>5 DEF Depth
<1>7. Constructed.field["Definition"] = Never /\ Constructed.field["Category"] = Promoted
  BY KeyFacts DEF Constructed
<1>8. DefinitionState(Constructed) = "None"
  BY <1>7 DEF DefinitionState, StateOf
<1>9. TextsOK(Constructed)
  BY <1>5, <1>6, <1>8 DEF TextsOK
<1>10. TextOf(Constructed.field["Definition"]) = Empty
  BY <1>7 DEF TextOf
<1>11. Exact(Constructed)
  BY <1>5, <1>6, <1>8, <1>10 DEF Exact, Saved, Definition, TextIn
<1> QED
  BY <1>5, <1>6, <1>7, <1>8, <1>9, <1>10, <1>11 DEF Tracked

LEMMA CategoryFacts ==
    ASSUME NEW category \in Categories, NEW b, b = InCategory(category)
    PROVE  /\ Tracked(b) /\ Depth(b) = 0 /\ TextsOK(b)
           /\ DefinitionState(b) = "None" /\ b.local = Empty
           /\ Flags(b) = <<FALSE, FALSE>> /\ Exact(b)
           /\ b.field["Category"] = category
           /\ TextOf(b.field["Definition"]) = Empty
<1> DEFINE a == Constructed
<1>1. Tracked(a) /\ TextsOK(a)
  BY ConstructedFacts
<1>2. b = SetField(a, "Category", category)
  BY DEF InCategory
<1>3. "Category" \in Keys /\ category \in Domain("Category")
  BY KeyFacts
<1>4. a = Constructed
  OBVIOUS
<1> HIDE DEF a
<1>5. /\ Follows(a, b) /\ TextsOK(b) /\ b.field["Category"] = category
      /\ \A j \in Keys \ {"Category"} : b.field[j] = a.field[j]
      /\ DefinitionState(b) = DefinitionState(a) /\ b.local = a.local
      /\ Exact(a) => Exact(b)
  BY <1>1, <1>2, <1>3, SetFieldFacts
<1>6. Tracked(b) /\ Depth(b) = Depth(a) /\ Flags(b) = Flags(a)
  BY <1>5 DEF Follows
<1> QED
  BY <1>4, <1>5, <1>6, ConstructedFacts, KeyFacts

LEMMA OwnPropsFacts ==
    ASSUME NEW category \in Categories, NEW p \in Props
    PROVE  InCategory(category).field[p] = Constructed.field[p]
<1> DEFINE a == Constructed
           b == SetField(a, "Category", category)
<1>1. Tracked(a) /\ TextsOK(a)
  BY ConstructedFacts
<1>2. "Category" \in Keys /\ category \in Domain("Category") /\ p \in Keys \ {"Category"}
  BY KeyFacts
<1>3. InCategory(category) = b /\ Constructed = a
  BY DEF InCategory
<1> HIDE DEF a
<1>4. \A j \in Keys \ {"Category"} : b.field[j] = a.field[j]
  BY <1>1, <1>2, SetFieldFacts
<1> QED
  BY <1>2, <1>3, <1>4

LEMMA LoadFromServerFacts ==
    ASSUME NEW category \in Categories, NEW props \in [Props -> Values], NEW text \in Texts,
           NEW b, b = CreateLocalCheckpoint(CreateServerCheckpoint(
                          SetDefinition(Assign(InCategory(category), props), text)))
    PROVE  /\ Whole(b) /\ Level1(b) = b.field /\ Level2(b) = b.field
           /\ Exact(b) /\ b.changes # "Deleted"
           /\ b.field["Category"] = category /\ TextOf(b.field["Definition"]) = text
           /\ \A p \in Props : b.field[p] = props[p]
<1> DEFINE c == InCategory(category)
           d == Assign(c, props)
           e == SetDefinition(d, text)
           f == CreateServerCheckpoint(e)
<1>1. /\ Tracked(c) /\ Depth(c) = 0 /\ TextsOK(c)
      /\ DefinitionState(c) = "None" /\ c.local = Empty
      /\ Flags(c) = <<FALSE, FALSE>> /\ Exact(c)
      /\ c.field["Category"] = category
  BY CategoryFacts
<1> HIDE DEF c
<1>2. /\ Follows(c, d) /\ TextsOK(d) /\ \A p \in Props : d.field[p] = props[p]
      /\ d.field["Category"] = c.field["Category"]
      /\ DefinitionState(d) = DefinitionState(c) /\ d.local = c.local
      /\ Exact(d)
  BY <1>1, AssignFacts
<1> HIDE DEF d
<1>3. Tracked(d) /\ Depth(d) = 0 /\ Flags(d) = Flags(c)
  BY <1>1, <1>2 DEF Follows
<1>4. /\ Follows(d, e) /\ OnlyText(d, e) /\ TextsOK(e) /\ DefinitionState(e) = "None"
      /\ Exact(e) /\ TextOf(e.field["Definition"]) = text
  BY <1>1, <1>2, <1>3, SetPublishedFacts
<1> HIDE DEF e
<1>5. Tracked(e) /\ Depth(e) = 0 /\ Flags(e) = Flags(d)
  BY <1>3, <1>4 DEF Follows
<1>6. /\ Tracked(f) /\ Depth(f) = 1 /\ f.field = e.field /\ Level1(f) = e.field
      /\ TextsOK(f) /\ DefinitionState(f) # "Modified" /\ Exact(f)
  BY <1>4, <1>5, CreateServerFacts
<1>7. Flags(f) = Flags(e)
  BY <1>4, <1>5, CreateServerFacts
<1>8. b = CreateLocalCheckpoint(f)
  BY DEF c, d, e
<1> HIDE DEF f
<1>9. /\ Tracked(b) /\ Depth(b) = 2 /\ b.field = f.field
      /\ Level1(b) = f.field /\ Level2(b) = Level1(f)
      /\ Agrees(b) /\ TextsOK(b) /\ Exact(b) /\ b.changes \in {"None", "Unpublished"}
  BY <1>6, <1>8, CreateLocalFacts
<1>10. Flags(b) = Flags(f)
  BY <1>6, <1>8, CreateLocalFacts
<1>11. Whole(b)
  BY <1>1, <1>3, <1>5, <1>7, <1>9, <1>10 DEF Whole
<1> QED
  BY <1>1, <1>2, <1>4, <1>6, <1>9, <1>11, KeyFacts DEF OnlyText

LEMMA NewLocalFacts ==
    /\ Whole(NewLocal) /\ Level1(NewLocal) = NewLocal.field
    /\ Level2(NewLocal) = NewLocal.field /\ Exact(NewLocal)
    /\ NewLocal.field["Category"] = Local /\ TextOf(NewLocal.field["Definition"]) = Empty
    /\ \A p \in Props : NewLocal.field[p] = Constructed.field[p]
<1> DEFINE c == InCategory(Local)
           f == CreateServerCheckpoint(c)
           b == NewLocal
<1>1. Local \in Categories
  BY DEF Categories
<1> HIDE DEF c
<1>2. /\ Tracked(c) /\ Depth(c) = 0 /\ TextsOK(c)
      /\ DefinitionState(c) = "None" /\ c.local = Empty /\ Exact(c)
      /\ c.field["Category"] = Local
      /\ TextOf(c.field["Definition"]) = Empty
  BY <1>1, CategoryFacts DEF c
<1>3. Flags(c) = <<FALSE, FALSE>>
  BY <1>1, CategoryFacts DEF c
<1>4. \A p \in Props : c.field[p] = Constructed.field[p]
  BY <1>1, OwnPropsFacts DEF c
<1>5. b = CreateLocalCheckpoint(f)
  BY DEF NewLocal, c
<1> HIDE DEF b
<1>6. /\ Tracked(f) /\ Depth(f) = 1 /\ f.field = c.field /\ Level1(f) = c.field
      /\ TextsOK(f) /\ DefinitionState(f) # "Modified" /\ Exact(f)
  BY <1>2, CreateServerFacts
<1>7. Flags(f) = Flags(c)
  BY <1>2, CreateServerFacts
<1> HIDE DEF f
<1>8. /\ Tracked(b) /\ Depth(b) = 2 /\ b.field = f.field
      /\ Level1(b) = f.field /\ Level2(b) = Level1(f)
      /\ Agrees(b) /\ TextsOK(b) /\ Exact(b) /\ b.changes \in {"None", "Unpublished"}
  BY <1>5, <1>6, CreateLocalFacts
<1>9. Flags(b) = Flags(f)
  BY <1>5, <1>6, CreateLocalFacts
<1>10. Whole(b)
  BY <1>2, <1>7, <1>8, <1>9, <1>3 DEF Whole
<1> QED
  BY <1>2, <1>6, <1>8, <1>10, <1>4 DEF b

LEMMA LoadFromFileFacts ==
    ASSUME NEW line \in Lines,
           NEW b, b = DeserializeLocalCheckpoint(CreateServerCheckpoint(InCategory(Local)), line)
    PROVE  /\ Whole(b) /\ Level1(b) = b.field /\ Level2(b) = InCategory(Local).field
           /\ Exact(b) /\ b.changes # "Deleted" /\ b.field["Category"] = Local
           /\ line # Malformed => \A p \in Props : b.field[p] = line.props[p]
<1> DEFINE c == InCategory(Local)
           f == CreateServerCheckpoint(c)
           u == BeginUpdate(f)
<1>1. Local \in Categories
  BY DEF Categories
<1>2. /\ Tracked(c) /\ Depth(c) = 0 /\ TextsOK(c)
      /\ DefinitionState(c) = "None" /\ c.local = Empty
      /\ Flags(c) = <<FALSE, FALSE>> /\ Exact(c)
      /\ c.field["Category"] = Local /\ c = InCategory(Local)
  BY <1>1, CategoryFacts
<1> HIDE DEF c
<1>3. /\ Tracked(f) /\ Depth(f) = 1 /\ f.field = c.field /\ Level1(f) = c.field
      /\ TextsOK(f) /\ DefinitionState(f) # "Modified" /\ Exact(f)
  BY <1>2, CreateServerFacts
<1>4. Flags(f) = Flags(c)
  BY <1>2, CreateServerFacts
<1>5. Buffers(f) = Buffers(c)
  BY <1>2, CreateServerFacts
<1>6. b = EndUpdate(CreateLocalCheckpoint(Deserialize(u, line)), f.isModified)
  BY DEF DeserializeLocalCheckpoint, c
<1> HIDE DEF f
<1>7. f.isModified \in BOOLEAN
  BY <1>3, Parts DEF Tracked
<1>8. /\ Tracked(u) /\ TextsOK(u) /\ u.field = f.field /\ Depth(u) = 1
      /\ Level1(u) = Level1(f) /\ DefinitionState(u) = DefinitionState(f) /\ Exact(u)
  BY <1>3, UpdatingFacts
<1>9. Buffers(u) = Buffers(f)
  BY <1>3, UpdatingFacts
<1>10. Flags(u) = <<TRUE, f.failed>>
  BY <1>3, UpdatingFacts
<1> HIDE DEF u
<1>11. ~u.failed
  BY <1>2, <1>4, <1>10 DEF Flags
<1>12. u.local = Empty
  BY <1>2, <1>5, <1>9 DEF Buffers
<1>13. /\ Whole(b) /\ Level1(b) = b.field /\ Level2(b) = Level1(u)
       /\ b.changes # "Deleted"
       /\ b.field["Category"] = u.field["Category"]
       /\ line # Malformed => \A p \in Props : b.field[p] = line.props[p]
       /\ Exact(b)
  BY <1>3, <1>6, <1>7, <1>8, <1>11, <1>12, ReadFacts
<1> QED
  BY <1>2, <1>3, <1>8, <1>13

LEMMA CloneFacts ==
    ASSUME NEW props \in [Props -> Values], NEW text \in Texts,
           NEW b, b = WithChanges(SetDefinition(Assign(NewLocal, props), text), "New")
    PROVE  /\ Whole(b) /\ Level1(b) = NewLocal.field /\ Level2(b) = NewLocal.field
           /\ text # Empty => Exact(b) /\ TextOf(b.field["Definition"]) = text
           /\ b.field["Category"] = Local /\ \A p \in Props : b.field[p] = props[p]
           /\ b.changes = "New"
<1> DEFINE a == NewLocal
           c == Assign(a, props)
           d == SetDefinition(c, text)
<1>1. /\ Whole(a) /\ Level1(a) = a.field /\ Level2(a) = a.field /\ Exact(a)
      /\ a.field["Category"] = Local /\ a = NewLocal
  BY NewLocalFacts
<1> HIDE DEF a
<1>2. Tracked(a) /\ TextsOK(a)
  BY <1>1 DEF Whole
<1>3. /\ Follows(a, c) /\ TextsOK(c) /\ \A p \in Props : c.field[p] = props[p]
      /\ c.field["Category"] = a.field["Category"] /\ Exact(c)
  BY <1>1, <1>2, AssignFacts
<1> HIDE DEF c
<1>4. Whole(c) /\ Level1(c) = Level1(a) /\ Level2(c) = Level2(a)
  BY <1>1, <1>3, FollowsWhole
<1>5. /\ Follows(c, d) /\ OnlyText(c, d) /\ TextsOK(d)
      /\ text # Empty => Exact(d) /\ TextOf(d.field["Definition"]) = text
  BY <1>3, <1>4, SetCurrentFacts DEF Whole
<1>6. b = WithChanges(d, "New")
  BY DEF a, c
<1> HIDE DEF d
<1>7. Whole(d) /\ Level1(d) = Level1(c) /\ Level2(d) = Level2(c)
  BY <1>4, <1>5, FollowsWhole
<1>8. /\ Whole(b) /\ b.field = d.field /\ b.changes = "New"
      /\ Level1(b) = Level1(d) /\ Level2(b) = Level2(d)
      /\ Exact(d) => Exact(b)
  BY <1>6, <1>7, MarkedFacts
<1> QED
  BY <1>1, <1>3, <1>4, <1>5, <1>7, <1>8, KeyFacts DEF OnlyText

-----------------------------------------------------------------------------
(* The invariant: no asset yet, or one at rest.                            *)

IInv == asset = Constructed \/ Whole(asset)

LEMMA AtRest ==
    ASSUME IInv
    PROVE  /\ Depth(asset) \in {0, 2}
           /\ Depth(asset) = 0 => asset = Constructed
           /\ Depth(asset) = 2 => Whole(asset)
<1>1. Depth(Constructed) = 0
  BY ConstructedFacts
<1>2. CASE asset = Constructed
  BY <1>1, <1>2
<1>3. CASE Whole(asset)
  BY <1>3 DEF Whole
<1> QED
  BY <1>2, <1>3 DEF IInv

\* One step for each action; EditProperty and EditDefinition set values, and
\* PublishWithBadge and PromoteOrDemote do so before the answer comes.
LEMMA StepFacts ==
    ASSUME IInv, Next
    PROVE  Whole(asset')
<1>1. /\ Depth(asset) = 0 => asset = Constructed
      /\ Depth(asset) = 2 => Whole(asset)
  BY AtRest
<1>2. Live => Whole(asset) /\ Tracked(asset) /\ Depth(asset) = 2 /\ TextsOK(asset)
  BY <1>1 DEF Live, Whole
<1>3. ASSUME NEW category \in Categories \ {Local}, NEW props \in [Props -> Values],
             NEW text \in Texts, LoadFromServer(category, props, text)
      PROVE  Whole(asset')
  BY <1>3, LoadFromServerFacts DEF LoadFromServer
<1>4. ASSUME NEW line \in Lines, LoadFromFile(line)
      PROVE  Whole(asset')
  BY <1>4, LoadFromFileFacts DEF LoadFromFile
<1>5. CASE CreateNew
  BY <1>5, NewLocalFacts, MarkedFacts DEF CreateNew
<1>6. ASSUME NEW props \in [Props -> Values], NEW text \in Edits, Clone(props, text)
      PROVE  Whole(asset')
  BY <1>6, CloneFacts, EditAssumption DEF Clone
<1>7. ASSUME NEW p \in Props, NEW v \in Values, EditProperty(p, v)
      PROVE  Whole(asset')
  <2>1. p \in Keys /\ p # "Definition" /\ v \in Domain(p)
    BY KeyFacts
  <2>2. Follows(asset, asset') /\ TextsOK(asset')
    BY <1>2, <1>7, <2>1, SetFieldFacts DEF EditProperty
  <2> QED
    BY <1>2, <1>7, <2>2, FollowsWhole DEF EditProperty
<1>8. ASSUME NEW text \in Edits, EditDefinition(text)
      PROVE  Whole(asset')
  <2>1. Follows(asset, asset') /\ TextsOK(asset')
    BY <1>2, <1>8, SetCurrentFacts, EditAssumption DEF EditDefinition
  <2> QED
    BY <1>2, <1>8, <2>1, FollowsWhole DEF EditDefinition
<1>9. CASE Save
  BY <1>2, <1>9, UpdateLocalFacts DEF Save
<1>10. ASSUME NEW succeeded \in BOOLEAN, NEW category \in Categories \ {Local},
              Publish(succeeded, category)
       PROVE  Whole(asset')
  BY <1>2, <1>10, AnswerFacts DEF Publish
<1>11. ASSUME NEW p \in Props, NEW v \in Values, NEW succeeded \in BOOLEAN,
              PublishWithBadge(p, v, succeeded)
       PROVE  Whole(asset')
  <2> DEFINE c == SetField(asset, p, v)
  <2>1. p \in Keys /\ p # "Definition" /\ v \in Domain(p) /\ Unpromoted \in Categories
    BY KeyFacts DEF Categories
  <2>2. Follows(asset, c) /\ TextsOK(c)
    BY <1>2, <1>11, <2>1, SetFieldFacts DEF PublishWithBadge
  <2>3. asset' = Answer(c, succeeded, Unpromoted)
    BY <1>11 DEF PublishWithBadge
  <2> HIDE DEF c
  <2>4. Whole(c)
    BY <1>2, <1>11, <2>2, FollowsWhole DEF PublishWithBadge
  <2> QED
    BY <2>1, <2>3, <2>4, AnswerFacts
<1>12. ASSUME NEW category \in Categories \ {Local}, NEW succeeded \in BOOLEAN,
              PromoteOrDemote(category, succeeded)
       PROVE  Whole(asset')
  <2> DEFINE c == SetField(asset, "Category", category)
  <2>1. "Category" \in Keys /\ category \in Domain("Category")
    BY KeyFacts
  <2>2. Follows(asset, c) /\ TextsOK(c)
    BY <1>2, <1>12, <2>1, SetFieldFacts DEF PromoteOrDemote
  <2>3. asset' = Answer(c, succeeded, category)
    BY <1>12 DEF PromoteOrDemote
  <2> HIDE DEF c
  <2>4. Whole(c)
    BY <1>2, <1>12, <2>2, FollowsWhole DEF PromoteOrDemote
  <2> QED
    BY <2>3, <2>4, AnswerFacts
<1>13. CASE Discard
  BY <1>2, <1>13, RestoreLocalFacts DEF Discard
<1>14. CASE RevertToServer
  BY <1>2, <1>14, RestoreServerFacts DEF RevertToServer
<1>15. CASE Delete
  BY <1>2, <1>15, MarkedFacts DEF Delete
<1>16. ASSUME NEW line \in Lines, Reload(line)
       PROVE  Whole(asset')
  BY <1>2, <1>16, ResetLocalFacts DEF Reload
<1> QED
  BY <1>3, <1>4, <1>5, <1>6, <1>7, <1>8, <1>9, <1>10, <1>11, <1>12, <1>13, <1>14,
     <1>15, <1>16 DEF Next

LEMMA Invariant == Spec => []IInv
<1>1. Init => IInv
  BY DEF Init, IInv
<1>2. IInv /\ [Next]_asset => IInv'
  BY StepFacts DEF IInv
<1> QED
  BY <1>1, <1>2, PTL DEF Spec

\* Between operations there are two transactions or none, of well-typed
\* originals, and no update is under way (DataModelBase::BeginTransaction).
THEOREM TypeCorrect == Spec => []TypeOK
<1>1. IInv => TypeOK
  BY AtRest, ConstructedFacts DEF IInv, TypeOK, Whole, Tracked, Flags
<1> QED
  BY <1>1, Invariant, PTL

\* No revert puts back the state Modified, so that the Expects of
\* AssetModelBase::RevertTransaction never fails.
THEOREM RevertAlwaysSucceeds == Spec => []RevertSucceeds
<1>1. IInv => RevertSucceeds
  BY ConstructedFacts DEF IInv, RevertSucceeds, Whole, Flags
<1> QED
  BY <1>1, Invariant, PTL

\* Changes agrees with the differences between memory, the local checkpoint
\* and the server's (AssetModelBase::OnValueChanged).
THEOREM ChangesAlwaysAgree == Spec => []ChangesAgree
<1>1. IInv => ChangesAgree
  <2> SUFFICES ASSUME IInv, Depth(asset) = 2
               PROVE  /\ asset.isModified <=> asset.field # LocalFields
                      /\ asset.changes \notin {"New", "Deleted"} =>
                            /\ asset.changes = "Modified" <=> asset.field # LocalFields
                            /\ asset.field = LocalFields /\ LocalFields # ServerFields =>
                                  asset.changes = "Unpublished"
                            /\ asset.field = LocalFields /\ LocalFields = ServerFields
                               /\ ~IsLocalAsset => asset.changes = "None"
    BY DEF ChangesAgree
  <2>1. /\ Tracked(asset) /\ Agrees(asset) /\ asset \in Asset
        /\ LocalFields = Level1(asset) /\ ServerFields = Level2(asset)
    BY AtRest DEF Whole, Tracked, LocalFields, ServerFields, Level1, Level2
  <2>2. /\ asset.txns[1] \in Originals /\ asset.txns[2] \in Originals
        /\ asset.field \in Fields /\ LocalFields \in Fields
    BY <2>1, Parts
  <2>3. HasOriginals(asset.txns[1]) <=> LocalFields # asset.field
    BY <2>1, <2>2, KeptFacts DEF Tracked, LocalFields
  <2>4. HasOriginals(asset.txns[2]) <=> ServerFields # LocalFields
    BY <2>1, <2>2, KeptFacts DEF Tracked, ServerFields
  <2>5. asset.isModified <=> asset.field # LocalFields
    BY <2>1, <2>3 DEF Tracked
  <2> QED
    BY <2>1, <2>4, <2>5 DEF Agrees
<1> QED
  BY <1>1, Invariant, PTL

-----------------------------------------------------------------------------
(* While the user clears no definition, the buffers hold the three texts   *)
(* exactly, and the three levels are of one category.                      *)

EInv == asset = Constructed \/ (Exact(asset) /\ OneCategory(asset))

LEMMA AnswerCategory ==
    ASSUME NEW a, Whole(a), NEW succeeded \in BOOLEAN, NEW category \in Categories,
           Level2(a)["Category"] = Level1(a)["Category"],
           a.changes = "None" => a.field["Category"] = Level1(a)["Category"],
           NEW b, b = Answer(a, succeeded, category)
    PROVE  OneCategory(b)
<1>1. CASE succeeded = TRUE
  <2>1. Level1(b) = b.field /\ Level2(b) = b.field
    BY <1>1, SuccessFacts
  <2> QED
    BY <2>1 DEF OneCategory
<1>2. CASE succeeded = FALSE
  <2>1. CASE a.changes = "None"
    BY <1>2, <2>1, FailureFacts DEF OneCategory
  <2>2. CASE a.changes # "None"
    <3>1. b.field = Level1(a) /\ Level1(b) = Level1(a) /\ Level2(b) = Level2(a)
      BY <1>2, <2>2, FailureFacts
    <3> QED
      BY <3>1 DEF OneCategory
  <2> QED
    BY <2>1, <2>2
<1> QED
  BY <1>1, <1>2

\* An asset that has changed since the save says so.
LEMMA UnchangedFacts ==
    ASSUME NEW a, Whole(a), a.changes = "None"
    PROVE  a.field = Level1(a)
<1>1. /\ Tracked(a) /\ Depth(a) = 2 /\ Agrees(a) /\ a.isModified \in BOOLEAN
      /\ a.txns[1] \in Originals /\ a.field \in Fields /\ Differs(a.txns[1], a.field)
  BY Parts DEF Whole, Tracked
<1>2. ~a.isModified
  BY <1>1 DEF Agrees
<1> QED
  BY <1>1, <1>2, KeptFacts DEF Tracked, Level1

LEMMA ExactFacts ==
    ASSUME Empty \notin Edits, IInv, EInv, Next
    PROVE  Exact(asset') /\ OneCategory(asset')
<1>1. /\ Depth(asset) = 0 => asset = Constructed
      /\ Depth(asset) = 2 => Whole(asset)
  BY AtRest
<1>2. Live => /\ Whole(asset) /\ Tracked(asset) /\ Depth(asset) = 2 /\ TextsOK(asset)
              /\ Exact(asset) /\ OneCategory(asset)
  <2>1. Live => asset # Constructed
    BY ConstructedFacts DEF Live
  <2> QED
    BY <1>1, <2>1 DEF Live, Whole, EInv
<1>3. ASSUME NEW category \in Categories \ {Local}, NEW props \in [Props -> Values],
             NEW text \in Texts, LoadFromServer(category, props, text)
      PROVE  Exact(asset') /\ OneCategory(asset')
  BY <1>3, LoadFromServerFacts DEF LoadFromServer, OneCategory
<1>4. ASSUME NEW line \in Lines, LoadFromFile(line)
      PROVE  Exact(asset') /\ OneCategory(asset')
  <2>1. Local \in Categories
    BY DEF Categories
  <2>2. InCategory(Local).field["Category"] = Local
    BY <2>1, CategoryFacts
  <2> QED
    BY <1>4, <2>2, LoadFromFileFacts DEF LoadFromFile, OneCategory
<1>5. CASE CreateNew
  BY <1>5, NewLocalFacts, MarkedFacts DEF CreateNew, OneCategory
<1>6. ASSUME NEW props \in [Props -> Values], NEW text \in Edits, Clone(props, text)
      PROVE  Exact(asset') /\ OneCategory(asset')
  BY <1>6, CloneFacts, NewLocalFacts, EditAssumption DEF Clone, OneCategory
<1>7. ASSUME NEW p \in Props, NEW v \in Values, EditProperty(p, v)
      PROVE  Exact(asset') /\ OneCategory(asset')
  <2>1. p \in Keys /\ p # "Definition" /\ v \in Domain(p) /\ "Category" \in Keys \ {p}
    BY KeyFacts
  <2>2. /\ Follows(asset, asset') /\ TextsOK(asset') /\ Exact(asset')
        /\ asset'.field["Category"] = asset.field["Category"]
    BY <1>2, <1>7, <2>1, SetFieldFacts DEF EditProperty
  <2> QED
    BY <1>2, <1>7, <2>2, FollowsWhole DEF EditProperty, OneCategory
<1>8. ASSUME NEW text \in Edits, EditDefinition(text)
      PROVE  Exact(asset') /\ OneCategory(asset')
  <2>1. Follows(asset, asset') /\ OnlyText(asset, asset') /\ TextsOK(asset') /\ Exact(asset')
    BY <1>2, <1>8, SetCurrentFacts, EditAssumption DEF EditDefinition
  <2> QED
    BY <1>2, <1>8, <2>1, FollowsWhole, KeyFacts DEF EditDefinition, OneCategory, OnlyText
<1>9. CASE Save
  <2>1. /\ OnlyText(asset, asset') /\ Exact(asset')
        /\ Level1(asset') = asset'.field /\ Level2(asset') = Level2(asset)
    BY <1>2, <1>9, UpdateLocalFacts DEF Save
  <2> QED
    BY <1>2, <1>9, <2>1, KeyFacts DEF Save, OneCategory, OnlyText
<1>10. ASSUME NEW succeeded \in BOOLEAN, NEW category \in Categories \ {Local},
              Publish(succeeded, category)
       PROVE  Exact(asset') /\ OneCategory(asset')
  <2>1. Exact(asset')
    BY <1>2, <1>10, AnswerFacts DEF Publish
  <2>2. OneCategory(asset')
    BY <1>2, <1>10, AnswerCategory DEF Publish, OneCategory
  <2> QED
    BY <2>1, <2>2
<1>11. ASSUME NEW p \in Props, NEW v \in Values, NEW succeeded \in BOOLEAN,
              PublishWithBadge(p, v, succeeded)
       PROVE  Exact(asset') /\ OneCategory(asset')
  <2> DEFINE c == SetField(asset, p, v)
  <2>1. /\ p \in Keys /\ p # "Definition" /\ v \in Domain(p) /\ Unpromoted \in Categories
        /\ "Category" \in Keys \ {p}
    BY KeyFacts DEF Categories
  <2>2. /\ Follows(asset, c) /\ TextsOK(c) /\ Exact(c)
        /\ c.field["Category"] = asset.field["Category"]
    BY <1>2, <1>11, <2>1, SetFieldFacts DEF PublishWithBadge
  <2>3. asset' = Answer(c, succeeded, Unpromoted)
    BY <1>11 DEF PublishWithBadge
  <2> HIDE DEF c
  <2>4. Whole(c) /\ Level1(c) = Level1(asset) /\ Level2(c) = Level2(asset)
    BY <1>2, <1>11, <2>2, FollowsWhole DEF PublishWithBadge
  <2>5. Exact(asset')
    BY <2>1, <2>2, <2>3, <2>4, AnswerFacts
  <2>6. OneCategory(asset)
    BY <1>2, <1>11 DEF PublishWithBadge
  <2>7. OneCategory(asset')
    BY <2>1, <2>2, <2>3, <2>4, <2>6, AnswerCategory DEF OneCategory
  <2> QED
    BY <2>5, <2>7
<1>12. ASSUME NEW category \in Categories \ {Local}, NEW succeeded \in BOOLEAN,
              PromoteOrDemote(category, succeeded)
       PROVE  Exact(asset') /\ OneCategory(asset')
  <2> DEFINE c == SetField(asset, "Category", category)
  <2>1. "Category" \in Keys /\ category \in Domain("Category")
    BY KeyFacts
  <2>2. Follows(asset, c) /\ TextsOK(c) /\ Exact(c)
    BY <1>2, <1>12, <2>1, SetFieldFacts DEF PromoteOrDemote
  <2>3. asset' = Answer(c, succeeded, category)
    BY <1>12 DEF PromoteOrDemote
  <2> HIDE DEF c
  <2>4. Whole(c) /\ Level1(c) = Level1(asset) /\ Level2(c) = Level2(asset)
    BY <1>2, <1>12, <2>2, FollowsWhole DEF PromoteOrDemote
  <2>5. Exact(asset')
    BY <2>2, <2>3, <2>4, AnswerFacts
  <2>6. OneCategory(asset)
    BY <1>2, <1>12 DEF PromoteOrDemote
  <2>7. c.changes = "None" => c.field = Level1(c)
    BY <2>4, UnchangedFacts
  <2>8. OneCategory(asset')
    BY <2>3, <2>4, <2>6, <2>7, AnswerCategory DEF OneCategory
  <2> QED
    BY <2>5, <2>8
<1>13. CASE Discard
  BY <1>2, <1>13, RestoreLocalFacts DEF Discard, OneCategory
<1>14. CASE RevertToServer
  BY <1>2, <1>14, RestoreServerFacts DEF RevertToServer, OneCategory
<1>15. CASE Delete
  BY <1>2, <1>15, MarkedFacts DEF Delete, OneCategory
<1>16. ASSUME NEW line \in Lines, Reload(line)
       PROVE  Exact(asset') /\ OneCategory(asset')
  BY <1>2, <1>16, ResetLocalFacts DEF Reload, OneCategory
<1> QED
  BY <1>3, <1>4, <1>5, <1>6, <1>7, <1>8, <1>9, <1>10, <1>11, <1>12, <1>13, <1>14,
     <1>15, <1>16 DEF Next

LEMMA ExactInvariant ==
    ASSUME Empty \notin Edits
    PROVE  Spec => [](IInv /\ EInv)
<1>1. Init => EInv
  BY DEF Init, EInv
<1>2. IInv /\ EInv /\ [Next]_asset => EInv'
  BY ExactFacts DEF EInv
<1> QED
  BY <1>1, <1>2, Invariant, PTL DEF Spec

LEMMA LevelFacts ==
    ASSUME IInv, EInv, Depth(asset) = 2
    PROVE  /\ LocalFields = Level1(asset) /\ ServerFields = Level2(asset)
           /\ LocalFields \in Fields /\ ServerFields \in Fields /\ asset.field \in Fields
           /\ Whole(asset) /\ Exact(asset) /\ OneCategory(asset)
<1>1. Whole(asset) /\ Exact(asset) /\ OneCategory(asset)
  BY AtRest, ConstructedFacts DEF EInv
<1>2. LocalFields = Level1(asset) /\ ServerFields = Level2(asset)
  BY DEF LocalFields, ServerFields, Level1, Level2
<1> QED
  BY <1>1, <1>2, Parts DEF Whole, Tracked

\* The hash that is tracked is that of the text that is shown, while no
\* definition is cleared (AssetModelBase::SetAssetDefinition).
THEOREM HashAlwaysFollowsText ==
    ASSUME Empty \notin Edits
    PROVE  Spec => []HashFollowsText
<1>1. IInv /\ EInv => HashFollowsText
  BY ConstructedFacts DEF EInv, Exact, HashFollowsText
<1> QED
  BY <1>1, ExactInvariant, PTL

\* A checkpoint that is kept as a hash and a state can be reverted to: the
\* buffer that the state names holds its text (AssetModelBase::RevertTransaction).
THEOREM TextAlwaysRecoverable ==
    ASSUME Empty \notin Edits
    PROVE  Spec => []TextRecoverable
<1>1. IInv /\ EInv => TextRecoverable
  <2> SUFFICES ASSUME IInv, EInv, Depth(asset) = 2, NEW fields \in {LocalFields, ServerFields}
               PROVE  /\ StateOf(fields["Definition"]) # "Modified"
                      /\ TextOf(fields["Definition"]) =
                            TextIn(asset, StateOf(fields["Definition"]))
    BY DEF TextRecoverable
  <2>1. /\ LocalFields = Level1(asset) /\ ServerFields = Level2(asset) /\ Exact(asset)
    BY LevelFacts
  <2> QED
    BY <2>1 DEF Exact, Saved, TextIn, LocalDefinition
<1> QED
  BY <1>1, ExactInvariant, PTL

\* The file gets the definition of the local checkpoint
\* (AssetModelBase::GetLocalAssetDefinition).
THEOREM SavedTextAlwaysWritten ==
    ASSUME Empty \notin Edits
    PROVE  Spec => []SavedTextWritten
<1>1. IInv /\ EInv => SavedTextWritten
  BY LevelFacts DEF Exact, SavedTextWritten
<1> QED
  BY <1>1, ExactInvariant, PTL

LEMMA SameContents ==
    ASSUME NEW f, NEW g, \A p \in Props : g[p] = f[p], g["Category"] = f["Category"],
           TextOf(g["Definition"]) = TextOf(f["Definition"])
    PROVE  Contents(g) = Contents(f)
<1>1. [p \in Props |-> g[p]] = [p \in Props |-> f[p]]
  OBVIOUS
<1> QED
  BY <1>1 DEF Contents

\* What was saved and is reloaded is what was saved
\* (AssetModelBase::ResetLocalCheckpoint).
THEOREM ReloadAlwaysRestoresSaved ==
    ASSUME Empty \notin Edits
    PROVE  Spec => []ReloadRestoresSaved
<1>1. IInv /\ EInv => ReloadRestoresSaved
  <2> DEFINE again == ResetLocalCheckpoint(asset, Serialized)
  <2> SUFFICES ASSUME IInv, EInv, Depth(asset) = 2
               PROVE  /\ Contents(again.field) = Contents(LocalFields)
                      /\ Definition(again) = TextOf(LocalFields["Definition"])
    BY DEF ReloadRestoresSaved
  <2>1. /\ LocalFields = Level1(asset) /\ ServerFields = Level2(asset)
        /\ LocalFields \in Fields /\ Whole(asset) /\ Exact(asset) /\ OneCategory(asset)
    BY LevelFacts
  <2>2. \A p \in Props : LocalFields[p] \in Values
    <3> TAKE p \in Props
    <3>1. p \in Keys /\ Domain(p) = Values
      BY KeyFacts
    <3> QED
      BY <2>1, <3>1, FieldFacts
  <2>3. LocalDefinition(asset) \in Texts
    BY <2>1, Parts DEF Whole, Tracked, LocalDefinition
  <2>4. /\ Serialized \in [props : [Props -> Values], text : Texts]
        /\ \A p \in Props : Serialized.props[p] = LocalFields[p]
        /\ Serialized.text = LocalDefinition(asset)
    BY <2>2, <2>3 DEF Serialized
  <2>5. Serialized \in Lines /\ Serialized # Malformed
    BY <2>4, AssetAssumption DEF Lines
  <2>6. /\ \A p \in Props : again.field[p] = Serialized.props[p]
        /\ again.field["Category"] = Level2(asset)["Category"]
        /\ Exact(again)
        /\ TextOf(again.field["Definition"]) =
              IF Serialized.text = Empty THEN TextOf(Level2(asset)["Definition"])
              ELSE Serialized.text
    BY <2>1, <2>5, ResetLocalFacts
  <2>7. LocalDefinition(asset) = TextOf(LocalFields["Definition"])
    BY <2>1 DEF Exact
  <2>8. LocalDefinition(asset) = Empty =>
           TextOf(Level2(asset)["Definition"]) = LocalDefinition(asset)
    BY <2>1 DEF Exact, LocalDefinition, Whole
  <2> HIDE DEF again
  <2>9. TextOf(again.field["Definition"]) = TextOf(LocalFields["Definition"])
    BY <2>4, <2>6, <2>7, <2>8
  <2>10. Contents(again.field) = Contents(LocalFields)
    BY <2>1, <2>4, <2>6, <2>9, SameContents DEF OneCategory
  <2> QED
    BY <2>6, <2>9, <2>10 DEF Exact
<1> QED
  BY <1>1, ExactInvariant, PTL

-----------------------------------------------------------------------------
(* The transactions and the buffers implement three complete contents.     *)

Server(a) == Contents(Level2(a))
Saves(a) == Contents(Level1(a))
Shows(a) == Contents(a.field)

LEMMA ContentFacts ==
    ASSUME NEW f \in Fields
    PROVE  /\ Contents(f) \in Promise!Content
           /\ Contents(f).category = f["Category"]
<1>1. \A p \in Props : f[p] \in Values
  <2> TAKE p \in Props
  <2>1. p \in Keys /\ Domain(p) = Values
    BY KeyFacts
  <2> QED
    BY <2>1, FieldFacts
<1>2. f["Category"] \in Categories
  BY FieldFacts, KeyFacts
<1>3. TextOf(f["Definition"]) \in Texts
  BY StateFacts
<1> QED
  BY <1>1, <1>2, <1>3 DEF Contents, Promise!Content

\* Contents that differ in one part
LEMMA PropContents ==
    ASSUME NEW f \in Fields, NEW g \in Fields, NEW p \in Props, NEW v \in Values, g[p] = v,
           \A q \in Props \ {p} : g[q] = f[q], g["Category"] = f["Category"],
           TextOf(g["Definition"]) = TextOf(f["Definition"])
    PROVE  Contents(g) = [Contents(f) EXCEPT !.props[p] = v]
<1>1. [q \in Props |-> g[q]] = [[q \in Props |-> f[q]] EXCEPT ![p] = v]
  OBVIOUS
<1>2. /\ Contents(f) \in Promise!Content /\ Contents(g) \in Promise!Content
      /\ Contents(g).props = [Contents(f).props EXCEPT ![p] = v]
      /\ Contents(g).text = Contents(f).text /\ Contents(g).category = Contents(f).category
  BY <1>1, ContentFacts DEF Contents
<1> QED
  BY <1>2 DEF Promise!Content

LEMMA TextContents ==
    ASSUME NEW f \in Fields, NEW g \in Fields, \A p \in Props : g[p] = f[p],
           g["Category"] = f["Category"]
    PROVE  Contents(g) = [Contents(f) EXCEPT !.text = TextOf(g["Definition"])]
<1>1. [p \in Props |-> g[p]] = [p \in Props |-> f[p]]
  OBVIOUS
<1>2. /\ Contents(f) \in Promise!Content /\ Contents(g) \in Promise!Content
      /\ Contents(g).props = Contents(f).props /\ Contents(g).text = TextOf(g["Definition"])
      /\ Contents(g).category = Contents(f).category
  BY <1>1, ContentFacts DEF Contents
<1> QED
  BY <1>2 DEF Promise!Content

LEMMA CategoryContents ==
    ASSUME NEW f \in Fields, NEW g \in Fields, \A p \in Props : g[p] = f[p],
           TextOf(g["Definition"]) = TextOf(f["Definition"])
    PROVE  Contents(g) = [Contents(f) EXCEPT !.category = g["Category"]]
<1>1. [p \in Props |-> g[p]] = [p \in Props |-> f[p]]
  OBVIOUS
<1>2. /\ Contents(f) \in Promise!Content /\ Contents(g) \in Promise!Content
      /\ Contents(g).props = Contents(f).props /\ Contents(g).text = Contents(f).text
      /\ Contents(g).category = g["Category"]
  BY <1>1, ContentFacts DEF Contents
<1> QED
  BY <1>2 DEF Promise!Content

\* The content with a category and a badge of its own
Badged(content, category, p, v) ==
    [content EXCEPT !.category = category, !.props[p] = v]

LEMMA BadgeContents ==
    ASSUME NEW f \in Fields, NEW g \in Fields, NEW p \in Props, NEW v \in Values, g[p] = v,
           \A q \in Props \ {p} : g[q] = f[q], g["Category"] # Local,
           TextOf(g["Definition"]) = TextOf(f["Definition"])
    PROVE  \E category \in Categories \ {Local}, q \in Props, w \in Values :
              Contents(g) = Badged(Contents(f), category, q, w)
<1>1. [q \in Props |-> g[q]] = [[q \in Props |-> f[q]] EXCEPT ![p] = v]
  OBVIOUS
<1>2. /\ Contents(f) \in Promise!Content /\ Contents(g) \in Promise!Content
      /\ Contents(g).props = [Contents(f).props EXCEPT ![p] = v]
      /\ Contents(g).text = Contents(f).text /\ Contents(g).category = g["Category"]
  BY <1>1, ContentFacts DEF Contents
<1>3. Contents(g) = [Contents(f) EXCEPT !.category = g["Category"], !.props[p] = v]
  BY <1>2 DEF Promise!Content
<1>4. g["Category"] \in Categories \ {Local}
  BY FieldFacts, KeyFacts
<1>5. Contents(g) = Badged(Contents(f), g["Category"], p, v)
  BY <1>3 DEF Badged
<1> QED
  BY <1>4, <1>5

\* The content with the properties and the text of a line
Rewritten(content, props, text) == [content EXCEPT !.props = props, !.text = text]

LEMMA ReadContents ==
    ASSUME NEW f \in Fields, NEW g \in Fields, NEW props \in [Props -> Values],
           \A p \in Props : g[p] = props[p], g["Category"] = f["Category"]
    PROVE  Contents(g) = Rewritten(Contents(f), props, TextOf(g["Definition"]))
<1>1. [p \in Props |-> g[p]] = props
  OBVIOUS
<1>2. /\ Contents(f) \in Promise!Content /\ Contents(g) \in Promise!Content
      /\ Contents(g).props = props /\ Contents(g).text = TextOf(g["Definition"])
      /\ Contents(g).category = Contents(f).category
  BY <1>1, ContentFacts DEF Contents
<1> QED
  BY <1>2 DEF Promise!Content, Rewritten

\* What each action of the promise asks of the asset before and after a step
LEMMA PresentFacts ==
    ASSUME IInv, Live, Depth(asset') = 2, asset'.changes # "Deleted"
    PROVE  /\ /\ Server(asset') = Server(asset) /\ Saves(asset') = Saves(asset)
              /\ \/ \E p \in Props, v \in Values :
                       Shows(asset') = [Shows(asset) EXCEPT !.props[p] = v]
                 \/ \E t \in Texts : Shows(asset') = [Shows(asset) EXCEPT !.text = t]
              => Promise!Edit
           /\ /\ Server(asset') = Server(asset) /\ Saves(asset') = Shows(asset)
              /\ Shows(asset') = Shows(asset)
              => Promise!Save
           /\ /\ Server(asset') = Shows(asset') /\ Saves(asset') = Shows(asset')
              /\ \E category \in Categories \ {Local} :
                    \/ Shows(asset') = [Shows(asset) EXCEPT !.category = category]
                    \/ \E p \in Props, v \in Values :
                          Shows(asset') = [Shows(asset) EXCEPT !.category = category,
                                                               !.props[p] = v]
              => Promise!Publish
           /\ /\ Server(asset') = Server(asset) /\ Saves(asset') = Saves(asset)
              /\ Shows(asset') = Saves(asset)
              => Promise!Discard
           /\ /\ Server(asset') = Server(asset) /\ Saves(asset') = Server(asset)
              /\ Shows(asset') = Server(asset) /\ Shows(asset).category # Local
              => Promise!Revert
           /\ /\ Server(asset') = Server(asset) /\ Shows(asset') = Saves(asset')
              /\ \/ Saves(asset') = Server(asset)
                 \/ \E props \in [Props -> Values], text \in Texts :
                       Saves(asset') = [Server(asset) EXCEPT !.props = props, !.text = text]
              => Promise!Reload
<1>1. /\ LocalFields = Level1(asset) /\ ServerFields = Level2(asset)
      /\ LocalFields' = Level1(asset') /\ ServerFields' = Level2(asset')
  BY DEF LocalFields, ServerFields, Level1, Level2
<1>2. Depth(asset) = 2 /\ asset.changes # "Deleted"
  BY DEF Live
<1>3. Depth(asset)' = 2 /\ asset.changes' # "Deleted"
  BY DEF Depth
<1>4. /\ Contents(LocalFields) = Saves(asset) /\ Contents(LocalFields)' = Saves(asset')
      /\ Contents(ServerFields) = Server(asset) /\ Contents(ServerFields)' = Server(asset')
      /\ Contents(asset.field) = Shows(asset) /\ Contents(asset.field)' = Shows(asset')
  BY <1>1 DEF Contents, Saves, Server, Shows
<1> DEFINE kept == Contents(IF Depth(asset) = 2 THEN ServerFields ELSE asset.field)
           saved == Contents(IF Depth(asset) = 2 THEN LocalFields ELSE asset.field)
           shown == Contents(asset.field)
           stage == CASE Depth(asset) < 2 -> "absent"
                      [] Depth(asset) = 2 /\ asset.changes = "Deleted" -> "gone"
                      [] OTHER -> "present"
<1>5. stage = "present" /\ stage' = "present"
  BY <1>2, <1>3
<1>6. /\ kept = Server(asset) /\ kept' = Server(asset')
       /\ saved = Saves(asset) /\ saved' = Saves(asset')
       /\ shown = Shows(asset) /\ shown' = Shows(asset')
  BY <1>2, <1>3, <1>4
<1>7. Promise!Publish <=>
          /\ stage = "present"
          /\ \E category \in Categories \ {Local} :
                \/ shown' = [shown EXCEPT !.category = category]
                \/ \E p \in Props, v \in Values :
                      shown' = [shown EXCEPT !.category = category, !.props[p] = v]
          /\ kept' = shown' /\ saved' = shown'
          /\ UNCHANGED stage
  BY DEF Promise!Publish
<1>8. Promise!Reload <=>
          /\ stage = "present"
          /\ \/ saved' = kept
             \/ \E props \in [Props -> Values], text \in Texts :
                   saved' = [kept EXCEPT !.props = props, !.text = text]
          /\ shown' = saved'
          /\ UNCHANGED <<stage, kept>>
  BY DEF Promise!Reload
<1> HIDE DEF kept, saved, shown, stage
<1>9. ASSUME Server(asset') = Server(asset), Saves(asset') = Saves(asset),
             \/ \E p \in Props, v \in Values :
                   Shows(asset') = [Shows(asset) EXCEPT !.props[p] = v]
             \/ \E t \in Texts : Shows(asset') = [Shows(asset) EXCEPT !.text = t]
      PROVE  Promise!Edit
  BY <1>2, <1>3, <1>4, <1>9 DEF Promise!Edit
<1>10. ASSUME Server(asset') = Server(asset), Saves(asset') = Shows(asset),
             Shows(asset') = Shows(asset)
      PROVE  Promise!Save
  BY <1>2, <1>3, <1>4, <1>10 DEF Promise!Save
<1>11. ASSUME Server(asset') = Shows(asset'), Saves(asset') = Shows(asset'),
             \E category \in Categories \ {Local} :
                \/ Shows(asset') = [Shows(asset) EXCEPT !.category = category]
                \/ \E p \in Props, v \in Values :
                      Shows(asset') = [Shows(asset) EXCEPT !.category = category,
                                                           !.props[p] = v]
      PROVE  Promise!Publish
  <2>1. PICK category \in Categories \ {Local} :
                \/ Shows(asset') = [Shows(asset) EXCEPT !.category = category]
                \/ \E p \in Props, v \in Values :
                      Shows(asset') = [Shows(asset) EXCEPT !.category = category,
                                                           !.props[p] = v]
    BY <1>11
  <2>2. CASE Shows(asset') = [Shows(asset) EXCEPT !.category = category]
    BY <1>11, <1>6, <1>7, <1>5, <2>2, Zenon
  <2>3. CASE \E p \in Props, v \in Values :
                Shows(asset') = [Shows(asset) EXCEPT !.category = category, !.props[p] = v]
    <3>1. PICK p \in Props, v \in Values :
             Shows(asset') = [Shows(asset) EXCEPT !.category = category, !.props[p] = v]
      BY <2>3
    <3>2. shown' = [shown EXCEPT !.category = category, !.props[p] = v]
      BY <1>6, <3>1, Zenon
    <3>3. stage = "present" /\ kept' = shown' /\ saved' = shown' /\ stage' = stage
      BY <1>11, <1>6, <1>5
    <3> QED
      BY <1>7, <3>2, <3>3, Zenon
  <2> QED
    BY <2>1, <2>2, <2>3
<1>12. ASSUME Server(asset') = Server(asset), Saves(asset') = Saves(asset),
             Shows(asset') = Saves(asset)
      PROVE  Promise!Discard
  BY <1>2, <1>3, <1>4, <1>12 DEF Promise!Discard
<1>13. ASSUME Server(asset') = Server(asset), Saves(asset') = Server(asset),
             Shows(asset') = Server(asset), Shows(asset).category # Local
      PROVE  Promise!Revert
  BY <1>2, <1>3, <1>4, <1>13 DEF Promise!Revert, Promise!IsLocal
<1>14. ASSUME Server(asset') = Server(asset), Shows(asset') = Saves(asset'),
              \/ Saves(asset') = Server(asset)
              \/ \E props \in [Props -> Values], text \in Texts :
                    Saves(asset') = [Server(asset) EXCEPT !.props = props, !.text = text]
       PROVE  Promise!Reload
  BY <1>14, <1>6, <1>8, <1>5, Zenon
<1> QED
  BY <1>9, <1>10, <1>11, <1>12, <1>13, <1>14

LEMMA UnpublishedFacts ==
    /\ Promise!Unpublished = Contents(InCategory(Local).field)
    /\ Contents(NewLocal.field) = Promise!Unpublished
<1> DEFINE f == Constructed.field
           g == InCategory(Local).field
<1>1. Local \in Categories
  BY DEF Categories
<1>2. f \in Fields /\ TextOf(f["Definition"]) = Empty
  BY ConstructedFacts, Parts DEF Tracked
<1>3. g \in Fields /\ TextOf(g["Definition"]) = Empty /\ g["Category"] = Local
  BY <1>1, CategoryFacts, Parts DEF Tracked
<1>4. \A p \in Props : g[p] = f[p]
  BY <1>1, OwnPropsFacts
<1>5. Promise!Unpublished = [Contents(f) EXCEPT !.category = Local]
  BY DEF Promise!Unpublished
<1> HIDE DEF f, g
<1>6. Contents(g) = [Contents(f) EXCEPT !.category = g["Category"]]
  BY <1>2, <1>3, <1>4, CategoryContents
<1>7. Promise!Unpublished = Contents(g)
  BY <1>3, <1>5, <1>6
<1>8. Contents(NewLocal.field) = Contents(g)
  <2>1. /\ NewLocal.field["Category"] = g["Category"]
        /\ TextOf(NewLocal.field["Definition"]) = TextOf(g["Definition"])
        /\ \A p \in Props : NewLocal.field[p] = g[p]
    BY <1>3, <1>4, NewLocalFacts DEF f
  <2> QED
    BY <2>1, SameContents
<1> QED
  BY <1>7, <1>8 DEF g

LEMMA AppearFacts ==
    ASSUME Depth(asset) = 0, Whole(asset'), asset'.changes # "Deleted"
    PROVE  /\ /\ Server(asset') = Shows(asset') /\ Saves(asset') = Shows(asset')
              /\ asset'.field["Category"] # Local
              => Promise!Load
           /\ /\ Server(asset') = Promise!Unpublished /\ Saves(asset') = Shows(asset')
              /\ asset'.field["Category"] = Local
              => Promise!LoadFile
           /\ /\ Server(asset') = Promise!Unpublished
              /\ Saves(asset') = Promise!Unpublished
              /\ asset'.field["Category"] = Local
              => Promise!Create
<1> DEFINE kept == Contents(IF Depth(asset) = 2 THEN ServerFields ELSE asset.field)
           saved == Contents(IF Depth(asset) = 2 THEN LocalFields ELSE asset.field)
           shown == Contents(asset.field)
           stage == CASE Depth(asset) < 2 -> "absent"
                      [] Depth(asset) = 2 /\ asset.changes = "Deleted" -> "gone"
                      [] OTHER -> "present"
<1>1. /\ LocalFields' = Level1(asset') /\ ServerFields' = Level2(asset')
      /\ Depth(asset)' = 2 /\ asset.changes' # "Deleted"
  BY DEF LocalFields, ServerFields, Level1, Level2, Whole, Depth
<1>2. stage = "absent" /\ stage' = "present"
  BY <1>1
<1>3. kept' = Server(asset') /\ saved' = Saves(asset') /\ shown' = Shows(asset')
  BY <1>1 DEF Contents, Saves, Server, Shows
<1>4. asset'.field \in Fields
  BY Parts DEF Whole, Tracked
<1>5. Shows(asset') \in Promise!Content /\ Shows(asset').category = asset'.field["Category"]
  BY <1>4, ContentFacts DEF Shows
<1>6. \A k, s, c : Promise!Appear(k, s, c) <=>
         /\ stage = "absent" /\ stage' = "present"
         /\ kept' = k /\ saved' = s /\ shown' = c
  BY DEF Promise!Appear
<1> HIDE DEF kept, saved, shown, stage
<1>7. Promise!Appear(Server(asset'), Saves(asset'), Shows(asset'))
  BY <1>2, <1>3, <1>6
<1>8. ASSUME Server(asset') = Shows(asset'), Saves(asset') = Shows(asset'),
             asset'.field["Category"] # Local
      PROVE  Promise!Load
  BY <1>5, <1>7, <1>8 DEF Promise!Load, Promise!IsLocal
<1>9. ASSUME Server(asset') = Promise!Unpublished, Saves(asset') = Shows(asset'),
             asset'.field["Category"] = Local
      PROVE  Promise!LoadFile
  BY <1>5, <1>7, <1>9 DEF Promise!LoadFile, Promise!IsLocal
<1>10. ASSUME Server(asset') = Promise!Unpublished, Saves(asset') = Promise!Unpublished,
              asset'.field["Category"] = Local
       PROVE  Promise!Create
  BY <1>5, <1>7, <1>10 DEF Promise!Create, Promise!IsLocal
<1> QED
  BY <1>8, <1>9, <1>10

\* The answer to an upload that succeeded: what is shown is published, in the
\* category the server gave it.
LEMMA SuccessContents ==
    ASSUME NEW c, Whole(c), NEW category \in Categories,
           NEW b, b = Answer(c, TRUE, category)
    PROVE  /\ Server(b) = Shows(b) /\ Saves(b) = Shows(b)
           /\ b.field \in Fields
           /\ b.field["Category"] \in {category} \cup (Categories \ {Local})
           /\ \A p \in Props : b.field[p] = c.field[p]
<1>1. Level1(b) = b.field /\ Level2(b) = b.field
  BY SuccessFacts
<1>2. \A p \in Props : b.field[p] = c.field[p]
  BY SuccessFacts
<1>3. b.field \in Fields
  BY SuccessFacts, Parts DEF Whole, Tracked
<1> QED
  BY <1>1, <1>2, <1>3, SuccessCategory DEF Server, Saves, Shows

\* An upload that failed puts the saved content back.
LEMMA FailureRefines ==
    ASSUME IInv, Live, NEW c, Whole(c), c.changes # "Deleted", c.changes # "None",
           Level1(c) = Level1(asset), Level2(c) = Level2(asset), NEW category \in Categories,
           asset' = Answer(c, FALSE, category)
    PROVE  Promise!Discard
<1>1. /\ asset'.field = Level1(c) /\ Level1(asset') = Level1(c) /\ Level2(asset') = Level2(c)
  BY FailureFacts
<1>2. Whole(asset') /\ asset'.changes # "Deleted"
  BY FailureFacts, ZenonT(40)
<1> QED
  BY <1>1, <1>2, PresentFacts DEF Whole, Server, Saves, Shows

LEMMA SuccessProps ==
    ASSUME NEW c, Whole(c), NEW category \in Categories,
           NEW b, b = Answer(c, TRUE, category), NEW q \in Props
    PROVE  b.field[q] = c.field[q]
BY SuccessContents, ZenonT(40)

LEMMA PublishRefines ==
    ASSUME IInv, Live, NEW c, Whole(c), Exact(c), NEW category \in Categories \ {Local},
           asset' = Answer(c, TRUE, category), asset.field \in Fields,
           \A q \in Props : c.field[q] = asset.field[q],
           c.field["Definition"] = asset.field["Definition"]
    PROVE  Promise!Publish
<1>1. asset'.changes # "Deleted" /\ Depth(asset') = 2
  <2>1. Whole(asset')
    BY SuccessFacts
  <2>2. asset'.changes # "Deleted"
    BY SuccessFacts, ZenonT(40)
  <2> QED
    BY <2>1, <2>2 DEF Whole
<1>2. Server(asset') = Shows(asset') /\ Saves(asset') = Shows(asset')
  BY SuccessContents
<1>3. asset'.field \in Fields
  BY SuccessContents
<1>4. asset'.field["Category"] \in Categories \ {Local}
  BY SuccessContents
<1>5. \A q \in Props : asset'.field[q] = c.field[q]
  BY SuccessProps, ZenonT(40)
<1>6. TextOf(asset'.field["Definition"]) = TextOf(c.field["Definition"])
  BY SuccessText
<1>7. Shows(asset') = [Shows(asset) EXCEPT !.category = asset'.field["Category"]]
  <2>1. \A q \in Props : asset'.field[q] = asset.field[q]
    BY <1>5
  <2>2. TextOf(asset'.field["Definition"]) = TextOf(asset.field["Definition"])
    BY <1>6
  <2> QED
    BY <1>3, <2>1, <2>2, CategoryContents DEF Shows
<1> QED
  BY <1>1, <1>2, <1>4, <1>7, PresentFacts

LEMMA BadgePresent ==
    ASSUME IInv, Live, Depth(asset') = 2, asset'.changes # "Deleted",
           Server(asset') = Shows(asset'), Saves(asset') = Shows(asset'),
           \E k \in Categories \ {Local}, q \in Props, w \in Values :
              Contents(asset'.field) = Badged(Contents(asset.field), k, q, w)
    PROVE  Promise!Publish
<1>1. PICK k \in Categories \ {Local}, q \in Props, w \in Values :
         Contents(asset'.field) = Badged(Contents(asset.field), k, q, w)
  OBVIOUS
<1>2. Shows(asset') = [Shows(asset) EXCEPT !.category = k, !.props[q] = w]
  BY <1>1, Zenon DEF Shows, Badged
<1> DEFINE Becomes(category) ==
               \/ Shows(asset') = [Shows(asset) EXCEPT !.category = category]
               \/ \E p \in Props, v \in Values :
                     Shows(asset') = [Shows(asset) EXCEPT !.category = category,
                                                         !.props[p] = v]
<1>3. \E p \in Props, v \in Values :
         Shows(asset') = [Shows(asset) EXCEPT !.category = k, !.props[p] = v]
  <2> WITNESS q \in Props, w \in Values
  <2> QED
    BY <1>2
<1>4. Becomes(k)
  BY <1>3
<1>5. \E category \in Categories \ {Local} : Becomes(category)
  <2> HIDE DEF Becomes
  <2> QED
    BY <1>4
<1> QED
  BY <1>5, PresentFacts

LEMMA BadgeRefines ==
    ASSUME IInv, Live, NEW c, Whole(c), Exact(c), asset.field \in Fields,
           NEW category \in Categories \ {Local}, asset' = Answer(c, TRUE, category),
           NEW p \in Props, NEW v \in Values, c.field[p] = v,
           \A q \in Props \ {p} : c.field[q] = asset.field[q],
           c.field["Definition"] = asset.field["Definition"]
    PROVE  Promise!Publish
<1>1. asset'.changes # "Deleted" /\ Depth(asset') = 2
  <2>1. Whole(asset')
    BY SuccessFacts
  <2>2. asset'.changes # "Deleted"
    BY SuccessFacts, ZenonT(40)
  <2> QED
    BY <2>1, <2>2 DEF Whole
<1>2. Server(asset') = Shows(asset') /\ Saves(asset') = Shows(asset')
  BY SuccessContents
<1>3. asset'.field \in Fields
  BY SuccessContents
<1>4. asset'.field["Category"] \in Categories \ {Local}
  BY SuccessContents
<1>5. \A q \in Props : asset'.field[q] = c.field[q]
  BY SuccessProps, ZenonT(40)
<1>6. TextOf(asset'.field["Definition"]) = TextOf(c.field["Definition"])
  BY SuccessText
<1>7. \E k \in Categories \ {Local}, q \in Props, w \in Values :
         Contents(asset'.field) = Badged(Contents(asset.field), k, q, w)
  <2>1. asset'.field[p] = v
    BY <1>5
  <2>2. \A q \in Props \ {p} : asset'.field[q] = asset.field[q]
    BY <1>5
  <2>3. TextOf(asset'.field["Definition"]) = TextOf(asset.field["Definition"])
    BY <1>6
  <2>4. asset'.field["Category"] # Local
    BY <1>4
  <2> QED
    BY <1>3, <2>1, <2>2, <2>3, <2>4, BadgeContents
<1> QED
  BY <1>1, <1>2, <1>7, BadgePresent

\* A local asset is deleted.
LEMMA RemoveFacts ==
    ASSUME Depth(asset) = 2, asset.changes # "Deleted", asset.field \in Fields,
           asset.field["Category"] = Local, Depth(asset') = 2, asset'.changes = "Deleted",
           asset'.field = asset.field, Level1(asset') = Level1(asset),
           Level2(asset') = Level2(asset)
    PROVE  Promise!Remove
<1>1. /\ LocalFields' = LocalFields /\ ServerFields' = ServerFields
      /\ Depth(asset)' = 2 /\ asset.changes' = "Deleted" /\ asset.field' = asset.field
  BY DEF LocalFields, ServerFields, Level1, Level2, Depth
<1>2. /\ Contents(LocalFields)' = Contents(LocalFields)
      /\ Contents(ServerFields)' = Contents(ServerFields)
      /\ Contents(asset.field)' = Contents(asset.field)
  BY <1>1 DEF Contents
<1>3. Contents(asset.field).category = Local
  BY ContentFacts
<1> QED
  BY <1>1, <1>2, <1>3 DEF Promise!Remove, Promise!IsLocal

\* A malformed line leaves the server's checkpoint.
LEMMA ResetMalformed ==
    ASSUME NEW a, Whole(a), NEW b, b = ResetLocalCheckpoint(a, Malformed)
    PROVE  b.field = Level2(a)
<1> DEFINE c == Revert(Revert(BeginUpdate(a)))
           d == BeginTransaction(c)
           e == CreateLocalCheckpoint(d)
<1>1. /\ Tracked(c) /\ Depth(c) = 0 /\ c.field = Level2(a)
      /\ TextsOK(c) /\ DefinitionState(c) # "Modified"
  BY RevertTwiceFacts
<1>2. b = EndUpdate(e, a.isModified)
  BY DEF ResetLocalCheckpoint, Deserialize
<1> HIDE DEF c
<1>3. Tracked(d) /\ d.field = c.field /\ Depth(d) = 1
  BY <1>1, BeginFacts
<1> HIDE DEF d
<1>4. e.field = d.field
  <2>1. /\ BeginTransaction(d).field = d.field /\ BeginTransaction(d) \in Asset
    BY <1>3, BeginFacts DEF Tracked
  <2> QED
    BY <2>1 DEF CreateLocalCheckpoint, WithChanges, Asset
<1>5. e \in Asset
  <2>1. BeginTransaction(d) \in Asset
    BY <1>3, BeginFacts DEF Tracked
  <2> QED
    BY <2>1 DEF CreateLocalCheckpoint, WithChanges, Asset, AssetChanges
<1> HIDE DEF e
<1>6. b.field = e.field
  BY <1>2, <1>5 DEF EndUpdate, Asset
<1> QED
  BY <1>1, <1>3, <1>4, <1>6

\* Every step is a step of the promise.
LEMMA StepImplements ==
    ASSUME Empty \notin Edits, IInv, EInv, Next
    PROVE  Promise!Next
<1>1. NotCreated => Depth(asset) = 0 /\ asset = Constructed
  BY AtRest DEF NotCreated
<1>2. Live => /\ Whole(asset) /\ Tracked(asset) /\ Depth(asset) = 2 /\ TextsOK(asset)
              /\ Exact(asset) /\ OneCategory(asset) /\ asset.field \in Fields
              /\ Level1(asset) \in Fields /\ Level2(asset) \in Fields
              /\ asset.changes # "Deleted"
  <2>1. Live => asset # Constructed
    BY ConstructedFacts DEF Live
  <2>2. Live => Depth(asset) = 2 /\ asset.changes # "Deleted"
    BY DEF Live
  <2>3. Live => Whole(asset)
    BY <2>2, AtRest
  <2>4. Live => Exact(asset) /\ OneCategory(asset)
    BY <2>1 DEF EInv
  <2>5. Whole(asset) => Tracked(asset) /\ TextsOK(asset) /\ asset \in Asset
    BY DEF Whole, Tracked
  <2>6. asset \in Asset /\ Depth(asset) = 2
        => /\ asset.field \in Fields /\ Level1(asset) \in Fields
           /\ Level2(asset) \in Fields
    BY Parts
  <2> QED
    BY <2>2, <2>3, <2>4, <2>5, <2>6
<1>3. /\ Whole(asset') /\ Depth(asset') = 2 /\ asset'.field \in Fields
      /\ Level1(asset') \in Fields /\ Level2(asset') \in Fields
  <2>1. Whole(asset')
    BY StepFacts
  <2>2. asset' \in Asset /\ Depth(asset') = 2
    BY <2>1 DEF Whole, Tracked
  <2> QED
    BY <2>1, <2>2, Parts
<1>4. ASSUME NEW category \in Categories \ {Local}, NEW props \in [Props -> Values],
             NEW text \in Texts, LoadFromServer(category, props, text)
      PROVE  Promise!Load
  <2>1. /\ Level1(asset') = asset'.field /\ Level2(asset') = asset'.field
        /\ asset'.changes # "Deleted" /\ asset'.field["Category"] = category
    BY <1>4, LoadFromServerFacts DEF LoadFromServer
  <2> QED
    BY <1>1, <1>3, <1>4, <2>1, AppearFacts DEF LoadFromServer, Server, Saves, Shows
<1>5. ASSUME NEW line \in Lines, LoadFromFile(line)
      PROVE  Promise!LoadFile
  <2>1. /\ Level1(asset') = asset'.field /\ Level2(asset') = InCategory(Local).field
        /\ asset'.changes # "Deleted" /\ asset'.field["Category"] = Local
    BY <1>5, LoadFromFileFacts DEF LoadFromFile
  <2> QED
    BY <1>1, <1>3, <1>5, <2>1, AppearFacts, UnpublishedFacts
    DEF LoadFromFile, Server, Saves, Shows
<1>6. CASE CreateNew
  <2>1. /\ asset'.field = NewLocal.field /\ asset'.changes # "Deleted"
        /\ Level1(asset') = Level1(NewLocal) /\ Level2(asset') = Level2(NewLocal)
    BY <1>6, NewLocalFacts, MarkedFacts DEF CreateNew
  <2>2. Promise!Create
    BY <1>1, <1>3, <1>6, <2>1, AppearFacts, UnpublishedFacts, NewLocalFacts
    DEF CreateNew, Server, Saves, Shows
  <2> QED
    BY <2>2 DEF Promise!Next
<1>7. ASSUME NEW props \in [Props -> Values], NEW text \in Edits, Clone(props, text)
      PROVE  Promise!Create
  <2>1. /\ asset'.field["Category"] = Local /\ asset'.changes # "Deleted"
        /\ Level1(asset') = NewLocal.field /\ Level2(asset') = NewLocal.field
    BY <1>7, CloneFacts, EditAssumption DEF Clone
  <2> QED
    BY <1>1, <1>3, <1>7, <2>1, AppearFacts, UnpublishedFacts DEF Clone, Server, Saves
<1>8. ASSUME NEW p \in Props, NEW v \in Values, EditProperty(p, v)
      PROVE  Promise!Edit
  <2>1. p \in Keys /\ p # "Definition" /\ v \in Domain(p)
    BY KeyFacts
  <2>2. /\ Follows(asset, asset') /\ TextsOK(asset') /\ asset'.field[p] = v
        /\ \A j \in Keys \ {p} : asset'.field[j] = asset.field[j]
    BY <1>2, <1>8, <2>1, SetFieldFacts DEF EditProperty
  <2>3. /\ Level1(asset') = Level1(asset) /\ Level2(asset') = Level2(asset)
        /\ asset'.changes # "Deleted"
    BY <1>2, <1>8, <2>2 DEF Follows, EditProperty
  <2>4. Shows(asset') = [Shows(asset) EXCEPT !.props[p] = v]
    BY <1>2, <1>3, <1>8, <2>2, KeyFacts, PropContents, SMTT(30) DEF Shows, EditProperty
  <2>5. Live
    BY <1>8 DEF EditProperty
  <2> QED
    BY <1>3, <2>3, <2>4, <2>5, PresentFacts DEF Server, Saves
<1>9. ASSUME NEW text \in Edits, EditDefinition(text)
      PROVE  Promise!Edit
  <2>1. Live
    BY <1>9 DEF EditDefinition
  <2>2. /\ Follows(asset, asset') /\ OnlyText(asset, asset')
        /\ TextOf(asset'.field["Definition"]) \in Texts
    BY <1>2, <1>3, <1>9, SetCurrentFacts, EditAssumption, StateFacts DEF EditDefinition
  <2>3. /\ Level1(asset') = Level1(asset) /\ Level2(asset') = Level2(asset)
        /\ asset'.changes # "Deleted"
    BY <1>2, <2>1, <2>2 DEF Follows
  <2>4. Shows(asset') =
           [Shows(asset) EXCEPT !.text = TextOf(asset'.field["Definition"])]
    BY <1>2, <1>3, <2>1, <2>2, KeyFacts, TextContents DEF Shows, OnlyText
  <2> QED
    BY <1>3, <2>1, <2>2, <2>3, <2>4, PresentFacts DEF Server, Saves
<1>10. CASE Save
  <2>1. Live
    BY <1>10 DEF Save
  <2>2. /\ OnlyText(asset, asset') /\ asset'.changes # "Deleted"
        /\ Level1(asset') = asset'.field /\ Level2(asset') = Level2(asset)
        /\ TextOf(asset'.field["Definition"]) = TextOf(asset.field["Definition"])
    BY <1>2, <1>10, UpdateLocalFacts DEF Save
  <2>3. Shows(asset') = Shows(asset)
    BY <2>2, KeyFacts, SameContents DEF Shows, OnlyText
  <2>4. Promise!Save
    BY <1>3, <2>1, <2>2, <2>3, PresentFacts DEF Server, Saves, Shows
  <2> QED
    BY <2>4 DEF Promise!Next
<1>11. ASSUME NEW succeeded \in BOOLEAN, NEW category \in Categories \ {Local},
              Publish(succeeded, category)
       PROVE  Promise!Publish \/ Promise!Discard
  <2>1. /\ Live /\ asset.changes = "Unpublished"
        /\ asset' = Answer(asset, succeeded, category)
    BY <1>11 DEF Publish
  <2>2. CASE succeeded = TRUE
    BY <1>2, <1>3, <2>1, <2>2, PublishRefines
  <2>3. CASE succeeded = FALSE
    BY <1>2, <2>1, <2>3, FailureRefines
  <2> QED
    BY <2>2, <2>3
<1>12. ASSUME NEW p \in Props, NEW v \in Values, NEW succeeded \in BOOLEAN,
              PublishWithBadge(p, v, succeeded)
       PROVE  Promise!Publish \/ Promise!Discard \/ Promise!Edit
  <2> DEFINE c == SetField(asset, p, v)
  <2>1. Live /\ asset' = Answer(c, succeeded, Unpromoted)
    BY <1>12 DEF PublishWithBadge
  <2>2. /\ p \in Keys /\ p # "Definition" /\ v \in Domain(p)
        /\ Unpromoted \in Categories \ {Local}
    BY KeyFacts, AssetAssumption DEF Categories
  <2>3. /\ Follows(asset, c) /\ TextsOK(c) /\ c.field[p] = v /\ Exact(c)
        /\ \A j \in Keys \ {p} : c.field[j] = asset.field[j]
    BY <1>2, <2>1, <2>2, SetFieldFacts
  <2> HIDE DEF c
  <2>4. /\ Whole(c) /\ c.changes # "Deleted" /\ c.field \in Fields
        /\ Level1(c) = Level1(asset) /\ Level2(c) = Level2(asset)
    BY <1>2, <2>1, <2>3, FollowsWhole, Parts DEF Whole, Tracked
  <2>5. /\ \A q \in Props \ {p} : c.field[q] = asset.field[q]
        /\ c.field["Category"] = asset.field["Category"]
        /\ c.field["Definition"] = asset.field["Definition"]
    BY <2>3, KeyFacts
  <2>6. CASE succeeded = TRUE
    BY <1>2, <2>1, <2>2, <2>3, <2>4, <2>5, <2>6, BadgeRefines
  <2>7. CASE succeeded = FALSE /\ c.changes # "None"
    BY <2>1, <2>2, <2>4, <2>7, FailureRefines
  <2>8. CASE succeeded = FALSE /\ c.changes = "None"
    <3>1. asset' = c
      BY <2>1, <2>4, <2>8, FailureFacts
    <3>2. Shows(asset') = [Shows(asset) EXCEPT !.props[p] = v]
      BY <1>2, <2>1, <2>3, <2>4, <2>5, <3>1, PropContents DEF Shows
    <3>3. Promise!Edit
      BY <1>3, <2>1, <2>4, <3>1, <3>2, PresentFacts DEF Server, Saves
    <3> QED
      BY <3>3
  <2> QED
    BY <2>6, <2>7, <2>8
<1>13. ASSUME NEW category \in Categories \ {Local}, NEW succeeded \in BOOLEAN,
              PromoteOrDemote(category, succeeded)
       PROVE  Promise!Publish \/ Promise!Discard
  <2> DEFINE c == SetField(asset, "Category", category)
  <2>1. /\ Live /\ asset' = Answer(c, succeeded, category)
        /\ asset.field["Category"] # category
    BY <1>13 DEF PromoteOrDemote
  <2>2. "Category" \in Keys /\ category \in Domain("Category")
    BY KeyFacts
  <2>3. /\ Follows(asset, c) /\ TextsOK(c) /\ c.field["Category"] = category /\ Exact(c)
        /\ \A j \in Keys \ {"Category"} : c.field[j] = asset.field[j]
    BY <1>2, <2>1, <2>2, SetFieldFacts
  <2> HIDE DEF c
  <2>4. /\ Whole(c) /\ c.changes # "Deleted" /\ c.field \in Fields
        /\ Level1(c) = Level1(asset) /\ Level2(c) = Level2(asset)
    BY <1>2, <2>1, <2>3, FollowsWhole, Parts DEF Whole, Tracked
  <2>5. /\ \A q \in Props : c.field[q] = asset.field[q]
        /\ c.field["Definition"] = asset.field["Definition"]
    BY <2>3, KeyFacts
  <2>6. CASE succeeded = TRUE
    BY <1>2, <2>1, <2>3, <2>4, <2>5, <2>6, PublishRefines
  <2>7. CASE succeeded = FALSE
    <3>1. c.changes # "None"
      BY <1>2, <2>1, <2>3, <2>4, UnchangedFacts DEF OneCategory
    <3> QED
      BY <2>1, <2>4, <2>7, <3>1, FailureRefines
  <2> QED
    BY <2>6, <2>7
<1>14. CASE Discard
  <2>1. Live
    BY <1>14 DEF Discard
  <2>2. /\ asset'.field = Level1(asset) /\ Level1(asset') = Level1(asset)
        /\ Level2(asset') = Level2(asset) /\ asset'.changes # "Deleted"
    BY <1>2, <1>14, RestoreLocalFacts DEF Discard
  <2>3. Promise!Discard
    BY <1>3, <2>1, <2>2, PresentFacts DEF Server, Saves, Shows
  <2> QED
    BY <2>3 DEF Promise!Next
<1>15. CASE RevertToServer
  <2>1. Live /\ asset.field["Category"] # Local
    BY <1>15 DEF RevertToServer, IsLocalAsset
  <2>2. /\ asset'.field = Level2(asset) /\ Level1(asset') = Level2(asset)
        /\ Level2(asset') = Level2(asset) /\ asset'.changes # "Deleted"
    BY <1>2, <1>15, RestoreServerFacts DEF RevertToServer
  <2>3. Shows(asset).category # Local
    BY <1>2, <2>1, ContentFacts DEF Shows
  <2>4. Promise!Revert
    BY <1>3, <2>1, <2>2, <2>3, PresentFacts DEF Server, Saves, Shows
  <2> QED
    BY <2>4 DEF Promise!Next
<1>16. CASE Delete
  <2>1. Live /\ asset.field["Category"] = Local
    BY <1>16 DEF Delete, IsLocalAsset
  <2>2. /\ asset'.field = asset.field /\ Level1(asset') = Level1(asset)
        /\ Level2(asset') = Level2(asset) /\ asset'.changes = "Deleted"
    BY <1>2, <1>16, MarkedFacts DEF Delete
  <2>3. Promise!Remove
    BY <1>2, <1>3, <2>1, <2>2, RemoveFacts
  <2> QED
    BY <2>3 DEF Promise!Next
<1>17. ASSUME NEW line \in Lines, Reload(line)
       PROVE  Promise!Reload
  <2>1. Live
    BY <1>17 DEF Reload
  <2>2. /\ Level1(asset') = asset'.field /\ Level2(asset') = Level2(asset)
        /\ asset'.changes # "Deleted"
        /\ asset'.field["Category"] = Level2(asset)["Category"]
        /\ line # Malformed => \A p \in Props : asset'.field[p] = line.props[p]
    BY <1>2, <1>17, ResetLocalFacts DEF Reload
  <2>3. Shows(asset') = Saves(asset') /\ Server(asset') = Server(asset)
    BY <2>2 DEF Server, Saves, Shows
  <2>4. CASE line # Malformed
    <3>1. line.props \in [Props -> Values]
      BY <2>4 DEF Lines
    <3>2. TextOf(asset'.field["Definition"]) \in Texts
      BY <1>3, StateFacts
    <3>3. Saves(asset') = [Server(asset) EXCEPT !.props = line.props,
                                     !.text = TextOf(asset'.field["Definition"])]
      <4>1. asset'.field["Category"] = Level2(asset)["Category"]
        BY <2>2
      <4>2. \A p \in Props : asset'.field[p] = line.props[p]
        BY <2>2, <2>4
      <4>3. Contents(asset'.field) =
               Rewritten(Contents(Level2(asset)), line.props,
                         TextOf(asset'.field["Definition"]))
        BY <1>2, <1>3, <2>1, <3>1, <4>1, <4>2, ReadContents
      <4>4. Level1(asset') = asset'.field
        BY <2>2
      <4> QED
        BY <4>3, <4>4, Zenon DEF Server, Saves, Rewritten
    <3> QED
      BY <1>3, <2>1, <2>2, <2>3, <3>1, <3>2, <3>3, PresentFacts
  <2>5. CASE line = Malformed
    <3>1. asset'.field = Level2(asset)
      BY <1>2, <1>17, <2>5, ResetMalformed DEF Reload
    <3>2. Saves(asset') = Server(asset)
      BY <2>2, <3>1 DEF Server, Saves
    <3> QED
      BY <1>3, <2>1, <2>2, <2>3, <3>2, PresentFacts
  <2> QED
    BY <2>4, <2>5
<1> QED
  BY <1>4, <1>5, <1>6, <1>7, <1>8, <1>9, <1>10, <1>11, <1>12, <1>13, <1>14,
     <1>15, <1>16, <1>17 DEF Next, Promise!Next

\* The transactions, the buffers and the hash implement three complete contents of
\* which a save, a publish, a discard, a revert or a reload moves the whole, while no
\* definition is cleared (AssetModelBase, DataModelBase).
THEOREM Refinement ==
    ASSUME Empty \notin Edits
    PROVE  Spec => ImplementsVersions
<1>1. Init => Promise!Init
  <2> SUFFICES ASSUME Init PROVE Promise!Init
    OBVIOUS
  <2>1. asset = Constructed /\ Depth(asset) = 0
    BY ConstructedFacts DEF Init
  <2> QED
    BY <2>1 DEF Promise!Init
<1>2. IInv /\ EInv /\ [Next]_asset => [Promise!Next]_(Promise!vars)
  <2>1. ASSUME IInv, EInv, Next
        PROVE  Promise!Next
    BY <2>1, StepImplements
  <2>2. ASSUME UNCHANGED asset
        PROVE  UNCHANGED Promise!vars
    BY <2>2 DEF Promise!vars, Depth, ServerFields, LocalFields, Contents
  <2> QED
    BY <2>1, <2>2
<1> QED
  BY <1>1, <1>2, ExactInvariant, PTL DEF Spec, ImplementsVersions, Promise!Spec
=============================================================================

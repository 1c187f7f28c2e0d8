---------------------------- MODULE WorldProofs ----------------------------
(***************************************************************************)
(* The archetype store of World, for any component types, any number of    *)
(* slots and any peer that sends updates only for what it spawned here: the *)
(* three places an entity is written down agree.                           *)
(*                                                                         *)
(* Every operation is one or two of three: a row is taken out of its       *)
(* archetype, a row is added to one, a value is set.  RowRemoved, RowAdded *)
(* and ValueSet say what each does to the slots, the entity lists, the     *)
(* columns and the rows that are not concerned; the actions are made of    *)
(* them.                                                                   *)
(***************************************************************************)
EXTENDS World, StackLemmas

Slots == [generation : 0 .. GenMod - 1, archetype : Archetypes, row : Nat \ {0}]
EntityLists == [Archetypes -> Seq(Entities)]
ColumnLists == [Archetypes -> [Components -> Seq(Values)]]

\* The indices somebody lives at.
Live == DOMAIN slots \ ToSet(freeSlots)

\* The slots of those indices and the entity lists name one another.
Matched(sl, live, ents) ==
  /\ live \subseteq DOMAIN sl
  /\ \A i \in live :
       /\ sl[i].row \in DOMAIN ents[sl[i].archetype]
       /\ ents[sl[i].archetype][sl[i].row] = [index |-> i, generation |-> sl[i].generation]
  /\ \A k \in Archetypes : \A row \in DOMAIN ents[k] :
       /\ ents[k][row].index \in live
       /\ sl[ents[k][row].index].archetype = k
       /\ sl[ents[k][row].index].row = row

Aligned(cols, ents) ==
  \A k \in Archetypes, c \in Components :
    Len(cols[k][c]) = IF c \in k THEN Len(ents[k]) ELSE 0

\* The values at index i, wherever its slot says they are.
RowOf(sl, cols, i) == [c \in sl[i].archetype |-> cols[sl[i].archetype][c][sl[i].row]]

\* A handle given out is never younger than its slot, and older than a free one.
IssuedOlder ==
  \A e \in issued :
    /\ e.index \in DOMAIN slots
    /\ e.generation <= slots[e.index].generation
    /\ e.index \in ToSet(freeSlots) => e.generation < slots[e.index].generation

WorldInv ==
  /\ WorldTypeOK
  /\ ToSet(freeSlots) \subseteq DOMAIN slots /\ IsInjective(freeSlots)
  /\ Matched(slots, Live, entities)
  /\ Aligned(columns, entities)
  /\ IssuedOlder

-----------------------------------------------------------------------------
(* Rows *)

\* Archetype::swap_remove: the last element takes the place of the one removed.
LEMMA SwapRemovedElements ==
  ASSUME NEW S, NEW seq \in Seq(S), NEW i \in 1 .. Len(seq)
  PROVE  /\ SwapRemoved(seq, i) \in Seq(S)
         /\ Len(SwapRemoved(seq, i)) = Len(seq) - 1
         /\ \A j \in 1 .. Len(seq) - 1 :
              SwapRemoved(seq, i)[j] = IF j = i THEN seq[Len(seq)] ELSE seq[j]
  <1>1. seq # << >> /\ Len(seq) \in Nat
    BY EmptySeq, LenProperties
  <1>2. /\ Front(seq) \in Seq(S)
        /\ Len(Front(seq)) = Len(seq) - 1
        /\ \A j \in 1 .. Len(seq) - 1 : Front(seq)[j] = seq[j]
        /\ Last(seq) \in S
        /\ Last(seq) = seq[Len(seq)]
    BY <1>1, FrontLast
  <1>3. CASE i = Len(seq)
    BY <1>2, <1>3 DEF SwapRemoved
  <1>4. CASE i # Len(seq)
    <2>1. SwapRemoved(seq, i) = [Front(seq) EXCEPT ![i] = Last(seq)]
      BY <1>4 DEF SwapRemoved
    <2>2. i \in 1 .. Len(Front(seq))
      BY <1>1, <1>2, <1>4
    <2> QED BY <1>1, <1>2, <2>1, <2>2, ExceptSeq
  <1> QED BY <1>3, <1>4

LEMMA EntitiesFields ==
  ASSUME NEW e \in Entities
  PROVE  /\ e.index \in 1 .. MaxSlots /\ e.generation \in 0 .. GenMod - 1
         /\ e = [index |-> e.index, generation |-> e.generation]
  BY DEF Entities

\* s is the slot of somebody, at index i, and rest are the others.
CanRemove(live, i, rest, s) ==
  /\ WorldTypeOK /\ Matched(slots, live, entities) /\ Aligned(columns, entities)
  /\ i \in live /\ rest = live \ {i} /\ s = slots[i]

\* remove_row and the first half of the migrations: the entity that was last in
\* the archetype is found where the removed one was, and no other row moves.
LEMMA RowRemoved ==
  ASSUME NEW live, NEW i, NEW rest, NEW s, CanRemove(live, i, rest, s)
  PROVE  /\ s \in Slots /\ s.row \in DOMAIN entities[s.archetype]
         /\ SlotsWithout(s) \in Seq(Slots) /\ DOMAIN SlotsWithout(s) = DOMAIN slots
         /\ SlotsWithout(s)[i] = s
         /\ \A j \in DOMAIN slots : SlotsWithout(s)[j].generation = slots[j].generation
         /\ EntitiesWithout(s) \in EntityLists
         /\ \A k \in Archetypes \ {s.archetype} : EntitiesWithout(s)[k] = entities[k]
         /\ ColumnsWithout(s) \in ColumnLists
         /\ Matched(SlotsWithout(s), rest, EntitiesWithout(s))
         /\ Aligned(ColumnsWithout(s), EntitiesWithout(s))
         /\ \A j \in rest :
              RowOf(SlotsWithout(s), ColumnsWithout(s), j) = RowOf(slots, columns, j)
  <1> DEFINE a == s.archetype
             n == Len(entities[a])
             last == entities[a][n].index
             sl == SlotsWithout(s)
             ents == EntitiesWithout(s)
             cols == ColumnsWithout(s)
  <1>0. /\ WorldTypeOK /\ Matched(slots, live, entities) /\ Aligned(columns, entities)
        /\ i \in live /\ rest = live \ {i} /\ s = slots[i]
    BY DEF CanRemove
  <1>1. /\ slots \in Seq(Slots) /\ DOMAIN slots = 1 .. Len(slots) /\ Len(slots) \in Nat
        /\ \A j \in DOMAIN slots : slots[j] \in Slots
        /\ live \subseteq DOMAIN slots /\ s \in Slots
    <2>1. slots \in Seq(Slots)
      BY <1>0 DEF WorldTypeOK, Slots
    <2>2. live \subseteq DOMAIN slots
      BY <1>0 DEF Matched
    <2> QED BY <1>0, <2>1, <2>2, LenProperties
  <1>2. /\ a \in Archetypes /\ a \subseteq Components /\ entities[a] \in Seq(Entities)
        /\ entities \in EntityLists /\ columns \in ColumnLists
    BY <1>0, <1>1 DEF Slots, WorldTypeOK, Archetypes, EntityLists, ColumnLists
  <1>3. /\ n \in Nat \ {0} /\ DOMAIN entities[a] = 1 .. n
        /\ s.row \in 1 .. n /\ n \in DOMAIN entities[a]
    <2>1. s.row \in DOMAIN entities[a]
      BY <1>0 DEF Matched
    <2>2. n \in Nat /\ DOMAIN entities[a] = 1 .. n
      BY <1>0, <1>2, LenProperties
    <2> HIDE DEF n
    <2> QED BY <1>0, <2>1, <2>2
  <1>4. /\ entities[a][s.row] = [index |-> i, generation |-> s.generation]
        /\ last \in live /\ slots[last].archetype = a /\ slots[last].row = n
        /\ s.row = n <=> last = i
    BY <1>0, <1>2, <1>3 DEF Matched
  <1>5. Last(entities[a]) = entities[a][n]
    BY <1>0 DEF Last
  <1>6. /\ ents \in EntityLists /\ DOMAIN ents = Archetypes
        /\ \A k \in Archetypes \ {a} : ents[k] = entities[k]
        /\ ents[a] = SwapRemoved(entities[a], s.row)
        /\ ents[a] \in Seq(Entities) /\ Len(ents[a]) = n - 1 /\ DOMAIN ents[a] = 1 .. n - 1
        /\ \A j \in 1 .. n - 1 : ents[a][j] = IF j = s.row THEN entities[a][n] ELSE entities[a][j]
    <2>1. /\ SwapRemoved(entities[a], s.row) \in Seq(Entities)
          /\ Len(SwapRemoved(entities[a], s.row)) = n - 1
          /\ \A j \in 1 .. n - 1 : SwapRemoved(entities[a], s.row)[j] =
               IF j = s.row THEN entities[a][n] ELSE entities[a][j]
      <3>1. PICK seq : seq = entities[a]
        OBVIOUS
      <3>2. PICK r : r = s.row
        OBVIOUS
      <3>3. seq \in Seq(Entities) /\ r \in 1 .. Len(seq) /\ Len(seq) = n
        BY <1>2, <1>3, <3>1, <3>2
      <3> HIDE DEF n
      <3>4. /\ SwapRemoved(seq, r) \in Seq(Entities)
            /\ Len(SwapRemoved(seq, r)) = Len(seq) - 1
            /\ \A j \in 1 .. Len(seq) - 1 :
                 SwapRemoved(seq, r)[j] = IF j = r THEN seq[Len(seq)] ELSE seq[j]
        BY <3>3, SwapRemovedElements
      <3> QED BY <3>1, <3>2, <3>3, <3>4
    <2>2. ents = [entities EXCEPT ![a] = SwapRemoved(entities[a], s.row)]
      BY <1>0 DEF EntitiesWithout
    <2> QED BY <1>0, <2>1, <2>2, <1>2, LenProperties DEF EntityLists
  <1>7. /\ \A c \in Components : cols[a][c] = IF c \in a THEN SwapRemoved(columns[a][c], s.row)
                                              ELSE columns[a][c]
        /\ \A k \in Archetypes \ {a} : cols[k] = columns[k]
        /\ DOMAIN cols = Archetypes /\ DOMAIN cols[a] = Components
    BY <1>0, <1>2 DEF ColumnsWithout, ColumnLists
  <1>8. \A c \in a : /\ columns[a][c] \in Seq(Values) /\ Len(columns[a][c]) = n
                     /\ cols[a][c] \in Seq(Values) /\ Len(cols[a][c]) = n - 1
                     /\ \A j \in 1 .. n - 1 : cols[a][c][j] =
                          IF j = s.row THEN columns[a][c][n] ELSE columns[a][c][j]
    <2> TAKE c \in a
    <2>1. columns[a][c] \in Seq(Values) /\ Len(columns[a][c]) = n
      BY <1>0, <1>2 DEF Aligned, ColumnLists
    <2> DEFINE col == columns[a][c]
    <2>2. /\ col \in Seq(Values) /\ Len(col) = n /\ s.row \in 1 .. Len(col)
          /\ cols[a][c] = SwapRemoved(col, s.row)
      BY <1>0, <2>1, <1>2, <1>3, <1>7
    <2> HIDE DEF col, n, cols
    <2>3. /\ SwapRemoved(col, s.row) \in Seq(Values)
          /\ Len(SwapRemoved(col, s.row)) = Len(col) - 1
          /\ \A j \in 1 .. Len(col) - 1 :
               SwapRemoved(col, s.row)[j] = IF j = s.row THEN col[Len(col)] ELSE col[j]
      BY <1>0, <2>2, SwapRemovedElements
    <2> QED BY <1>0, <2>2, <2>3 DEF col
  <1>9. cols \in ColumnLists
    <2>1. \A k \in Archetypes, c \in Components : cols[k][c] \in Seq(Values)
      BY <1>0, <1>2, <1>7, <1>8 DEF ColumnLists
    <2>2. \A k \in Archetypes : cols[k] = [c \in Components |-> cols[k][c]]
      BY <1>0, <1>2, <1>7 DEF ColumnLists, ColumnsWithout
    <2>3. \A k \in Archetypes : cols[k] \in [Components -> Seq(Values)]
      BY <1>0, <2>1, <2>2
    <2>4. cols = [k \in Archetypes |-> cols[k]]
      BY <1>0, <1>2 DEF ColumnsWithout, ColumnLists
    <2> QED BY <1>0, <2>3, <2>4 DEF ColumnLists
  <1>10. /\ sl \in Seq(Slots) /\ DOMAIN sl = DOMAIN slots
         /\ \A j \in DOMAIN slots \ {last} : sl[j] = slots[j]
         /\ \A j \in DOMAIN slots : /\ sl[j].generation = slots[j].generation
                                    /\ sl[j].archetype = slots[j].archetype
         /\ last # i => sl[last].row = s.row
         /\ sl[i] = s
    <2>1. CASE s.row < n
      <3>1. sl = [slots EXCEPT ![last] = [slots[last] EXCEPT !.row = s.row]]
        BY <1>0, <2>1, <1>5 DEF SlotsWithout
      <3>2. [slots[last] EXCEPT !.row = s.row] \in Slots
        BY <1>0, <1>1, <1>4, <1>3 DEF Slots
      <3>3. last \in 1 .. Len(slots) /\ last # i
        BY <1>0, <1>1, <1>3, <1>4, <2>1
      <3>4. sl \in Seq(Slots) /\ DOMAIN sl = DOMAIN slots
        <4> DEFINE moved == [slots[last] EXCEPT !.row = s.row]
        <4>1. moved \in Slots /\ sl = [slots EXCEPT ![last] = moved]
          BY <1>0, <3>1, <3>2
        <4> HIDE DEF moved, sl, last
        <4>2. sl \in Seq(Slots) /\ Len(sl) = Len(slots)
          BY <1>0, <4>1, <3>3, <1>1, ExceptSeq
        <4> QED BY <1>0, <4>2, <1>1, LenProperties
      <3>5. sl[last] = [slots[last] EXCEPT !.row = s.row] /\ slots[last] \in Slots
        BY <1>0, <3>1, <3>3, <1>1
      <3>6. \A j \in DOMAIN slots \ {last} : sl[j] = slots[j]
        BY <1>0, <3>1, <1>1
      <3>7. /\ sl[last].generation = slots[last].generation
            /\ sl[last].archetype = slots[last].archetype
            /\ sl[last].row = s.row
        BY <1>0, <3>5 DEF Slots
      <3> QED BY <1>0, <3>3, <3>4, <3>6, <3>7, <1>1
    <2>2. CASE ~(s.row < n)
      <3>1. sl = slots /\ last = i
        BY <1>0, <2>2, <1>3, <1>4 DEF SlotsWithout
      <3> QED BY <1>0, <3>1, <1>1
    <2> QED BY <1>0, <2>1, <2>2
  <1>11. \A j \in live \ {i} :
           /\ slots[j].archetype \in Archetypes
           /\ j = last => slots[j].archetype = a /\ slots[j].row = n /\ sl[j].row = s.row
                          /\ s.row \in 1 .. n - 1
           /\ j # last /\ slots[j].archetype = a =>
                sl[j] = slots[j] /\ slots[j].row \in 1 .. n - 1 /\ slots[j].row # s.row
           /\ slots[j].archetype # a => sl[j] = slots[j]
    <2> TAKE j \in live \ {i}
    <2>1. slots[j].archetype \in Archetypes /\ j \in DOMAIN slots
      BY <1>0, <1>1 DEF Slots
    <2>2. /\ slots[j].row \in DOMAIN entities[slots[j].archetype]
          /\ entities[slots[j].archetype][slots[j].row] = [index |-> j, generation |-> slots[j].generation]
      BY <1>0 DEF Matched
    <2>3. CASE j = last
      <3>1. s.row # n /\ s.row \in 1 .. n - 1
        BY <1>0, <2>3, <1>3, <1>4
      <3> QED BY <1>0, <3>1, <2>1, <2>3, <1>4, <1>10
    <2>4. CASE j # last
      <3>1. sl[j] = slots[j]
        BY <1>0, <2>1, <2>4, <1>10
      <3>2. ASSUME slots[j].archetype = a
            PROVE  slots[j].row \in 1 .. n /\ slots[j].row # n /\ slots[j].row # s.row
        BY <1>0, <3>2, <2>2, <2>4, <1>3, <1>4
      <3> QED BY <1>0, <3>1, <3>2, <2>1, <2>4, <1>3, <1>4
    <2> QED BY <1>0, <2>3, <2>4
  <1> HIDE DEF sl, ents, cols
  <1>12. Matched(sl, rest, ents)
    <2>1. ASSUME NEW j \in live \ {i}
          PROVE  /\ sl[j].row \in DOMAIN ents[sl[j].archetype]
                 /\ ents[sl[j].archetype][sl[j].row] = [index |-> j, generation |-> sl[j].generation]
      <3>1. /\ slots[j].row \in DOMAIN entities[slots[j].archetype]
            /\ entities[slots[j].archetype][slots[j].row] = [index |-> j, generation |-> slots[j].generation]
            /\ sl[j].generation = slots[j].generation /\ sl[j].archetype = slots[j].archetype
        BY <1>0, <1>1, <1>10 DEF Matched
      <3>2. CASE j = last
        <4>1. /\ slots[j].archetype = a /\ slots[j].row = n
              /\ sl[j].row = s.row /\ s.row \in 1 .. n - 1
          BY <1>0, <3>2, <1>11
        <4>2. ents[a][s.row] = entities[a][n]
          BY <1>0, <4>1, <1>6
        <4> QED BY <1>0, <3>1, <4>1, <4>2, <1>6
      <3>3. CASE j # last
        <4>1. sl[j].row = slots[j].row
          BY <1>0, <3>3, <1>10, <1>1
        <4>2. CASE slots[j].archetype = a
          <5>1. slots[j].row \in 1 .. n - 1 /\ slots[j].row # s.row
            BY <1>0, <4>2, <3>3, <1>11
          <5>2. ents[a][slots[j].row] = entities[a][slots[j].row]
            BY <1>0, <5>1, <1>6
          <5> QED BY <1>0, <3>1, <4>1, <4>2, <5>1, <5>2, <1>6
        <4>3. CASE slots[j].archetype # a
          <5>1. ents[slots[j].archetype] = entities[slots[j].archetype]
            BY <1>0, <4>3, <1>6, <1>11
          <5> QED BY <1>0, <5>1, <3>1, <4>1
        <4> QED BY <1>0, <4>2, <4>3
      <3> QED BY <1>0, <3>2, <3>3
    <2>2. ASSUME NEW k \in Archetypes, NEW row \in DOMAIN ents[k]
          PROVE  /\ ents[k][row].index \in live \ {i}
                 /\ sl[ents[k][row].index].archetype = k
                 /\ sl[ents[k][row].index].row = row
      <3>1. CASE k # a
        <4>1. /\ ents[k] = entities[k] /\ row \in DOMAIN entities[k]
              /\ entities[k][row].index \in live
              /\ slots[entities[k][row].index].archetype = k
              /\ slots[entities[k][row].index].row = row
          BY <1>0, <3>1, <2>2, <1>6 DEF Matched
        <4> QED BY <1>0, <4>1, <3>1, <1>11
      <3>2. CASE k = a
        <4>1. row \in 1 .. n - 1 /\ row \in 1 .. n /\ row # n
          BY <1>0, <3>2, <1>6, <1>3
        <4>2. /\ entities[a][row].index \in live
              /\ slots[entities[a][row].index].archetype = a
              /\ slots[entities[a][row].index].row = row
          BY <1>0, <4>1, <1>2, <1>3 DEF Matched
        <4>3. CASE row = s.row
          <5>1. ents[k][row].index = last
            BY <1>0, <3>2, <4>1, <4>3, <1>6
          <5>2. last \in live \ {i} /\ last \in DOMAIN slots
            BY <1>0, <4>1, <4>3, <1>4, <1>1
          <5> QED BY <1>0, <5>1, <5>2, <3>2, <4>3, <1>4, <1>10, <1>11
        <4>4. CASE row # s.row
          <5>1. ents[k][row] = entities[a][row]
            BY <1>0, <3>2, <4>1, <4>4, <1>6
          <5>2. entities[a][row].index \in live \ {i} /\ entities[a][row].index # last
            BY <1>0, <4>1, <4>2, <4>4, <1>4
          <5> QED BY <1>0, <5>1, <5>2, <4>2, <3>2, <1>11
        <4> QED BY <1>0, <4>3, <4>4
      <3> QED BY <1>0, <3>1, <3>2
    <2>3. live \ {i} \subseteq DOMAIN sl
      BY <1>0, <1>1, <1>10
    <2> QED BY <1>0, <2>1, <2>2, <2>3 DEF Matched
  <1>13. Aligned(cols, ents)
    <2> SUFFICES ASSUME NEW k \in Archetypes, NEW c \in Components
                 PROVE  Len(cols[k][c]) = IF c \in k THEN Len(ents[k]) ELSE 0
      BY <1>0 DEF Aligned
    <2>1. Len(columns[k][c]) = IF c \in k THEN Len(entities[k]) ELSE 0
      BY <1>0 DEF Aligned
    <2> QED BY <1>0, <2>1, <1>6, <1>7, <1>8
  <1>14. \A j \in live \ {i} : RowOf(sl, cols, j) = RowOf(slots, columns, j)
    <2> TAKE j \in live \ {i}
    <2>1. sl[j].archetype = slots[j].archetype /\ slots[j].archetype \in Archetypes
      BY <1>0, <1>1, <1>10, <1>11
    <2>2. ASSUME NEW c \in slots[j].archetype
          PROVE  cols[slots[j].archetype][c][sl[j].row] = columns[slots[j].archetype][c][slots[j].row]
      <3>1. CASE slots[j].archetype # a
        BY <1>0, <3>1, <1>7, <1>11
      <3>2. CASE slots[j].archetype = a
        <4>1. \A m \in 1 .. n - 1 :
                 cols[a][c][m] = IF m = s.row THEN columns[a][c][n] ELSE columns[a][c][m]
          BY <1>0, <3>2, <2>2, <1>8
        <4>2. CASE j = last
          <5>1. slots[j].row = n /\ sl[j].row = s.row /\ s.row \in 1 .. n - 1
            BY <1>0, <4>2, <1>11
          <5> QED BY <1>0, <5>1, <4>1, <3>2
        <4>3. CASE j # last
          <5>1. sl[j] = slots[j] /\ slots[j].row \in 1 .. n - 1 /\ slots[j].row # s.row
            BY <1>0, <4>3, <3>2, <1>11
          <5> QED BY <1>0, <5>1, <4>1, <3>2
        <4> QED BY <1>0, <4>2, <4>3
      <3> QED BY <1>0, <3>1, <3>2
    <2> QED BY <1>0, <2>1, <2>2 DEF RowOf
  <1> QED BY <1>0, <1>1, <1>3, <1>6, <1>9, <1>10, <1>12, <1>13, <1>14 DEF sl, ents, cols

LEMMA BundleFields ==
  ASSUME NEW types \in SUBSET Components, NEW bundle \in Bundles(types)
  PROVE  /\ DOMAIN bundle \in SUBSET types /\ DOMAIN bundle \in Archetypes
         /\ bundle \in [DOMAIN bundle -> Values]
         /\ bundle \in Bundles(Components)
  BY DEF Bundles, Archetypes

LEMMA SlotAtTyped ==
  ASSUME NEW generation \in 0 .. GenMod - 1, NEW ents \in EntityLists,
         NEW bundle \in Bundles(Components)
  PROVE  SlotAt(generation, ents, bundle) \in Slots
  <1>1. DOMAIN bundle \in Archetypes
    BY BundleFields
  <1>2. Len(ents[DOMAIN bundle]) + 1 \in Nat \ {0}
    BY <1>1, LenProperties DEF EntityLists
  <1> QED BY <1>1, <1>2 DEF SlotAt, Slots

\* The slots of next are those of sl for everybody who lives there, and e's, at
\* index i, is the one for a row at the end of its archetype.
CanAdd(sl, live, ents, cols, next, all, e, i, bundle) ==
  /\ ents \in EntityLists /\ cols \in ColumnLists
  /\ Matched(sl, live, ents) /\ Aligned(cols, ents)
  /\ e \in Entities /\ i = e.index /\ i \notin live /\ bundle \in Bundles(Components)
  /\ all = live \union {i} /\ all \subseteq DOMAIN next
  /\ \A j \in live : sl[j] \in Slots /\ next[j] = sl[j]
  /\ next[i] = SlotAt(e.generation, ents, bundle)

\* push_entity and the pushes to the columns: the entity is last in its
\* archetype, under its slot and with its values; no other row moves.
LEMMA RowAdded ==
  ASSUME NEW sl, NEW live, NEW ents, NEW cols, NEW next, NEW all, NEW e, NEW i,
         NEW bundle, CanAdd(sl, live, ents, cols, next, all, e, i, bundle)
  PROVE  /\ EntitiesWith(ents, e, bundle) \in EntityLists
         /\ ColumnsWith(cols, bundle) \in ColumnLists
         /\ Matched(next, all, EntitiesWith(ents, e, bundle))
         /\ Aligned(ColumnsWith(cols, bundle), EntitiesWith(ents, e, bundle))
         /\ \A j \in live : RowOf(next, ColumnsWith(cols, bundle), j) = RowOf(sl, cols, j)
         /\ RowOf(next, ColumnsWith(cols, bundle), i) = bundle
  <1> DEFINE a == DOMAIN bundle
             n == Len(ents[a])
             ents2 == EntitiesWith(ents, e, bundle)
             cols2 == ColumnsWith(cols, bundle)
  <1> USE DEF CanAdd
  <1>1. /\ a \in Archetypes /\ a \subseteq Components /\ bundle = [c \in a |-> bundle[c]]
        /\ \A c \in a : bundle[c] \in Values
    BY BundleFields DEF Archetypes
  <1>2. ents[a] \in Seq(Entities) /\ n \in Nat /\ DOMAIN ents[a] = 1 .. n
    BY <1>1, LenProperties DEF EntityLists
  <1>3. /\ next[i].archetype = a /\ next[i].row = n + 1 /\ next[i].generation = e.generation
    BY DEF SlotAt
  <1>4. /\ ents2 \in EntityLists
        /\ \A k \in Archetypes \ {a} : ents2[k] = ents[k]
        /\ Len(ents2[a]) = n + 1 /\ DOMAIN ents2[a] = 1 .. n + 1
        /\ \A j \in 1 .. n : ents2[a][j] = ents[a][j]
        /\ ents2[a][n + 1] = e
    <2> DEFINE l == Append(ents[a], e)
    <2>1. l \in Seq(Entities) /\ Len(l) = n + 1 /\ l[n + 1] = e /\ \A j \in 1 .. n : l[j] = ents[a][j]
      BY <1>2, AppendProperties
    <2>2. ents2 = [ents EXCEPT ![a] = l]
      BY DEF EntitiesWith
    <2>3. DOMAIN l = 1 .. n + 1
      BY <2>1, LenProperties
    <2> HIDE DEF l
    <2> QED BY <2>1, <2>2, <2>3, <1>1 DEF EntityLists
  <1>5. /\ \A c \in Components : cols2[a][c] = IF c \in a THEN Append(cols[a][c], bundle[c])
                                               ELSE cols[a][c]
        /\ \A k \in Archetypes \ {a} : cols2[k] = cols[k]
        /\ cols2[a] = [c \in Components |-> cols2[a][c]]
        /\ cols2 = [k \in Archetypes |-> cols2[k]]
    <2> DEFINE new == [c \in Components |-> IF c \in a THEN Append(cols[a][c], bundle[c]) ELSE cols[a][c]]
    <2>1. cols2 = [cols EXCEPT ![a] = new]
      BY DEF ColumnsWith
    <2>2. new = [c \in Components |-> new[c]]
      OBVIOUS
    <2>3. \A c \in Components : new[c] = IF c \in a THEN Append(cols[a][c], bundle[c]) ELSE cols[a][c]
      OBVIOUS
    <2> HIDE DEF new, cols2
    <2>4. cols2[a] = new /\ \A k \in Archetypes \ {a} : cols2[k] = cols[k]
      BY <1>1, <2>1 DEF ColumnLists
    <2>5. cols2 = [k \in Archetypes |-> cols2[k]]
      BY <1>1, <2>1 DEF ColumnLists
    <2> QED BY <2>2, <2>3, <2>4, <2>5
  <1>6. \A c \in a : /\ cols[a][c] \in Seq(Values) /\ Len(cols[a][c]) = n
                     /\ cols2[a][c] \in Seq(Values) /\ Len(cols2[a][c]) = n + 1
                     /\ \A j \in 1 .. n : cols2[a][c][j] = cols[a][c][j]
                     /\ cols2[a][c][n + 1] = bundle[c]
    <2> TAKE c \in a
    <2> DEFINE col == cols[a][c]
    <2>1. /\ col \in Seq(Values) /\ Len(col) = n /\ cols2[a][c] = Append(col, bundle[c])
          /\ bundle[c] \in Values
      <3>1. c \in Components /\ Len(cols[a][c]) = n
        BY <1>1 DEF Aligned
      <3>2. cols[a][c] \in Seq(Values)
        BY <3>1, <1>1 DEF ColumnLists
      <3> QED BY <3>1, <3>2, <1>1, <1>5
    <2> HIDE DEF col, n, cols2
    <2> QED BY <2>1, <1>2, AppendProperties DEF col
  <1> HIDE DEF cols2, ents2
  <1>7. cols2 \in ColumnLists
    <2>1. \A c \in Components : cols2[a][c] \in Seq(Values)
      <3> TAKE c \in Components
      <3>1. cols[a][c] \in Seq(Values)
        BY <1>1 DEF ColumnLists
      <3>2. CASE c \in a
        BY <3>2, <1>6
      <3>3. CASE c \notin a
        BY <3>1, <3>3, <1>5
      <3> QED BY <3>2, <3>3
    <2>2. \A k \in Archetypes : cols2[k] \in [Components -> Seq(Values)]
      <3>1. cols2[a] \in [Components -> Seq(Values)]
        BY <2>1, <1>5
      <3> QED BY <3>1, <1>5 DEF ColumnLists
    <2> QED BY <2>2, <1>5 DEF ColumnLists
  <1>8. Matched(next, all, ents2)
    <2>1. ASSUME NEW j \in live \union {i}
          PROVE  /\ next[j].row \in DOMAIN ents2[next[j].archetype]
                 /\ ents2[next[j].archetype][next[j].row] =
                      [index |-> j, generation |-> next[j].generation]
      <3>1. CASE j = i
        <4>1. n + 1 \in 1 .. n + 1
          BY <1>2
        <4> QED BY <3>1, <4>1, <1>3, <1>4, EntitiesFields
      <3>2. CASE j # i
        <4>1. /\ j \in live /\ next[j] = sl[j] /\ sl[j].archetype \in Archetypes
              /\ sl[j].row \in DOMAIN ents[sl[j].archetype]
              /\ ents[sl[j].archetype][sl[j].row] = [index |-> j, generation |-> sl[j].generation]
          BY <2>1, <3>2 DEF Matched, Slots
        <4>2. CASE sl[j].archetype = a
          <5>1. sl[j].row \in 1 .. n /\ sl[j].row \in 1 .. n + 1
            BY <4>1, <4>2, <1>2
          <5> QED BY <4>1, <4>2, <5>1, <1>4
        <4>3. CASE sl[j].archetype # a
          <5>1. ents2[sl[j].archetype] = ents[sl[j].archetype]
            BY <4>1, <4>3, <1>4
          <5> QED BY <4>1, <5>1
        <4> QED BY <4>2, <4>3
      <3> QED BY <3>1, <3>2
    <2>2. ASSUME NEW k \in Archetypes, NEW row \in DOMAIN ents2[k]
          PROVE  /\ ents2[k][row].index \in live \union {i}
                 /\ next[ents2[k][row].index].archetype = k
                 /\ next[ents2[k][row].index].row = row
      <3>1. CASE k = a /\ row = n + 1
        BY <3>1, <1>3, <1>4
      <3>2. CASE ~(k = a /\ row = n + 1)
        <4>1. row \in DOMAIN ents[k] /\ ents2[k][row] = ents[k][row]
          <5>1. CASE k = a
            <6>1. row \in 1 .. n
              BY <5>1, <3>2, <2>2, <1>2, <1>4
            <6> QED BY <6>1, <5>1, <1>2, <1>4
          <5>2. CASE k # a
            BY <5>2, <2>2, <1>4
          <5> QED BY <5>1, <5>2
        <4>2. /\ ents[k][row].index \in live
              /\ sl[ents[k][row].index].archetype = k
              /\ sl[ents[k][row].index].row = row
          BY <4>1 DEF Matched
        <4> QED BY <4>1, <4>2
      <3> QED BY <3>1, <3>2
    <2> QED BY <2>1, <2>2 DEF Matched
  <1>9. Aligned(cols2, ents2)
    <2> SUFFICES ASSUME NEW k \in Archetypes, NEW c \in Components
                 PROVE  Len(cols2[k][c]) = IF c \in k THEN Len(ents2[k]) ELSE 0
      BY DEF Aligned
    <2>1. Len(cols[k][c]) = IF c \in k THEN Len(ents[k]) ELSE 0
      BY DEF Aligned
    <2> QED BY <2>1, <1>4, <1>5, <1>6
  <1>10. \A j \in live : RowOf(next, cols2, j) = RowOf(sl, cols, j)
    <2> TAKE j \in live
    <2>1. next[j] = sl[j] /\ sl[j].archetype \in Archetypes /\ sl[j].row \in DOMAIN ents[sl[j].archetype]
      BY DEF Matched, Slots
    <2>2. ASSUME NEW c \in sl[j].archetype
          PROVE  cols2[sl[j].archetype][c][sl[j].row] = cols[sl[j].archetype][c][sl[j].row]
      <3>1. CASE sl[j].archetype = a
        <4>1. sl[j].row \in 1 .. n /\ c \in a
          BY <2>1, <2>2, <3>1, <1>2
        <4> QED BY <4>1, <3>1, <1>6
      <3>2. CASE sl[j].archetype # a
        BY <2>1, <3>2, <1>5
      <3> QED BY <3>1, <3>2
    <2> QED BY <2>1, <2>2 DEF RowOf
  <1>11. RowOf(next, cols2, i) = bundle
    <2>1. RowOf(next, cols2, i) = [c \in a |-> cols2[a][c][n + 1]]
      BY <1>3 DEF RowOf
    <2>2. \A c \in a : cols2[a][c][n + 1] = bundle[c]
      BY <1>6
    <2> HIDE DEF n
    <2> QED BY <2>1, <2>2, <1>1
  <1> QED BY <1>4, <1>7, <1>8, <1>9, <1>10, <1>11 DEF cols2, ents2

\* cols are the columns with v for component c in the row of index i.
CanSet(live, i, c, v, cols) ==
  /\ WorldTypeOK /\ Matched(slots, live, entities) /\ Aligned(columns, entities)
  /\ i \in live /\ c \in slots[i].archetype /\ v \in Values
  /\ cols = [columns EXCEPT ![slots[i].archetype][c][slots[i].row] = v]

\* A write through a guard, an insert over a value, a peer's field: one value of
\* one row is another one, and no row moves.
LEMMA ValueSet ==
  ASSUME NEW live, NEW i, NEW c, NEW v, NEW cols, CanSet(live, i, c, v, cols)
  PROVE  /\ cols \in ColumnLists
         /\ Aligned(cols, entities)
         /\ \A j \in live \ {i} : RowOf(slots, cols, j) = RowOf(slots, columns, j)
         /\ RowOf(slots, cols, i) = [RowOf(slots, columns, i) EXCEPT ![c] = v]
  <1> DEFINE s == slots[i]
             a == s.archetype
             r == s.row
             col == columns[a][c]
             col2 == [col EXCEPT ![r] = v]
  <1>0. /\ WorldTypeOK /\ Matched(slots, live, entities) /\ Aligned(columns, entities)
        /\ i \in live /\ c \in a /\ v \in Values
        /\ cols = [columns EXCEPT ![a][c][r] = v]
    BY DEF CanSet
  <1>1. /\ \A j \in live : slots[j] \in Slots /\ slots[j].archetype \in Archetypes
        /\ columns \in ColumnLists
    <2>1. slots \in Seq(Slots) /\ columns \in ColumnLists
      BY <1>0 DEF WorldTypeOK, Slots, ColumnLists
    <2>2. live \subseteq DOMAIN slots
      BY <1>0 DEF Matched
    <2>3. \A j \in live : slots[j] \in Slots
      BY <1>0, <2>1, <2>2, LenProperties
    <2> QED BY <1>0, <2>1, <2>3 DEF Slots
  <1>2. a \in Archetypes /\ c \in Components /\ c \in a
    BY <1>0, <1>1 DEF Archetypes
  <1>3. col \in Seq(Values) /\ Len(col) = Len(entities[a]) /\ r \in DOMAIN entities[a]
    <2>1. col \in Seq(Values)
      BY <1>0, <1>1, <1>2 DEF ColumnLists
    <2>2. Len(col) = Len(entities[a])
      BY <1>0, <1>2 DEF Aligned
    <2>3. r \in DOMAIN entities[a]
      BY <1>0 DEF Matched
    <2> QED BY <1>0, <2>1, <2>2, <2>3
  <1>4. DOMAIN entities[a] = 1 .. Len(entities[a])
    BY <1>0, <1>2, LenProperties DEF WorldTypeOK
  <1>5. /\ col2 \in Seq(Values) /\ Len(col2) = Len(col)
        /\ \A m \in 1 .. Len(col) : col2[m] = IF m = r THEN v ELSE col[m]
    <2> HIDE DEF col, r
    <2> QED BY <1>0, <1>3, <1>4, ExceptSeq
  <1>6. cols = [columns EXCEPT ![a] = [columns[a] EXCEPT ![c] = col2]]
    BY <1>0 DEF col2
  <1> HIDE DEF col2
  <1>7. /\ cols[a][c] = col2
        /\ \A k \in Archetypes, d \in Components : ~(k = a /\ d = c) => cols[k][d] = columns[k][d]
    BY <1>0, <1>1, <1>2, <1>6 DEF ColumnLists
  <1>8. cols \in ColumnLists
    <2> DEFINE lists == [Components -> Seq(Values)]
               new == [columns[a] EXCEPT ![c] = col2]
    <2>1. columns \in [Archetypes -> lists] /\ columns[a] \in lists
      BY <1>1, <1>2 DEF ColumnLists
    <2>2. new \in lists
      BY <2>1, <1>2, <1>5
    <2>3. cols = [columns EXCEPT ![a] = new]
      BY <1>6
    <2> HIDE DEF lists, new, a
    <2>4. cols \in [Archetypes -> lists]
      BY <2>1, <2>2, <2>3, <1>2
    <2> QED BY <2>4 DEF ColumnLists, lists
  <1>9. Aligned(cols, entities)
    <2> SUFFICES ASSUME NEW k \in Archetypes, NEW d \in Components
                 PROVE  Len(cols[k][d]) = IF d \in k THEN Len(entities[k]) ELSE 0
      BY <1>0 DEF Aligned
    <2>1. Len(columns[k][d]) = IF d \in k THEN Len(entities[k]) ELSE 0
      BY <1>0 DEF Aligned
    <2> QED BY <1>0, <2>1, <1>5, <1>7
  <1>10. \A j \in live \ {i} : RowOf(slots, cols, j) = RowOf(slots, columns, j)
    <2> TAKE j \in live \ {i}
    <2>1. /\ slots[j].archetype \in Archetypes /\ slots[j].archetype \subseteq Components
          /\ slots[j].row \in DOMAIN entities[slots[j].archetype]
      BY <1>0, <1>1 DEF Archetypes, Matched
    <2>2. ASSUME slots[j].archetype = a PROVE slots[j].row # r /\ slots[j].row \in 1 .. Len(col)
      <3>1. /\ entities[slots[j].archetype][slots[j].row].index = j
            /\ entities[a][r].index = i
        <4>1. /\ entities[slots[j].archetype][slots[j].row] = [index |-> j, generation |-> slots[j].generation]
              /\ entities[a][r] = [index |-> i, generation |-> slots[i].generation]
          BY <1>0 DEF Matched
        <4> QED BY <1>0, <4>1
      <3> QED BY <1>0, <3>1, <2>1, <2>2, <1>3, <1>4
    <2>3. ASSUME NEW d \in slots[j].archetype
          PROVE  cols[slots[j].archetype][d][slots[j].row] = columns[slots[j].archetype][d][slots[j].row]
      <3>1. CASE slots[j].archetype = a /\ d = c
        BY <1>0, <3>1, <2>2, <1>5, <1>7
      <3>2. CASE ~(slots[j].archetype = a /\ d = c)
        BY <1>0, <3>2, <2>1, <2>3, <1>7
      <3> QED BY <1>0, <3>1, <3>2
    <2> QED BY <1>0, <2>3 DEF RowOf
  <1>11. RowOf(slots, cols, i) = [RowOf(slots, columns, i) EXCEPT ![c] = v]
    <2>1. r \in 1 .. Len(col)
      BY <1>0, <1>3, <1>4
    <2>2. cols[a][c][r] = v
      BY <1>0, <2>1, <1>5, <1>7
    <2>3. \A d \in a : d # c => cols[a][d][r] = columns[a][d][r]
      BY <1>0, <1>1, <1>2, <1>7 DEF Archetypes
    <2> QED BY <1>0, <2>2, <2>3, <1>2 DEF RowOf
  <1> QED BY <1>8, <1>9, <1>10, <1>11

-----------------------------------------------------------------------------
(* What the invariant says of one index *)

LEMMA WorldTypes ==
  ASSUME WorldInv
  PROVE  /\ slots \in Seq(Slots) /\ Len(slots) \in 0 .. MaxSlots /\ DOMAIN slots = 1 .. Len(slots)
         /\ \A i \in DOMAIN slots : slots[i] \in Slots
         /\ entities \in EntityLists /\ columns \in ColumnLists
         /\ freeSlots \in Seq(1 .. MaxSlots) /\ ToSet(freeSlots) \subseteq DOMAIN slots
         /\ Live \subseteq DOMAIN slots
  <1>1. /\ slots \in Seq(Slots) /\ Len(slots) <= MaxSlots
        /\ entities \in EntityLists /\ columns \in ColumnLists
        /\ freeSlots \in Seq(1 .. MaxSlots) /\ ToSet(freeSlots) \subseteq DOMAIN slots
    BY DEF WorldInv, WorldTypeOK, Slots, EntityLists, ColumnLists
  <1>2. Len(slots) \in 0 .. MaxSlots
    BY <1>1, WorldAssumption, LenProperties
  <1> QED BY <1>1, <1>2, LenProperties DEF Live

\* A handle that was given out and whose generation is its slot's is the entity
\* that lives there.
LEMMA AliveIsLive ==
  ASSUME WorldInv, NEW e \in issued, IsAlive(e)
  PROVE  /\ e \in Entities /\ e.index \in Live
         /\ e = [index |-> e.index, generation |-> slots[e.index].generation]
  <1>1. e \in Entities
    BY DEF WorldInv, WorldTypeOK
  <1>2. slots[e.index].generation = e.generation /\ e.index \in DOMAIN slots
    BY DEF IsAlive, WorldInv, IssuedOlder
  <1>3. e.index \notin ToSet(freeSlots)
    <2>1. e.generation \in Int /\ ~(e.generation < e.generation)
      BY <1>1, EntitiesFields, WorldAssumption
    <2> QED BY <2>1, <1>2 DEF WorldInv, IssuedOlder
  <1> QED BY <1>1, <1>2, <1>3, EntitiesFields DEF Live

\* A live index leads to a row with a value for each component of its archetype.
LEMMA RowTyped ==
  ASSUME WorldInv, NEW i \in Live
  PROVE  /\ slots[i].archetype \in SUBSET Components
         /\ RowOf(slots, columns, i) \in [slots[i].archetype -> Values]
         /\ RowOf(slots, columns, i) \in Bundles(Components)
         /\ RowValues(slots[i]) = RowOf(slots, columns, i)
  <1> DEFINE a == slots[i].archetype
             r == slots[i].row
  <1>1. a \in Archetypes /\ a \in SUBSET Components
    BY WorldTypes DEF Slots, Archetypes
  <1>2. r \in DOMAIN entities[a] /\ DOMAIN entities[a] = 1 .. Len(entities[a])
    <2>1. r \in DOMAIN entities[a]
      BY DEF WorldInv, Matched
    <2> QED BY <1>1, <2>1, WorldTypes, LenProperties DEF EntityLists
  <1>3. \A c \in a : columns[a][c][r] \in Values
    <2> TAKE c \in a
    <2>1. columns[a][c] \in Seq(Values) /\ Len(columns[a][c]) = Len(entities[a])
      <3>1. columns[a][c] \in Seq(Values)
        BY <1>1, WorldTypes DEF ColumnLists
      <3>2. Len(columns[a][c]) = Len(entities[a])
        BY <1>1 DEF WorldInv, Aligned
      <3> QED BY <3>1, <3>2
    <2> QED BY <2>1, <1>2, LenProperties
  <1>4. RowOf(slots, columns, i) \in [a -> Values]
    BY <1>3 DEF RowOf
  <1> HIDE DEF a
  <1>5. RowOf(slots, columns, i) \in Bundles(Components)
    BY <1>1, <1>4 DEF Bundles
  <1>6. RowValues(slots[i]) = RowOf(slots, columns, i)
    BY DEF RowValues, RowOf
  <1> QED BY <1>1, <1>4, <1>5, <1>6 DEF a

\* The invariant makes the properties that the runs check.
LEMMA InvMeans == WorldInv => WorldTypeOK /\ RowsMatchSlots /\ ColumnsAligned
  <1> SUFFICES ASSUME WorldInv PROVE RowsMatchSlots /\ ColumnsAligned
    BY DEF WorldInv
  <1>1. RowsMatchSlots
    <2>1. \A k \in Archetypes : \A row \in DOMAIN entities[k] :
            LET e == entities[k][row]
            IN e.index \notin ToSet(freeSlots) /\ slots[e.index].archetype = k /\ slots[e.index].row = row
      BY DEF WorldInv, Matched, Live
    <2> QED BY <2>1 DEF WorldInv, Matched, Live, RowsMatchSlots
  <1>2. ColumnsAligned
    BY DEF WorldInv, Aligned, ColumnsAligned
  <1> QED BY <1>1, <1>2

\* Counting references keeps the counts natural numbers.
LEMMA CountsTyped ==
  ASSUME NEW counts \in [Handles -> Nat], NEW bundle, DOMAIN bundle \subseteq Components
  PROVE  /\ \A h \in Handles : Mentions(h, bundle) \in Nat
         /\ AcquiredRow(counts, bundle) \in [Handles -> Nat]
         /\ ReleasedRow(counts, bundle) \in [Handles -> Nat]
  <1>1. \A h \in Handles : Mentions(h, bundle) \in Nat
    <2> TAKE h \in Handles
    <2> DEFINE T == {c \in DOMAIN bundle \intersect HandleComponents : bundle[c] = h}
    <2>1. T \in SUBSET Components /\ IsFiniteSet(Components)
      BY WorldAssumption
    <2> HIDE DEF T
    <2>2. Cardinality(T) \in Nat
      BY <2>1, FS_Subset, FS_CardinalityType
    <2> QED BY <2>2 DEF T, Mentions
  <1>2. \A h \in Handles : counts[h] \in Nat
    OBVIOUS
  <1>3. \A h \in Handles : counts[h] + Mentions(h, bundle) \in Nat
    BY <1>1, <1>2
  <1>4. \A h \in Handles : (IF counts[h] > Mentions(h, bundle) THEN counts[h] - Mentions(h, bundle)
                            ELSE 0) \in Nat
    BY <1>1, <1>2
  <1>5. AcquiredRow(counts, bundle) \in [Handles -> Nat]
    BY <1>3 DEF AcquiredRow
  <1>6. ReleasedRow(counts, bundle) \in [Handles -> Nat]
    BY <1>4 DEF ReleasedRow
  <1> QED BY <1>1, <1>5, <1>6

LEMMA SwappedTyped ==
  ASSUME WorldTypeOK, NEW c \in Components, NEW old, NEW new
  PROVE  Swapped(c, old, new) \in [Handles -> Nat]
  <1>1. handleCounts \in [Handles -> Nat]
    BY DEF WorldTypeOK
  <1>2. \A v : DOMAIN SingleValue(c, v) \subseteq Components
    BY DEF SingleValue
  <1>3. ReleasedRow(handleCounts, SingleValue(c, old)) \in [Handles -> Nat]
    BY <1>1, <1>2, CountsTyped
  <1>4. AcquiredRow(ReleasedRow(handleCounts, SingleValue(c, old)), SingleValue(c, new)) \in [Handles -> Nat]
    BY <1>2, <1>3, CountsTyped
  <1> QED BY <1>1, <1>4 DEF Swapped

-----------------------------------------------------------------------------
(* What an operation leaves alone *)

\* Nobody but the entity at index i is concerned: whoever lives at another index
\* goes on living there, at the same generation and with the same values.
OthersKept(i) ==
  /\ Live' \ {i} = Live \ {i}
  /\ \A j \in Live \ {i} :
       /\ slots'[j].generation = slots[j].generation
       /\ RowOf(slots', columns', j) = RowOf(slots, columns, j)

LEMMA MaxOfTwo ==
  ASSUME NEW a \in Int, NEW b \in Int
  PROVE  Max({a, b}) = IF a >= b THEN a ELSE b
  <1>1. \E x \in {a, b} : \A y \in {a, b} : x >= y
    OBVIOUS
  <1>2. Max({a, b}) \in {a, b} /\ \A y \in {a, b} : Max({a, b}) >= y
    BY <1>1 DEF Max
  <1> QED BY <1>2

\* spawn_inner takes a free slot or adds one: nobody lives there, and no handle
\* that was given out before is given out again.
LEMMA SlotTaken ==
  ASSUME WorldInv, NEW e \in Entities, SpawnReused(e) \/ SpawnFresh(e)
  PROVE  LET m == Max({Len(slots), e.index})
         IN /\ e.index \notin Live /\ e \notin issued
            /\ m \in 0 .. MaxSlots /\ Len(slots) <= m /\ e.index \in 1 .. m
            /\ \A j \in 1 .. m : j # e.index => j \in DOMAIN slots
            /\ freeSlots' \in Seq(1 .. MaxSlots) /\ IsInjective(freeSlots')
            /\ ToSet(freeSlots') = ToSet(freeSlots) \ {e.index}
            /\ \A x \in issued : x.index = e.index => x.generation < e.generation
  <1> DEFINE i == e.index
             m == Max({Len(slots), i})
  <1>1. /\ Len(slots) \in 0 .. MaxSlots /\ DOMAIN slots = 1 .. Len(slots)
        /\ freeSlots \in Seq(1 .. MaxSlots) /\ ToSet(freeSlots) \subseteq DOMAIN slots
        /\ IsInjective(freeSlots) /\ MaxSlots \in Nat
        /\ i \in 1 .. MaxSlots /\ e.generation \in 0 .. GenMod - 1
    BY WorldTypes, EntitiesFields, WorldAssumption DEF WorldInv
  <1>2. m = IF Len(slots) >= i THEN Len(slots) ELSE i
    BY <1>1, MaxOfTwo
  <1>3. m \in 0 .. MaxSlots /\ Len(slots) <= m /\ i \in 1 .. m
    BY <1>1, <1>2
  <1>4. CASE SpawnReused(e)
    <2>1. /\ freeSlots # << >> /\ i = Last(freeSlots) /\ freeSlots' = Front(freeSlots)
          /\ e.generation = Bumped(slots[i].generation) /\ e.generation # 0
      BY <1>4 DEF SpawnReused
    <2>2. /\ i \in ToSet(freeSlots) /\ ToSet(freeSlots') = ToSet(freeSlots) \ {i}
          /\ IsInjective(freeSlots') /\ freeSlots' \in Seq(1 .. MaxSlots)
      <3>1. freeSlots' \in Seq(1 .. MaxSlots)
        BY <1>1, <2>1, FrontLast
      <3>2. /\ Last(freeSlots) \in ToSet(freeSlots)
            /\ ToSet(Front(freeSlots)) = ToSet(freeSlots) \ {Last(freeSlots)}
            /\ IsInjective(Front(freeSlots))
        BY <1>1, <2>1, PopDistinct
      <3> QED BY <3>1, <3>2, <2>1
    <2>3. i \in DOMAIN slots /\ i \notin Live
      BY <1>1, <2>2 DEF Live
    <2>4. \A j \in 1 .. m : j \in DOMAIN slots
      BY <1>1, <1>2, <2>3
    <2>5. slots[i].generation < e.generation
      <3>1. slots[i].generation \in 0 .. GenMod - 1 /\ GenMod \in Nat \ {0}
        BY <2>3, WorldTypes, WorldAssumption DEF Slots
      <3>2. CASE slots[i].generation = GenMod - 1
        <4>1. (slots[i].generation + 1) % GenMod = 0
          BY <3>1, <3>2
        <4> QED BY <4>1, <2>1 DEF Bumped
      <3>3. CASE slots[i].generation # GenMod - 1
        <4>1. (slots[i].generation + 1) % GenMod = slots[i].generation + 1
          BY <3>1, <3>3
        <4> QED BY <4>1, <3>1, <2>1 DEF Bumped
      <3> QED BY <3>2, <3>3
    <2>6. \A x \in issued : x.index = i => x.generation < e.generation
      <3> TAKE x \in issued
      <3> HAVE x.index = i
      <3>1. x.generation \in Int /\ slots[i].generation \in Int
        <4>1. x \in Entities /\ slots[i] \in Slots
          BY <2>3, WorldTypes DEF WorldInv, WorldTypeOK
        <4>2. x.generation \in 0 .. GenMod - 1 /\ slots[i].generation \in 0 .. GenMod - 1
          BY <4>1, EntitiesFields DEF Slots
        <4> QED BY <4>2, WorldAssumption
      <3>2. x.generation <= slots[i].generation
        BY DEF WorldInv, IssuedOlder
      <3> QED BY <3>1, <3>2, <2>5, <1>1
    <2>7. e \notin issued
      BY <2>6, <1>1
    <2> QED BY <1>3, <2>2, <2>3, <2>4, <2>6, <2>7
  <1>5. CASE SpawnFresh(e)
    <2>1. freeSlots = << >> /\ i = Len(slots) + 1 /\ freeSlots' = freeSlots
      BY <1>5 DEF SpawnFresh
    <2>2. i \notin DOMAIN slots
      BY <1>1, <2>1
    <2>3. i \notin Live /\ i \notin ToSet(freeSlots)
      BY <1>1, <2>2 DEF Live
    <2>4. \A j \in 1 .. m : j # i => j \in DOMAIN slots
      BY <1>1, <1>2, <2>1
    <2>5. \A x \in issued : x.index # i
      BY <2>2 DEF WorldInv, IssuedOlder
    <2> QED BY <1>1, <1>3, <2>1, <2>3, <2>4, <2>5
  <1> QED BY <1>4, <1>5

\* spawn, spawn_bundle
LEMMA SpawnStep ==
  ASSUME WorldInv, NEW e \in Entities, NEW bundle \in Bundles(Components), Spawn(e, bundle)
  PROVE  /\ WorldInv'
         /\ e.index \notin Live /\ e \notin issued
         /\ Live' = Live \union {e.index}
         /\ OthersKept(e.index)
         /\ slots'[e.index].generation = e.generation
         /\ RowOf(slots', columns', e.index) = bundle
  <1> DEFINE i == e.index
             m == Max({Len(slots), i})
             at == SlotAt(e.generation, entities, bundle)
  <1>1. /\ i \notin Live /\ e \notin issued
        /\ m \in 0 .. MaxSlots /\ Len(slots) <= m /\ i \in 1 .. m
        /\ \A j \in 1 .. m : j # i => j \in DOMAIN slots
        /\ freeSlots' \in Seq(1 .. MaxSlots) /\ IsInjective(freeSlots')
        /\ ToSet(freeSlots') = ToSet(freeSlots) \ {i}
        /\ \A x \in issued : x.index = i => x.generation < e.generation
    BY SlotTaken DEF Spawn
  <1>2. /\ slots' = [j \in 1 .. m |-> IF j = i THEN at ELSE slots[j]]
        /\ entities' = EntitiesWith(entities, e, bundle)
        /\ columns' = ColumnsWith(columns, bundle)
        /\ handleCounts' = AcquiredRow(handleCounts, bundle)
        /\ issued' = issued \union {e}
    BY DEF Spawn
  <1>3. /\ slots \in Seq(Slots) /\ DOMAIN slots = 1 .. Len(slots) /\ Len(slots) \in Nat
        /\ \A j \in DOMAIN slots : slots[j] \in Slots
        /\ entities \in EntityLists /\ columns \in ColumnLists /\ Live \subseteq DOMAIN slots
        /\ ToSet(freeSlots) \subseteq DOMAIN slots
    BY WorldTypes
  <1>4. at \in Slots /\ at.generation = e.generation
    BY <1>3, SlotAtTyped, EntitiesFields DEF SlotAt
  <1> HIDE DEF m, at
  <1>5. /\ slots' \in Seq(Slots) /\ DOMAIN slots' = 1 .. m /\ Len(slots') = m
        /\ slots'[i] = at /\ \A j \in 1 .. m : j # i => slots'[j] = slots[j]
    <2>1. \A j \in 1 .. m : slots'[j] \in Slots
      BY <1>1, <1>2, <1>3, <1>4
    <2>2. slots' \in Seq(Slots)
      BY <1>1, <1>2, <2>1, IsASeq
    <2>3. DOMAIN slots' = 1 .. m /\ slots'[i] = at /\ \A j \in 1 .. m : j # i => slots'[j] = slots[j]
      BY <1>1, <1>2
    <2> QED BY <1>1, <2>2, <2>3, LenProperties
  <1>6. DOMAIN slots' = DOMAIN slots \union {i}
    BY <1>1, <1>3, <1>5
  <1>7. Live' = Live \union {i}
    <2>1. Live' = DOMAIN slots' \ ToSet(freeSlots')
      BY DEF Live
    <2> QED BY <1>1, <1>6, <2>1 DEF Live
  <1>8. \A j \in Live : j # i /\ slots'[j] = slots[j] /\ slots[j] \in Slots
    BY <1>1, <1>3, <1>5
  <1>9. /\ entities' \in EntityLists /\ columns' \in ColumnLists
        /\ Matched(slots', Live', entities') /\ Aligned(columns', entities')
        /\ \A j \in Live : RowOf(slots', columns', j) = RowOf(slots, columns, j)
        /\ RowOf(slots', columns', i) = bundle
    <2>1. PICK next : next = slots'
      OBVIOUS
    <2>2. PICK all : all = Live \union {i}
      OBVIOUS
    <2>3. CanAdd(slots, Live, entities, columns, next, all, e, i, bundle)
      BY <1>1, <1>3, <1>5, <1>6, <1>8, <2>1, <2>2 DEF WorldInv, at, CanAdd
    <2>4. /\ EntitiesWith(entities, e, bundle) \in EntityLists
          /\ ColumnsWith(columns, bundle) \in ColumnLists
          /\ Matched(next, all, EntitiesWith(entities, e, bundle))
          /\ Aligned(ColumnsWith(columns, bundle), EntitiesWith(entities, e, bundle))
          /\ \A j \in Live : RowOf(next, ColumnsWith(columns, bundle), j) = RowOf(slots, columns, j)
          /\ RowOf(next, ColumnsWith(columns, bundle), i) = bundle
      BY <2>3, RowAdded
    <2> QED BY <1>2, <1>7, <2>1, <2>2, <2>4
  <1>10. OthersKept(i)
    BY <1>1, <1>7, <1>8, <1>9 DEF OthersKept
  <1>11. WorldTypeOK'
    <2>1. handleCounts' \in [Handles -> Nat]
      BY <1>2, BundleFields, CountsTyped DEF WorldInv, WorldTypeOK
    <2>2. issued' \subseteq Entities
      BY <1>2 DEF WorldInv, WorldTypeOK
    <2>3. Len(slots') <= MaxSlots
      BY <1>1, <1>5
    <2> QED BY <1>1, <1>5, <1>9, <2>1, <2>2, <2>3 DEF WorldTypeOK, Slots, EntityLists, ColumnLists
  <1>12. IssuedOlder'
    <2> SUFFICES ASSUME NEW x \in issued'
                 PROVE  /\ x.index \in DOMAIN slots'
                        /\ x.generation <= slots'[x.index].generation
                        /\ x.index \in ToSet(freeSlots') => x.generation < slots'[x.index].generation
      BY DEF IssuedOlder
    <2>1. CASE x = e
      BY <2>1, <1>1, <1>4, <1>5, EntitiesFields, WorldAssumption
    <2>2. CASE x \in issued /\ x.index = i
      <3>1. x.generation < e.generation /\ x.generation \in Int /\ e.generation \in Int
        BY <2>2, <1>1, EntitiesFields, WorldAssumption DEF WorldInv, WorldTypeOK
      <3> QED BY <3>1, <2>2, <1>1, <1>4, <1>5
    <2>3. CASE x \in issued /\ x.index # i
      BY <2>3, <1>1, <1>3, <1>5, <1>6 DEF WorldInv, IssuedOlder
    <2> QED BY <2>1, <2>2, <2>3, <1>2
  <1>13. ToSet(freeSlots') \subseteq DOMAIN slots'
    BY <1>1, <1>3, <1>6
  <1> QED BY <1>1, <1>4, <1>5, <1>7, <1>9, <1>10, <1>11, <1>12, <1>13 DEF WorldInv

\* The invariant is kept when the lists and the slots fit and nobody's index or
\* generation goes back behind a handle that was given out.
LEMMA InvKept ==
  ASSUME WorldInv,
         slots' \in Seq(Slots), Len(slots') <= MaxSlots,
         entities' \in EntityLists, columns' \in ColumnLists,
         handleCounts' \in [Handles -> Nat],
         freeSlots' \in Seq(1 .. MaxSlots), IsInjective(freeSlots'),
         ToSet(freeSlots') \subseteq DOMAIN slots',
         Matched(slots', Live', entities'), Aligned(columns', entities'),
         issued' \subseteq Entities, IssuedOlder'
  PROVE  WorldInv'
  <1>1. WorldTypeOK'
    BY DEF WorldTypeOK, Slots, EntityLists, ColumnLists
  <1> QED BY <1>1 DEF WorldInv

\* A row goes and one comes, at the same index: a migration, or a peer's entity
\* in the place of the one that lived there.
LEMMA Moved ==
  ASSUME WorldInv, NEW i \in Live, NEW e \in Entities, e.index = i,
         NEW bundle \in Bundles(Components),
         slots' = [SlotsWithout(slots[i]) EXCEPT
                     ![i] = SlotAt(e.generation, EntitiesWithout(slots[i]), bundle)],
         entities' = EntitiesWith(EntitiesWithout(slots[i]), e, bundle),
         columns' = ColumnsWith(ColumnsWithout(slots[i]), bundle),
         freeSlots' = freeSlots
  PROVE  /\ slots' \in Seq(Slots) /\ DOMAIN slots' = DOMAIN slots /\ Len(slots') <= MaxSlots
         /\ entities' \in EntityLists /\ columns' \in ColumnLists
         /\ Live' = Live
         /\ Matched(slots', Live', entities') /\ Aligned(columns', entities')
         /\ OthersKept(i)
         /\ slots'[i].generation = e.generation
         /\ RowOf(slots', columns', i) = bundle
         /\ \A j \in DOMAIN slots : j # i => slots'[j].generation = slots[j].generation
  <1>s. PICK s : s = slots[i]
    OBVIOUS
  <1>1. PICK sl : sl = SlotsWithout(s)
    OBVIOUS
  <1>2. PICK ents : ents = EntitiesWithout(s)
    OBVIOUS
  <1>3. PICK cols : cols = ColumnsWithout(s)
    OBVIOUS
  <1>4. PICK live : live = Live
    OBVIOUS
  <1>5. PICK rest : rest = Live \ {i}
    OBVIOUS
  <1>6. PICK next : next = slots'
    OBVIOUS
  <1>7. /\ slots \in Seq(Slots) /\ Len(slots) \in 0 .. MaxSlots /\ DOMAIN slots = 1 .. Len(slots)
        /\ \A j \in DOMAIN slots : slots[j] \in Slots
        /\ live \subseteq DOMAIN slots /\ i \in live
    BY <1>4, WorldTypes
  <1>8. WorldTypeOK /\ Matched(slots, live, entities) /\ Aligned(columns, entities)
    BY <1>4 DEF WorldInv
  <1>9. rest = live \ {i}
    BY <1>4, <1>5
  <1>10. /\ sl \in Seq(Slots) /\ DOMAIN sl = DOMAIN slots
         /\ \A j \in DOMAIN slots : sl[j].generation = slots[j].generation
         /\ ents \in EntityLists /\ cols \in ColumnLists
         /\ Matched(sl, rest, ents) /\ Aligned(cols, ents)
         /\ \A j \in rest : RowOf(sl, cols, j) = RowOf(slots, columns, j)
    <2>1. /\ SlotsWithout(s) \in Seq(Slots) /\ DOMAIN SlotsWithout(s) = DOMAIN slots
          /\ SlotsWithout(s)[i] = s
          /\ \A j \in DOMAIN slots : SlotsWithout(s)[j].generation = slots[j].generation
          /\ EntitiesWithout(s) \in EntityLists /\ ColumnsWithout(s) \in ColumnLists
          /\ Matched(SlotsWithout(s), rest, EntitiesWithout(s))
          /\ Aligned(ColumnsWithout(s), EntitiesWithout(s))
          /\ \A j \in rest :
               RowOf(SlotsWithout(s), ColumnsWithout(s), j) = RowOf(slots, columns, j)
      <3>1. CanRemove(live, i, rest, s)
        BY <1>s, <1>7, <1>8, <1>9 DEF CanRemove
      <3> QED BY <3>1, RowRemoved
    <2> QED BY <1>1, <1>2, <1>3, <2>1
  <1> DEFINE at == SlotAt(e.generation, ents, bundle)
  <1>11. at \in Slots /\ at.generation = e.generation
    BY <1>10, SlotAtTyped, EntitiesFields DEF SlotAt
  <1>12. next = [sl EXCEPT ![i] = at]
    BY <1>s, <1>1, <1>2, <1>6
  <1> HIDE DEF at
  <1>13. /\ next \in Seq(Slots) /\ Len(next) = Len(slots) /\ DOMAIN next = DOMAIN slots
         /\ next[i] = at /\ \A j \in DOMAIN slots : j # i => next[j] = sl[j]
    <2>1. Len(sl) = Len(slots) /\ DOMAIN sl = 1 .. Len(sl) /\ i \in 1 .. Len(sl)
      BY <1>7, <1>10, LenProperties
    <2>2. next \in Seq(Slots) /\ Len(next) = Len(sl)
      BY <1>10, <1>11, <1>12, <2>1, ExceptSeq
    <2>3. next[i] = at /\ \A j \in DOMAIN slots : j # i => next[j] = sl[j]
      BY <1>12, <1>10, <2>1
    <2> QED BY <2>1, <2>2, <2>3, <1>7, LenProperties
  <1>14. Live' = live
    BY <1>4, <1>6, <1>13 DEF Live
  <1>15. CanAdd(sl, rest, ents, cols, next, live, e, i, bundle)
    <2>1. \A j \in rest : sl[j] \in Slots /\ next[j] = sl[j]
      BY <1>7, <1>9, <1>10, <1>13, LenProperties
    <2>2. next[i] = SlotAt(e.generation, ents, bundle)
      BY <1>13 DEF at
    <2>3. i \notin rest /\ live = rest \union {i} /\ live \subseteq DOMAIN next
      BY <1>7, <1>9, <1>13
    <2> QED BY <1>10, <2>1, <2>2, <2>3 DEF CanAdd
  <1>16. /\ EntitiesWith(ents, e, bundle) \in EntityLists
         /\ ColumnsWith(cols, bundle) \in ColumnLists
         /\ Matched(next, live, EntitiesWith(ents, e, bundle))
         /\ Aligned(ColumnsWith(cols, bundle), EntitiesWith(ents, e, bundle))
         /\ \A j \in rest : RowOf(next, ColumnsWith(cols, bundle), j) = RowOf(sl, cols, j)
         /\ RowOf(next, ColumnsWith(cols, bundle), i) = bundle
    BY <1>15, RowAdded
  <1>17. OthersKept(i)
    <2>1. \A j \in Live \ {i} : /\ slots'[j].generation = slots[j].generation
                                /\ RowOf(slots', columns', j) = RowOf(slots, columns, j)
      BY <1>s, <1>3, <1>4, <1>5, <1>6, <1>7, <1>10, <1>13, <1>16
    <2> QED BY <2>1, <1>4, <1>14 DEF OthersKept
  <1> QED BY <1>s, <1>2, <1>3, <1>4, <1>6, <1>7, <1>10, <1>11, <1>13, <1>14, <1>16, <1>17

\* despawn
LEMMA DespawnStep ==
  ASSUME WorldInv, NEW e \in issued, Despawn(e)
  PROVE  /\ WorldInv'
         /\ e \in Entities /\ e.index \in Live /\ e.generation = slots[e.index].generation
         /\ Live' = Live \ {e.index}
         /\ OthersKept(e.index)
  <1>i. PICK i : i = e.index
    OBVIOUS
  <1>s. PICK s : s = slots[i]
    OBVIOUS
  <1>1. PICK sl : sl = SlotsWithout(s)
    OBVIOUS
  <1>2. PICK rest : rest = Live \ {i}
    OBVIOUS
  <1>3. PICK live : live = Live
    OBVIOUS
  <1>4. /\ IsAlive(e) /\ Bumped(e.generation) # 0
        /\ handleCounts' = ReleasedRow(handleCounts, RowValues(s))
        /\ entities' = EntitiesWithout(s)
        /\ columns' = ColumnsWithout(s)
        /\ slots' = [sl EXCEPT ![i].generation = Bumped(sl[i].generation)]
        /\ freeSlots' = Append(freeSlots, i)
        /\ issued' = issued
    BY <1>i, <1>s, <1>1 DEF Despawn
  <1>5. e \in Entities /\ i \in Live /\ e = [index |-> i, generation |-> s.generation]
    BY <1>i, <1>s, <1>4, AliveIsLive
  <1>6. /\ slots \in Seq(Slots) /\ Len(slots) \in 0 .. MaxSlots /\ DOMAIN slots = 1 .. Len(slots)
        /\ \A j \in DOMAIN slots : slots[j] \in Slots
        /\ live \subseteq DOMAIN slots /\ i \in live
        /\ freeSlots \in Seq(1 .. MaxSlots) /\ ToSet(freeSlots) \subseteq DOMAIN slots
    BY <1>i, <1>s, <1>3, <1>5, WorldTypes
  <1>7. WorldTypeOK /\ Matched(slots, live, entities) /\ Aligned(columns, entities)
    BY <1>3 DEF WorldInv
  <1>8. rest = live \ {i}
    BY <1>2, <1>3
  <1>9. /\ sl \in Seq(Slots) /\ DOMAIN sl = DOMAIN slots /\ sl[i] = s
        /\ \A j \in DOMAIN slots : sl[j].generation = slots[j].generation
        /\ entities' \in EntityLists /\ columns' \in ColumnLists
        /\ Matched(sl, rest, entities') /\ Aligned(columns', entities')
        /\ \A j \in rest : RowOf(sl, columns', j) = RowOf(slots, columns, j)
    <2>1. PICK ents : ents = EntitiesWithout(s)
      OBVIOUS
    <2>2. PICK cols : cols = ColumnsWithout(s)
      OBVIOUS
    <2>3. /\ sl \in Seq(Slots) /\ DOMAIN sl = DOMAIN slots /\ sl[i] = s
          /\ \A j \in DOMAIN slots : sl[j].generation = slots[j].generation
          /\ ents \in EntityLists /\ cols \in ColumnLists
          /\ Matched(sl, rest, ents) /\ Aligned(cols, ents)
          /\ \A j \in rest : RowOf(sl, cols, j) = RowOf(slots, columns, j)
      <3>1. /\ SlotsWithout(s) \in Seq(Slots) /\ DOMAIN SlotsWithout(s) = DOMAIN slots
            /\ SlotsWithout(s)[i] = s
            /\ \A j \in DOMAIN slots : SlotsWithout(s)[j].generation = slots[j].generation
            /\ EntitiesWithout(s) \in EntityLists /\ ColumnsWithout(s) \in ColumnLists
            /\ Matched(SlotsWithout(s), rest, EntitiesWithout(s))
            /\ Aligned(ColumnsWithout(s), EntitiesWithout(s))
            /\ \A j \in rest :
                 RowOf(SlotsWithout(s), ColumnsWithout(s), j) = RowOf(slots, columns, j)
        <4>1. CanRemove(live, i, rest, s)
          BY <1>s, <1>6, <1>7, <1>8 DEF CanRemove
        <4> QED BY <4>1, RowRemoved
      <3> QED BY <1>1, <2>1, <2>2, <3>1
    <2> QED BY <2>1, <2>2, <2>3, <1>4
  <1> DEFINE bumped == [s EXCEPT !.generation = Bumped(s.generation)]
  <1>10. /\ bumped \in Slots /\ bumped.generation = s.generation + 1
         /\ s.generation \in Nat
    <2>1. s \in Slots /\ GenMod \in Nat \ {0} /\ s.generation \in 0 .. GenMod - 1
      BY <1>i, <1>s, <1>6, WorldAssumption DEF Slots
    <2>2. Bumped(s.generation) # 0
      BY <1>i, <1>s, <1>4, <1>5 DEF IsAlive
    <2>3. s.generation # GenMod - 1
      <3>1. GenMod % GenMod = 0
        BY <2>1
      <3> QED BY <3>1, <2>1, <2>2 DEF Bumped
    <2>4. Bumped(s.generation) = s.generation + 1 /\ s.generation + 1 \in 0 .. GenMod - 1
      BY <2>1, <2>3 DEF Bumped
    <2> QED BY <2>1, <2>4 DEF Slots
  <1>11. slots' = [sl EXCEPT ![i] = bumped]
    BY <1>i, <1>s, <1>4, <1>9
  <1> HIDE DEF bumped
  <1>12. /\ slots' \in Seq(Slots) /\ DOMAIN slots' = DOMAIN slots /\ Len(slots') <= MaxSlots
         /\ slots'[i] = bumped /\ \A j \in DOMAIN slots : j # i => slots'[j] = sl[j]
    <2>1. Len(sl) = Len(slots) /\ DOMAIN sl = 1 .. Len(sl) /\ i \in 1 .. Len(sl)
      BY <1>6, <1>9, LenProperties
    <2>2. slots' \in Seq(Slots) /\ Len(slots') = Len(sl)
      BY <1>9, <1>10, <1>11, <2>1, ExceptSeq
    <2>3. slots'[i] = bumped /\ \A j \in DOMAIN slots : j # i => slots'[j] = sl[j]
      BY <1>9, <1>11, <2>1
    <2>4. Len(slots') <= MaxSlots
      BY <2>1, <2>2, <1>6, WorldAssumption
    <2> QED BY <2>1, <2>2, <2>3, <2>4, <1>6, LenProperties
  <1>13. /\ freeSlots' \in Seq(1 .. MaxSlots) /\ IsInjective(freeSlots')
         /\ ToSet(freeSlots') = ToSet(freeSlots) \union {i}
    <2>1. i \in 1 .. MaxSlots /\ i \notin ToSet(freeSlots) /\ IsInjective(freeSlots)
      BY <1>i, <1>s, <1>5, EntitiesFields DEF Live, WorldInv
    <2>2. freeSlots' \in Seq(1 .. MaxSlots)
      BY <2>1, <1>4, <1>6, AppendProperties
    <2>3. /\ ToSet(Append(freeSlots, i)) = ToSet(freeSlots) \union {i}
          /\ IsInjective(Append(freeSlots, i))
      <3>1. PICK S : S = 1 .. MaxSlots
        OBVIOUS
      <3>2. freeSlots \in Seq(S) /\ i \in S /\ i \notin ToSet(freeSlots) /\ IsInjective(freeSlots)
        BY <2>1, <1>6, <3>1
      <3> QED BY <3>2, PushDistinct
    <2> QED BY <2>2, <2>3, <1>4
  <1>14. Live' = rest
    BY <1>2, <1>12, <1>13 DEF Live
  <1>15. /\ Matched(slots', Live', entities')
         /\ \A j \in rest : RowOf(slots', columns', j) = RowOf(slots, columns, j)
    <2>1. \A j \in rest : slots'[j] = sl[j] /\ j \in DOMAIN slots
      BY <1>6, <1>8, <1>12
    <2>2. rest \subseteq DOMAIN slots'
      BY <2>1, <1>12
    <2>3. Matched(slots', rest, entities')
      BY <2>1, <2>2, <1>9 DEF Matched
    <2>4. \A j \in rest : RowOf(slots', columns', j) = RowOf(sl, columns', j)
      BY <2>1 DEF RowOf
    <2> QED BY <2>3, <2>4, <1>9, <1>14
  <1>16. OthersKept(i)
    <2>1. \A j \in Live \ {i} : slots'[j].generation = slots[j].generation
      BY <1>3, <1>6, <1>9, <1>12
    <2> QED BY <2>1, <1>2, <1>14, <1>15 DEF OthersKept
  <1>17. handleCounts' \in [Handles -> Nat]
    <2>1. DOMAIN RowValues(s) \subseteq Components
      BY <1>i, <1>s, <1>5, RowTyped
    <2> QED BY <2>1, <1>4, CountsTyped DEF WorldInv, WorldTypeOK
  <1>18. IssuedOlder'
    <2> SUFFICES ASSUME NEW x \in issued
                 PROVE  /\ x.index \in DOMAIN slots'
                        /\ x.generation <= slots'[x.index].generation
                        /\ x.index \in ToSet(freeSlots') => x.generation < slots'[x.index].generation
      BY <1>4 DEF IssuedOlder
    <2>1. /\ x.index \in DOMAIN slots /\ x.generation <= slots[x.index].generation
          /\ x.index \in ToSet(freeSlots) => x.generation < slots[x.index].generation
          /\ x.generation \in Nat
      BY EntitiesFields, WorldAssumption DEF WorldInv, WorldTypeOK, IssuedOlder
    <2>2. CASE x.index = i
      BY <2>1, <2>2, <1>s, <1>10, <1>12
    <2>3. CASE x.index # i
      BY <2>1, <2>3, <1>9, <1>12, <1>13
    <2> QED BY <2>2, <2>3
  <1>19. WorldInv'
    <2>1. ToSet(freeSlots') \subseteq DOMAIN slots'
      BY <1>6, <1>12, <1>13
    <2>2. issued' \subseteq Entities
      BY <1>4 DEF WorldInv, WorldTypeOK
    <2> QED BY <2>1, <2>2, <1>9, <1>12, <1>13, <1>15, <1>17, <1>18, InvKept
  <1> QED BY <1>i, <1>s, <1>2, <1>5, <1>14, <1>16, <1>19

\* insert of a component the entity did not have, remove: the row moves to
\* another archetype, and the entity keeps its handle.
LEMMA MigrateStep ==
  ASSUME WorldInv, NEW e \in issued, IsAlive(e),
         NEW bundle \in Bundles(Components), DOMAIN bundle # slots[e.index].archetype,
         Migrate(e, bundle), freeSlots' = freeSlots, issued' = issued,
         handleCounts' \in [Handles -> Nat]
  PROVE  /\ WorldInv'
         /\ Live' = Live
         /\ OthersKept(e.index)
         /\ slots'[e.index].generation = slots[e.index].generation
         /\ RowOf(slots', columns', e.index) = bundle
  <1>i. PICK i : i = e.index
    OBVIOUS
  <1>s. PICK s : s = slots[i]
    OBVIOUS
  <1>1. /\ e \in Entities /\ i \in Live /\ e.generation = s.generation
        /\ s.archetype \in Archetypes /\ DOMAIN bundle \in Archetypes \ {s.archetype}
    <2>1. e \in Entities /\ i \in Live /\ e = [index |-> i, generation |-> s.generation]
      BY <1>i, <1>s, AliveIsLive
    <2>2. s.archetype \in Archetypes
      BY <1>s, <2>1, RowTyped DEF Archetypes
    <2> QED BY <1>i, <1>s, <2>1, <2>2, BundleFields
  <1>2. EntitiesWithout(s)[DOMAIN bundle] = entities[DOMAIN bundle]
    <2>1. PICK live : live = Live
      OBVIOUS
    <2>2. PICK rest : rest = live \ {i}
      OBVIOUS
    <2>3. CanRemove(live, i, rest, s)
      BY <1>s, <1>1, <2>1, <2>2 DEF CanRemove, WorldInv
    <2>4. \A k \in Archetypes \ {s.archetype} : EntitiesWithout(s)[k] = entities[k]
      BY <2>3, RowRemoved
    <2> QED BY <1>1, <2>4
  <1>3. /\ entities' = EntitiesWith(EntitiesWithout(s), e, bundle)
        /\ columns' = ColumnsWith(ColumnsWithout(s), bundle)
        /\ slots' = [SlotsWithout(s) EXCEPT ![i] = SlotAt(s.generation, entities, bundle)]
    BY <1>i, <1>s DEF Migrate
  <1>4. SlotAt(s.generation, entities, bundle) = SlotAt(e.generation, EntitiesWithout(s), bundle)
    BY <1>1, <1>2 DEF SlotAt
  <1>5. slots' = [SlotsWithout(s) EXCEPT ![i] = SlotAt(e.generation, EntitiesWithout(s), bundle)]
    BY <1>3, <1>4
  <1>6. /\ slots' \in Seq(Slots) /\ DOMAIN slots' = DOMAIN slots /\ Len(slots') <= MaxSlots
        /\ entities' \in EntityLists /\ columns' \in ColumnLists
        /\ Live' = Live
        /\ Matched(slots', Live', entities') /\ Aligned(columns', entities')
        /\ OthersKept(i)
        /\ slots'[i].generation = e.generation
        /\ RowOf(slots', columns', i) = bundle
        /\ \A j \in DOMAIN slots : j # i => slots'[j].generation = slots[j].generation
    BY <1>i, <1>s, <1>1, <1>3, <1>5, Moved
  <1>7. IssuedOlder'
    <2> SUFFICES ASSUME NEW x \in issued
                 PROVE  /\ x.index \in DOMAIN slots'
                        /\ x.generation <= slots'[x.index].generation
                        /\ x.index \in ToSet(freeSlots') => x.generation < slots'[x.index].generation
      BY DEF IssuedOlder
    <2>1. /\ x.index \in DOMAIN slots /\ x.generation <= slots[x.index].generation
          /\ x.index \in ToSet(freeSlots) => x.generation < slots[x.index].generation
      BY DEF WorldInv, IssuedOlder
    <2>2. slots'[x.index].generation = slots[x.index].generation
      BY <2>1, <1>s, <1>1, <1>6
    <2> QED BY <2>1, <2>2, <1>6
  <1>8. WorldInv'
    <2>1. /\ freeSlots' \in Seq(1 .. MaxSlots) /\ IsInjective(freeSlots')
          /\ ToSet(freeSlots') \subseteq DOMAIN slots' /\ issued' \subseteq Entities
      BY <1>6, WorldTypes DEF WorldInv, WorldTypeOK
    <2> QED BY <2>1, <1>6, <1>7, InvKept
  <1> QED BY <1>i, <1>s, <1>1, <1>6, <1>8

\* The free list with the placeholders up to an index.
LEMMA GrownFreeElements ==
  ASSUME WorldInv, NEW i \in 1 .. MaxSlots
  PROVE  /\ GrownFree(i) \in Seq(1 .. MaxSlots)
         /\ ToSet(GrownFree(i)) = ToSet(freeSlots) \union (Len(slots) + 1 .. i)
         /\ IsInjective(GrownFree(i))
  <1> DEFINE n == Len(slots)
             m == Max({i - n, 0})
             t == [j \in 1 .. m |-> n + j]
             f == Len(freeSlots)
             g == GrownFree(i)
  <1>1. n \in 0 .. MaxSlots /\ MaxSlots \in Nat /\ m \in 0 .. MaxSlots /\ (m = i - n \/ (m = 0 /\ i <= n))
    <2>1. n \in 0 .. MaxSlots /\ MaxSlots \in Nat
      BY WorldTypes, WorldAssumption
    <2> HIDE DEF n
    <2>2. m = IF i - n >= 0 THEN i - n ELSE 0
      BY <2>1, MaxOfTwo
    <2> HIDE DEF m
    <2> QED BY <2>1, <2>2
  <1>2. /\ freeSlots \in Seq(1 .. MaxSlots) /\ f \in Nat /\ DOMAIN freeSlots = 1 .. f
        /\ \A j \in 1 .. f : freeSlots[j] \in 1 .. n
        /\ \A j, k \in 1 .. f : freeSlots[j] = freeSlots[k] => j = k
    <2>1. /\ freeSlots \in Seq(1 .. MaxSlots) /\ ToSet(freeSlots) \subseteq 1 .. n
          /\ IsInjective(freeSlots)
      BY WorldTypes DEF WorldInv
    <2>2. f \in Nat /\ DOMAIN freeSlots = 1 .. f
      BY <2>1, LenProperties
    <2> HIDE DEF n, f
    <2> QED BY <2>1, <2>2 DEF ToSet, IsInjective
  <1> HIDE DEF n, m, f
  <1>3. t \in Seq(1 .. MaxSlots) /\ Len(t) = m /\ \A j \in 1 .. m : t[j] = n + j
    <2>1. \A j \in 1 .. m : n + j \in 1 .. MaxSlots
      BY <1>1
    <2>2. t \in Seq(1 .. MaxSlots)
      BY <1>1, <2>1, IsASeq
    <2>3. DOMAIN t = 1 .. m /\ DOMAIN t = 1 .. Len(t) /\ Len(t) \in Nat
      BY <2>2, LenProperties
    <2> QED BY <1>1, <2>2, <2>3
  <1> HIDE DEF t
  <1>4. /\ g \in Seq(1 .. MaxSlots) /\ DOMAIN g = 1 .. f + m
        /\ \A j \in 1 .. f + m : g[j] = IF j <= f THEN freeSlots[j] ELSE n + (j - f)
    <2>1. g = freeSlots \o t
      BY DEF GrownFree, t, n, m
    <2>2. PICK S : S = 1 .. MaxSlots
      OBVIOUS
    <2>3. freeSlots \in Seq(S) /\ t \in Seq(S)
      BY <2>2, <1>2, <1>3
    <2>4. /\ freeSlots \o t \in Seq(S) /\ Len(freeSlots \o t) = Len(freeSlots) + Len(t)
          /\ \A j \in 1 .. Len(freeSlots) + Len(t) :
               (freeSlots \o t)[j] = IF j <= Len(freeSlots) THEN freeSlots[j] ELSE t[j - Len(freeSlots)]
      BY <2>3, ConcatProperties
    <2> HIDE DEF g
    <2>5. /\ g \in Seq(S) /\ Len(g) = f + m
          /\ \A j \in 1 .. f + m : g[j] = IF j <= f THEN freeSlots[j] ELSE t[j - f]
      BY <2>1, <2>4, <1>3 DEF f
    <2>6. DOMAIN g = 1 .. f + m
      BY <2>5, LenProperties
    <2>7. \A j \in 1 .. f + m : ~(j <= f) => j - f \in 1 .. m
      BY <1>1, <1>2
    <2> QED BY <2>2, <2>5, <2>6, <2>7, <1>3
  <1> HIDE DEF g
  <1>5. \A j \in 1 .. f + m : \/ j \in 1 .. f /\ g[j] = freeSlots[j] /\ g[j] \in 1 .. n
                              \/ j - f \in 1 .. m /\ g[j] = n + (j - f) /\ g[j] \in n + 1 .. i
    <2> TAKE j \in 1 .. f + m
    <2>1. CASE j <= f
      <3>1. j \in 1 .. f
        BY <2>1, <1>1, <1>2
      <3> QED BY <2>1, <3>1, <1>2, <1>4
    <2>2. CASE ~(j <= f)
      <3>1. j - f \in 1 .. m /\ n + (j - f) \in n + 1 .. i
        BY <2>2, <1>1, <1>2
      <3> QED BY <2>2, <3>1, <1>4
    <2> QED BY <2>1, <2>2
  <1>6. ToSet(g) = ToSet(freeSlots) \union (n + 1 .. i)
    <2>1. ASSUME NEW x, x \in ToSet(g) PROVE x \in ToSet(freeSlots) \union (n + 1 .. i)
      <3>1. PICK j \in 1 .. f + m : x = g[j]
        BY <2>1, <1>4 DEF ToSet
      <3> QED BY <3>1, <1>2, <1>5 DEF ToSet
    <2>2. ASSUME NEW x, x \in ToSet(freeSlots) PROVE x \in ToSet(g)
      <3>1. PICK j \in 1 .. f : x = freeSlots[j]
        BY <2>2, <1>2 DEF ToSet
      <3>2. j \in 1 .. f + m /\ x = g[j]
        BY <3>1, <1>1, <1>2, <1>4
      <3> QED BY <3>2, <1>4 DEF ToSet
    <2>3. ASSUME NEW x \in n + 1 .. i PROVE x \in ToSet(g)
      <3>1. /\ f + (x - n) \in 1 .. f + m /\ ~(f + (x - n) <= f)
            /\ n + ((f + (x - n)) - f) = x
        BY <2>3, <1>1, <1>2
      <3>2. g[f + (x - n)] = x
        BY <3>1, <1>4
      <3> QED BY <3>1, <3>2, <1>4 DEF ToSet
    <2> QED BY <2>1, <2>2, <2>3
  <1>7. IsInjective(g)
    <2> SUFFICES ASSUME NEW j \in 1 .. f + m, NEW k \in 1 .. f + m, g[j] = g[k] PROVE j = k
      BY <1>4 DEF IsInjective
    <2>1. CASE j \in 1 .. f /\ k \in 1 .. f
      <3>1. g[j] = freeSlots[j] /\ g[k] = freeSlots[k]
        BY <2>1, <1>4
      <3> QED BY <3>1, <2>1, <1>2
    <2>2. CASE j \notin 1 .. f /\ k \notin 1 .. f
      <3>1. g[j] = n + (j - f) /\ g[k] = n + (k - f)
        BY <2>2, <1>5
      <3>2. n \in Int /\ f \in Int /\ j \in Int /\ k \in Int
        BY <1>1, <1>2
      <3>3. n + (j - f) = n + (k - f)
        BY <3>1
      <3> QED BY <3>2, <3>3
    <2>3. CASE j \in 1 .. f /\ k \notin 1 .. f
      <3>1. g[j] \in 1 .. n /\ g[k] \in n + 1 .. i
        BY <2>3, <1>2, <1>4, <1>5
      <3> QED BY <3>1, <1>1
    <2>4. CASE j \notin 1 .. f /\ k \in 1 .. f
      <3>1. g[k] \in 1 .. n /\ g[j] \in n + 1 .. i
        BY <2>4, <1>2, <1>4, <1>5
      <3> QED BY <3>1, <1>1
    <2> QED BY <2>1, <2>2, <2>3, <2>4
  <1> QED BY <1>4, <1>6, <1>7 DEF g, n

\* A peer's spawn takes the numbering of its slot over: what was given out for
\* that index is older, or forgotten.
LEMMA PeerIssued ==
  ASSUME WorldInv, NEW e \in Entities,
         issued' = {x \in issued : x.index = e.index => x.generation < e.generation} \union {e},
         DOMAIN slots \union {e.index} \subseteq DOMAIN slots',
         slots'[e.index].generation = e.generation,
         \A j \in DOMAIN slots : j # e.index => slots'[j].generation = slots[j].generation,
         e.index \notin ToSet(freeSlots'),
         ToSet(freeSlots') \intersect DOMAIN slots \subseteq ToSet(freeSlots)
  PROVE  issued' \subseteq Entities /\ IssuedOlder'
  <1>1. issued' \subseteq Entities
    BY DEF WorldInv, WorldTypeOK
  <1>2. IssuedOlder'
    <2> SUFFICES ASSUME NEW x \in issued'
                 PROVE  /\ x.index \in DOMAIN slots'
                        /\ x.generation <= slots'[x.index].generation
                        /\ x.index \in ToSet(freeSlots') => x.generation < slots'[x.index].generation
      BY DEF IssuedOlder
    <2>1. x.generation \in Int /\ e.generation \in Int
      BY <1>1, EntitiesFields, WorldAssumption
    <2>2. CASE x = e
      BY <2>1, <2>2
    <2>3. CASE x \in issued /\ x.index = e.index /\ x.generation < e.generation
      BY <2>1, <2>3
    <2>4. CASE x \in issued /\ x.index # e.index
      BY <2>4 DEF WorldInv, IssuedOlder
    <2> QED BY <2>2, <2>3, <2>4
  <1> QED BY <1>1, <1>2

\* force_spawn_in_archetype where nobody lives.
LEMMA ArriveStep ==
  ASSUME WorldInv, NEW e \in Entities, NEW bundle \in Bundles(Components), Arrive(e, bundle),
         issued' = {x \in issued : x.index = e.index => x.generation < e.generation} \union {e}
  PROVE  /\ WorldInv'
         /\ e.index \notin Live
         /\ Live' = Live \union {e.index}
         /\ OthersKept(e.index)
         /\ slots'[e.index].generation = e.generation
         /\ RowOf(slots', columns', e.index) = bundle
  <1>i. PICK i : i = e.index
    OBVIOUS
  <1>m. PICK m : m = Max({Len(slots), i})
    OBVIOUS
  <1>g. PICK g : g = GrownFree(i)
    OBVIOUS
  <1> DEFINE at == SlotAt(e.generation, entities, bundle)
             grown == Grown(i)
  <1>1. /\ i \in ToSet(g) /\ freeSlots' = Without(g, i)
        /\ entities' = EntitiesWith(entities, e, bundle)
        /\ columns' = ColumnsWith(columns, bundle)
        /\ slots' = [grown EXCEPT ![i] = at]
        /\ handleCounts' = handleCounts
    BY <1>i, <1>g DEF Arrive
  <1>2. /\ slots \in Seq(Slots) /\ DOMAIN slots = 1 .. Len(slots) /\ Len(slots) \in 0 .. MaxSlots
        /\ \A j \in DOMAIN slots : slots[j] \in Slots
        /\ entities \in EntityLists /\ columns \in ColumnLists /\ Live \subseteq DOMAIN slots
        /\ ToSet(freeSlots) \subseteq DOMAIN slots
    BY WorldTypes
  <1>3. /\ i \in 1 .. MaxSlots /\ MaxSlots \in Nat /\ m \in 0 .. MaxSlots
        /\ Len(slots) <= m /\ i \in 1 .. m
        /\ \A j \in 1 .. m : j \in DOMAIN slots \/ j \in Len(slots) + 1 .. i
        /\ \A j \in Len(slots) + 1 .. i : j \in 1 .. m
    <2>1. i \in 1 .. MaxSlots /\ MaxSlots \in Nat /\ Len(slots) \in 0 .. MaxSlots
      BY <1>i, <1>2, EntitiesFields, WorldAssumption
    <2>2. m = IF Len(slots) >= i THEN Len(slots) ELSE i
      BY <1>m, <2>1, MaxOfTwo
    <2> QED BY <2>1, <2>2, <1>2
  <1>4. /\ freeSlots' \in Seq(1 .. MaxSlots) /\ IsInjective(freeSlots')
        /\ ToSet(freeSlots') = (ToSet(freeSlots) \union (Len(slots) + 1 .. i)) \ {i}
        /\ i \in ToSet(freeSlots) \union (Len(slots) + 1 .. i)
    <2>1. PICK S : S = 1 .. MaxSlots
      OBVIOUS
    <2>2. /\ g \in Seq(S) /\ IsInjective(g)
          /\ ToSet(g) = ToSet(freeSlots) \union (Len(slots) + 1 .. i)
      BY <2>1, <1>3, <1>g, GrownFreeElements
    <2>3. /\ Without(g, i) \in Seq(S) /\ IsInjective(Without(g, i))
          /\ ToSet(Without(g, i)) = ToSet(g) \ {i}
      BY <2>2, WithoutOthers
    <2> QED BY <2>1, <2>2, <2>3, <1>1
  <1>5. at \in Slots /\ at.generation = e.generation
    BY <1>2, SlotAtTyped, EntitiesFields DEF SlotAt
  <1>6. /\ grown \in Seq(Slots) /\ Len(grown) = m /\ DOMAIN grown = 1 .. m
        /\ \A j \in DOMAIN slots : grown[j] = slots[j]
    <2>1. grown = [j \in 1 .. m |-> IF j <= Len(slots) THEN slots[j] ELSE EmptySlot]
      BY <1>m DEF Grown
    <2>2. EmptySlot \in Slots
      BY WorldAssumption DEF EmptySlot, Slots, Archetypes
    <2>3. \A j \in 1 .. m : grown[j] = (IF j <= Len(slots) THEN slots[j] ELSE EmptySlot)
                            /\ grown[j] \in Slots
      <3> TAKE j \in 1 .. m
      <3>1. j <= Len(slots) => slots[j] \in Slots
        BY <1>2, <1>3
      <3> QED BY <3>1, <2>1, <2>2
    <2>4. grown \in Seq(Slots)
      BY <2>1, <2>3, <1>3, IsASeq
    <2>5. DOMAIN grown = 1 .. m /\ Len(grown) = m
      BY <2>1, <2>4, <1>3, LenProperties
    <2>6. \A j \in DOMAIN slots : j \in 1 .. m /\ j <= Len(slots)
      BY <1>2, <1>3
    <2> QED BY <2>3, <2>4, <2>5, <2>6
  <1> HIDE DEF at, grown
  <1>7. /\ slots' \in Seq(Slots) /\ Len(slots') <= MaxSlots /\ DOMAIN slots' = 1 .. m
        /\ slots'[i] = at /\ \A j \in DOMAIN slots : j # i => slots'[j] = slots[j]
    <2>1. slots' \in Seq(Slots) /\ Len(slots') = m
      BY <1>1, <1>3, <1>5, <1>6, ExceptSeq
    <2>2. DOMAIN slots' = 1 .. m /\ slots'[i] = at /\ \A j \in DOMAIN slots : j # i => slots'[j] = slots[j]
      <3>1. \A j \in DOMAIN slots : j \in 1 .. m
        BY <1>2, <1>3
      <3> QED BY <3>1, <1>1, <1>3, <1>6
    <2> QED BY <2>1, <2>2, <1>3
  <1>8. i \notin Live /\ Live' = Live \union {i}
    <2>1. i \notin Live
      BY <1>2, <1>4 DEF Live
    <2>2. \A j \in 1 .. m : j \in DOMAIN slots \/ j \in Len(slots) + 1 .. i
      BY <1>3
    <2>3. \A j \in DOMAIN slots : j \in 1 .. m /\ j \notin Len(slots) + 1 .. i
      BY <1>2, <1>3
    <2> QED BY <2>1, <2>2, <2>3, <1>3, <1>4, <1>7 DEF Live
  <1>9. /\ entities' \in EntityLists /\ columns' \in ColumnLists
        /\ Matched(slots', Live', entities') /\ Aligned(columns', entities')
        /\ \A j \in Live : RowOf(slots', columns', j) = RowOf(slots, columns, j)
        /\ RowOf(slots', columns', i) = bundle
    <2>1. PICK next : next = slots'
      OBVIOUS
    <2>2. PICK all : all = Live \union {i}
      OBVIOUS
    <2>3. CanAdd(slots, Live, entities, columns, next, all, e, i, bundle)
      <3>1. all \subseteq DOMAIN next
        <4>1. \A j \in DOMAIN slots : j \in 1 .. m
          BY <1>2, <1>3
        <4> QED BY <4>1, <1>2, <1>3, <1>7, <2>1, <2>2
      <3>2. \A j \in Live : slots[j] \in Slots /\ next[j] = slots[j]
        BY <1>2, <1>7, <1>8, <2>1
      <3>3. next[i] = SlotAt(e.generation, entities, bundle)
        BY <1>7, <2>1 DEF at
      <3> QED BY <3>1, <3>2, <3>3, <1>i, <1>2, <1>8, <2>2 DEF WorldInv, CanAdd
    <2>4. /\ EntitiesWith(entities, e, bundle) \in EntityLists
          /\ ColumnsWith(columns, bundle) \in ColumnLists
          /\ Matched(next, all, EntitiesWith(entities, e, bundle))
          /\ Aligned(ColumnsWith(columns, bundle), EntitiesWith(entities, e, bundle))
          /\ \A j \in Live : RowOf(next, ColumnsWith(columns, bundle), j) = RowOf(slots, columns, j)
          /\ RowOf(next, ColumnsWith(columns, bundle), i) = bundle
      BY <2>3, RowAdded
    <2> QED BY <1>1, <1>8, <2>1, <2>2, <2>4
  <1>10. OthersKept(i)
    BY <1>2, <1>7, <1>8, <1>9 DEF OthersKept
  <1>11. /\ DOMAIN slots \union {i} \subseteq DOMAIN slots'
         /\ ToSet(freeSlots') \subseteq DOMAIN slots'
         /\ i \notin ToSet(freeSlots')
         /\ ToSet(freeSlots') \intersect DOMAIN slots \subseteq ToSet(freeSlots)
    <2>1. \A j \in DOMAIN slots : j \in 1 .. m /\ j \notin Len(slots) + 1 .. i
      BY <1>2, <1>3
    <2> QED BY <2>1, <1>2, <1>3, <1>4, <1>7
  <1>12. issued' \subseteq Entities /\ IssuedOlder'
    BY <1>i, <1>5, <1>7, <1>11, PeerIssued
  <1>13. WorldInv'
    <2>1. handleCounts' \in [Handles -> Nat]
      BY <1>1 DEF WorldInv, WorldTypeOK
    <2> QED BY <2>1, <1>4, <1>7, <1>9, <1>11, <1>12, InvKept
  <1> QED BY <1>i, <1>5, <1>7, <1>8, <1>9, <1>10, <1>13

\* force_spawn_in_archetype where somebody lives.
LEMMA ReplaceStep ==
  ASSUME WorldInv, NEW e \in Entities, NEW bundle \in Bundles(Components), Replace(e, bundle),
         issued' = {x \in issued : x.index = e.index => x.generation < e.generation} \union {e}
  PROVE  /\ WorldInv'
         /\ e.index \in Live
         /\ Live' = Live
         /\ OthersKept(e.index)
         /\ slots'[e.index].generation = e.generation
         /\ RowOf(slots', columns', e.index) = bundle
  <1>i. PICK i : i = e.index
    OBVIOUS
  <1>s. PICK s : s = slots[i]
    OBVIOUS
  <1>1. /\ i \notin ToSet(GrownFree(i))
        /\ entities' = EntitiesWith(EntitiesWithout(s), e, bundle)
        /\ columns' = ColumnsWith(ColumnsWithout(s), bundle)
        /\ slots' = [SlotsWithout(s) EXCEPT ![i] = SlotAt(e.generation, EntitiesWithout(s), bundle)]
        /\ handleCounts' = ReleasedRow(handleCounts, RowValues(s))
        /\ freeSlots' = freeSlots
    BY <1>i, <1>s DEF Replace
  <1>2. i \in Live
    <2>1. i \in 1 .. MaxSlots /\ Len(slots) \in 0 .. MaxSlots /\ DOMAIN slots = 1 .. Len(slots)
      BY <1>i, EntitiesFields, WorldTypes
    <2>2. i \notin ToSet(freeSlots) /\ i \notin Len(slots) + 1 .. i
      BY <2>1, <1>1, GrownFreeElements
    <2>3. i \in 1 .. Len(slots)
      BY <2>1, <2>2, WorldAssumption
    <2> QED BY <2>1, <2>2, <2>3 DEF Live
  <1>3. /\ slots' \in Seq(Slots) /\ DOMAIN slots' = DOMAIN slots /\ Len(slots') <= MaxSlots
        /\ entities' \in EntityLists /\ columns' \in ColumnLists
        /\ Live' = Live
        /\ Matched(slots', Live', entities') /\ Aligned(columns', entities')
        /\ OthersKept(i)
        /\ slots'[i].generation = e.generation
        /\ RowOf(slots', columns', i) = bundle
        /\ \A j \in DOMAIN slots : j # i => slots'[j].generation = slots[j].generation
    BY <1>i, <1>s, <1>1, <1>2, Moved
  <1>4. issued' \subseteq Entities /\ IssuedOlder'
    BY <1>i, <1>1, <1>2, <1>3, WorldTypes, PeerIssued DEF Live
  <1>5. handleCounts' \in [Handles -> Nat]
    <2>1. DOMAIN RowValues(s) \subseteq Components
      BY <1>s, <1>2, RowTyped
    <2> QED BY <2>1, <1>1, CountsTyped DEF WorldInv, WorldTypeOK
  <1>6. WorldInv'
    <2>1. /\ freeSlots' \in Seq(1 .. MaxSlots) /\ IsInjective(freeSlots')
          /\ ToSet(freeSlots') \subseteq DOMAIN slots'
      BY <1>1, <1>3, WorldTypes DEF WorldInv
    <2> QED BY <2>1, <1>3, <1>4, <1>5, InvKept
  <1> QED BY <1>i, <1>2, <1>3, <1>6

\* An insert over a value, a guard written through, a peer's field.
LEMMA SetStep ==
  ASSUME WorldInv, NEW e \in issued, IsAlive(e),
         NEW c \in slots[e.index].archetype, NEW v \in Values, SetValue(e, c, v),
         slots' = slots, freeSlots' = freeSlots, entities' = entities, issued' = issued,
         handleCounts' \in [Handles -> Nat]
  PROVE  /\ WorldInv'
         /\ Live' = Live
         /\ OthersKept(e.index)
         /\ slots'[e.index].generation = slots[e.index].generation
         /\ RowOf(slots', columns', e.index) = [RowOf(slots, columns, e.index) EXCEPT ![c] = v]
  <1>i. PICK i : i = e.index
    OBVIOUS
  <1>1. i \in Live /\ c \in slots[i].archetype
    BY <1>i, AliveIsLive
  <1>2. PICK live : live = Live
    OBVIOUS
  <1>3. columns' = [columns EXCEPT ![slots[i].archetype][c][slots[i].row] = v]
    BY <1>i DEF SetValue
  <1>4. /\ columns' \in ColumnLists
        /\ Aligned(columns', entities)
        /\ \A j \in live \ {i} : RowOf(slots, columns', j) = RowOf(slots, columns, j)
        /\ RowOf(slots, columns', i) = [RowOf(slots, columns, i) EXCEPT ![c] = v]
    <2>1. WorldTypeOK /\ Matched(slots, live, entities) /\ Aligned(columns, entities)
      BY <1>2 DEF WorldInv
    <2>2. PICK cols : cols = [columns EXCEPT ![slots[i].archetype][c][slots[i].row] = v]
      OBVIOUS
    <2>3. CanSet(live, i, c, v, cols)
      BY <1>1, <1>2, <2>1, <2>2 DEF CanSet
    <2>4. /\ cols \in ColumnLists
          /\ Aligned(cols, entities)
          /\ \A j \in live \ {i} : RowOf(slots, cols, j) = RowOf(slots, columns, j)
          /\ RowOf(slots, cols, i) = [RowOf(slots, columns, i) EXCEPT ![c] = v]
      BY <2>3, ValueSet
    <2> QED BY <1>3, <2>2, <2>4
  <1>5. Live' = Live
    BY DEF Live
  <1>6. OthersKept(i)
    BY <1>2, <1>4, <1>5 DEF OthersKept
  <1>7. WorldInv'
    <2>1. /\ slots' \in Seq(Slots) /\ Len(slots') <= MaxSlots
          /\ entities' \in EntityLists
          /\ freeSlots' \in Seq(1 .. MaxSlots) /\ IsInjective(freeSlots')
          /\ ToSet(freeSlots') \subseteq DOMAIN slots' /\ issued' \subseteq Entities
      BY WorldTypes DEF WorldInv, WorldTypeOK
    <2>2. Matched(slots', Live', entities') /\ IssuedOlder'
      BY <1>5 DEF WorldInv, IssuedOlder
    <2>3. Aligned(columns', entities')
      BY <1>4
    <2> QED BY <1>4, <2>1, <2>2, <2>3, InvKept
  <1> QED BY <1>i, <1>4, <1>5, <1>6, <1>7

-----------------------------------------------------------------------------
(* The map of entities that the rows make *)

HandleAt(i) == [index |-> i, generation |-> slots[i].generation]

\* The map has an entry for whoever lives at an index, with the values of its row.
StoreExact ==
  /\ DOMAIN Store = {HandleAt(i) : i \in Live}
  /\ \A i \in Live : /\ Store[HandleAt(i)] = RowOf(slots, columns, i)
                     /\ RowOf(slots, columns, i) \in Bundles(Components)

LEMMA StoreRows == WorldInv => StoreExact
  <1> SUFFICES ASSUME WorldInv PROVE StoreExact
    OBVIOUS
  <1>1. Existing = {HandleAt(i) : i \in Live}
    <2>1. ASSUME NEW x, x \in Existing PROVE x \in {HandleAt(i) : i \in Live}
      <3>1. PICK k \in Archetypes : x \in ToSet(entities[k])
        BY <2>1 DEF Existing
      <3>2. PICK row \in DOMAIN entities[k] : x = entities[k][row]
        BY <3>1 DEF ToSet
      <3>3. PICK i \in Live : i = x.index /\ slots[i].archetype = k /\ slots[i].row = row
        BY <3>2 DEF WorldInv, Matched
      <3>4. entities[k][row] = [index |-> i, generation |-> slots[i].generation]
        BY <3>3 DEF WorldInv, Matched
      <3> QED BY <3>2, <3>3, <3>4 DEF HandleAt
    <2>2. ASSUME NEW i \in Live PROVE HandleAt(i) \in Existing
      <3>1. PICK k : k = slots[i].archetype
        OBVIOUS
      <3>2. PICK row : row = slots[i].row
        OBVIOUS
      <3>3. row \in DOMAIN entities[k] /\ entities[k][row] = HandleAt(i)
        BY <3>1, <3>2 DEF WorldInv, Matched, HandleAt
      <3>4. k \in Archetypes
        BY <3>1, RowTyped DEF Archetypes
      <3>5. HandleAt(i) \in ToSet(entities[k])
        BY <3>3 DEF ToSet
      <3> QED BY <3>4, <3>5 DEF Existing
    <2> QED BY <2>1, <2>2
  <1>2. ASSUME NEW i \in Live
        PROVE  /\ Store[HandleAt(i)] = RowOf(slots, columns, i)
               /\ RowOf(slots, columns, i) \in Bundles(Components)
    <2>1. HandleAt(i) \in Existing /\ HandleAt(i).index = i
      BY <1>1 DEF HandleAt
    <2>2. Store[HandleAt(i)] = RowValues(slots[HandleAt(i).index])
      BY <2>1 DEF Store
    <2> QED BY <2>1, <2>2, RowTyped
  <1>3. DOMAIN Store = Existing
    BY DEF Store
  <1> QED BY <1>1, <1>2, <1>3 DEF StoreExact

\* An operation that concerns index i alone changes no entry but that of whoever
\* lives there.
LEMMA StoreStep ==
  ASSUME WorldInv, WorldInv', NEW i, OthersKept(i)
  PROVE  /\ \A x \in DOMAIN Store : x.index # i => x \in DOMAIN Store' /\ Store'[x] = Store[x]
         /\ \A x \in DOMAIN Store' : x.index # i => x \in DOMAIN Store
         /\ \A x \in DOMAIN Store : x.index = i => i \in Live /\ x = HandleAt(i)
         /\ \A x \in DOMAIN Store' : x.index = i => i \in Live' /\ x = HandleAt(i)'
         /\ i \in Live => HandleAt(i) \in DOMAIN Store
         /\ i \in Live' => /\ HandleAt(i)' \in DOMAIN Store'
                           /\ Store'[HandleAt(i)'] = RowOf(slots', columns', i)
                           /\ RowOf(slots', columns', i) \in Bundles(Components)
  <1>1. StoreExact
    BY StoreRows
  <1>2. StoreExact'
    BY StoreRows, PTL
  <1>3. \A j : HandleAt(j).index = j /\ HandleAt(j) = [index |-> j, generation |-> slots[j].generation]
    BY DEF HandleAt
  <1>4. \A j : HandleAt(j)' = [index |-> j, generation |-> slots'[j].generation]
    BY DEF HandleAt
  <1>5. \A j : (HandleAt(j)').index = j
    BY <1>4
  <1>6. /\ DOMAIN Store' = {HandleAt(j)' : j \in Live'}
        /\ \A j \in Live' : /\ Store'[HandleAt(j)'] = RowOf(slots', columns', j)
                            /\ RowOf(slots', columns', j) \in Bundles(Components)
    BY <1>2 DEF StoreExact
  <1>7. \A j \in Live \ {i} : j \in Live' /\ HandleAt(j)' = HandleAt(j)
    BY <1>3, <1>4 DEF OthersKept
  <1>8. ASSUME NEW x \in DOMAIN Store, x.index # i
        PROVE  x \in DOMAIN Store' /\ Store'[x] = Store[x]
    <2>1. PICK j \in Live : x = HandleAt(j)
      BY <1>1 DEF StoreExact
    <2>2. j \in Live \ {i}
      BY <2>1, <1>3, <1>8
    <2>3. x = HandleAt(j)' /\ j \in Live'
      BY <2>1, <2>2, <1>7
    <2>4. x \in DOMAIN Store' /\ Store'[x] = RowOf(slots', columns', j)
      BY <2>3, <1>6
    <2>5. Store[x] = RowOf(slots, columns, j)
      BY <2>1, <1>1 DEF StoreExact
    <2> QED BY <2>2, <2>4, <2>5 DEF OthersKept
  <1>9. ASSUME NEW x \in DOMAIN Store', x.index # i
        PROVE  x \in DOMAIN Store
    <2>1. PICK j \in Live' : x = HandleAt(j)'
      BY <1>6
    <2>2. j \in Live \ {i}
      BY <2>1, <1>5, <1>9 DEF OthersKept
    <2> QED BY <2>1, <2>2, <1>1, <1>7 DEF StoreExact
  <1>10. \A x \in DOMAIN Store : x.index = i => i \in Live /\ x = HandleAt(i)
    BY <1>1, <1>3 DEF StoreExact
  <1>11. \A x \in DOMAIN Store' : x.index = i => i \in Live' /\ x = HandleAt(i)'
    BY <1>5, <1>6
  <1>12. i \in Live => HandleAt(i) \in DOMAIN Store
    BY <1>1 DEF StoreExact
  <1>13. i \in Live' => /\ HandleAt(i)' \in DOMAIN Store'
                        /\ Store'[HandleAt(i)'] = RowOf(slots', columns', i)
                        /\ RowOf(slots', columns', i) \in Bundles(Components)
    BY <1>6
  <1> QED BY <1>8, <1>9, <1>10, <1>11, <1>12, <1>13

-----------------------------------------------------------------------------
(* What a step does *)

\* The four kinds of step, in terms of who lives where and in which row.
Spawned(e) ==
  /\ e \notin issued /\ e.index \notin Live
  /\ issued' = issued \union {e}
  /\ Live' = Live \union {e.index}
  /\ slots'[e.index].generation = e.generation
  /\ OthersKept(e.index)

Arrived(e) ==
  /\ issued' = {x \in issued : x.index = e.index => x.generation < e.generation} \union {e}
  /\ Live' = Live \union {e.index}
  /\ slots'[e.index].generation = e.generation
  /\ OthersKept(e.index)

Despawned(e) ==
  /\ issued' = issued
  /\ e.index \in Live /\ e.generation = slots[e.index].generation
  /\ Live' = Live \ {e.index}
  /\ OthersKept(e.index)

Updated(e, c) ==
  /\ issued' = issued
  /\ e.index \in Live /\ e.generation = slots[e.index].generation
  /\ Live' = Live
  /\ slots'[e.index].generation = slots[e.index].generation
  /\ LET old == RowOf(slots, columns, e.index)
         new == RowOf(slots', columns', e.index)
     IN \A d \in Components \ {c} :
          /\ d \in DOMAIN new <=> d \in DOMAIN old
          /\ d \in DOMAIN old => new[d] = old[d]
  /\ OthersKept(e.index)

StepKind ==
  \/ \E e \in Entities : Spawned(e) \/ Arrived(e) \/ Despawned(e)
  \/ \E e \in Entities, c \in Components : Updated(e, c)

\* A value set in a row that has it already.
LEMMA InPlaceKind ==
  ASSUME WorldInv, NEW e \in issued, IsAlive(e),
         NEW c \in Components, c \in slots[e.index].archetype, NEW v \in Values, SetValue(e, c, v),
         UNCHANGED <<slots, freeSlots, entities, issued>>,
         handleCounts' \in [Handles -> Nat]
  PROVE  WorldInv' /\ e \in Entities /\ Updated(e, c)
  <1>1. /\ WorldInv' /\ Live' = Live /\ OthersKept(e.index)
        /\ slots'[e.index].generation = slots[e.index].generation
        /\ RowOf(slots', columns', e.index) = [RowOf(slots, columns, e.index) EXCEPT ![c] = v]
    BY SetStep
  <1>2. /\ e \in Entities /\ e.index \in Live
        /\ e.generation = slots[e.index].generation
    BY AliveIsLive DEF IsAlive
  <1> QED BY <1>1, <1>2 DEF Updated

\* A component that comes or goes.
LEMMA MigrationKind ==
  ASSUME WorldInv, NEW e \in issued, IsAlive(e), NEW c \in Components,
         NEW bundle \in Bundles(Components), DOMAIN bundle # slots[e.index].archetype,
         \A d \in Components \ {c} :
           /\ d \in DOMAIN bundle <=> d \in slots[e.index].archetype
           /\ d \in DOMAIN bundle => bundle[d] = RowOf(slots, columns, e.index)[d],
         Migrate(e, bundle), freeSlots' = freeSlots, issued' = issued,
         handleCounts' \in [Handles -> Nat]
  PROVE  WorldInv' /\ e \in Entities /\ Updated(e, c)
  <1>1. /\ WorldInv' /\ Live' = Live /\ OthersKept(e.index)
        /\ slots'[e.index].generation = slots[e.index].generation
        /\ RowOf(slots', columns', e.index) = bundle
    BY MigrateStep
  <1>2. /\ e \in Entities /\ e.index \in Live
        /\ e.generation = slots[e.index].generation
    BY AliveIsLive DEF IsAlive
  <1>3. DOMAIN RowOf(slots, columns, e.index) = slots[e.index].archetype
    BY DEF RowOf
  <1> QED BY <1>1, <1>2, <1>3 DEF Updated

\* remove: the component goes, and the row moves to another archetype.
LEMMA RemoveKind ==
  ASSUME WorldInv, NEW e \in issued, NEW c \in Components, RemoveComponent(e, c)
  PROVE  WorldInv' /\ e \in Entities /\ Updated(e, c)
  <1>t. WorldTypeOK /\ handleCounts \in [Handles -> Nat]
    BY DEF WorldInv, WorldTypeOK
  <1> DEFINE row == RowOf(slots, columns, e.index)
             rest == [d \in DOMAIN row \ {c} |-> row[d]]
  <1>1. IsAlive(e) /\ c \in slots[e.index].archetype
    BY DEF RemoveComponent
  <1>2. /\ row \in [slots[e.index].archetype -> Values]
        /\ slots[e.index].archetype \in SUBSET Components
        /\ RowValues(slots[e.index]) = row
    BY <1>1, AliveIsLive, RowTyped
  <1>3. /\ Migrate(e, rest) /\ freeSlots' = freeSlots /\ issued' = issued
        /\ handleCounts' = ReleasedRow(handleCounts, SingleValue(c, row[c]))
    BY <1>2 DEF RemoveComponent
  <1>4. rest \in Bundles(Components) /\ DOMAIN rest = slots[e.index].archetype \ {c}
    <2>1. PICK a : a = slots[e.index].archetype \ {c}
      OBVIOUS
    <2>2. a \in SUBSET Components
      BY <1>2, <2>1
    <2>3. rest \in [a -> Values]
      BY <1>2, <2>1
    <2> HIDE DEF rest
    <2>4. DOMAIN rest = a
      BY <2>3
    <2> QED BY <2>1, <2>2, <2>3, <2>4 DEF Bundles
  <1>5. handleCounts' \in [Handles -> Nat]
    BY <1>t, <1>3, CountsTyped DEF SingleValue
  <1>6. \A d \in Components \ {c} :
          /\ d \in DOMAIN rest <=> d \in slots[e.index].archetype
          /\ d \in DOMAIN rest => rest[d] = RowOf(slots, columns, e.index)[d]
    BY <1>2
  <1> HIDE DEF rest
  <1> QED BY <1>1, <1>3, <1>4, <1>5, <1>6, MigrationKind

\* insert of a component the entity does not have yet.
LEMMA InsertKind ==
  ASSUME WorldInv, NEW e \in issued, NEW c \in Components, NEW v \in Values, InsertMigrating(e, c, v)
  PROVE  WorldInv' /\ e \in Entities /\ Updated(e, c)
  <1>t. WorldTypeOK /\ handleCounts \in [Handles -> Nat]
    BY DEF WorldInv, WorldTypeOK
  <1> DEFINE row == RowOf(slots, columns, e.index)
             more == Joined(row, c, v)
  <1>1. IsAlive(e) /\ c \notin slots[e.index].archetype
    BY DEF InsertMigrating
  <1>2. /\ row \in [slots[e.index].archetype -> Values]
        /\ slots[e.index].archetype \in SUBSET Components
        /\ RowValues(slots[e.index]) = row
    BY <1>1, AliveIsLive, RowTyped
  <1>3. /\ Migrate(e, more) /\ freeSlots' = freeSlots /\ issued' = issued
        /\ handleCounts' = AcquiredRow(handleCounts, SingleValue(c, v))
    BY <1>2 DEF InsertMigrating
  <1>4. more \in Bundles(Components) /\ DOMAIN more = slots[e.index].archetype \union {c}
    <2>1. PICK a : a = slots[e.index].archetype \union {c}
      OBVIOUS
    <2>2. a \in SUBSET Components
      BY <1>2, <2>1
    <2>3. more \in [a -> Values]
      BY <1>2, <2>1 DEF Joined
    <2> HIDE DEF more
    <2>4. DOMAIN more = a
      BY <2>3
    <2> QED BY <2>1, <2>2, <2>3, <2>4 DEF Bundles
  <1>5. handleCounts' \in [Handles -> Nat]
    BY <1>t, <1>3, CountsTyped DEF SingleValue
  <1>6. \A d \in Components \ {c} :
          /\ d \in DOMAIN more <=> d \in slots[e.index].archetype
          /\ d \in DOMAIN more => more[d] = RowOf(slots, columns, e.index)[d]
    BY <1>2 DEF Joined
  <1> HIDE DEF more
  <1> QED BY <1>1, <1>3, <1>4, <1>5, <1>6, MigrationKind

\* An insert over a value, a guard written through, a peer's field.
LEMMA WriteKind ==
  ASSUME WorldInv, NEW e \in issued, NEW c \in Components, NEW v \in Values,
         InsertInPlace(e, c, v) \/ MutWrite(e, c, v) \/ PeerWrite(e, c, v)
  PROVE  WorldInv' /\ e \in Entities /\ Updated(e, c)
  <1>t. WorldTypeOK /\ handleCounts \in [Handles -> Nat]
    BY DEF WorldInv, WorldTypeOK
  <1>1. /\ IsAlive(e) /\ c \in slots[e.index].archetype /\ SetValue(e, c, v)
        /\ UNCHANGED <<slots, freeSlots, entities, issued>>
        /\ \/ handleCounts' = Swapped(c, RowValues(slots[e.index])[c], v)
           \/ handleCounts' = handleCounts
    BY DEF InsertInPlace, MutWrite, PeerWrite
  <1>2. handleCounts' \in [Handles -> Nat]
    BY <1>t, <1>1, SwappedTyped
  <1> QED BY <1>1, <1>2, InPlaceKind

\* Every operation keeps the invariant and is of one of the four kinds, when a
\* peer names only what it spawned here.
LEMMA NextKind ==
  ASSUME WorldInv, Filtered = FALSE, Next
  PROVE  WorldInv' /\ StepKind
  <1>1. ASSUME NEW e \in Entities, NEW bundle \in Bundles(Components), Spawn(e, bundle)
        PROVE  WorldInv' /\ Spawned(e)
    <2>1. issued' = issued \union {e}
      BY <1>1 DEF Spawn
    <2> QED BY <1>1, <2>1, SpawnStep DEF Spawned
  <1>2. ASSUME NEW e \in issued, Despawn(e)
        PROVE  WorldInv' /\ e \in Entities /\ Despawned(e)
    <2>1. issued' = issued
      BY <1>2 DEF Despawn
    <2> QED BY <1>2, <2>1, DespawnStep DEF Despawned
  <1>3. ASSUME NEW e \in issued, NEW c \in Components, RemoveComponent(e, c)
        PROVE  WorldInv' /\ e \in Entities /\ Updated(e, c)
    BY <1>3, RemoveKind
  <1>4. ASSUME NEW e \in issued, NEW c \in Components, NEW v \in Values, InsertMigrating(e, c, v)
        PROVE  WorldInv' /\ e \in Entities /\ Updated(e, c)
    BY <1>4, InsertKind
  <1>5. ASSUME NEW e \in issued, NEW c \in Components, NEW v \in Values,
               InsertInPlace(e, c, v) \/ MutWrite(e, c, v) \/ PeerWrite(e, c, v)
        PROVE  WorldInv' /\ e \in Entities /\ Updated(e, c)
    BY <1>5, WriteKind
  <1>6. ASSUME NEW e \in PeerEntities, NEW bundle \in Bundles(PeerComponents), PeerSpawn(e, bundle)
        PROVE  WorldInv' /\ e \in Entities /\ Arrived(e)
    <2>1. e \in Entities /\ bundle \in Bundles(Components)
      BY WorldAssumption DEF Bundles
    <2>2. issued' = {x \in issued : x.index = e.index => x.generation < e.generation} \union {e}
      BY <1>6 DEF PeerSpawn
    <2>3. CASE Arrive(e, bundle)
      BY <2>1, <2>2, <2>3, ArriveStep DEF Arrived
    <2>4. CASE Replace(e, bundle)
      <3>1. /\ WorldInv' /\ e.index \in Live /\ Live' = Live /\ OthersKept(e.index)
            /\ slots'[e.index].generation = e.generation
        BY <2>1, <2>2, <2>4, ReplaceStep
      <3>2. Live' = Live \union {e.index}
        BY <3>1
      <3> QED BY <2>1, <2>2, <3>1, <3>2 DEF Arrived
    <2> QED BY <1>6, <2>3, <2>4 DEF PeerSpawn
  <1>7. PeerComponents \subseteq Components
    BY WorldAssumption
  <1>8. CASE Local
    BY <1>1, <1>2, <1>3, <1>4, <1>5, <1>8 DEF Local, StepKind
  <1>9. CASE Peer
    <2>1. PICK e \in PeerEntities :
            \/ \E bundle \in Bundles(PeerComponents) : PeerSpawn(e, bundle)
            \/ /\ Filtered \/ e \in issued
               /\ \/ Despawn(e)
                  \/ \E c \in PeerComponents, v \in Values : PeerWrite(e, c, v)
      BY <1>9 DEF Peer
    <2> QED BY <2>1, <1>2, <1>5, <1>6, <1>7 DEF StepKind
  <1> QED BY <1>8, <1>9 DEF Next

\* The World is born without slots.
LEMMA InitInv == Init => WorldInv
  <1> SUFFICES ASSUME Init PROVE WorldInv
    OBVIOUS
  <1>1. /\ slots = <<>> /\ freeSlots = <<>> /\ issued = {}
        /\ entities = [k \in Archetypes |-> <<>>]
        /\ columns = [k \in Archetypes |-> [c \in Components |-> <<>>]]
        /\ handleCounts = [h \in Handles |-> 0]
    BY DEF Init
  <1>2. /\ DOMAIN slots = {} /\ Len(slots) = 0 /\ ToSet(freeSlots) = {}
        /\ IsInjective(freeSlots)
    <2>1. DOMAIN slots = 1 .. 0 /\ DOMAIN freeSlots = 1 .. 0 /\ Len(slots) = 0
      BY <1>1, EmptySeq, LenProperties
    <2>2. \A i : i \notin 1 .. 0
      OBVIOUS
    <2> QED BY <2>1, <2>2 DEF ToSet, IsInjective
  <1>3. WorldTypeOK
    <2>1. slots \in Seq(Slots) /\ freeSlots \in Seq(1 .. MaxSlots)
      BY <1>1, EmptySeq
    <2>2. entities \in [Archetypes -> Seq(Entities)]
      BY <1>1, EmptySeq
    <2>3. columns \in [Archetypes -> [Components -> Seq(Values)]]
      BY <1>1, EmptySeq
    <2> QED BY <1>1, <1>2, <2>1, <2>2, <2>3, WorldAssumption DEF WorldTypeOK, Slots
  <1>4. \A k \in Archetypes : DOMAIN entities[k] = {} /\ Len(entities[k]) = 0
    <2>1. DOMAIN <<>> = {} /\ Len(<<>>) = 0
      BY <1>1, <1>2
    <2> QED BY <1>1, <2>1
  <1>5. Live = {}
    BY <1>2 DEF Live
  <1>6. Matched(slots, Live, entities)
    BY <1>2, <1>4, <1>5 DEF Matched
  <1>7. Aligned(columns, entities)
    BY <1>1, <1>2, <1>4 DEF Aligned
  <1> QED BY <1>1, <1>2, <1>3, <1>6, <1>7 DEF WorldInv, IssuedOlder

\* A step that changes nothing but the journals and their readers.
storeVars == <<slots, freeSlots, entities, columns, handleCounts, issued>>

LEMMA StoreStays == WorldInv /\ UNCHANGED storeVars => WorldInv'
  <1> SUFFICES ASSUME WorldInv, UNCHANGED storeVars PROVE WorldInv'
    OBVIOUS
  <1>1. /\ slots' = slots /\ freeSlots' = freeSlots /\ entities' = entities
        /\ columns' = columns /\ handleCounts' = handleCounts /\ issued' = issued
    BY DEF storeVars
  <1>2. WorldTypeOK'
    BY <1>1 DEF WorldInv, WorldTypeOK
  <1>3. Live' = Live
    BY <1>1 DEF Live
  <1> QED BY <1>1, <1>2, <1>3 DEF WorldInv, IssuedOlder

LEMMA StutterInv == WorldInv /\ UNCHANGED worldVars => WorldInv'
  BY StoreStays DEF worldVars, storeVars

-----------------------------------------------------------------------------
(* The theorems *)

\* Whatever is spawned, despawned, inserted, removed, written or sent by a peer,
\* in any order and for any component types and number of slots, every live slot
\* names the row its entity is in and every row the slot of its entity: no
\* swap-remove is missed (world.rs:1001, 2078).
THEOREM WorldInvariant == ASSUME Filtered = FALSE PROVE Spec => []WorldInv
  <1>1. WorldInv /\ [Next]_worldVars => WorldInv'
    BY NextKind, StutterInv
  <1> QED BY <1>1, InitInv, PTL DEF Spec

\* In every reachable state slots, entity lists and free list agree: the rows that
\* swap_remove moves are heard of by their entities (archetype.rs:302).
THEOREM RowsAlwaysMatch == ASSUME Filtered = FALSE PROVE Spec => []RowsMatchSlots
  BY WorldInvariant, InvMeans, PTL

\* assert_archetype_consistency (world.rs:756) holds after any operations.
THEOREM ColumnsStayAligned == ASSUME Filtered = FALSE PROVE Spec => []ColumnsAligned
  BY WorldInvariant, InvMeans, PTL

-----------------------------------------------------------------------------
(* The World implements the map of EntityStore *)

\* The store begins empty.
LEMMA StoreInit == Init => ES!Init
  <1> SUFFICES ASSUME Init PROVE ES!Init
    OBVIOUS
  <1>1. Existing = {}
    <2>1. \A k \in Archetypes : entities[k] = <<>>
      BY DEF Init
    <2>2. ToSet(<<>>) = {}
      BY DEF ToSet
    <2> QED BY <2>1, <2>2 DEF Existing
  <1>2. Store = [e \in {} |-> e]
    BY <1>1 DEF Store
  <1> QED BY <1>2 DEF ES!Init, Init

\* Every kind of step is the step of the map that it stands for.
LEMMA StoreNext == WorldInv /\ WorldInv' /\ StepKind => ES!Next
  <1> SUFFICES ASSUME WorldInv, WorldInv', StepKind PROVE ES!Next
    OBVIOUS
  <1>h. \A i : /\ HandleAt(i) = [index |-> i, generation |-> slots[i].generation]
               /\ HandleAt(i)' = [index |-> i, generation |-> slots'[i].generation]
               /\ HandleAt(i).index = i /\ (HandleAt(i)').index = i
    BY DEF HandleAt
  <1>b. ES!Bundles = Bundles(Components)
    BY DEF ES!Bundles, Bundles
  <1>1. ASSUME NEW e \in Entities, Spawned(e) PROVE ES!Spawn(e)
    <2>1. PICK i : i = e.index
      OBVIOUS
    <2>2. /\ e \notin issued /\ i \notin Live /\ issued' = issued \union {e} /\ i \in Live'
          /\ slots'[i].generation = e.generation /\ OthersKept(i)
      BY <1>1, <2>1 DEF Spawned
    <2>3. e = HandleAt(i)'
      BY <1>h, <2>1, <2>2, EntitiesFields
    <2>4. /\ \A x \in DOMAIN Store : x \in DOMAIN Store' /\ Store'[x] = Store[x]
          /\ \A x \in DOMAIN Store' : x \in DOMAIN Store \/ x = e
          /\ e \in DOMAIN Store' /\ Store'[e] \in ES!Bundles
      BY <1>b, <2>2, <2>3, StoreStep
    <2> QED BY <2>2, <2>4 DEF ES!Spawn, ES!Keep
  <1>2. ASSUME NEW e \in Entities, Arrived(e) PROVE ES!Arrive(e)
    <2>1. PICK i : i = e.index
      OBVIOUS
    <2>2. /\ issued' = {x \in issued : x.index = i => x.generation < e.generation} \union {e}
          /\ i \in Live' /\ slots'[i].generation = e.generation /\ OthersKept(i)
      BY <1>2, <2>1 DEF Arrived
    <2>3. e = HandleAt(i)'
      BY <1>h, <2>1, <2>2, EntitiesFields
    <2>4. PICK displaced : displaced = {x \in DOMAIN Store : x.index = i}
      OBVIOUS
    <2>5. /\ \A x \in DOMAIN Store : x.index # i => x \in DOMAIN Store' /\ Store'[x] = Store[x]
          /\ \A x \in DOMAIN Store' : x.index # i => x \in DOMAIN Store
          /\ \A x \in DOMAIN Store' : x.index = i => x = e
          /\ e \in DOMAIN Store' /\ Store'[e] \in ES!Bundles
      BY <1>b, <2>2, <2>3, StoreStep
    <2>6. DOMAIN Store' = (DOMAIN Store \ displaced) \union {e}
      BY <2>4, <2>5
    <2>7. \A x \in DOMAIN Store \ displaced : x \in DOMAIN Store' /\ Store'[x] = Store[x]
      BY <2>4, <2>5
    <2> QED BY <2>1, <2>2, <2>4, <2>5, <2>6, <2>7 DEF ES!Arrive, ES!Keep
  <1>3. ASSUME NEW e \in Entities, Despawned(e) PROVE ES!Despawn(e)
    <2>1. PICK i : i = e.index
      OBVIOUS
    <2>2. /\ issued' = issued /\ i \in Live /\ e.generation = slots[i].generation
          /\ i \notin Live' /\ OthersKept(i)
      BY <1>3, <2>1 DEF Despawned
    <2>3. e = HandleAt(i)
      BY <1>h, <2>1, <2>2, EntitiesFields
    <2>4. /\ \A x \in DOMAIN Store : x.index # i => x \in DOMAIN Store' /\ Store'[x] = Store[x]
          /\ \A x \in DOMAIN Store : x.index = i => x = e
          /\ \A x \in DOMAIN Store' : x.index # i /\ x \in DOMAIN Store
          /\ e \in DOMAIN Store
      BY <2>2, <2>3, StoreStep
    <2>5. DOMAIN Store' = DOMAIN Store \ {e}
      BY <2>1, <2>4
    <2>6. \A x \in DOMAIN Store \ {e} : x \in DOMAIN Store' /\ Store'[x] = Store[x]
      BY <2>4
    <2> QED BY <2>2, <2>4, <2>5, <2>6 DEF ES!Despawn, ES!Keep
  <1>4. ASSUME NEW e \in Entities, NEW c \in Components, Updated(e, c) PROVE ES!Update(e)
    <2>1. PICK i : i = e.index
      OBVIOUS
    <2>o. PICK old : old = RowOf(slots, columns, i)
      OBVIOUS
    <2>n. PICK new : new = RowOf(slots', columns', i)
      OBVIOUS
    <2>2. /\ issued' = issued /\ i \in Live /\ i \in Live'
          /\ e.generation = slots[i].generation /\ e.generation = slots'[i].generation
          /\ \A d \in Components \ {c} :
               /\ d \in DOMAIN new <=> d \in DOMAIN old
               /\ d \in DOMAIN old => new[d] = old[d]
          /\ OthersKept(i)
      BY <1>4, <2>1, <2>o, <2>n DEF Updated
    <2>3. e = HandleAt(i) /\ e = HandleAt(i)'
      BY <1>h, <2>1, <2>2, EntitiesFields
    <2>4. /\ \A x \in DOMAIN Store : x.index # i => x \in DOMAIN Store' /\ Store'[x] = Store[x]
          /\ \A x \in DOMAIN Store' : x.index # i => x \in DOMAIN Store
          /\ \A x \in DOMAIN Store : x.index = i => x = e
          /\ \A x \in DOMAIN Store' : x.index = i => x = e
          /\ e \in DOMAIN Store /\ e \in DOMAIN Store'
          /\ Store'[e] = new /\ Store'[e] \in ES!Bundles
      BY <1>b, <2>2, <2>3, <2>n, StoreStep
    <2>5. Store[e] = old
      BY <2>2, <2>3, <2>o, StoreRows DEF StoreExact
    <2>6. DOMAIN Store' = DOMAIN Store
      BY <2>4
    <2>7. \A x \in DOMAIN Store \ {e} : x \in DOMAIN Store' /\ Store'[x] = Store[x]
      BY <2>4
    <2> QED BY <2>2, <2>4, <2>5, <2>6, <2>7 DEF ES!Update, ES!Keep
  <1> QED BY <1>1, <1>2, <1>3, <1>4 DEF StepKind, ES!Next

LEMMA StoreStutter == UNCHANGED worldVars => UNCHANGED ES!vars
  <1> SUFFICES ASSUME UNCHANGED worldVars PROVE Store' = Store /\ issued' = issued
    BY DEF ES!vars
  <1>1. slots' = slots /\ entities' = entities /\ columns' = columns /\ issued' = issued
    BY DEF worldVars
  <1>2. Existing' = Existing /\ \A s : RowValues(s)' = RowValues(s)
    BY <1>1 DEF Existing, RowValues
  <1> QED BY <1>1, <1>2 DEF Store

\* With its slots, archetypes, rows and columns, its swaps and its migrations,
\* the World is nothing but a map from entities to their components: an operation
\* changes what get answers for its own entity only, and a handle whose entity is
\* gone never comes back to life by a local spawn.
THEOREM WorldIsEntityStore == ASSUME Filtered = FALSE PROVE Spec => ImplementsEntityStore
  <1>1. WorldInv /\ WorldInv' /\ [Next]_worldVars => [ES!Next]_(ES!vars)
    BY NextKind, StoreNext, StoreStutter
  <1> QED BY <1>1, StoreInit, WorldInvariant, PTL DEF Spec, ImplementsEntityStore, ES!Spec

-----------------------------------------------------------------------------
(* The handle ledger *)

\* Who holds a reference to h: by index and component, not by archetype and row,
\* so that nothing changes for an entity whose row is moved.
HoldsRef(at, h) ==
  /\ at[1] \in Live
  /\ at[2] \in slots[at[1]].archetype
  /\ RowOf(slots, columns, at[1])[at[2]] = h

Holding(h) == {at \in (1 .. MaxSlots) \X HandleComponents : HoldsRef(at, h)}

Elsewhere(h, i) == {at \in Holding(h) : at[1] # i}

\* How often whoever lives at index i holds h.
Held(h, i) == IF i \in Live THEN Mentions(h, RowOf(slots, columns, i)) ELSE 0

LedgerInv == \A h \in Handles : handleCounts[h] = Cardinality(Holding(h))

LEMMA DisjointCount ==
  ASSUME NEW S, NEW T, IsFiniteSet(S), IsFiniteSet(T), S \intersect T = {}
  PROVE  Cardinality(S \union T) = Cardinality(S) + Cardinality(T)
  <1> DEFINE both == S \intersect T
             all == S \union T
  <1>1. Cardinality(S) \in Nat /\ Cardinality(T) \in Nat
    BY FS_CardinalityType
  <1>2. Cardinality(all) = Cardinality(S) + Cardinality(T) - Cardinality(both)
    BY FS_Union
  <1>3. both = {}
    OBVIOUS
  <1> HIDE DEF both, all
  <1>4. Cardinality(both) = 0
    BY <1>3, FS_EmptySet
  <1>5. Cardinality(all) = Cardinality(S) + Cardinality(T)
    BY <1>1, <1>2, <1>4
  <1> QED BY <1>5 DEF all

LEMMA LiveBounded ==
  ASSUME WorldInv, NEW i \in Live
  PROVE  i \in 1 .. MaxSlots
  <1>1. PICK n : n = Len(slots)
    OBVIOUS
  <1>2. i \in 1 .. n /\ n \in 0 .. MaxSlots
    BY <1>1, WorldTypes
  <1> QED BY <1>2, WorldAssumption

LEMMA HoldingFinite ==
  ASSUME NEW h
  PROVE  IsFiniteSet(Holding(h)) /\ Cardinality(Holding(h)) \in Nat
  <1>1. IsFiniteSet(1 .. MaxSlots)
    BY FS_Interval, WorldAssumption
  <1>2. IsFiniteSet(HandleComponents)
    BY FS_Subset, WorldAssumption
  <1>3. IsFiniteSet((1 .. MaxSlots) \X HandleComponents)
    BY <1>1, <1>2, FS_Product
  <1>4. Holding(h) \in SUBSET ((1 .. MaxSlots) \X HandleComponents)
    BY DEF Holding
  <1> QED BY <1>3, <1>4, FS_Subset, FS_CardinalityType

\* The references of one index are the mentions in its row.
LEMMA HeldByIndex ==
  ASSUME WorldInv, NEW i \in Live, NEW h
  PROVE  Cardinality({at \in Holding(h) : at[1] = i}) = Mentions(h, RowOf(slots, columns, i))
  <1> DEFINE row == RowOf(slots, columns, i)
             S == {c \in DOMAIN row \intersect HandleComponents : row[c] = h}
             T == {at \in Holding(h) : at[1] = i}
             pair == [c \in S |-> <<i, c>>]
  <1>1. i \in 1 .. MaxSlots /\ DOMAIN row = slots[i].archetype
    BY LiveBounded DEF RowOf
  <1>2. IsFiniteSet(S)
    <2>1. S \in SUBSET Components
      BY WorldAssumption
    <2> HIDE DEF S
    <2> QED BY <2>1, FS_Subset, WorldAssumption
  <1>3. \A c \in S : pair[c] \in T
    BY <1>1 DEF Holding, HoldsRef
  <1>4. \A at \in T : \E c \in S : pair[c] = at
    <2> TAKE at \in T
    <2>1. at = <<i, at[2]>> /\ at[2] \in S
      BY <1>1 DEF Holding, HoldsRef
    <2> QED BY <2>1
  <1>5. \A c, d \in S : pair[c] = pair[d] => c = d
    OBVIOUS
  <1>6. pair \in [S -> T]
    BY <1>3
  <1> HIDE DEF S, T, pair
  <1>7. pair \in Bijection(S, T)
    BY <1>4, <1>5, <1>6 DEF Bijection, Injection, Surjection, IsInjective
  <1>8. Cardinality(T) = Cardinality(S)
    BY <1>2, <1>7, FS_Bijection DEF ExistsBijection
  <1> QED BY <1>8 DEF Mentions, S, T

\* The references to h are those of one index and those of the others.
LEMMA HoldingSplit ==
  ASSUME WorldInv, NEW i, NEW h
  PROVE  /\ Held(h, i) \in Nat /\ Cardinality(Elsewhere(h, i)) \in Nat
         /\ Cardinality(Holding(h)) = Cardinality(Elsewhere(h, i)) + Held(h, i)
  <1> DEFINE T == {at \in Holding(h) : at[1] = i}
  <1>1. Holding(h) = Elsewhere(h, i) \union T /\ Elsewhere(h, i) \intersect T = {}
    BY DEF Elsewhere
  <1>2. T \in SUBSET Holding(h) /\ Elsewhere(h, i) \in SUBSET Holding(h)
    BY <1>1
  <1>3. Cardinality(T) = Held(h, i)
    <2>1. CASE i \in Live
      BY <2>1, HeldByIndex DEF Held
    <2>2. CASE i \notin Live
      <3>1. T = {}
        BY <2>2 DEF Holding, HoldsRef
      <3> HIDE DEF T
      <3> QED BY <2>2, <3>1, FS_EmptySet DEF Held
    <2> QED BY <2>1, <2>2
  <1> HIDE DEF T
  <1>4. IsFiniteSet(T) /\ IsFiniteSet(Elsewhere(h, i))
    BY <1>2, HoldingFinite, FS_Subset
  <1>5. Cardinality(Holding(h)) = Cardinality(Elsewhere(h, i)) + Cardinality(T)
    BY <1>1, <1>4, DisjointCount
  <1> QED BY <1>3, <1>4, <1>5, FS_CardinalityType

\* No archetype has more rows than there are slots.
LEMMA RowsBounded ==
  ASSUME WorldInv, NEW k \in Archetypes
  PROVE  DOMAIN entities[k] \subseteq 1 .. MaxSlots
  <1> DEFINE n == Len(entities[k])
             at == [row \in 1 .. n |-> entities[k][row].index]
  <1>1. n \in Nat /\ DOMAIN entities[k] = 1 .. n
    BY WorldTypes, LenProperties DEF EntityLists
  <1>2. MaxSlots \in Nat /\ \A i \in Live : i \in 1 .. MaxSlots
    BY LiveBounded, WorldAssumption
  <1>3. \A row \in 1 .. n : entities[k][row].index \in Live /\ slots[entities[k][row].index].row = row
    BY <1>1 DEF WorldInv, Matched
  <1>4. at \in [1 .. n -> 1 .. MaxSlots] /\ \A r, s \in 1 .. n : at[r] = at[s] => r = s
    BY <1>2, <1>3
  <1> HIDE DEF at, n
  <1>5. at \in Injection(1 .. n, 1 .. MaxSlots)
    BY <1>4 DEF Injection, IsInjective
  <1>6. Cardinality(1 .. n) <= Cardinality(1 .. MaxSlots)
    BY <1>2, <1>5, FS_Interval, FS_Injection
  <1>7. n <= MaxSlots
    <2>1. Cardinality(1 .. n) = IF 1 > n THEN 0 ELSE n - 1 + 1
      BY <1>1, FS_Interval
    <2>2. Cardinality(1 .. MaxSlots) = IF 1 > MaxSlots THEN 0 ELSE MaxSlots - 1 + 1
      BY <1>2, FS_Interval
    <2>3. Cardinality(1 .. n) = n /\ Cardinality(1 .. MaxSlots) = MaxSlots
      BY <1>1, <1>2, <2>1, <2>2
    <2> QED BY <1>6, <2>3
  <1> QED BY <1>1, <1>2, <1>7

\* handle_audit walks the rows of every archetype; by the invariant it meets each
\* reference of each live index, and meets it once.
LEMMA AuditIsHolding ==
  ASSUME WorldInv, NEW h
  PROVE  Audit(h) = Cardinality(Holding(h))
  <1> DEFINE T == {at \in Archetypes \X HandleComponents \X (1 .. MaxSlots) :
                     HoldsAt(at[1], at[2], at[3], h)}
             where == [p \in Holding(h) |-> <<slots[p[1]].archetype, p[2], slots[p[1]].row>>]
  <1>1. \A p \in Holding(h) : where[p] \in T
    <2> TAKE p \in Holding(h)
    <2>i. PICK i : i = p[1]
      OBVIOUS
    <2>c. PICK c : c = p[2]
      OBVIOUS
    <2>a. PICK a : a = slots[i].archetype
      OBVIOUS
    <2>r. PICK r : r = slots[i].row
      OBVIOUS
    <2>1. i \in Live /\ c \in HandleComponents /\ c \in Components /\ c \in a
          /\ RowOf(slots, columns, i)[c] = h
      BY <2>i, <2>c, <2>a, WorldAssumption DEF Holding, HoldsRef
    <2>2. a \in Archetypes
      BY <2>1, <2>a, RowTyped DEF Archetypes
    <2>3. r \in DOMAIN entities[a] /\ Len(columns[a][c]) = Len(entities[a])
      BY <2>1, <2>2, <2>a, <2>r DEF WorldInv, Matched, Aligned
    <2>4. r \in 1 .. MaxSlots
      BY <2>2, <2>3, RowsBounded
    <2>5. DOMAIN columns[a][c] = DOMAIN entities[a]
      <3>1. columns[a][c] \in Seq(Values) /\ entities[a] \in Seq(Entities)
        BY <2>1, <2>2, WorldTypes DEF ColumnLists, EntityLists
      <3> QED BY <2>3, <3>1, LenProperties
    <2>6. columns[a][c][r] = h
      BY <2>1, <2>a, <2>r DEF RowOf
    <2>7. HoldsAt(a, c, r, h)
      BY <2>3, <2>5, <2>6 DEF HoldsAt
    <2>8. where[p] = <<a, c, r>>
      BY <2>i, <2>c, <2>a, <2>r
    <2> QED BY <2>1, <2>2, <2>4, <2>7, <2>8
  <1>2. \A at \in T : \E p \in Holding(h) : where[p] = at
    <2> TAKE at \in T
    <2>1. PICK k \in Archetypes, c \in HandleComponents, r \in 1 .. MaxSlots : at = <<k, c, r>>
      OBVIOUS
    <2>2. r \in DOMAIN columns[k][c] /\ columns[k][c][r] = h
      BY <2>1 DEF HoldsAt
    <2>3. c \in k /\ r \in DOMAIN entities[k]
      <3>1. Len(columns[k][c]) = IF c \in k THEN Len(entities[k]) ELSE 0
        BY WorldAssumption DEF WorldInv, Aligned
      <3>2. /\ DOMAIN columns[k][c] = 1 .. Len(columns[k][c])
            /\ DOMAIN entities[k] = 1 .. Len(entities[k])
        <4>1. columns[k][c] \in Seq(Values) /\ entities[k] \in Seq(Entities)
          BY WorldTypes, WorldAssumption DEF ColumnLists, EntityLists
        <4> QED BY <4>1, LenProperties
      <3> QED BY <2>2, <3>1, <3>2
    <2>4. PICK i \in Live : i = entities[k][r].index /\ slots[i].archetype = k /\ slots[i].row = r
      BY <2>3 DEF WorldInv, Matched
    <2>5. i \in 1 .. MaxSlots
      BY LiveBounded
    <2>6. RowOf(slots, columns, i)[c] = h
      BY <2>2, <2>3, <2>4 DEF RowOf
    <2>7. <<i, c>> \in Holding(h)
      BY <2>3, <2>4, <2>5, <2>6 DEF Holding, HoldsRef
    <2> QED BY <2>1, <2>4, <2>7
  <1>3. \A p, q \in Holding(h) : where[p] = where[q] => p = q
    <2> TAKE p, q \in Holding(h)
    <2> HAVE where[p] = where[q]
    <2>1. PICK i \in Live, c \in HandleComponents : p = <<i, c>>
      BY DEF Holding, HoldsRef
    <2>2. PICK j \in Live, d \in HandleComponents : q = <<j, d>>
      BY DEF Holding, HoldsRef
    <2>3. c = d /\ slots[i].archetype = slots[j].archetype /\ slots[i].row = slots[j].row
      BY <2>1, <2>2
    <2>4. /\ entities[slots[i].archetype][slots[i].row].index = i
          /\ entities[slots[j].archetype][slots[j].row].index = j
      <3>1. \A x \in Live : entities[slots[x].archetype][slots[x].row] = HandleAt(x)
        BY DEF WorldInv, Matched, HandleAt
      <3>2. \A x : HandleAt(x).index = x
        BY DEF HandleAt
      <3> QED BY <3>1, <3>2
    <2> QED BY <2>1, <2>2, <2>3, <2>4
  <1>4. where \in [Holding(h) -> T]
    BY <1>1
  <1> HIDE DEF T, where
  <1>5. where \in Bijection(Holding(h), T)
    BY <1>2, <1>3, <1>4 DEF Bijection, Injection, Surjection, IsInjective
  <1>6. Cardinality(T) = Cardinality(Holding(h))
    BY <1>5, HoldingFinite, FS_Bijection DEF ExistsBijection
  <1> QED BY <1>6 DEF Audit, T

\* A row with one more component mentions what the row does and the component.
LEMMA MentionsJoined ==
  ASSUME NEW row, DOMAIN row \subseteq Components,
         NEW c \in Components, c \notin DOMAIN row, NEW v, NEW h
  PROVE  Mentions(h, Joined(row, c, v)) = Mentions(h, row) + Mentions(h, SingleValue(c, v))
  <1> DEFINE more == Joined(row, c, v)
             one == SingleValue(c, v)
             A == {d \in DOMAIN more \intersect HandleComponents : more[d] = h}
             S == {d \in DOMAIN row \intersect HandleComponents : row[d] = h}
             T == {d \in DOMAIN one \intersect HandleComponents : one[d] = h}
  <1>1. A = S \union T /\ S \intersect T = {}
    BY DEF Joined, SingleValue
  <1>2. S \in SUBSET Components /\ T \in SUBSET Components
    BY DEF SingleValue
  <1> HIDE DEF A, S, T
  <1>3. IsFiniteSet(S) /\ IsFiniteSet(T)
    BY <1>2, WorldAssumption, FS_Subset
  <1>4. Cardinality(S \union T) = Cardinality(S) + Cardinality(T)
    BY <1>1, <1>3, DisjointCount
  <1>5. Cardinality(A) = Cardinality(S) + Cardinality(T)
    BY <1>1, <1>4
  <1> QED BY <1>5 DEF Mentions, A, S, T

LEMMA MentionsNone ==
  ASSUME NEW row, DOMAIN row \intersect HandleComponents = {}, NEW h
  PROVE  Mentions(h, row) = 0
  <1>1. {c \in DOMAIN row \intersect HandleComponents : row[c] = h} = {}
    OBVIOUS
  <1> QED BY <1>1, FS_EmptySet DEF Mentions

\* release does not saturate when the references it drops were counted.
LEMMA CountsExact ==
  ASSUME NEW counts \in [Handles -> Nat], NEW row, DOMAIN row \subseteq Components, NEW h \in Handles
  PROVE  /\ Mentions(h, row) \in Nat /\ counts[h] \in Nat
         /\ AcquiredRow(counts, row)[h] = counts[h] + Mentions(h, row)
         /\ counts[h] >= Mentions(h, row) =>
              ReleasedRow(counts, row)[h] = counts[h] - Mentions(h, row)
  <1>1. Mentions(h, row) \in Nat /\ counts[h] \in Nat
    BY CountsTyped
  <1>2. AcquiredRow(counts, row)[h] = counts[h] + Mentions(h, row)
    BY DEF AcquiredRow
  <1>3. ReleasedRow(counts, row)[h] =
          IF counts[h] > Mentions(h, row) THEN counts[h] - Mentions(h, row) ELSE 0
    BY DEF ReleasedRow
  <1>4. ASSUME counts[h] >= Mentions(h, row)
        PROVE  ReleasedRow(counts, row)[h] = counts[h] - Mentions(h, row)
    BY <1>1, <1>3, <1>4
  <1> QED BY <1>1, <1>2, <1>4

\* A value set in place: the old one is let go of, the new one taken.
LEMMA SwappedExact ==
  ASSUME NEW c \in Components, NEW old, NEW new, NEW h \in Handles,
         handleCounts \in [Handles -> Nat], handleCounts[h] >= Mentions(h, SingleValue(c, old))
  PROVE  Swapped(c, old, new)[h] =
           handleCounts[h] - Mentions(h, SingleValue(c, old)) + Mentions(h, SingleValue(c, new))
  <1>1. \A v : DOMAIN SingleValue(c, v) \subseteq Components
    BY DEF SingleValue
  <1>2. /\ Mentions(h, SingleValue(c, old)) \in Nat /\ handleCounts[h] \in Nat
        /\ ReleasedRow(handleCounts, SingleValue(c, old))[h] =
             handleCounts[h] - Mentions(h, SingleValue(c, old))
    BY <1>1, CountsExact
  <1>3. CASE old = new
    BY <1>2, <1>3 DEF Swapped
  <1>4. CASE old # new
    <2>1. ReleasedRow(handleCounts, SingleValue(c, old)) \in [Handles -> Nat]
      BY <1>1, CountsTyped
    <2>2. AcquiredRow(ReleasedRow(handleCounts, SingleValue(c, old)), SingleValue(c, new))[h] =
            ReleasedRow(handleCounts, SingleValue(c, old))[h] + Mentions(h, SingleValue(c, new))
      BY <1>1, <2>1, CountsExact
    <2> QED BY <1>2, <1>4, <2>2 DEF Swapped
  <1> QED BY <1>3, <1>4

-----------------------------------------------------------------------------
(* What a step does to the counts *)

\* The counts change by what the entity at index i held and what it holds now,
\* as long as nothing is released that was not counted.
Reckoned(i) ==
  \A h \in Handles :
    handleCounts[h] >= Held(h, i) => handleCounts'[h] = handleCounts[h] - Held(h, i) + Held(h, i)'

\* The rows that Reckoned compares, for an index somebody lives at before or after.
LEMMA HeldRows ==
  ASSUME NEW i, NEW h
  PROVE  /\ i \in Live => Held(h, i) = Mentions(h, RowOf(slots, columns, i))
         /\ i \notin Live => Held(h, i) = 0
         /\ i \in Live' => Held(h, i)' = Mentions(h, RowOf(slots', columns', i))
         /\ i \notin Live' => Held(h, i)' = 0
  <1>1. Held(h, i)' = IF i \in Live' THEN Mentions(h, RowOf(slots', columns', i)) ELSE 0
    BY DEF Held
  <1> QED BY <1>1 DEF Held

\* One component comes, goes or gets another value; the rest of the row is the same.
LEMMA ReckonedJoined ==
  ASSUME WorldInv, NEW i \in Live, i \in Live', NEW c \in Components,
         NEW rest, DOMAIN rest \subseteq Components, c \notin DOMAIN rest,
         NEW old, NEW new,
         \/ /\ RowOf(slots, columns, i) = Joined(rest, c, old)
            /\ RowOf(slots', columns', i) = rest
            /\ handleCounts' = ReleasedRow(handleCounts, SingleValue(c, old))
         \/ /\ RowOf(slots, columns, i) = rest
            /\ RowOf(slots', columns', i) = Joined(rest, c, new)
            /\ handleCounts' = AcquiredRow(handleCounts, SingleValue(c, new))
         \/ /\ RowOf(slots, columns, i) = Joined(rest, c, old)
            /\ RowOf(slots', columns', i) = Joined(rest, c, new)
            /\ \/ handleCounts' = Swapped(c, old, new)
               \/ c \notin HandleComponents /\ handleCounts' = handleCounts
  PROVE  Reckoned(i)
  <1> SUFFICES ASSUME NEW h \in Handles, handleCounts[h] >= Held(h, i)
               PROVE  handleCounts'[h] = handleCounts[h] - Held(h, i) + Held(h, i)'
    BY DEF Reckoned
  <1>t. handleCounts \in [Handles -> Nat]
    BY DEF WorldInv, WorldTypeOK
  <1>r. PICK r : r = Mentions(h, rest)
    OBVIOUS
  <1>o. PICK o : o = Mentions(h, SingleValue(c, old))
    OBVIOUS
  <1>n. PICK n : n = Mentions(h, SingleValue(c, new))
    OBVIOUS
  <1>1. r \in Nat /\ o \in Nat /\ n \in Nat /\ handleCounts[h] \in Nat
    <2>1. DOMAIN SingleValue(c, old) \subseteq Components /\ DOMAIN SingleValue(c, new) \subseteq Components
      BY DEF SingleValue
    <2> QED BY <1>t, <1>r, <1>o, <1>n, <2>1, CountsExact
  <1>2. /\ Mentions(h, Joined(rest, c, old)) = r + o
        /\ Mentions(h, Joined(rest, c, new)) = r + n
    BY <1>r, <1>o, <1>n, MentionsJoined
  <1>3. /\ Held(h, i) = Mentions(h, RowOf(slots, columns, i))
        /\ Held(h, i)' = Mentions(h, RowOf(slots', columns', i))
    BY HeldRows
  <1>4. \A v : DOMAIN SingleValue(c, v) \subseteq Components
    BY DEF SingleValue
  <1>5. /\ handleCounts[h] >= o => ReleasedRow(handleCounts, SingleValue(c, old))[h] = handleCounts[h] - o
        /\ AcquiredRow(handleCounts, SingleValue(c, new))[h] = handleCounts[h] + n
    BY <1>t, <1>4, <1>o, <1>n, CountsExact
  <1>6. handleCounts[h] >= o => Swapped(c, old, new)[h] = handleCounts[h] - o + n
    BY <1>t, <1>o, <1>n, SwappedExact
  <1>7. c \notin HandleComponents => o = 0 /\ n = 0
    BY <1>o, <1>n, MentionsNone DEF SingleValue
  <1>8. CASE /\ RowOf(slots, columns, i) = Joined(rest, c, old)
             /\ RowOf(slots', columns', i) = rest
             /\ handleCounts' = ReleasedRow(handleCounts, SingleValue(c, old))
    <2>1. Held(h, i) = r + o /\ Held(h, i)' = r
      BY <1>8, <1>r, <1>2, <1>3
    <2>2. handleCounts[h] >= o
      BY <2>1, <1>1
    <2> QED BY <1>1, <1>5, <1>8, <2>1, <2>2
  <1>9. CASE /\ RowOf(slots, columns, i) = rest
             /\ RowOf(slots', columns', i) = Joined(rest, c, new)
             /\ handleCounts' = AcquiredRow(handleCounts, SingleValue(c, new))
    <2>1. Held(h, i) = r /\ Held(h, i)' = r + n
      BY <1>9, <1>r, <1>2, <1>3
    <2> QED BY <1>1, <1>5, <1>9, <2>1
  <1>10. CASE /\ RowOf(slots, columns, i) = Joined(rest, c, old)
              /\ RowOf(slots', columns', i) = Joined(rest, c, new)
              /\ \/ handleCounts' = Swapped(c, old, new)
                 \/ c \notin HandleComponents /\ handleCounts' = handleCounts
    <2>1. Held(h, i) = r + o /\ Held(h, i)' = r + n
      BY <1>10, <1>2, <1>3
    <2>2. handleCounts[h] >= o
      BY <2>1, <1>1
    <2> QED BY <1>1, <1>6, <1>7, <1>10, <2>1, <2>2
  <1> QED BY <1>8, <1>9, <1>10

\* Whoever lives at index i comes with row new, and whoever lived there is gone.
LEMMA ReckonedRow ==
  ASSUME WorldInv, NEW i \in 1 .. MaxSlots, NEW new, DOMAIN new \subseteq Components,
         i \in Live' => RowOf(slots', columns', i) = new,
         \/ /\ i \notin Live /\ i \in Live'
            /\ handleCounts' = AcquiredRow(handleCounts, new)
         \/ /\ i \notin Live /\ i \in Live' /\ DOMAIN new \intersect HandleComponents = {}
            /\ handleCounts' = handleCounts
         \/ /\ i \in Live /\ (i \in Live' => DOMAIN new \intersect HandleComponents = {})
            /\ handleCounts' = ReleasedRow(handleCounts, RowOf(slots, columns, i))
  PROVE  Reckoned(i)
  <1> SUFFICES ASSUME NEW h \in Handles, handleCounts[h] >= Held(h, i)
               PROVE  handleCounts'[h] = handleCounts[h] - Held(h, i) + Held(h, i)'
    BY DEF Reckoned
  <1>t. handleCounts \in [Handles -> Nat]
    BY DEF WorldInv, WorldTypeOK
  <1>n. PICK n : n = Mentions(h, new)
    OBVIOUS
  <1>1. n \in Nat /\ handleCounts[h] \in Nat /\ AcquiredRow(handleCounts, new)[h] = handleCounts[h] + n
    BY <1>t, <1>n, CountsExact
  <1>2. i \in Live' => Held(h, i)' = n
    BY <1>n, HeldRows
  <1>3. DOMAIN new \intersect HandleComponents = {} => n = 0
    BY <1>n, MentionsNone
  <1>4. CASE /\ i \notin Live /\ i \in Live'
             /\ handleCounts' = AcquiredRow(handleCounts, new)
    <2>1. Held(h, i) = 0
      BY <1>4, HeldRows
    <2> QED BY <1>1, <1>2, <1>4, <2>1
  <1>5. CASE /\ i \notin Live /\ i \in Live' /\ DOMAIN new \intersect HandleComponents = {}
             /\ handleCounts' = handleCounts
    <2>1. Held(h, i) = 0
      BY <1>5, HeldRows
    <2> QED BY <1>1, <1>2, <1>3, <1>5, <2>1
  <1>6. CASE /\ i \in Live /\ (i \in Live' => DOMAIN new \intersect HandleComponents = {})
             /\ handleCounts' = ReleasedRow(handleCounts, RowOf(slots, columns, i))
    <2>1. PICK o : o = Mentions(h, RowOf(slots, columns, i))
      OBVIOUS
    <2>2. Held(h, i) = o
      BY <1>6, <2>1, HeldRows
    <2>3. DOMAIN RowOf(slots, columns, i) \subseteq Components
      BY <1>6, RowTyped DEF RowOf
    <2>4. o \in Nat /\ ReleasedRow(handleCounts, RowOf(slots, columns, i))[h] = handleCounts[h] - o
      BY <1>t, <2>1, <2>2, <2>3, CountsExact
    <2>5. Held(h, i)' = 0
      BY <1>2, <1>3, <1>6, HeldRows
    <2> QED BY <1>1, <1>6, <2>2, <2>4, <2>5
  <1> QED BY <1>4, <1>5, <1>6

RowWithout(row, c) == [d \in DOMAIN row \ {c} |-> row[d]]
Overwritten(row, c, v) == [row EXCEPT ![c] = v]

IsRow(row) == row = [d \in DOMAIN row |-> row[d]]

LEMMA RowSplit ==
  ASSUME NEW row, IsRow(row), NEW c \in DOMAIN row
  PROVE  /\ row = Joined(RowWithout(row, c), c, row[c])
         /\ \A v : Overwritten(row, c, v) = Joined(RowWithout(row, c), c, v)
         /\ DOMAIN RowWithout(row, c) = DOMAIN row \ {c}
  <1> DEFINE a == DOMAIN row
  <1>1. DOMAIN RowWithout(row, c) = a \ {c} /\ \A d \in a \ {c} : RowWithout(row, c)[d] = row[d]
    BY DEF RowWithout
  <1>2. \A w : Joined(RowWithout(row, c), c, w) = [d \in a |-> IF d = c THEN w ELSE row[d]]
    <2> TAKE w
    <2>1. (a \ {c}) \union {c} = a
      OBVIOUS
    <2> QED BY <1>1, <2>1 DEF Joined
  <1>3. row = [d \in a |-> IF d = c THEN row[c] ELSE row[d]]
    BY DEF IsRow
  <1>4. \A v : Overwritten(row, c, v) = [d \in a |-> IF d = c THEN v ELSE row[d]]
    BY DEF Overwritten
  <1> QED BY <1>1, <1>2, <1>3, <1>4

\* Every operation accounts for the references it adds and drops, when what a
\* peer sends holds no handles.
LEMMA NextReckoned ==
  ASSUME WorldInv, Filtered = FALSE, PeerComponents \intersect HandleComponents = {}, Next
  PROVE  \E i : OthersKept(i) /\ Reckoned(i)
  <1>i. \A e \in Entities : e.index \in 1 .. MaxSlots
    BY EntitiesFields
  <1>b. \A types \in SUBSET Components : \A bundle \in Bundles(types) :
          DOMAIN bundle \subseteq types
    BY DEF Bundles
  <1>1. ASSUME NEW e \in Entities, NEW bundle \in Bundles(Components), Spawn(e, bundle)
        PROVE  OthersKept(e.index) /\ Reckoned(e.index)
    <2>1. PICK i \in 1 .. MaxSlots : i = e.index
      BY <1>i
    <2>2. /\ i \notin Live /\ i \in Live' /\ OthersKept(i)
          /\ RowOf(slots', columns', i) = bundle
      BY <1>1, <2>1, SpawnStep
    <2>3. handleCounts' = AcquiredRow(handleCounts, bundle) /\ DOMAIN bundle \subseteq Components
      BY <1>1, <1>b DEF Spawn
    <2> QED BY <2>1, <2>2, <2>3, ReckonedRow
  <1>2. ASSUME NEW e \in issued, Despawn(e)
        PROVE  OthersKept(e.index) /\ Reckoned(e.index)
    <2>1. e \in Entities /\ e.index \in Live /\ Live' = Live \ {e.index} /\ OthersKept(e.index)
      BY <1>2, DespawnStep
    <2>2. PICK i \in 1 .. MaxSlots : i = e.index
      BY <2>1, <1>i
    <2>3. handleCounts' = ReleasedRow(handleCounts, RowOf(slots, columns, i))
      BY <1>2, <2>1, <2>2, RowTyped DEF Despawn
    <2>4. PICK none : none = [d \in {} |-> d]
      OBVIOUS
    <2>5. DOMAIN none \subseteq Components
      BY <2>4
    <2>6. i \in Live /\ i \notin Live' /\ OthersKept(i)
      BY <2>1, <2>2
    <2> QED BY <2>2, <2>3, <2>5, <2>6, ReckonedRow
  <1>3. ASSUME NEW e \in issued, NEW c \in Components, RemoveComponent(e, c)
        PROVE  OthersKept(e.index) /\ Reckoned(e.index)
    <2> DEFINE i == e.index
               row == RowOf(slots, columns, i)
               rest == RowWithout(row, c)
    <2>1. IsAlive(e) /\ c \in slots[i].archetype
      BY <1>3 DEF RemoveComponent
    <2>2. /\ i \in Live /\ row \in [slots[i].archetype -> Values]
          /\ slots[i].archetype \in SUBSET Components
          /\ RowValues(slots[i]) = row
      BY <2>1, AliveIsLive, RowTyped
    <2>3. /\ Migrate(e, rest) /\ freeSlots' = freeSlots /\ issued' = issued
          /\ handleCounts' = ReleasedRow(handleCounts, SingleValue(c, row[c]))
      BY <1>3, <2>2 DEF RemoveComponent, RowWithout
    <2>4. /\ row = Joined(rest, c, row[c])
          /\ DOMAIN rest = slots[i].archetype \ {c}
      <3>1. IsRow(row) /\ DOMAIN row = slots[i].archetype /\ c \in DOMAIN row
        BY <2>1, <2>2 DEF IsRow
      <3> HIDE DEF row
      <3>2. row = Joined(rest, c, row[c]) /\ DOMAIN rest = DOMAIN row \ {c}
        BY <3>1, RowSplit
      <3> QED BY <3>1, <3>2
    <2>5. rest \in Bundles(Components)
      <3>1. PICK a : a = slots[i].archetype \ {c}
        OBVIOUS
      <3>2. a \in SUBSET Components
        BY <2>2, <3>1
      <3>3. rest \in [a -> Values]
        BY <2>2, <3>1 DEF RowWithout
      <3> HIDE DEF rest
      <3> QED BY <3>2, <3>3 DEF Bundles
    <2>6. handleCounts' \in [Handles -> Nat]
      BY <2>3, CountsTyped DEF SingleValue, WorldInv, WorldTypeOK
    <2> HIDE DEF rest
    <2>7. i \in Live' /\ OthersKept(i) /\ RowOf(slots', columns', i) = rest
      <3>1. DOMAIN rest # slots[i].archetype
        BY <2>1, <2>4
      <3> QED BY <2>1, <2>2, <2>3, <2>5, <2>6, <3>1, MigrateStep
    <2>8. DOMAIN rest \subseteq Components /\ c \notin DOMAIN rest
      BY <2>2, <2>4
    <2> HIDE DEF row, i
    <2>9. Reckoned(i)
      BY <2>2, <2>3, <2>4, <2>7, <2>8, ReckonedJoined DEF row
    <2> QED BY <2>7, <2>9 DEF i
  <1>4. ASSUME NEW e \in issued, NEW c \in Components, NEW v \in Values, InsertMigrating(e, c, v)
        PROVE  OthersKept(e.index) /\ Reckoned(e.index)
    <2> DEFINE i == e.index
               row == RowOf(slots, columns, i)
               more == Joined(row, c, v)
    <2>1. IsAlive(e) /\ c \notin slots[i].archetype
      BY <1>4 DEF InsertMigrating
    <2>2. /\ i \in Live /\ row \in [slots[i].archetype -> Values]
          /\ slots[i].archetype \in SUBSET Components
          /\ RowValues(slots[i]) = row
      BY <2>1, AliveIsLive, RowTyped
    <2>3. /\ Migrate(e, more) /\ freeSlots' = freeSlots /\ issued' = issued
          /\ handleCounts' = AcquiredRow(handleCounts, SingleValue(c, v))
      BY <1>4, <2>2 DEF InsertMigrating
    <2>4. DOMAIN more = slots[i].archetype \union {c}
      BY <2>2 DEF Joined
    <2>5. more \in Bundles(Components)
      <3>1. PICK a : a = slots[i].archetype \union {c}
        OBVIOUS
      <3>2. a \in SUBSET Components
        BY <2>2, <3>1
      <3>3. more \in [a -> Values]
        BY <2>2, <3>1 DEF Joined
      <3> HIDE DEF more
      <3> QED BY <3>2, <3>3 DEF Bundles
    <2>6. handleCounts' \in [Handles -> Nat]
      BY <2>3, CountsTyped DEF SingleValue, WorldInv, WorldTypeOK
    <2>7. i \in Live' /\ OthersKept(i) /\ RowOf(slots', columns', i) = more
      <3> HIDE DEF more
      <3>1. DOMAIN more # slots[i].archetype
        BY <2>1, <2>4
      <3> QED BY <2>1, <2>2, <2>3, <2>5, <2>6, <3>1, MigrateStep
    <2>8. DOMAIN row \subseteq Components /\ c \notin DOMAIN row
      BY <2>1, <2>2
    <2> HIDE DEF row, i
    <2>9. Reckoned(i)
      BY <2>2, <2>3, <2>7, <2>8, ReckonedJoined DEF row
    <2> QED BY <2>7, <2>9 DEF i
  <1>5. ASSUME NEW e \in issued, NEW c \in Components, NEW v \in Values,
               \/ InsertInPlace(e, c, v) \/ MutWrite(e, c, v)
               \/ c \notin HandleComponents /\ PeerWrite(e, c, v)
        PROVE  OthersKept(e.index) /\ Reckoned(e.index)
    <2> DEFINE i == e.index
               row == RowOf(slots, columns, i)
               rest == RowWithout(row, c)
    <2>1. /\ IsAlive(e) /\ c \in slots[i].archetype /\ SetValue(e, c, v)
          /\ slots' = slots /\ freeSlots' = freeSlots /\ entities' = entities /\ issued' = issued
          /\ \/ handleCounts' = Swapped(c, RowValues(slots[i])[c], v)
             \/ c \notin HandleComponents /\ handleCounts' = handleCounts
      BY <1>5 DEF InsertInPlace, MutWrite, PeerWrite
    <2>2. /\ i \in Live /\ row \in [slots[i].archetype -> Values]
          /\ slots[i].archetype \in SUBSET Components
          /\ RowValues(slots[i]) = row
      BY <2>1, AliveIsLive, RowTyped
    <2>3. \/ handleCounts' = Swapped(c, row[c], v)
          \/ c \notin HandleComponents /\ handleCounts' = handleCounts
      BY <2>1, <2>2
    <2>4. handleCounts' \in [Handles -> Nat]
      BY <2>3, SwappedTyped DEF WorldInv, WorldTypeOK
    <2>5. i \in Live' /\ OthersKept(i) /\ RowOf(slots', columns', i) = [row EXCEPT ![c] = v]
      BY <2>1, <2>2, <2>4, SetStep
    <2>6. /\ row = Joined(rest, c, row[c])
          /\ [row EXCEPT ![c] = v] = Joined(rest, c, v)
          /\ DOMAIN rest = slots[i].archetype \ {c}
      <3>1. IsRow(row) /\ DOMAIN row = slots[i].archetype /\ c \in DOMAIN row
        BY <2>1, <2>2 DEF IsRow
      <3> HIDE DEF row
      <3>2. Overwritten(row, c, v) = [row EXCEPT ![c] = v]
        BY DEF Overwritten
      <3>3. \A w : Overwritten(row, c, w) = Joined(RowWithout(row, c), c, w)
        BY <3>1, RowSplit, Zenon
      <3>4. row = Joined(rest, c, row[c]) /\ DOMAIN rest = DOMAIN row \ {c}
        BY <3>1, RowSplit
      <3> QED BY <3>1, <3>2, <3>3, <3>4
    <2>7. DOMAIN rest \subseteq Components /\ c \notin DOMAIN rest
      BY <2>2, <2>6
    <2>8. RowOf(slots', columns', i) = Joined(rest, c, v)
      BY <2>5, <2>6
    <2> HIDE DEF row, i, rest
    <2>9. Reckoned(i)
      BY <2>2, <2>3, <2>5, <2>6, <2>7, <2>8, ReckonedJoined DEF row
    <2> QED BY <2>5, <2>9 DEF i
  <1>6. ASSUME NEW e \in PeerEntities, NEW bundle \in Bundles(PeerComponents), PeerSpawn(e, bundle)
        PROVE  OthersKept(e.index) /\ Reckoned(e.index)
    <2>1. e \in Entities /\ bundle \in Bundles(Components)
      BY WorldAssumption DEF Bundles
    <2>2. DOMAIN bundle \subseteq Components /\ DOMAIN bundle \intersect HandleComponents = {}
      BY <1>b, WorldAssumption
    <2>3. issued' = {x \in issued : x.index = e.index => x.generation < e.generation} \union {e}
      BY <1>6 DEF PeerSpawn
    <2>4. PICK i \in 1 .. MaxSlots : i = e.index
      BY <2>1, <1>i
    <2>5. CASE Arrive(e, bundle)
      <3>1. i \notin Live /\ i \in Live' /\ OthersKept(i) /\ RowOf(slots', columns', i) = bundle
        BY <2>1, <2>3, <2>4, <2>5, ArriveStep
      <3>2. handleCounts' = handleCounts
        BY <2>5 DEF Arrive
      <3> QED BY <2>2, <2>4, <3>1, <3>2, ReckonedRow
    <2>6. CASE Replace(e, bundle)
      <3>1. i \in Live /\ i \in Live' /\ OthersKept(i) /\ RowOf(slots', columns', i) = bundle
        BY <2>1, <2>3, <2>4, <2>6, ReplaceStep
      <3>2. handleCounts' = ReleasedRow(handleCounts, RowOf(slots, columns, i))
        BY <2>4, <2>6, <3>1, RowTyped DEF Replace
      <3> QED BY <2>2, <2>4, <3>1, <3>2, ReckonedRow
    <2> QED BY <1>6, <2>5, <2>6 DEF PeerSpawn
  <1>7. \A c \in PeerComponents : c \in Components /\ c \notin HandleComponents
    BY WorldAssumption
  <1>8. issued \subseteq Entities
    BY DEF WorldInv, WorldTypeOK
  <1>9. CASE Local
    BY <1>1, <1>2, <1>3, <1>4, <1>5, <1>9 DEF Local
  <1>10. CASE Peer
    <2>1. PICK e \in PeerEntities :
            \/ \E bundle \in Bundles(PeerComponents) : PeerSpawn(e, bundle)
            \/ /\ Filtered \/ e \in issued
               /\ \/ Despawn(e)
                  \/ \E c \in PeerComponents, v \in Values : PeerWrite(e, c, v)
      BY <1>10 DEF Peer
    <2> QED BY <2>1, <1>2, <1>5, <1>6, <1>7
  <1> QED BY <1>9, <1>10 DEF Next

\* What HoldingSplit says, for every index and handle.
SplitExact ==
  \A i, h : /\ Held(h, i) \in Nat /\ Cardinality(Elsewhere(h, i)) \in Nat
            /\ Cardinality(Holding(h)) = Cardinality(Elsewhere(h, i)) + Held(h, i)

LEMMA SplitHolds == WorldInv => SplitExact
  BY HoldingSplit DEF SplitExact

\* The counts stay exact: nobody else's references change, and those of the entity
\* that is concerned change by what Reckoned says.
LEMMA LedgerKept ==
  ASSUME WorldInv, WorldInv', LedgerInv, NEW i, OthersKept(i), Reckoned(i)
  PROVE  LedgerInv'
  <1>1. SplitExact /\ SplitExact'
    BY SplitHolds, PTL
  <1> SUFFICES ASSUME NEW h \in Handles
               PROVE  handleCounts'[h] = Cardinality(Holding(h)')
    BY DEF LedgerInv
  <1>2. Elsewhere(h, i)' = Elsewhere(h, i)
    <2>1. ASSUME NEW at, at[1] # i
          PROVE  HoldsRef(at, h)' <=> HoldsRef(at, h)
      <3>1. PICK j : j = at[1]
        OBVIOUS
      <3>2. j \in Live' <=> j \in Live
        BY <2>1, <3>1 DEF OthersKept
      <3>3. j \in Live => RowOf(slots', columns', j) = RowOf(slots, columns, j)
        BY <2>1, <3>1 DEF OthersKept
      <3>4. j \in Live => slots'[j].archetype = slots[j].archetype
        <4>1. /\ DOMAIN RowOf(slots', columns', j) = slots'[j].archetype
              /\ DOMAIN RowOf(slots, columns, j) = slots[j].archetype
          BY DEF RowOf
        <4> QED BY <3>3, <4>1
      <3>5. HoldsRef(at, h)' <=> /\ j \in Live'
                                 /\ at[2] \in slots'[j].archetype
                                 /\ RowOf(slots', columns', j)[at[2]] = h
        BY <3>1 DEF HoldsRef
      <3>6. HoldsRef(at, h) <=> /\ j \in Live
                                /\ at[2] \in slots[j].archetype
                                /\ RowOf(slots, columns, j)[at[2]] = h
        BY <3>1 DEF HoldsRef
      <3> QED BY <3>2, <3>3, <3>4, <3>5, <3>6
    <2>2. Elsewhere(h, i) = {at \in (1 .. MaxSlots) \X HandleComponents : HoldsRef(at, h) /\ at[1] # i}
      BY DEF Elsewhere, Holding
    <2>3. Elsewhere(h, i)' = {at \in (1 .. MaxSlots) \X HandleComponents : HoldsRef(at, h)' /\ at[1] # i}
      BY DEF Elsewhere, Holding
    <2> QED BY <2>1, <2>2, <2>3
  <1>3. PICK n \in Nat : n = Cardinality(Elsewhere(h, i))
    BY <1>1 DEF SplitExact
  <1>4. Held(h, i) \in Nat /\ Cardinality(Holding(h)) = n + Held(h, i)
    BY <1>1, <1>3 DEF SplitExact
  <1>5. Held(h, i)' \in Nat /\ Cardinality(Holding(h)') = n + Held(h, i)'
    BY <1>1, <1>2, <1>3 DEF SplitExact
  <1>6. handleCounts[h] = n + Held(h, i)
    BY <1>4 DEF LedgerInv
  <1>7. handleCounts[h] >= Held(h, i)
    BY <1>4, <1>6
  <1>8. handleCounts'[h] = handleCounts[h] - Held(h, i) + Held(h, i)'
    BY <1>7 DEF Reckoned
  <1> QED BY <1>4, <1>5, <1>6, <1>8

LEMMA LedgerInit == Init => LedgerInv
  <1> SUFFICES ASSUME Init, NEW h \in Handles PROVE handleCounts[h] = Cardinality(Holding(h))
    BY DEF LedgerInv
  <1>1. Live = {}
    <2>1. slots = <<>>
      BY DEF Init
    <2> QED BY <2>1 DEF Live
  <1>2. Holding(h) = {}
    BY <1>1 DEF Holding, HoldsRef
  <1> QED BY <1>2, FS_EmptySet DEF Init

LEMMA LedgerStutter == LedgerInv /\ UNCHANGED worldVars => LedgerInv'
  <1> SUFFICES ASSUME LedgerInv, UNCHANGED worldVars, NEW h \in Handles
               PROVE  handleCounts'[h] = Cardinality(Holding(h)')
    BY DEF LedgerInv
  <1>1. /\ slots' = slots /\ freeSlots' = freeSlots /\ columns' = columns
        /\ handleCounts' = handleCounts
    BY DEF worldVars
  <1>2. Holding(h)' = Holding(h)
    BY <1>1 DEF Holding, HoldsRef, Live, RowOf
  <1> QED BY <1>1, <1>2 DEF LedgerInv

\* handle_ref_count is handle_audit after any operations (world.rs:488, 506), as
\* long as a peer sends no component that holds handles and names only what it
\* spawned here: the saturating release never saturates, and no reference is
\* leaked by a swap, a migration, an overwrite, a guard or a replaced entity.
THEOREM LedgerStaysExact ==
  ASSUME Filtered = FALSE, PeerComponents \intersect HandleComponents = {}
  PROVE  Spec => []LedgerExact
  <1>1. WorldInv /\ WorldInv' /\ LedgerInv /\ [Next]_worldVars => LedgerInv'
    BY NextReckoned, LedgerKept, LedgerStutter
  <1>2. WorldInv /\ LedgerInv => LedgerExact
    BY AuditIsHolding DEF LedgerInv, LedgerExact
  <1> QED BY <1>1, <1>2, LedgerInit, WorldInvariant, PTL DEF Spec

-----------------------------------------------------------------------------
(* The change journals *)

\* What a reader may hold of a component, and the states of rings and readers.
Pictures == UNION {[known -> Values] : known \in SUBSET Entities}
Rings == [open : BOOLEAN, entries : Seq(Entities)]
ReaderStates == [component : Components, unread : 0 .. Capacity + 1,
                 phase : {"scan", "follow"}, picture : Pictures]

\* A ring never holds more than its capacity, and a cursor it may still serve
\* was opened on it.
JournalsTyped(js, rs) ==
  /\ js \in [Components -> Rings] /\ rs \in [Readers -> ReaderStates]
  /\ \A c \in Components : Len(js[c].entries) <= Capacity
  /\ \A r \in Readers : rs[r].unread <= Capacity => js[rs[r].component].open

\* The n entries pushed last.
Recent(s, n) == {s[i] : i \in Len(s) - n + 1 .. Len(s)}

LEMMA UnreadRecent ==
  ASSUME NEW S, NEW s \in Seq(S), NEW n \in 0 .. Len(s)
  PROVE  ToSet(SubSeq(s, Len(s) - n + 1, Len(s))) = Recent(s, n)
  <1> DEFINE l == Len(s)
             m == l - n + 1
             t == SubSeq(s, m, l)
  <1>1. l \in Nat /\ m \in 1 .. l + 1 /\ \A i \in m .. l : s[i] \in S
    BY LenProperties
  <1> HIDE DEF l, m
  <1>2. /\ t \in Seq(S)
        /\ Len(t) = IF m <= l THEN l - m + 1 ELSE 0
        /\ \A i \in 1 .. l - m + 1 : t[i] = s[m + i - 1]
    BY <1>1, SubSeqProperties
  <1>3. DOMAIN t = 1 .. l - m + 1
    <2>1. Len(t) = l - m + 1
      BY <1>1, <1>2
    <2> QED BY <1>2, <2>1, LenProperties
  <1> HIDE DEF t
  <1>4. ToSet(t) = {t[i] : i \in 1 .. l - m + 1}
    BY <1>3 DEF ToSet
  <1>5. /\ \A i \in 1 .. l - m + 1 : m + i - 1 \in m .. l
        /\ \A j \in m .. l : j - m + 1 \in 1 .. l - m + 1 /\ m + (j - m + 1) - 1 = j
    BY <1>1
  <1>6. {t[i] : i \in 1 .. l - m + 1} = {s[j] : j \in m .. l}
    <2>1. \A i \in 1 .. l - m + 1 : \E j \in m .. l : t[i] = s[j]
      BY <1>2, <1>5
    <2>2. \A j \in m .. l : \E i \in 1 .. l - m + 1 : s[j] = t[i]
      BY <1>2, <1>5
    <2> QED BY <2>1, <2>2
  <1> QED BY <1>4, <1>6 DEF Recent, t, m, l

\* Journal::push: a cursor the ring still serves afterwards was served before,
\* and finds the new entry after it besides those it had there.
LEMMA PushedRecent ==
  ASSUME NEW S, NEW s \in Seq(S), Len(s) <= Capacity, NEW e \in S
  PROVE  /\ Pushed(s, e) \in Seq(S) /\ Len(Pushed(s, e)) <= Capacity
         /\ \A n \in Nat : n + 1 <= Len(Pushed(s, e)) =>
              /\ n <= Len(s) /\ e \in Recent(Pushed(s, e), n + 1)
              /\ Recent(s, n) \subseteq Recent(Pushed(s, e), n + 1)
  <1> DEFINE t == Pushed(s, e)
             m == Len(t)
             l == Len(s)
             d == l - (m - 1)
  <1>1. l \in Nat /\ Capacity \in Nat \ {0} /\ l <= Capacity
    BY LenProperties, CapacityAssumption
  <1>2. /\ t \in Seq(S) /\ m \in 1 .. Capacity /\ m - 1 <= l /\ t[m] = e
        /\ \A i \in 1 .. m - 1 : t[i] = s[i + d]
    <2>1. CASE l = Capacity
      <3>1. s # << >>
        BY <1>1, <2>1, EmptySeq
      <3>2. /\ Tail(s) \in Seq(S) /\ Len(Tail(s)) = l - 1
            /\ \A i \in 1 .. l - 1 : Tail(s)[i] = s[i + 1]
        BY <3>1, HeadTailProperties
      <3>3. t = Append(Tail(s), e)
        BY <2>1 DEF Pushed
      <3> DEFINE u == Tail(s)
      <3> HIDE DEF u, l, t
      <3>4. t = Append(u, e) /\ u \in Seq(S) /\ Len(u) = l - 1 /\ \A i \in 1 .. l - 1 : u[i] = s[i + 1]
        BY <3>2, <3>3 DEF u, l
      <3>5. t \in Seq(S) /\ Len(t) = l /\ t[l] = e /\ \A i \in 1 .. l - 1 : t[i] = u[i]
        BY <3>4, <1>1, AppendProperties
      <3> QED BY <1>1, <2>1, <3>4, <3>5
    <2>2. CASE l # Capacity
      <3>1. t = Append(s, e)
        BY <2>2 DEF Pushed
      <3>2. t \in Seq(S) /\ m = l + 1 /\ t[l + 1] = e /\ \A i \in 1 .. l : t[i] = s[i]
        BY <3>1, AppendProperties
      <3> HIDE DEF t, m, l
      <3>3. \A i \in 1 .. m - 1 : i \in 1 .. l /\ i + d = i
        BY <3>2, <1>1
      <3> QED BY <1>1, <2>2, <3>2, <3>3
    <2> QED BY <2>1, <2>2
  <1> HIDE DEF t
  <1>3. ASSUME NEW n \in Nat, n + 1 <= m
        PROVE  n <= l /\ e \in Recent(t, n + 1) /\ Recent(s, n) \subseteq Recent(t, n + 1)
    <2> HIDE DEF m, l
    <2>1. n <= l /\ l \in Nat /\ m \in Nat
      BY <1>1, <1>2, <1>3
    <2>2. Recent(t, n + 1) = {t[i] : i \in m - n .. m}
      <3>1. m - (n + 1) + 1 = m - n
        BY <2>1
      <3> QED BY <3>1 DEF Recent, m
    <2>3. Recent(s, n) = {s[j] : j \in l - n + 1 .. l}
      BY DEF Recent, l
    <2>4. \A j \in l - n + 1 .. l : /\ j - d \in m - n .. m /\ j - d \in 1 .. m - 1
                                    /\ (j - d) + d = j
      BY <2>1, <1>3
    <2>5. m \in m - n .. m
      BY <2>1
    <2>6. \A j \in l - n + 1 .. l : \E i \in m - n .. m : s[j] = t[i]
      BY <2>4, <1>2
    <2> QED BY <2>1, <2>2, <2>3, <2>5, <2>6, <1>2
  <1> HIDE DEF m, l
  <1>4. t \in Seq(S) /\ m <= Capacity
    BY <1>1, <1>2
  <1> QED BY <1>3, <1>4 DEF t, m, l

\* record, in the journals of the components cs: every ring and cursor keeps its
\* type, and a cursor that is still served was served before and has e ahead of
\* it when the ring is its own.
LEMMA RecordedUnread ==
  ASSUME NEW js, NEW rs, JournalsTyped(js, rs), NEW e \in Entities, NEW cs,
         \A c \in Components : js[c].open = journals[c].open
  PROVE  /\ JournalsTyped(Recorded(js, e, cs), Outrun(rs, cs))
         /\ \A c \in Components : Recorded(js, e, cs)[c].open = js[c].open
         /\ \A r \in Readers :
              LET c == rs[r].component
                  rs2 == Outrun(rs, cs)
                  js2 == Recorded(js, e, cs)
              IN /\ rs2[r].component = c /\ rs2[r].phase = rs[r].phase
                 /\ rs2[r].picture = rs[r].picture
                 /\ rs2[r].unread <= Len(js2[c].entries) =>
                      /\ rs[r].unread <= Len(js[c].entries)
                      /\ Recent(js[c].entries, rs[r].unread)
                           \subseteq Recent(js2[c].entries, rs2[r].unread)
                      /\ c \in cs => e \in Recent(js2[c].entries, rs2[r].unread)
  <1> DEFINE js2 == Recorded(js, e, cs)
             rs2 == Outrun(rs, cs)
  <1>0. Capacity \in Nat \ {0}
    BY CapacityAssumption
  <1>1. ASSUME NEW c \in Components
        PROVE  /\ js[c] \in Rings /\ js[c].open \in BOOLEAN /\ js[c].entries \in Seq(Entities)
               /\ Len(js[c].entries) \in 0 .. Capacity
    <2>1. js[c] \in Rings /\ Len(js[c].entries) <= Capacity
      BY DEF JournalsTyped
    <2>2. js[c].open \in BOOLEAN /\ js[c].entries \in Seq(Entities)
      BY <2>1 DEF Rings
    <2> QED BY <2>1, <2>2, <1>0, LenProperties
  <1>2. ASSUME NEW r \in Readers
        PROVE  /\ rs[r] \in ReaderStates /\ rs[r].component \in Components
               /\ rs[r].unread \in 0 .. Capacity + 1
               /\ rs[r].unread <= Capacity => js[rs[r].component].open
    BY DEF JournalsTyped, ReaderStates
  <1>3. ASSUME NEW c \in Components
        PROVE  /\ js2[c] \in Rings /\ js2[c].open = js[c].open /\ Len(js2[c].entries) <= Capacity
               /\ js2[c].entries = IF c \in cs /\ js[c].open THEN Pushed(js[c].entries, e)
                                                             ELSE js[c].entries
    <2>1. CASE c \in cs /\ js[c].open
      <3> DEFINE s == js[c].entries
      <3>1. s \in Seq(Entities) /\ Len(s) <= Capacity
        BY <1>0, <1>1
      <3> HIDE DEF s
      <3>2. Pushed(s, e) \in Seq(Entities) /\ Len(Pushed(s, e)) <= Capacity
        BY <3>1, PushedRecent
      <3>3. js2[c] = [js[c] EXCEPT !.entries = Pushed(s, e)]
        BY <2>1 DEF Recorded, s
      <3> HIDE DEF js2
      <3> QED BY <2>1, <3>2, <3>3, <1>1 DEF Rings, s
    <2>2. CASE ~(c \in cs /\ js[c].open)
      <3>1. js2[c] = js[c]
        BY <2>2 DEF Recorded
      <3> QED BY <2>2, <3>1, <1>0, <1>1
    <2> QED BY <2>1, <2>2
  <1>4. ASSUME NEW r \in Readers
        PROVE  /\ rs2[r] \in ReaderStates
               /\ rs2[r].component = rs[r].component /\ rs2[r].phase = rs[r].phase
               /\ rs2[r].picture = rs[r].picture
               /\ rs2[r].unread = IF rs[r].component \in cs /\ js[rs[r].component].open
                                    THEN Least(rs[r].unread + 1, Capacity + 1) ELSE rs[r].unread
    <2>1. CASE rs[r].component \in cs /\ journals[rs[r].component].open
      <3>1. rs2[r] = [rs[r] EXCEPT !.unread = Least(rs[r].unread + 1, Capacity + 1)]
        BY <2>1 DEF Outrun
      <3>2. Least(rs[r].unread + 1, Capacity + 1) \in 0 .. Capacity + 1
        BY <1>0, <1>2 DEF Least
      <3> HIDE DEF rs2
      <3> QED BY <2>1, <3>1, <3>2, <1>2 DEF ReaderStates
    <2>2. CASE ~(rs[r].component \in cs /\ journals[rs[r].component].open)
      <3>1. rs2[r] = rs[r]
        BY <2>2 DEF Outrun
      <3> QED BY <2>2, <3>1, <1>2
    <2> QED BY <2>1, <2>2
  <1>5. JournalsTyped(js2, rs2)
    <2>1. js2 \in [Components -> Rings]
      <3>1. js2 = [c \in Components |-> js2[c]]
        BY DEF Recorded
      <3> HIDE DEF js2
      <3> QED BY <3>1, <1>3
    <2>2. rs2 \in [Readers -> ReaderStates]
      <3>1. rs2 = [r \in Readers |-> rs2[r]]
        BY DEF Outrun
      <3> HIDE DEF rs2
      <3> QED BY <3>1, <1>4
    <2>3. \A r \in Readers : rs2[r].unread <= Capacity => js2[rs2[r].component].open
      <3> SUFFICES ASSUME NEW r \in Readers, rs2[r].unread <= Capacity
                   PROVE  js2[rs2[r].component].open
        OBVIOUS
      <3> HIDE DEF js2, rs2
      <3>1. js2[rs2[r].component].open = js[rs[r].component].open
        BY <1>2, <1>3, <1>4
      <3>2. rs[r].unread <= Capacity
        BY <1>0, <1>2, <1>4 DEF Least
      <3> QED BY <3>1, <3>2, <1>2
    <2> HIDE DEF js2, rs2
    <2> QED BY <2>1, <2>2, <2>3, <1>3 DEF JournalsTyped
  <1> HIDE DEF js2, rs2
  <1>6. ASSUME NEW r \in Readers, NEW c, c = rs[r].component, rs2[r].unread <= Len(js2[c].entries)
        PROVE  /\ rs[r].unread <= Len(js[c].entries)
               /\ Recent(js[c].entries, rs[r].unread) \subseteq Recent(js2[c].entries, rs2[r].unread)
               /\ c \in cs => e \in Recent(js2[c].entries, rs2[r].unread)
    <2> DEFINE s == js[c].entries
               n == rs[r].unread
    <2>1. /\ c \in Components /\ s \in Seq(Entities) /\ Len(s) \in 0 .. Capacity
          /\ n \in 0 .. Capacity + 1 /\ (n <= Capacity => js[c].open)
      BY <1>1, <1>2, <1>6
    <2>2. Len(js2[c].entries) <= Capacity /\ Len(js2[c].entries) \in Nat
      <3>1. js2[c].entries \in Seq(Entities)
        BY <2>1, <1>3 DEF Rings
      <3> QED BY <3>1, <2>1, <1>3, LenProperties
    <2>3. CASE c \in cs /\ js[c].open
      <3>1. js2[c].entries = Pushed(s, e)
        BY <2>1, <2>3, <1>3
      <3>2. rs2[r].unread = Least(n + 1, Capacity + 1)
        BY <2>3, <1>4, <1>6
      <3> HIDE DEF s, n
      <3>3. n \in Nat /\ rs2[r].unread = n + 1 /\ n + 1 <= Len(Pushed(s, e))
        BY <3>1, <3>2, <2>1, <2>2, <1>0, <1>6 DEF Least
      <3>4. /\ n <= Len(s) /\ Recent(s, n) \subseteq Recent(Pushed(s, e), n + 1)
            /\ e \in Recent(Pushed(s, e), n + 1)
        <4>1. s \in Seq(Entities) /\ Len(s) <= Capacity
          BY <2>1, <1>0
        <4>2. n <= Len(s)
          BY <4>1, <3>3, PushedRecent
        <4>3. e \in Recent(Pushed(s, e), n + 1)
          BY <4>1, <3>3, PushedRecent
        <4>4. Recent(s, n) \subseteq Recent(Pushed(s, e), n + 1)
          BY <4>1, <3>3, PushedRecent
        <4> QED BY <4>2, <4>3, <4>4
      <3>5. /\ n <= Len(s) /\ Recent(s, n) \subseteq Recent(js2[c].entries, rs2[r].unread)
            /\ e \in Recent(js2[c].entries, rs2[r].unread)
        BY <3>1, <3>3, <3>4
      <3> QED BY <3>5 DEF s, n
    <2>4. CASE ~(c \in cs /\ js[c].open)
      <3>1. js2[c].entries = s /\ rs2[r].unread = n
        BY <2>1, <2>4, <1>3, <1>4, <1>6
      <3>2. js[c].open
        BY <3>1, <2>1, <1>6, <1>0
      <3> QED BY <3>1, <3>2, <2>4, <1>6
    <2> QED BY <2>3, <2>4
  <1> QED BY <1>3, <1>4, <1>5, <1>6 DEF js2, rs2

-----------------------------------------------------------------------------
(* What the readers know *)

TableNow == [c \in Components |-> Table(c)]

\* A picture and a table say the same of everything but what is told.
Agree(rows, picture, told) ==
  \A x \in (DOMAIN rows \union DOMAIN picture) \ told :
    x \in DOMAIN rows /\ x \in DOMAIN picture /\ rows[x] = picture[x]

\* Every reader that is following, and that its ring still serves, is told of
\* whatever its picture has wrong.
Followed(js, rs, tab) ==
  \A r \in Readers :
    LET entries == js[rs[r].component].entries
    IN rs[r].phase = "follow" /\ rs[r].unread <= Len(entries) =>
         Agree(tab[rs[r].component], rs[r].picture, Recent(entries, rs[r].unread))

\* The tables of the components cs may differ in e, and in nothing else.
DifferAt(tab, tab2, e, cs) ==
  \A c \in Components : \A x : ~(c \in cs /\ x = e) =>
    /\ x \in DOMAIN tab2[c] <=> x \in DOMAIN tab[c]
    /\ x \in DOMAIN tab[c] => tab2[c][x] = tab[c][x]

\* A change that is recorded is one every reader is told of.
LEMMA RecordedFollowed ==
  ASSUME NEW js, NEW rs, JournalsTyped(js, rs), NEW e \in Entities, NEW cs,
         \A c \in Components : js[c].open = journals[c].open,
         NEW tab, NEW tab2, Followed(js, rs, tab), DifferAt(tab, tab2, e, cs)
  PROVE  Followed(Recorded(js, e, cs), Outrun(rs, cs), tab2)
  <1> DEFINE js2 == Recorded(js, e, cs)
             rs2 == Outrun(rs, cs)
  <1>1. ASSUME NEW r \in Readers, NEW c, c = rs[r].component
        PROVE  /\ c \in Components /\ rs2[r].component = c
               /\ rs2[r].phase = rs[r].phase /\ rs2[r].picture = rs[r].picture
               /\ rs2[r].unread <= Len(js2[c].entries) =>
                    /\ rs[r].unread <= Len(js[c].entries)
                    /\ Recent(js[c].entries, rs[r].unread)
                         \subseteq Recent(js2[c].entries, rs2[r].unread)
                    /\ c \in cs => e \in Recent(js2[c].entries, rs2[r].unread)
    <2>1. c \in Components
      BY <1>1 DEF JournalsTyped, ReaderStates
    <2> QED BY <1>1, <2>1, RecordedUnread
  <1> HIDE DEF js2, rs2
  <1> SUFFICES ASSUME NEW r \in Readers, NEW c, c = rs[r].component,
                      rs2[r].phase = "follow", rs2[r].unread <= Len(js2[c].entries)
               PROVE  Agree(tab2[c], rs[r].picture, Recent(js2[c].entries, rs2[r].unread))
    <2>1. \A r \in Readers : rs2[r].component = rs[r].component /\ rs2[r].picture = rs[r].picture
      BY <1>1
    <2> QED BY <2>1 DEF Followed, js2, rs2
  <1> DEFINE old == Recent(js[c].entries, rs[r].unread)
             new == Recent(js2[c].entries, rs2[r].unread)
  <1>2. c \in Components /\ old \subseteq new /\ (c \in cs => e \in new)
    BY <1>1
  <1>3. Agree(tab[c], rs[r].picture, old)
    BY <1>1 DEF Followed
  <1> HIDE DEF old, new
  <1>4. \A x : x \notin new => /\ x \in DOMAIN tab2[c] <=> x \in DOMAIN tab[c]
                               /\ x \in DOMAIN tab[c] => tab2[c][x] = tab[c][x]
    BY <1>2 DEF DifferAt
  <1> QED BY <1>2, <1>3, <1>4 DEF Agree, new

\* ReaderCurrent is what Followed says of the World's tables.
LEMMA FollowedMeans ==
  ASSUME JournalsTyped(journals, readers)
  PROVE  ReaderCurrent <=> Followed(journals, readers, TableNow)
  <1>1. ASSUME NEW r \in Readers
        PROVE  /\ readers[r].component \in Components
               /\ ~Behind(r) <=> readers[r].unread <= Len(journals[readers[r].component].entries)
               /\ ~Behind(r) => UnreadOf(r) = Recent(journals[readers[r].component].entries, readers[r].unread)
    <2>1. PICK c : c = readers[r].component
      OBVIOUS
    <2>2. PICK s : s = journals[c].entries
      OBVIOUS
    <2>3. PICK n : n = readers[r].unread
      OBVIOUS
    <2>4. c \in Components /\ s \in Seq(Entities) /\ n \in Nat
      <3>1. readers[r] \in ReaderStates
        BY DEF JournalsTyped
      <3>2. c \in Components /\ n \in 0 .. Capacity + 1
        BY <3>1, <2>1, <2>3 DEF ReaderStates
      <3>3. journals[c] \in Rings
        BY <3>2 DEF JournalsTyped
      <3> QED BY <3>2, <3>3, <2>2, CapacityAssumption DEF Rings
    <2>5. Len(s) \in Nat
      BY <2>4, LenProperties
    <2>6. Behind(r) <=> n > Len(s)
      BY <2>1, <2>2, <2>3 DEF Behind
    <2>7. ASSUME n <= Len(s) PROVE UnreadOf(r) = Recent(s, n)
      <3>1. n \in 0 .. Len(s)
        BY <2>4, <2>5, <2>7
      <3>2. UnreadOf(r) = ToSet(SubSeq(s, Len(s) - n + 1, Len(s)))
        BY <2>1, <2>2, <2>3 DEF UnreadOf
      <3> QED BY <3>1, <3>2, <2>4, UnreadRecent
    <2>8. n > Len(s) <=> ~(n <= Len(s))
      BY <2>4, <2>5
    <2> QED BY <2>1, <2>2, <2>3, <2>4, <2>6, <2>7, <2>8
  <1>2. \A r \in Readers : TableNow[readers[r].component] = Table(readers[r].component)
    BY <1>1 DEF TableNow
  <1> QED BY <1>1, <1>2 DEF ReaderCurrent, Followed, Agree

-----------------------------------------------------------------------------
(* What a step does to the tables *)

\* A table has an entry for whoever lives at an index, was given out, and has
\* the component, with the value of its row.
TablesExact ==
  \A c \in Components : \A x :
    /\ x \in DOMAIN Table(c) <=>
         x \in issued /\ x.index \in Live /\ x = HandleAt(x.index) /\ c \in slots[x.index].archetype
    /\ x \in DOMAIN Table(c) => Table(c)[x] = RowOf(slots, columns, x.index)[c]

LEMMA TablesAreExact == WorldInv => TablesExact
  <1> SUFFICES ASSUME WorldInv PROVE TablesExact
    OBVIOUS
  <1> SUFFICES ASSUME NEW c \in Components, NEW x
               PROVE  /\ x \in DOMAIN Table(c) <=>
                           /\ x \in issued /\ x.index \in Live
                           /\ x = HandleAt(x.index) /\ c \in slots[x.index].archetype
                      /\ x \in DOMAIN Table(c) => Table(c)[x] = RowOf(slots, columns, x.index)[c]
    BY DEF TablesExact
  <1>1. x \in DOMAIN Table(c) <=> x \in issued /\ IsAlive(x) /\ c \in slots[x.index].archetype
    BY DEF Table
  <1>2. x \in issued /\ IsAlive(x) => x.index \in Live /\ x = HandleAt(x.index)
    BY AliveIsLive DEF HandleAt
  <1>3. ASSUME x \in issued, x.index \in Live, x = HandleAt(x.index)
        PROVE  IsAlive(x)
    <2>1. x.index <= Len(slots)
      BY <1>3, WorldTypes
    <2>2. x.generation = slots[x.index].generation
      BY <1>3 DEF HandleAt
    <2> QED BY <2>1, <2>2 DEF IsAlive
  <1>4. ASSUME x \in DOMAIN Table(c)
        PROVE  Table(c)[x] = RowOf(slots, columns, x.index)[c]
    <2>1. Table(c)[x] = RowValues(slots[x.index])[c]
      BY <1>4 DEF Table
    <2>2. x.index \in Live
      BY <1>1, <1>2, <1>4
    <2> QED BY <2>1, <2>2, RowTyped
  <1> QED BY <1>1, <1>2, <1>3, <1>4

\* What the tables have for x before and after a step.
LEMMA TablesAround ==
  ASSUME WorldInv, WorldInv', NEW c \in Components, NEW x, NEW i, i = x.index
  PROVE  /\ x \in DOMAIN TableNow[c] <=>
              x \in issued /\ i \in Live /\ x = HandleAt(i) /\ c \in DOMAIN RowOf(slots, columns, i)
         /\ x \in DOMAIN TableNow[c] => TableNow[c][x] = RowOf(slots, columns, i)[c]
         /\ x \in DOMAIN TableNow'[c] <=>
              x \in issued' /\ i \in Live' /\ x = HandleAt(i)' /\ c \in DOMAIN RowOf(slots', columns', i)
         /\ x \in DOMAIN TableNow'[c] => TableNow'[c][x] = RowOf(slots', columns', i)[c]
  <1>1. TablesExact
    BY TablesAreExact
  <1>2. TablesExact'
    BY TablesAreExact, PTL
  <1>3. /\ x \in DOMAIN TableNow[c] <=>
             x \in issued /\ i \in Live /\ x = HandleAt(i) /\ c \in DOMAIN RowOf(slots, columns, i)
        /\ x \in DOMAIN TableNow[c] => TableNow[c][x] = RowOf(slots, columns, i)[c]
    BY <1>1 DEF TablesExact, TableNow, RowOf
  <1>4. /\ x \in DOMAIN TableNow'[c] <=>
             x \in issued' /\ i \in Live' /\ x = HandleAt(i)' /\ c \in DOMAIN RowOf(slots', columns', i)
        /\ x \in DOMAIN TableNow'[c] => TableNow'[c][x] = RowOf(slots', columns', i)[c]
    BY <1>2 DEF TablesExact, TableNow, RowOf
  <1> QED BY <1>3, <1>4

\* A step that concerns index i alone, and forgets no handle of another, leaves
\* the entries of every other.
OnlyAt(i) ==
  /\ OthersKept(i)
  /\ \A x : x.index # i => (x \in issued' <=> x \in issued)

LEMMA TablesKept ==
  ASSUME WorldInv, WorldInv', NEW i, OnlyAt(i), NEW c \in Components, NEW x, x.index # i
  PROVE  /\ x \in DOMAIN TableNow'[c] <=> x \in DOMAIN TableNow[c]
         /\ x \in DOMAIN TableNow[c] => TableNow'[c][x] = TableNow[c][x]
  <1>1. PICK j : j = x.index
    OBVIOUS
  <1>2. /\ x \in DOMAIN TableNow[c] <=>
             x \in issued /\ j \in Live /\ x = HandleAt(j) /\ c \in DOMAIN RowOf(slots, columns, j)
        /\ x \in DOMAIN TableNow[c] => TableNow[c][x] = RowOf(slots, columns, j)[c]
        /\ x \in DOMAIN TableNow'[c] <=>
             x \in issued' /\ j \in Live' /\ x = HandleAt(j)' /\ c \in DOMAIN RowOf(slots', columns', j)
        /\ x \in DOMAIN TableNow'[c] => TableNow'[c][x] = RowOf(slots', columns', j)[c]
    BY <1>1, TablesAround
  <1>3. j \in Live' <=> j \in Live
    BY <1>1 DEF OnlyAt, OthersKept
  <1>4. j \in Live => /\ HandleAt(j)' = HandleAt(j)
                      /\ RowOf(slots', columns', j) = RowOf(slots, columns, j)
    BY <1>1 DEF OnlyAt, OthersKept, HandleAt
  <1>5. x \in issued' <=> x \in issued
    BY <1>1 DEF OnlyAt
  <1> QED BY <1>2, <1>3, <1>4, <1>5

\* A value set, a component that comes or goes.
LEMMA UpdatedTold ==
  ASSUME WorldInv, WorldInv', NEW e \in Entities, NEW c \in Components, Updated(e, c)
  PROVE  DifferAt(TableNow, TableNow', e, {c})
  <1>1. PICK i : i = e.index
    OBVIOUS
  <1>2. /\ i \in Live /\ Live' = Live /\ issued' = issued /\ HandleAt(i) = e /\ HandleAt(i)' = e
        /\ OnlyAt(i)
    BY <1>1, EntitiesFields DEF Updated, HandleAt, OnlyAt
  <1>3. PICK old : old = RowOf(slots, columns, i)
    OBVIOUS
  <1>4. PICK new : new = RowOf(slots', columns', i)
    OBVIOUS
  <1>5. \A d \in Components \ {c} : /\ d \in DOMAIN new <=> d \in DOMAIN old
                                    /\ d \in DOMAIN old => new[d] = old[d]
    BY <1>1, <1>3, <1>4 DEF Updated
  <1> SUFFICES ASSUME NEW d \in Components, NEW x, ~(d \in {c} /\ x = e)
               PROVE  /\ x \in DOMAIN TableNow'[d] <=> x \in DOMAIN TableNow[d]
                      /\ x \in DOMAIN TableNow[d] => TableNow'[d][x] = TableNow[d][x]
    BY DEF DifferAt
  <1>6. CASE x.index # i
    BY <1>2, <1>6, TablesKept
  <1>7. CASE x.index = i
    <2>1. /\ x \in DOMAIN TableNow[d] <=>
               x \in issued /\ i \in Live /\ x = HandleAt(i) /\ d \in DOMAIN old
          /\ x \in DOMAIN TableNow[d] => TableNow[d][x] = old[d]
          /\ x \in DOMAIN TableNow'[d] <=>
               x \in issued' /\ i \in Live' /\ x = HandleAt(i)' /\ d \in DOMAIN new
          /\ x \in DOMAIN TableNow'[d] => TableNow'[d][x] = new[d]
      BY <1>3, <1>4, <1>7, TablesAround
    <2> QED BY <2>1, <1>2, <1>5
  <1> QED BY <1>6, <1>7

\* An entity that goes.
LEMMA DespawnedTold ==
  ASSUME WorldInv, WorldInv', NEW e \in Entities, Despawned(e)
  PROVE  DifferAt(TableNow, TableNow', e, slots[e.index].archetype)
  <1>1. PICK i : i = e.index
    OBVIOUS
  <1>2. i \in Live /\ i \notin Live' /\ issued' = issued /\ HandleAt(i) = e /\ OnlyAt(i)
    BY <1>1, EntitiesFields DEF Despawned, HandleAt, OnlyAt
  <1> SUFFICES ASSUME NEW d \in Components, NEW x, ~(d \in slots[i].archetype /\ x = e)
               PROVE  /\ x \in DOMAIN TableNow'[d] <=> x \in DOMAIN TableNow[d]
                      /\ x \in DOMAIN TableNow[d] => TableNow'[d][x] = TableNow[d][x]
    BY <1>1 DEF DifferAt
  <1>3. CASE x.index # i
    BY <1>2, <1>3, TablesKept
  <1>4. CASE x.index = i
    <2>1. /\ x \in DOMAIN TableNow[d] =>
               x = HandleAt(i) /\ d \in DOMAIN RowOf(slots, columns, i)
          /\ x \in DOMAIN TableNow'[d] => i \in Live'
      BY <1>4, TablesAround
    <2>2. DOMAIN RowOf(slots, columns, i) = slots[i].archetype
      BY DEF RowOf
    <2> QED BY <2>1, <2>2, <1>2
  <1> QED BY <1>3, <1>4

\* An entity that comes, where nobody lives.
LEMMA BornTold ==
  ASSUME WorldInv, WorldInv', NEW e \in Entities, NEW bundle, OnlyAt(e.index),
         e.index \notin Live, slots'[e.index].generation = e.generation,
         RowOf(slots', columns', e.index) = bundle
  PROVE  DifferAt(TableNow, TableNow', e, DOMAIN bundle)
  <1>1. PICK i : i = e.index
    OBVIOUS
  <1>2. i \notin Live /\ HandleAt(i)' = e /\ OnlyAt(i) /\ RowOf(slots', columns', i) = bundle
    BY <1>1, EntitiesFields DEF HandleAt
  <1> SUFFICES ASSUME NEW d \in Components, NEW x, ~(d \in DOMAIN bundle /\ x = e)
               PROVE  /\ x \in DOMAIN TableNow'[d] <=> x \in DOMAIN TableNow[d]
                      /\ x \in DOMAIN TableNow[d] => TableNow'[d][x] = TableNow[d][x]
    BY DEF DifferAt
  <1>3. CASE x.index # i
    BY <1>2, <1>3, TablesKept
  <1>4. CASE x.index = i
    <2>1. /\ x \in DOMAIN TableNow[d] => i \in Live
          /\ x \in DOMAIN TableNow'[d] =>
               x = HandleAt(i)' /\ d \in DOMAIN RowOf(slots', columns', i)
      BY <1>4, TablesAround
    <2> QED BY <2>1, <1>2
  <1> QED BY <1>3, <1>4

-----------------------------------------------------------------------------
(* Every change is recorded *)

\* Rings and readers are in order, and no reader is wrong without being told.
Journaled == JournalsTyped(journals, readers) /\ Followed(journals, readers, TableNow)

LEMMA RecordStep ==
  ASSUME Journaled, NEW e \in Entities, NEW cs, Record(e, cs),
         DifferAt(TableNow, TableNow', e, cs)
  PROVE  Journaled'
  <1>1. journals' = Recorded(journals, e, cs) /\ readers' = Outrun(readers, cs)
    BY DEF Record
  <1>2. JournalsTyped(Recorded(journals, e, cs), Outrun(readers, cs))
    BY RecordedUnread DEF Journaled
  <1>3. Followed(Recorded(journals, e, cs), Outrun(readers, cs), TableNow')
    <2>1. PICK tab2 : tab2 = TableNow'
      OBVIOUS
    <2>2. Followed(Recorded(journals, e, cs), Outrun(readers, cs), tab2)
      BY <2>1, RecordedFollowed DEF Journaled
    <2> QED BY <2>1, <2>2
  <1> QED BY <1>1, <1>2, <1>3 DEF Journaled

\* force_spawn_in_archetype over an occupant records its despawn, then what was
\* written of the newcomer: in between nobody is at the index.
LEMMA ReplaceTold ==
  ASSUME WorldInv, WorldInv', Journaled, NEW e \in Entities, NEW bundle, OnlyAt(e.index),
         e.index \in Live, slots'[e.index].generation = e.generation,
         RowOf(slots', columns', e.index) = bundle,
         NEW occupant, occupant = [e EXCEPT !.generation = slots[e.index].generation],
         NEW types, types = slots[e.index].archetype,
         journals' = Recorded(Recorded(journals, occupant, types), e, DOMAIN bundle),
         readers' = Outrun(Outrun(readers, types), DOMAIN bundle)
  PROVE  Journaled'
  <1>1. PICK i : i = e.index
    OBVIOUS
  <1>2. /\ i \in Live /\ HandleAt(i)' = e /\ OnlyAt(i) /\ RowOf(slots', columns', i) = bundle
        /\ HandleAt(i) = occupant /\ types = slots[i].archetype
    BY <1>1, EntitiesFields DEF HandleAt, Entities
  <1>3. occupant \in Entities
    <2>1. i \in 1 .. MaxSlots
      BY <1>1, EntitiesFields
    <2>2. slots[i].generation \in 0 .. GenMod - 1
      BY <1>2, WorldTypes DEF Slots
    <2> QED BY <2>1, <2>2, <1>2 DEF HandleAt, Entities
  <1> DEFINE others(c) == {x \in DOMAIN TableNow[c] : x.index # i}
             mid == [c \in Components |-> [x \in others(c) |-> TableNow[c][x]]]
  <1>4. DifferAt(TableNow, mid, occupant, types)
    <2> SUFFICES ASSUME NEW d \in Components, NEW x, ~(d \in types /\ x = occupant)
                 PROVE  /\ x \in DOMAIN mid[d] <=> x \in DOMAIN TableNow[d]
                        /\ x \in DOMAIN TableNow[d] => mid[d][x] = TableNow[d][x]
      BY DEF DifferAt
    <2>1. ASSUME x.index = i PROVE x \notin DOMAIN TableNow[d]
      <3>1. x \in DOMAIN TableNow[d] =>
              x = HandleAt(i) /\ d \in DOMAIN RowOf(slots, columns, i)
        BY <2>1, TablesAround
      <3>2. DOMAIN RowOf(slots, columns, i) = types
        BY <1>2 DEF RowOf
      <3> QED BY <3>1, <3>2, <1>2
    <2> HIDE DEF TableNow
    <2> QED BY <2>1
  <1>5. DifferAt(mid, TableNow', e, DOMAIN bundle)
    <2> SUFFICES ASSUME NEW d \in Components, NEW x, ~(d \in DOMAIN bundle /\ x = e)
                 PROVE  /\ x \in DOMAIN TableNow'[d] <=> x \in DOMAIN mid[d]
                        /\ x \in DOMAIN mid[d] => TableNow'[d][x] = mid[d][x]
      BY DEF DifferAt
    <2>1. x \in DOMAIN mid[d] <=> x.index # i /\ x \in DOMAIN TableNow[d]
      OBVIOUS
    <2>2. CASE x.index # i
      <3>1. /\ x \in DOMAIN TableNow'[d] <=> x \in DOMAIN TableNow[d]
            /\ x \in DOMAIN TableNow[d] => TableNow'[d][x] = TableNow[d][x]
        BY <1>2, <2>2, TablesKept
      <3> QED BY <3>1, <2>1, <2>2
    <2>3. CASE x.index = i
      <3>1. x \in DOMAIN TableNow'[d] =>
              x = HandleAt(i)' /\ d \in DOMAIN RowOf(slots', columns', i)
        BY <2>3, TablesAround
      <3> QED BY <3>1, <1>2, <2>1, <2>3
    <2> QED BY <2>2, <2>3
  <1> HIDE DEF mid, others
  <1>6. PICK js : js = Recorded(journals, occupant, types)
    OBVIOUS
  <1>7. PICK rs : rs = Outrun(readers, types)
    OBVIOUS
  <1>8. /\ JournalsTyped(js, rs) /\ \A c \in Components : js[c].open = journals[c].open
        /\ Followed(js, rs, mid)
    <2>1. JournalsTyped(js, rs) /\ \A c \in Components : js[c].open = journals[c].open
      BY <1>3, <1>6, <1>7, RecordedUnread DEF Journaled
    <2>2. Followed(js, rs, mid)
      BY <1>3, <1>4, <1>6, <1>7, RecordedFollowed DEF Journaled
    <2> QED BY <2>1, <2>2
  <1>9. JournalsTyped(Recorded(js, e, DOMAIN bundle), Outrun(rs, DOMAIN bundle))
    BY <1>8, RecordedUnread
  <1>10. Followed(Recorded(js, e, DOMAIN bundle), Outrun(rs, DOMAIN bundle), TableNow')
    <2>1. PICK tab2 : tab2 = TableNow'
      OBVIOUS
    <2>2. DifferAt(mid, tab2, e, DOMAIN bundle)
      BY <1>5, <2>1
    <2>3. Followed(Recorded(js, e, DOMAIN bundle), Outrun(rs, DOMAIN bundle), tab2)
      BY <1>8, <2>2, RecordedFollowed
    <2> QED BY <2>1, <2>3
  <1> QED BY <1>6, <1>7, <1>9, <1>10 DEF Journaled

\* Whatever an operation changes, it records.
LEMMA NextTold ==
  ASSUME WorldInv, Journaled, Filtered = FALSE, FieldsSent = TRUE, Next
  PROVE  WorldInv' /\ Journaled'
  <1>1. ASSUME NEW e \in Entities, NEW bundle \in Bundles(Components), Spawn(e, bundle)
        PROVE  WorldInv' /\ Journaled'
    <2>1. issued' = issued \union {e} /\ Record(e, DOMAIN bundle)
      BY <1>1 DEF Spawn
    <2>2. /\ WorldInv' /\ e.index \notin Live /\ OthersKept(e.index)
          /\ slots'[e.index].generation = e.generation
          /\ RowOf(slots', columns', e.index) = bundle
      BY <1>1, SpawnStep
    <2>3. OnlyAt(e.index)
      BY <2>1, <2>2 DEF OnlyAt
    <2> QED BY <2>1, <2>2, <2>3, BornTold, RecordStep
  <1>2. ASSUME NEW e \in issued, Despawn(e)
        PROVE  WorldInv' /\ Journaled'
    <2>1. issued' = issued /\ Record(e, slots[e.index].archetype)
      BY <1>2 DEF Despawn
    <2>2. WorldInv' /\ e \in Entities /\ Despawned(e)
      BY <1>2, <2>1, DespawnStep DEF Despawned
    <2> QED BY <2>1, <2>2, DespawnedTold, RecordStep
  <1>3. ASSUME NEW e \in issued, NEW c \in Components,
               \/ RemoveComponent(e, c)
               \/ \E v \in Values : \/ InsertMigrating(e, c, v) \/ InsertInPlace(e, c, v)
                                    \/ MutWrite(e, c, v) \/ PeerWrite(e, c, v)
        PROVE  WorldInv' /\ Journaled'
    <2>1. Record(e, {c})
      BY <1>3 DEF RemoveComponent, InsertMigrating, InsertInPlace, MutWrite, PeerWrite
    <2>2. WorldInv' /\ e \in Entities /\ Updated(e, c)
      BY <1>3, RemoveKind, InsertKind, WriteKind
    <2> QED BY <2>1, <2>2, UpdatedTold, RecordStep
  <1>4. ASSUME NEW e \in PeerEntities, NEW bundle \in Bundles(PeerComponents), PeerSpawn(e, bundle)
        PROVE  WorldInv' /\ Journaled'
    <2>1. e \in Entities /\ bundle \in Bundles(Components)
      BY WorldAssumption DEF Bundles
    <2>2. issued' = {x \in issued : x.index = e.index => x.generation < e.generation} \union {e}
      BY <1>4 DEF PeerSpawn
    <2>3. \A x : x.index # e.index => (x \in issued' <=> x \in issued)
      BY <2>2
    <2>4. CASE Arrive(e, bundle)
      <3>1. Record(e, DOMAIN bundle)
        BY <2>4 DEF Arrive
      <3>2. /\ WorldInv' /\ e.index \notin Live /\ OthersKept(e.index)
            /\ slots'[e.index].generation = e.generation
            /\ RowOf(slots', columns', e.index) = bundle
        BY <2>1, <2>2, <2>4, ArriveStep
      <3>3. OnlyAt(e.index)
        BY <2>3, <3>2 DEF OnlyAt
      <3> QED BY <2>1, <3>1, <3>2, <3>3, BornTold, RecordStep
    <2>5. CASE Replace(e, bundle)
      <3>1. PICK types : types = slots[e.index].archetype
        OBVIOUS
      <3>2. PICK occupant : occupant = [e EXCEPT !.generation = slots[e.index].generation]
        OBVIOUS
      <3>3. /\ journals' = Recorded(Recorded(journals, occupant, types), e, DOMAIN bundle)
            /\ readers' = Outrun(Outrun(readers, types), DOMAIN bundle)
        BY <2>5, <3>1, <3>2 DEF Replace
      <3>4. /\ WorldInv' /\ e.index \in Live /\ OthersKept(e.index)
            /\ slots'[e.index].generation = e.generation
            /\ RowOf(slots', columns', e.index) = bundle
        BY <2>1, <2>2, <2>5, ReplaceStep
      <3>5. OnlyAt(e.index)
        BY <2>3, <3>4 DEF OnlyAt
      <3> QED BY <2>1, <3>1, <3>2, <3>3, <3>4, <3>5, ReplaceTold
    <2> QED BY <1>4, <2>4, <2>5 DEF PeerSpawn
  <1>5. PeerComponents \subseteq Components
    BY WorldAssumption
  <1>6. CASE Local
    BY <1>1, <1>2, <1>3, <1>6 DEF Local
  <1>7. CASE Peer
    <2>1. PICK e \in PeerEntities :
            \/ \E bundle \in Bundles(PeerComponents) : PeerSpawn(e, bundle)
            \/ /\ Filtered \/ e \in issued
               /\ \/ Despawn(e)
                  \/ \E c \in PeerComponents, v \in Values : PeerWrite(e, c, v)
      BY <1>7 DEF Peer
    <2> QED BY <2>1, <1>2, <1>3, <1>4, <1>5
  <1> QED BY <1>6, <1>7 DEF Next

-----------------------------------------------------------------------------
(* What the readers do *)

LEMMA TableTyped ==
  ASSUME WorldInv, NEW c \in Components
  PROVE  Table(c) \in Pictures
  <1> DEFINE tab == Table(c)
             known == DOMAIN tab
  <1>1. tab = [x \in known |-> tab[x]]
    BY DEF Table
  <1>2. \A x \in known : x \in issued /\ x.index \in Live /\ c \in slots[x.index].archetype
                         /\ tab[x] = RowOf(slots, columns, x.index)[c]
    BY TablesAreExact DEF TablesExact
  <1>3. known \in SUBSET Entities
    BY <1>2 DEF WorldInv, WorldTypeOK
  <1>4. \A x \in known : tab[x] \in Values
    BY <1>2, RowTyped
  <1> HIDE DEF tab, known
  <1>5. tab \in [known -> Values]
    BY <1>1, <1>4
  <1> QED BY <1>3, <1>5 DEF Pictures, tab

\* The rings keep their entries; some may be opened.
RingsKept(js) ==
  /\ js \in [Components -> Rings]
  /\ \A c \in Components : js[c].entries = journals[c].entries /\ (journals[c].open => js[c].open)

LEMMA RingOpened ==
  ASSUME JournalsTyped(journals, readers), NEW c \in Components,
         NEW js, js = [journals EXCEPT ![c].open = TRUE]
  PROVE  RingsKept(js) /\ js[c].open
  <1>1. journals \in [Components -> Rings]
    BY DEF JournalsTyped
  <1>2. PICK ring : ring = [journals[c] EXCEPT !.open = TRUE]
    OBVIOUS
  <1>3. ring \in Rings /\ ring.open /\ ring.entries = journals[c].entries
    BY <1>1, <1>2 DEF Rings
  <1>4. js = [journals EXCEPT ![c] = ring]
    BY <1>2
  <1> QED BY <1>1, <1>3, <1>4 DEF RingsKept

LEMMA ReaderFields ==
  ASSUME NEW c \in Components, NEW unread \in 0 .. Capacity + 1,
         NEW phase \in {"scan", "follow"}, NEW picture \in Pictures
  PROVE  /\ Reader(c, unread, phase, picture) \in ReaderStates
         /\ Reader(c, unread, phase, picture).component = c
         /\ Reader(c, unread, phase, picture).unread = unread
         /\ Reader(c, unread, phase, picture).phase = phase
         /\ Reader(c, unread, phase, picture).picture = picture
  BY DEF Reader, ReaderStates

\* One reader goes to state st, while the World stands still.
LEMMA ReaderMoves ==
  ASSUME Journaled, NEW r \in Readers, RingsKept(journals'), NEW st \in ReaderStates,
         readers' = [readers EXCEPT ![r] = st],
         st.unread <= Capacity => journals'[st.component].open,
         st.phase = "follow" /\ st.unread <= Len(journals[st.component].entries) =>
           Agree(TableNow[st.component], st.picture,
                 Recent(journals[st.component].entries, st.unread)),
         TableNow' = TableNow
  PROVE  Journaled'
  <1>1. /\ readers' \in [Readers -> ReaderStates]
        /\ readers'[r] = st /\ \A q \in Readers \ {r} : readers'[q] = readers[q]
        /\ \A q \in Readers : readers[q].component \in Components /\ st.component \in Components
    BY DEF Journaled, JournalsTyped, ReaderStates
  <1>2. JournalsTyped(journals', readers')
    <2>1. \A c \in Components : Len(journals'[c].entries) <= Capacity
      BY DEF Journaled, JournalsTyped, RingsKept
    <2>2. ASSUME NEW q \in Readers, readers'[q].unread <= Capacity
          PROVE  journals'[readers'[q].component].open
      <3>1. CASE q = r
        BY <3>1, <2>2, <1>1
      <3>2. CASE q # r
        BY <3>2, <2>2, <1>1 DEF Journaled, JournalsTyped, RingsKept
      <3> QED BY <3>1, <3>2
    <2> QED BY <2>1, <2>2, <1>1 DEF JournalsTyped, RingsKept
  <1>3. Followed(journals', readers', TableNow)
    <2> SUFFICES ASSUME NEW q \in Readers, NEW c, c = readers'[q].component,
                        readers'[q].phase = "follow",
                        readers'[q].unread <= Len(journals'[c].entries)
                 PROVE  Agree(TableNow[c], readers'[q].picture,
                              Recent(journals'[c].entries, readers'[q].unread))
      BY DEF Followed
    <2>1. c \in Components /\ journals'[c].entries = journals[c].entries
      BY <1>1 DEF RingsKept
    <2>2. CASE q = r
      BY <2>1, <2>2, <1>1
    <2>3. CASE q # r
      <3>1. readers'[q] = readers[q] /\ c = readers[q].component
        BY <2>3, <1>1
      <3> QED BY <3>1, <2>1 DEF Journaled, Followed
    <2> QED BY <2>2, <2>3
  <1> QED BY <1>2, <1>3 DEF Journaled

\* read, Complete: a picture looked up where it was told, and right elsewhere, is
\* right.
LEMMA LookedUp ==
  ASSUME NEW rows \in Pictures, NEW picture \in Pictures, NEW named, Agree(rows, picture, named),
         NEW now, now = [x \in (DOMAIN picture \ named) \union (DOMAIN rows \intersect named) |->
                           IF x \in named THEN rows[x] ELSE picture[x]]
  PROVE  now \in Pictures /\ \A told : Agree(rows, now, told)
  <1>1. /\ DOMAIN rows \subseteq Entities /\ DOMAIN picture \subseteq Entities
        /\ \A x \in DOMAIN rows : rows[x] \in Values
        /\ \A x \in DOMAIN picture : picture[x] \in Values
    BY DEF Pictures
  <1>2. PICK known : known = (DOMAIN picture \ named) \union (DOMAIN rows \intersect named)
    OBVIOUS
  <1>3. now = [x \in known |-> IF x \in named THEN rows[x] ELSE picture[x]] /\ known \in SUBSET Entities
    BY <1>1, <1>2
  <1>4. now \in [known -> Values]
    BY <1>1, <1>2, <1>3
  <1>5. Agree(rows, now, {})
    BY <1>2, <1>3 DEF Agree
  <1> QED BY <1>3, <1>4, <1>5 DEF Pictures, Agree

LEMMA FollowKeeps ==
  ASSUME WorldInv, Journaled, Follow
  PROVE  WorldInv' /\ Journaled'
  <1>1. WorldInv'
    BY StoreStays DEF Follow, storeVars
  <1>2. TableNow' = TableNow
    BY DEF Follow, TableNow, Table, IsAlive, RowValues
  <1>3. PICK r \in Readers :
          \/ \E c \in Components : Open(r, c)
          \/ Scan(r, Table(readers[r].component))
          \/ ReadOverflowed(r)
          \/ ReadComplete(r, Table(readers[r].component))
    BY DEF Follow
  <1>4. PICK c0 : c0 = readers[r].component
    OBVIOUS
  <1>5. PICK n : n = readers[r].unread
    OBVIOUS
  <1>6. PICK picture : picture = readers[r].picture
    OBVIOUS
  <1>7. /\ c0 \in Components /\ n \in 0 .. Capacity + 1 /\ picture \in Pictures
        /\ (n <= Capacity => journals[c0].open) /\ Len(journals[c0].entries) <= Capacity
        /\ Len(journals[c0].entries) \in Nat
        /\ Table(c0) = TableNow[c0] /\ Table(c0) \in Pictures
        /\ RingsKept(journals) /\ readers \in [Readers -> ReaderStates]
        /\ Capacity \in Nat \ {0} /\ 0 \in 0 .. Capacity + 1 /\ 0 <= Capacity
    <2>1. readers[r] \in ReaderStates /\ journals \in [Components -> Rings] /\ readers \in [Readers -> ReaderStates]
      BY DEF Journaled, JournalsTyped
    <2>2. c0 \in Components /\ n \in 0 .. Capacity + 1 /\ picture \in Pictures
      BY <2>1, <1>4, <1>5, <1>6 DEF ReaderStates
    <2>3. (n <= Capacity => journals[c0].open) /\ Len(journals[c0].entries) <= Capacity
      BY <2>2, <1>4, <1>5 DEF Journaled, JournalsTyped
    <2>4. Len(journals[c0].entries) \in Nat
      BY <2>1, <2>2, LenProperties DEF Rings
    <2>5. Table(c0) = TableNow[c0] /\ Table(c0) \in Pictures
      BY <2>2, TableTyped DEF TableNow
    <2>6. RingsKept(journals)
      BY <2>1 DEF RingsKept
    <2>7. Capacity \in Nat \ {0} /\ 0 \in 0 .. Capacity + 1 /\ 0 <= Capacity
      BY CapacityAssumption
    <2> QED BY <2>1, <2>2, <2>3, <2>4, <2>5, <2>6, <2>7
  <1>8. ASSUME NEW c \in Components, Open(r, c) PROVE Journaled'
    <2>1. Nothing \in Pictures
      <3>1. Nothing \in [{} -> Values] /\ {} \in SUBSET Entities
        BY DEF Nothing
      <3> QED BY <3>1 DEF Pictures
    <2>2. PICK st : st = Reader(c, 0, "scan", Nothing)
      OBVIOUS
    <2>3. st \in ReaderStates /\ st.component = c /\ st.phase = "scan"
      BY <2>1, <2>2, <1>7, ReaderFields
    <2>4. RingsKept(journals') /\ journals'[c].open
      BY <1>8, RingOpened DEF Open, Journaled
    <2>5. readers' = [readers EXCEPT ![r] = st]
      BY <1>8, <2>2 DEF Open
    <2>6. "scan" # "follow"
      OBVIOUS
    <2> QED BY <2>3, <2>4, <2>5, <2>6, <1>2, ReaderMoves
  <1>9. ASSUME Scan(r, Table(c0)) PROVE Journaled'
    <2>1. PICK st : st = Reader(c0, n, "follow", Table(c0))
      OBVIOUS
    <2>2. st \in ReaderStates /\ st.component = c0 /\ st.unread = n /\ st.picture = TableNow[c0]
      BY <2>1, <1>7, ReaderFields
    <2>3. readers' = [readers EXCEPT ![r] = st] /\ journals' = journals
      BY <1>9, <2>1, <1>4, <1>5, <1>7 DEF Scan
    <2>4. \A told : Agree(TableNow[c0], st.picture, told)
      BY <2>2 DEF Agree
    <2> QED BY <2>2, <2>3, <2>4, <1>2, <1>7, ReaderMoves
  <1>10. ASSUME ReadOverflowed(r) PROVE Journaled'
    <2>1. PICK st : st = Reader(c0, 0, "scan", picture)
      OBVIOUS
    <2>2. st \in ReaderStates /\ st.component = c0 /\ st.phase = "scan"
      BY <2>1, <1>7, ReaderFields
    <2>3. readers' = [readers EXCEPT ![r] = st]
      BY <1>10, <2>1, <1>4, <1>6, <1>7 DEF ReadOverflowed
    <2>4. RingsKept(journals') /\ journals'[c0].open
      BY <1>10, <1>4, <1>7, RingOpened DEF ReadOverflowed, Journaled
    <2>5. "scan" # "follow"
      OBVIOUS
    <2> QED BY <2>2, <2>3, <2>4, <2>5, <1>2, ReaderMoves
  <1>11. ASSUME ReadComplete(r, Table(c0)) PROVE Journaled'
    <2>1. PICK named : named = UnreadOf(r)
      OBVIOUS
    <2>2. PICK now : now = [x \in (DOMAIN picture \ named) \union (DOMAIN Table(c0) \intersect named) |->
                              IF x \in named THEN Table(c0)[x] ELSE picture[x]]
      OBVIOUS
    <2>3. PICK st : st = Reader(c0, 0, "follow", now)
      OBVIOUS
    <2>4. /\ readers[r].phase = "follow" /\ ~Behind(r) /\ journals' = journals
          /\ readers' = [readers EXCEPT ![r] = st]
      BY <1>11, <2>1, <2>2, <2>3, <1>4, <1>6, <1>7 DEF ReadComplete
    <2>5. Agree(Table(c0), picture, named)
      <3>1. ReaderCurrent
        BY FollowedMeans DEF Journaled
      <3> QED BY <3>1, <2>1, <2>4, <1>4, <1>6 DEF ReaderCurrent, Agree
    <2>6. now \in Pictures /\ \A told : Agree(Table(c0), now, told)
      BY <2>2, <2>5, <1>7, LookedUp
    <2>7. st \in ReaderStates /\ st.component = c0 /\ st.unread = 0 /\ st.picture = now
      BY <2>3, <2>6, <1>7, ReaderFields
    <2>8. journals[c0].open
      BY <2>4, <1>4, <1>5, <1>7 DEF Behind
    <2> QED BY <2>4, <2>6, <2>7, <2>8, <1>2, <1>7, ReaderMoves
  <1> QED BY <1>1, <1>3, <1>4, <1>8, <1>9, <1>10, <1>11

\* Readers begin with the cursors of some other World.
LEMMA JournalStart == Init => Journaled
  <1> SUFFICES ASSUME Init PROVE Journaled
    OBVIOUS
  <1>1. PICK watch \in [Readers -> Components] : JournalInit(watch)
    BY DEF Init
  <1>2. /\ journals = [c \in Components |-> [open |-> FALSE, entries |-> <<>>]]
        /\ readers = [r \in Readers |-> Reader(watch[r], Capacity + 1, "follow", Nothing)]
    BY <1>1 DEF JournalInit
  <1>3. /\ Capacity \in Nat \ {0} /\ Capacity + 1 \in 0 .. Capacity + 1
        /\ ~(Capacity + 1 <= Capacity) /\ ~(Capacity + 1 <= 0) /\ 0 <= Capacity
    BY CapacityAssumption
  <1>4. Nothing \in Pictures
    <2>1. Nothing \in [{} -> Values] /\ {} \in SUBSET Entities
      BY DEF Nothing
    <2> QED BY <2>1 DEF Pictures
  <1>5. \A c \in Components : journals[c] \in Rings /\ Len(journals[c].entries) = 0
    <2>1. <<>> \in Seq(Entities) /\ Len(<<>>) = 0
      BY EmptySeq
    <2> QED BY <2>1, <1>2 DEF Rings
  <1>6. ASSUME NEW r \in Readers
        PROVE  /\ readers[r] \in ReaderStates /\ readers[r].unread = Capacity + 1
               /\ readers[r].component \in Components
    <2>1. PICK st : st = Reader(watch[r], Capacity + 1, "follow", Nothing)
      OBVIOUS
    <2>2. st \in ReaderStates /\ st.unread = Capacity + 1 /\ st.component = watch[r]
      BY <2>1, <1>3, <1>4, ReaderFields
    <2>3. readers[r] = st
      BY <2>1, <1>2
    <2> QED BY <2>2, <2>3
  <1>7. journals \in [Components -> Rings] /\ readers \in [Readers -> ReaderStates]
    BY <1>2, <1>5, <1>6
  <1> QED BY <1>3, <1>5, <1>6, <1>7 DEF Journaled, JournalsTyped, Followed

\* However changes, reads, overflows and rescans interleave, for any capacity of
\* the rings, any readers and any component types, a reader that keeps to its
\* protocol is never wrong about an entity without its next read naming it or
\* reporting an overflow (change_journal.rs:20, 185).  A peer sends updates only
\* for what it spawned here, and its spawns come with their fields.
THEOREM ReadersStayCurrent ==
  ASSUME Filtered = FALSE, FieldsSent = TRUE PROVE FollowedSpec => []ReaderCurrent
  <1> DEFINE Inv == WorldInv /\ Journaled
  <1>1. Init => Inv
    BY InitInv, JournalStart
  <1>2. Inv /\ [FollowedNext]_worldVars => Inv'
    <2> SUFFICES ASSUME Inv, [FollowedNext]_worldVars PROVE Inv'
      OBVIOUS
    <2>1. CASE Next
      BY <2>1, NextTold
    <2>2. CASE Follow
      BY <2>2, FollowKeeps
    <2>3. CASE UNCHANGED worldVars
      <3>1. WorldInv'
        BY <2>3, StutterInv
      <3>2. TableNow' = TableNow
        BY <2>3 DEF worldVars, TableNow, Table, IsAlive, RowValues
      <3>3. journals' = journals /\ readers' = readers
        BY <2>3 DEF worldVars
      <3> QED BY <3>1, <3>2, <3>3 DEF Journaled
    <2> QED BY <2>1, <2>2, <2>3 DEF FollowedNext
  <1>3. Inv => ReaderCurrent
    BY FollowedMeans DEF Journaled
  <1> HIDE DEF Inv
  <1> QED BY <1>1, <1>2, <1>3, PTL DEF FollowedSpec

============================================================================

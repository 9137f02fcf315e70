-------------------------- MODULE DataLinkAgeProofs --------------------------
(***************************************************************************)
(* Proofs about the reassembly table of DataLink, of any size: the orders   *)
(* that dll_reorder_rx_table leaves are the order in which the entries were *)
(* used, so that the entry given up for a new source is the one that has    *)
(* waited longest.  The argument is that of a row of N places in which an   *)
(* entry at place 0 pushes those before the first empty place: N entries    *)
(* cannot take N + 1 places, so there is one.                              *)
(***************************************************************************)
EXTENDS DataLinkProofs, FiniteSetTheorems

(* No two entries in use have one order. *)
Distinct(t) == \A i, j \in Used(t) : t[i].order = t[j].order => i = j

AgeInv ==
  /\ older \subseteq Slot \X Slot
  /\ OrderIsAge
  /\ Distinct(table)

(* The table when an entry has just been used: it has order 0. *)
Row(t, i) ==
  /\ t \in [Slot -> Entry] /\ i \in Used(t)
  /\ Distinct(t)
  /\ t[i].order = 0
  /\ \A j \in Used(t) : j # i => t[j].order \in 1 .. DLL_RX_TABLE_SIZE

(* An order above k that no entry has. *)
Gap(t, k) ==
  \E n \in k + 1 .. DLL_RX_TABLE_SIZE : \A j \in Used(t) : t[j].order # n

-----------------------------------------------------------------------------
(* Counting slots and orders *)

LEMMA CountSlots == IsFiniteSet(Slot) /\ Cardinality(Slot) = DLL_RX_TABLE_SIZE
<1>1. 0 \in Int /\ DLL_RX_TABLE_SIZE - 1 \in Int /\ DLL_RX_TABLE_SIZE - 1 >= 0
  BY Sizes
<1>2. IsFiniteSet(Slot) /\ Cardinality(Slot) = (DLL_RX_TABLE_SIZE - 1) - 0 + 1
  BY <1>1, FS_Interval DEF Slot
<1> QED
  BY <1>2, Sizes

(* A set of slots has a least one. *)
LEMMA LeastExists ==
  ASSUME NEW S, S \subseteq Slot, S # {}
  PROVE  Least(S) \in S
<1>1. PICK x \in S : \A y \in S : ~(<<y, x>> \in OpToRel(<, Nat))
  BY Slots, NatLessThanWellFounded, WFMin
<1>2. \A y \in S : x <= y
  <2>1. ASSUME NEW y \in S, y < x
        PROVE  FALSE
    <3>1. <<y, x>> \in Nat \X Nat
      BY Slots
    <3>2. <<y, x>> \in OpToRel(<, Nat)
      BY <2>1, <3>1 DEF OpToRel
    <3> QED
      BY <1>1, <3>2
  <2> QED
    BY <2>1, Slots
<1> QED
  BY <1>2 DEF Least

(* There is an empty place above an entry at place 0. *)
LEMMA GapAboveZero ==
  ASSUME NEW t, NEW i, Row(t, i)
  PROVE  Gap(t, 0)
<1> SUFFICES ASSUME ~Gap(t, 0)
             PROVE  FALSE
  OBVIOUS
<1> DEFINE at(n) == CHOOSE j \in Used(t) : t[j].order = n
           f == [n \in 0 .. DLL_RX_TABLE_SIZE |-> at(n)]
<1>1. ASSUME NEW n \in 0 .. DLL_RX_TABLE_SIZE
      PROVE  \E j \in Used(t) : t[j].order = n
  <2>1. CASE n = 0
    BY <2>1 DEF Row
  <2>2. CASE n # 0
    <3>1. n \in 0 + 1 .. DLL_RX_TABLE_SIZE
      BY <2>2, Sizes
    <3> QED
      BY <3>1 DEF Gap
  <2> QED
    BY <2>1, <2>2
<1>2. \A n \in 0 .. DLL_RX_TABLE_SIZE : at(n) \in Used(t) /\ t[at(n)].order = n
  BY <1>1
<1>3. f \in [0 .. DLL_RX_TABLE_SIZE -> Slot]
  BY <1>2 DEF Used
<1>4. /\ IsFiniteSet(0 .. DLL_RX_TABLE_SIZE)
      /\ Cardinality(0 .. DLL_RX_TABLE_SIZE) = DLL_RX_TABLE_SIZE + 1
  <2>1. 0 \in Int /\ DLL_RX_TABLE_SIZE \in Int /\ ~(0 > DLL_RX_TABLE_SIZE)
    BY Sizes
  <2>2. /\ IsFiniteSet(0 .. DLL_RX_TABLE_SIZE)
        /\ Cardinality(0 .. DLL_RX_TABLE_SIZE) = DLL_RX_TABLE_SIZE - 0 + 1
    BY <2>1, FS_Interval
  <2> QED
    BY <2>2, Sizes
<1>5. Cardinality(Slot) < Cardinality(0 .. DLL_RX_TABLE_SIZE)
  BY <1>4, CountSlots, Sizes
<1> HIDE DEF f
<1>6. PICK x, y \in 0 .. DLL_RX_TABLE_SIZE : x # y /\ f[x] = f[y]
  <2>1. IsFiniteSet(Slot)
    BY CountSlots
  <2> QED
    BY <1>3, <1>4, <1>5, <2>1, FS_PigeonHole
<1> USE DEF f
<1> HIDE DEF at
<1>7. at(x) = at(y)
  BY <1>6
<1> QED
  BY <1>2, <1>6, <1>7

(* When all slots are in use, one of them has the highest order. *)
LEMMA HighestTaken ==
  ASSUME TableInv, AgeInv, Used(table) = Slot
  PROVE  \E i \in Slot : table[i].order = DLL_RX_TABLE_SIZE
<1> SUFFICES ASSUME \A i \in Slot : table[i].order # DLL_RX_TABLE_SIZE
             PROVE  FALSE
  OBVIOUS
<1> DEFINE f == [i \in Slot |-> table[i].order]
           T == 1 .. DLL_RX_TABLE_SIZE - 1
<1>1. ASSUME NEW i \in Slot
      PROVE  table[i].order \in T
  <2>1. table[i].order \in 1 .. DLL_RX_TABLE_SIZE
    BY DEF AgeInv, OrderIsAge
  <2> QED
    BY <2>1, Sizes
<1>2. f \in [Slot -> T]
  BY <1>1
<1>3. IsFiniteSet(T) /\ Cardinality(T) = DLL_RX_TABLE_SIZE - 1
  <2>1. 1 \in Int /\ DLL_RX_TABLE_SIZE - 1 \in Int
    BY Sizes
  <2>2. /\ IsFiniteSet(1 .. DLL_RX_TABLE_SIZE - 1)
        /\ Cardinality(1 .. DLL_RX_TABLE_SIZE - 1)
             = IF 1 > DLL_RX_TABLE_SIZE - 1 THEN 0 ELSE (DLL_RX_TABLE_SIZE - 1) - 1 + 1
    BY <2>1, FS_Interval
  <2> QED
    BY <2>2, Sizes
<1>4. Cardinality(T) < Cardinality(Slot)
  BY <1>3, CountSlots, Sizes
<1> HIDE DEF f, T
<1>5. PICK x, y \in Slot : x # y /\ f[x] = f[y]
  BY <1>2, <1>3, <1>4, CountSlots, FS_PigeonHole
<1>6. table[x].order = table[y].order
  BY <1>5 DEF f
<1> QED
  BY <1>5, <1>6 DEF AgeInv, Distinct

-----------------------------------------------------------------------------
(* What dll_reorder_rx_table does *)

(* Where it leaves an entry: one further if there is a gap above. *)
LEMMA Pushed ==
  ASSUME NEW t, NEW i, Row(t, i), NEW j \in Used(t)
  PROVE  dll_reorder_rx_table(t)[j].order
           = IF Gap(t, t[j].order) THEN t[j].order + 1 ELSE t[j].order
<1>1. j \in Slot /\ t[j] \in Entry
  BY DEF Row, Used
<1>2. \A k \in Used(t) : k < j => t[k].order # t[j].order
  BY <1>1, Slots DEF Row, Distinct, Used
<1>3. dll_reorder_rx_table(t)[j]
        = IF Gap(t, t[j].order) THEN [t[j] EXCEPT !.order = t[j].order + 1] ELSE t[j]
  BY <1>1, <1>2 DEF dll_reorder_rx_table, Gap
<1> QED
  BY <1>1, <1>3 DEF Entry

(* Afterwards all are at 1 or above, and none has passed another. *)
LEMMA RowPushed ==
  ASSUME NEW t, NEW i, Row(t, i)
  PROVE  LET r == dll_reorder_rx_table(t)
         IN  /\ Used(r) = Used(t)
             /\ \A j \in Used(t) : r[j].order \in 1 .. DLL_RX_TABLE_SIZE
             /\ \A j, k \in Used(t) :
                  t[j].order < t[k].order => r[j].order < r[k].order
<1> DEFINE r == dll_reorder_rx_table(t)
<1>1. Used(r) = Used(t)
  BY Reordered DEF Row, Used
<1>2. \A j \in Used(t) : t[j].order \in 0 .. DLL_RX_TABLE_SIZE
  BY Sizes DEF Row
<1>3. \A j \in Used(t) :
        r[j].order = IF Gap(t, t[j].order) THEN t[j].order + 1 ELSE t[j].order
  BY Pushed
<1> HIDE DEF r
<1>4. ASSUME NEW j \in Used(t)
      PROVE  r[j].order \in 1 .. DLL_RX_TABLE_SIZE
  <2>1. CASE Gap(t, t[j].order)
    <3>1. t[j].order + 1 <= DLL_RX_TABLE_SIZE
      BY <1>2, <2>1, Sizes DEF Gap
    <3> QED
      BY <1>2, <1>3, <2>1, <3>1, Sizes
  <2>2. CASE ~Gap(t, t[j].order)
    <3>1. t[j].order # 0
      BY <2>2, GapAboveZero
    <3> QED
      BY <1>2, <1>3, <2>2, <3>1, Sizes
  <2> QED
    BY <2>1, <2>2
<1>5. ASSUME NEW j \in Used(t), NEW k \in Used(t), t[j].order < t[k].order
      PROVE  r[j].order < r[k].order
  <2> DEFINE a == t[j].order
             b == t[k].order
  <2>1. a \in Nat /\ b \in Nat /\ a < b
    BY <1>2, <1>5, Sizes
  <2>2. Gap(t, a) /\ a + 1 = b => Gap(t, b)
    <3>1. ASSUME Gap(t, a), a + 1 = b
          PROVE  Gap(t, b)
      <4>1. PICK n \in a + 1 .. DLL_RX_TABLE_SIZE : \A l \in Used(t) : t[l].order # n
        BY <3>1 DEF Gap
      <4>2. n # b
        BY <4>1
      <4>3. n \in b + 1 .. DLL_RX_TABLE_SIZE
        BY <2>1, <3>1, <4>1, <4>2, Sizes
      <4> QED
        BY <4>1, <4>3 DEF Gap
    <3> QED
      BY <3>1
  <2>3. /\ r[j].order = IF Gap(t, a) THEN a + 1 ELSE a
        /\ r[k].order = IF Gap(t, b) THEN b + 1 ELSE b
    BY <1>3
  <2> HIDE DEF a, b
  <2> QED
    BY <2>1, <2>2, <2>3
<1> QED
  BY <1>1, <1>4, <1>5 DEF r

-----------------------------------------------------------------------------
(* What a fragment does to the table *)

(* The entry a first fragment takes is the source's own, a free one, or, of *)
(* a full table, the one that has waited longest.                          *)
LEMMA EntryChosen ==
  ASSUME TableInv, AgeInv, NEW src \in Sender
  PROVE  /\ EntryFor(table, src) \in Slot
         /\ Used(table) = Slot /\ (\A i \in Slot : table[i].src # src)
              => \A j \in Slot \ {EntryFor(table, src)} :
                   <<EntryFor(table, src), j>> \in older
<1> DEFINE own == {i \in Slot : table[i].src = src}
           free == Slot \ Used(table)
           high == {i \in Slot : \A j \in Slot : table[i].order >= table[j].order}
<1>1. CASE own # {}
  <2>1. EntryFor(table, src) = Least(own)
    BY <1>1 DEF EntryFor
  <2>2. Least(own) \in own
    BY <1>1, LeastExists
  <2> QED
    BY <1>1, <2>1, <2>2
<1>2. CASE own = {} /\ free # {}
  <2>1. EntryFor(table, src) = Least(free)
    BY <1>2 DEF EntryFor
  <2>2. Least(free) \in free
    BY <1>2, LeastExists
  <2> QED
    BY <1>2, <2>1, <2>2
<1>3. CASE own = {} /\ free = {}
  <2>1. EntryFor(table, src) = Greatest(high)
    BY <1>3 DEF EntryFor
  <2>2. Used(table) = Slot
    BY <1>3 DEF Used
  <2>3. PICK i \in Slot : table[i].order = DLL_RX_TABLE_SIZE
    BY <2>2, HighestTaken
  <2>4. \A j \in Slot : table[j].order \in 1 .. DLL_RX_TABLE_SIZE
    BY <2>2 DEF AgeInv, OrderIsAge
  <2>5. \A j \in Slot \ {i} : table[j].order < table[i].order
    BY <2>2, <2>3, <2>4, Sizes DEF AgeInv, Distinct
  <2>6. high = {i}
    BY <2>3, <2>4, <2>5, Sizes
  <2>7. Greatest({i}) = i
    <3>1. i \in {i} /\ \A j \in {i} : i >= j
      BY Slots
    <3> QED
      BY <3>1 DEF Greatest
  <2>8. \A j \in Slot \ {i} : <<i, j>> \in older
    BY <2>2, <2>4, <2>5 DEF AgeInv, OrderIsAge
  <2> QED
    BY <2>1, <2>6, <2>7, <2>8
<1> QED
  BY <1>1, <1>2, <1>3

(* An entry used becomes the youngest. *)
LEMMA UsedYoungest ==
  ASSUME TableInv, AgeInv, NEW i \in Slot,
         NEW e \in Entry, ~e.free, e.order = 0,
         table' = dll_reorder_rx_table([table EXCEPT ![i] = e]),
         Touch(i)
  PROVE  AgeInv'
<1> DEFINE t == [table EXCEPT ![i] = e]
<1>1. /\ t \in [Slot -> Entry]
      /\ t[i] = e /\ \A j \in Slot \ {i} : t[j] = table[j]
  BY DEF TableInv
<1> HIDE DEF t
<1>2. Used(t) = Used(table) \cup {i}
  BY <1>1 DEF Used
<1>3. \A j \in Used(table) : table[j].order \in 1 .. DLL_RX_TABLE_SIZE
  BY DEF AgeInv, OrderIsAge
<1>4. Row(t, i)
  <2>1. \A j \in Used(t) : j # i => t[j].order \in 1 .. DLL_RX_TABLE_SIZE
    BY <1>1, <1>2, <1>3 DEF Used
  <2>2. ASSUME NEW j \in Used(t), NEW k \in Used(t), t[j].order = t[k].order
        PROVE  j = k
    <3>1. CASE j # i /\ k # i
      <4>1. j \in Used(table) /\ k \in Used(table)
        BY <1>2, <3>1
      <4>2. table[j].order = table[k].order
        BY <1>1, <2>2, <3>1 DEF Used
      <4> QED
        BY <4>1, <4>2 DEF AgeInv, Distinct
    <3>2. CASE j = i \/ k = i
      BY <1>1, <2>1, <2>2, <3>2, Sizes
    <3> QED
      BY <3>1, <3>2
  <2> QED
    BY <1>1, <1>2, <2>1, <2>2 DEF Row, Distinct
<1>5. /\ Used(table') = Used(t)
      /\ \A j \in Used(t) : table'[j].order \in 1 .. DLL_RX_TABLE_SIZE
      /\ \A j, k \in Used(t) :
           t[j].order < t[k].order => table'[j].order < table'[k].order
  BY <1>4, RowPushed DEF t
<1>A. \A j \in Used(t) : t[j].order \in Nat /\ table'[j].order \in Nat
  <2>1. ASSUME NEW j \in Used(t)
        PROVE  t[j].order \in Nat
    BY <1>1, EntryParts DEF Used
  <2>2. \A n \in 1 .. DLL_RX_TABLE_SIZE : n \in Nat
    OBVIOUS
  <2> QED
    BY <1>5, <2>1, <2>2
<1>6. older' = {p \in older : i \notin {p[1], p[2]}}
                 \cup ((Used(table) \ {i}) \X {i})
  BY DEF Touch
<1>7. ASSUME NEW j \in Used(t), NEW k \in Used(t), j # k
      PROVE  /\ table'[j].order # table'[k].order
             /\ <<j, k>> \in older' <=> table'[j].order > table'[k].order
  <2>1. /\ t[j].order \in Nat /\ t[k].order \in Nat
        /\ table'[j].order \in Nat /\ table'[k].order \in Nat
    BY <1>A
  <2>2. t[j].order # t[k].order
    BY <1>4, <1>7 DEF Row, Distinct
  <2>3. \/ t[j].order < t[k].order /\ table'[j].order < table'[k].order
        \/ t[k].order < t[j].order /\ table'[k].order < table'[j].order
    <3>1. t[j].order < t[k].order \/ t[k].order < t[j].order
      BY <2>1, <2>2
    <3> QED
      BY <1>5, <3>1
  <2>4. <<j, k>> \in older' <=> t[j].order > t[k].order
    <3>1. CASE j # i /\ k # i
      <4>1. j \in Used(table) /\ k \in Used(table)
        BY <1>2, <3>1
      <4>2. t[j].order = table[j].order /\ t[k].order = table[k].order
        BY <1>1, <3>1 DEF Used
      <4>3. <<j, k>> \in older' <=> <<j, k>> \in older
        BY <1>6, <3>1
      <4> QED
        BY <4>1, <4>2, <4>3 DEF AgeInv, OrderIsAge
    <3>2. CASE k = i
      <4>1. j \in Used(table) \ {i}
        BY <1>2, <1>7, <3>2
      <4>2. <<j, k>> \in older'
        BY <1>6, <3>2, <4>1
      <4>3. t[j].order \in 1 .. DLL_RX_TABLE_SIZE /\ t[k].order = 0
        BY <1>4, <1>7, <3>2 DEF Row
      <4> QED
        BY <4>2, <4>3, Sizes
    <3>3. CASE j = i
      <4>1. <<j, k>> \notin older'
        BY <1>6, <1>7, <3>3
      <4>2. t[k].order \in 1 .. DLL_RX_TABLE_SIZE /\ t[j].order = 0
        BY <1>4, <1>7, <3>3 DEF Row
      <4> QED
        BY <4>1, <4>2, Sizes
    <3> QED
      BY <3>1, <3>2, <3>3
  <2> QED
    BY <2>1, <2>3, <2>4
<1>8. \A j \in Used(t) : <<j, j>> \notin older'
  <2>1. ASSUME NEW j \in Used(t), j # i
        PROVE  <<j, j>> \notin older
    <3>1. j \in Used(table) /\ table[j].order \in Nat
      BY <1>2, <1>3, <2>1, Sizes
    <3> QED
      BY <3>1 DEF AgeInv, OrderIsAge
  <2> QED
    BY <1>6, <2>1
<1>9. OrderIsAge'
  <2>1. ASSUME NEW j \in Used(t), NEW k \in Used(t)
        PROVE  <<j, k>> \in older' <=> table'[j].order > table'[k].order
    <3>1. CASE j = k
      <4>1. ~(table'[j].order > table'[j].order)
        <5>1. table'[j].order \in Nat
          BY <1>A
        <5>2. \A n \in Nat : ~(n > n)
          OBVIOUS
        <5> QED
          BY <5>1, <5>2
      <4>2. <<j, j>> \notin older'
        BY <1>8
      <4> QED
        BY <3>1, <4>1, <4>2
    <3> QED
      BY <1>7, <3>1
  <2> QED
    BY <1>5, <2>1 DEF OrderIsAge, Used
<1>10. Distinct(table)'
  BY <1>5, <1>7 DEF Distinct, Used
<1>11. older' \subseteq Slot \X Slot
  BY <1>6 DEF AgeInv, Used
<1> QED
  BY <1>9, <1>10, <1>11 DEF AgeInv

(* An entry that is done leaves the others as they are. *)
LEMMA FreedLeaves ==
  ASSUME TableInv, AgeInv, NEW i \in Slot,
         table' = [table EXCEPT ![i].free = TRUE],
         Forget(i)
  PROVE  AgeInv'
<1>1. /\ DOMAIN table = Slot
      /\ \A j \in Slot : table[j] \in Entry
  BY DEF TableInv
<1>2. table'[i].free
  BY <1>1, EntryParts DEF Entry
<1>3. \A j \in Slot \ {i} : table'[j] = table[j]
  BY <1>1
<1>4. Used(table') = Used(table) \ {i}
  BY <1>2, <1>3 DEF Used
<1>5. \A j \in Used(table') : j \in Used(table) /\ table'[j] = table[j] /\ j # i
  BY <1>3, <1>4 DEF Used
<1>6. older' = {p \in older : i \notin {p[1], p[2]}}
  BY DEF Forget
<1>7. OrderIsAge'
  <2>1. ASSUME NEW j \in Used(table'), NEW k \in Used(table')
        PROVE  /\ table'[j].order \in 1 .. DLL_RX_TABLE_SIZE
               /\ <<j, k>> \in older' <=> table'[j].order > table'[k].order
    BY <1>5, <1>6 DEF AgeInv, OrderIsAge
  <2> QED
    BY <2>1 DEF OrderIsAge, Used
<1>8. Distinct(table)'
  BY <1>5 DEF AgeInv, Distinct, Used
<1>9. older' \subseteq Slot \X Slot
  BY <1>6 DEF AgeInv
<1> QED
  BY <1>7, <1>8, <1>9 DEF AgeInv

(* Steps that leave the table alone keep the ages. *)
LEMMA AgeKept ==
  ASSUME AgeInv, UNCHANGED <<table, older>>
  PROVE  AgeInv'
BY DEF AgeInv, OrderIsAge, Distinct, Used

(* Every step keeps the ages. *)
LEMMA AgeStep ==
  ASSUME Inv, AgeInv, [Next]_vars
  PROVE  AgeInv'
<1>1. CASE ReceiveFrame
  <2> PICK f : f = Head(heard)
    OBVIOUS
  <2>1. dll_receive_dll_frame(f) /\ Sound(f)
    BY <1>1, Received
  <2>2. /\ TableInv /\ table \in [Slot -> Entry]
        /\ f.src \in Sender /\ f.data \in Seq(Byte) /\ f.seq \in 0 .. SeqMod - 1
    BY <2>1, SoundParts, FrameParts DEF Inv, TableInv
  <2>3. ASSUME Matches(table, f) # {}
        PROVE  Least(Matches(table, f)) \in Used(table)
    BY <2>3, LeastExists DEF Matches, Used
  <2>4. CASE RefuseFrame(f) \/ WholePacket(f) \/ NoMatch(f)
    BY <2>4, AgeKept DEF RefuseFrame, WholePacket, NoMatch
  <2>5. CASE FirstFragment(f)
    <3> DEFINE i == EntryFor(table, f.src)
               e == [free |-> FALSE, order |-> 0, src |-> f.src, seq_num |-> f.seq,
                     data |-> f.data]
    <3>1. table' = dll_reorder_rx_table([table EXCEPT ![i] = e]) /\ Touch(i)
      BY <2>5 DEF FirstFragment
    <3>2. e \in Entry /\ ~e.free /\ e.order = 0
      BY <2>2 DEF Entry
    <3>3. i \in Slot
      BY <2>2, EntryChosen
    <3> HIDE DEF i, e
    <3> QED
      BY <2>2, <3>1, <3>2, <3>3, UsedYoungest
  <2>6. CASE NextFragment(f)
    <3> DEFINE i == Least(Matches(table, f))
               e == [table[i] EXCEPT !.order = 0, !.data = table[i].data \o f.data]
    <3>1. /\ table' = dll_reorder_rx_table([table EXCEPT ![i] = e])
          /\ Touch(i) /\ i \in Used(table)
      BY <2>3, <2>6 DEF NextFragment
    <3>2. table[i] \in Entry /\ ~table[i].free /\ i \in Slot
      BY <2>2, <3>1 DEF Used
    <3> HIDE DEF i
    <3>3. table[i].data \o f.data \in Seq(Byte)
      BY <2>2, <3>2, EntryParts, ConcatProperties
    <3>4. e \in Entry /\ ~e.free /\ e.order = 0
      BY <3>2, <3>3 DEF Entry
    <3> HIDE DEF e
    <3> QED
      BY <2>2, <3>1, <3>2, <3>4, UsedYoungest
  <2>7. CASE LastFragment(f)
    <3> DEFINE i == Least(Matches(table, f))
    <3>1. \/ UNCHANGED <<table, older>>
          \/ table' = [table EXCEPT ![i].free = TRUE] /\ Forget(i) /\ i \in Used(table)
      BY <2>3, <2>7 DEF LastFragment
    <3>2. i \in Used(table) => i \in Slot
      BY DEF Used
    <3> HIDE DEF i
    <3> QED
      BY <2>2, <3>1, <3>2, AgeKept, FreedLeaves
  <2> QED
    BY <2>1, <2>4, <2>5, <2>6, <2>7 DEF dll_receive_dll_frame
<1>2. CASE (\E s \in Sender : NetTx(s) \/ dll_get_tx_frame(s) \/ Transmit(s))
             \/ NetworkRx \/ dll_get_rx_packet \/ NoFrame \/ UNCHANGED vars
  <2>1. UNCHANGED <<table, older>>
    BY <1>2 DEF NetTx, dll_get_tx_frame, Transmit, NetworkRx, dll_get_rx_packet,
                NoFrame, vars, receiverVars
  <2> QED
    BY <2>1, AgeKept
<1> QED
  BY <1>1, <1>2 DEF Next

-----------------------------------------------------------------------------
(* Theorems *)

(* Orders and ages agree in every state, on top of what Inv says of the     *)
(* packets.                                                                *)
THEOREM AgeInvariance == Spec => [](Inv /\ AgeInv)
<1>1. Init => AgeInv
  BY DEF Init, AgeInv, OrderIsAge, Distinct, Used
<1>2. Inv /\ AgeInv /\ [Next]_vars => AgeInv'
  BY AgeStep
<1> QED
  BY <1>1, <1>2, Invariance, PTL DEF Spec

(* Type correctness for any senders, sizes and numbers, whatever the radio  *)
(* loses, repeats or damages.                                              *)
THEOREM TypeCorrect == Spec => []TypeOK
<1>1. Inv /\ AgeInv => TypeOK
  BY DEF Inv, AgeInv, TypeOK, SendersInv, HeardInv, TableInv, PacketsInv, Waiting,
         HandedInv
<1> QED
  BY <1>1, AgeInvariance, PTL

(* "Higher order is older" (datalink.h:30) for a table of any size, after    *)
(* any sequence of fragments, completions and evictions.                   *)
THEOREM OrderAge == Spec => []OrderIsAge
<1>1. AgeInv => OrderIsAge
  BY DEF AgeInv
<1> QED
  BY <1>1, AgeInvariance, PTL

(* A full table gives up, for a source that has no entry, the packet that   *)
(* has waited longest for its next fragment (datalink.c:161-171).           *)
THEOREM OldestEvicted ==
  Spec => [](\A src \in Sender :
    Used(table) = Slot /\ (\A i \in Slot : table[i].src # src)
      => \A j \in Slot \ {EntryFor(table, src)} : <<EntryFor(table, src), j>> \in older)
<1>1. Inv /\ AgeInv => \A src \in Sender :
        Used(table) = Slot /\ (\A i \in Slot : table[i].src # src)
          => \A j \in Slot \ {EntryFor(table, src)} :
               <<EntryFor(table, src), j>> \in older
  BY EntryChosen DEF Inv
<1> QED
  BY <1>1, AgeInvariance, PTL

=============================================================================

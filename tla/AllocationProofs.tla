--------------------------- MODULE AllocationProofs ---------------------------
(***************************************************************************)
(* What the two tables of the library guarantee that give out what is on a *)
(* stack of free entries: the object table (Stock) and the paged allocator *)
(* (Pageman).                                                              *)
(*                                                                         *)
(* Stock, for every number of bodies, pages and serial numbers, as long as *)
(* the table stays InRange: the low half of an id can name every slot, and *)
(* slot IndexSpan - 1 is not allocated.  IInv is inductive.  Both branches *)
(* of add commit a page <<n, data, free>> that is TableOK (Grown) and then *)
(* place one object in it (Placed); remove gives one slot back (Removed).  *)
(* StaleRejected rests on Aligned: the serial number of an id tells its    *)
(* age modulo SeedSpan.                                                    *)
(*                                                                         *)
(* Pageman, for every number of items in a page, any sizes of classes and  *)
(* any number of pages.  StackExact alone does not tell that there is room *)
(* on the stack for an item that comes back.  Balanced does: what is       *)
(* available in a page and what the program has of it add up to the page.  *)
(***************************************************************************)
EXTENDS Stock, Pageman, SequenceTheorems, FiniteSetTheorems, WellFoundedInduction, TLAPS

-----------------------------------------------------------------------------
\* The object table.

\* The initial state satisfies the invariant.
LEMMA InitOK == Init => IInv
<1> SUFFICES ASSUME Init PROVE IInv
  OBVIOUS
<1> USE StockAssumption DEF Init
<1>1. Named = {}
  BY DEF Named
<1>2. ScalarsOK
  BY <1>1 DEF ScalarsOK
<1>3. TableOK(cnt_data, ptr_data, ptr_free)
  <2>1. ptr_free \in Seq(0 .. cnt_data - 1) /\ Len(ptr_free) = 0
    BY EmptySeq
  <2>2. 0 .. cnt_data - 1 = {}
    OBVIOUS
  <2>3. ptr_data \in [0 .. cnt_data - 1 -> [id : Ids \cup {NoId}, body : Bodies]]
    BY <2>2
  <2> QED
    BY <1>1, <2>1, <2>2, <2>3 DEF TableOK
<1> QED
  BY <1>2, <1>3 DEF IInv

\* Within range an id is just the pair of the serial number and the slot.
LEMMA IdOfSlot ==
    ASSUME InRange, NEW slot \in 0 .. MaxSlots - 1
    PROVE  MakeId(NextSeed, slot) = [hi |-> NextSeed, lo |-> slot]
<1>1. slot < IndexSpan
  BY StockAssumption DEF InRange
<1> QED
  BY <1>1, Zenon DEF MakeId

\* The next serial number is in range and follows the current one.
LEMMA SeedStep ==
    ASSUME idx_seed \in 0 .. SeedSpan - 1
    PROVE  /\ NextSeed \in 0 .. SeedSpan - 1
           /\ NextSeed \in {idx_seed + 1, idx_seed + 1 - SeedSpan}
BY StockAssumption DEF NextSeed

\* An aligned id younger than SeedSpan, and not the latest, is not current.
LEMMA AlignedAge ==
    ASSUME NEW seed \in Int, NEW n \in Nat, NEW hi \in Int, NEW k \in Nat,
           Aligned(seed, n, hi, k), n - k < SeedSpan, k < n
    PROVE  seed # hi
BY StockAssumption DEF Aligned

\* Issuing one more id keeps every earlier one aligned.
LEMMA AlignedStep ==
    ASSUME idx_seed \in 0 .. SeedSpan - 1, adds \in Nat,
           NEW hi \in 0 .. SeedSpan - 1, NEW k \in Nat, Aligned(idx_seed, adds, hi, k)
    PROVE  Aligned(NextSeed, adds + 1, hi, k)
<1>1. k \in 1 .. adds + 1
  BY DEF Aligned
<1>2. ASSUME adds + 1 - k < SeedSpan
      PROVE  adds + 1 - k \in {NextSeed - hi, NextSeed - hi + SeedSpan}
  <2>1. adds - k \in {idx_seed - hi, idx_seed - hi + SeedSpan}
    BY <1>2, StockAssumption DEF Aligned
  <2>2. NextSeed \in {idx_seed + 1, idx_seed + 1 - SeedSpan} /\ NextSeed \in 0 .. SeedSpan - 1
    BY SeedStep
  <2> QED
    BY <1>2, <2>1, <2>2, StockAssumption
<1> QED
  BY <1>1, <1>2 DEF Aligned

\* A full table with a fresh page is consistent, all of the page being free.
LEMMA Grown ==
    ASSUME IInv, ptr_free = <<>>, NEW b \in Bodies, cnt_data + PageSize <= MaxSlots
    PROVE  /\ TableOK(cnt_data + PageSize, GrownData(b), GrownFree)
           /\ GrownFree # <<>>
<1> DEFINE n == cnt_data + PageSize
           data == GrownData(b)
           free == GrownFree
<1> USE StockAssumption DEF Slots
<1>a. /\ cnt_data \in 0 .. MaxSlots
      /\ ptr_data \in [0 .. cnt_data - 1 -> [id : Ids \cup {NoId}, body : Bodies]]
  BY DEF IInv, TableOK
<1>b. n \in 0 .. MaxSlots /\ \A s \in 0 .. cnt_data - 1 : s \in 0 .. n - 1
  BY <1>a
<1>c. Len(ptr_free) = 0
  OBVIOUS
<1>d. /\ \A s \in 0 .. cnt_data - 1 : data[s] = ptr_data[s]
      /\ \A s \in cnt_data .. n - 1 : data[s] = [id |-> NoId, body |-> b]
      /\ \A s \in 0 .. n - 1 : s \in 0 .. cnt_data - 1 \/ s \in cnt_data .. n - 1
  BY <1>a, <1>b DEF GrownData
<1>1. data \in [0 .. n - 1 -> [id : Ids \cup {NoId}, body : Bodies]]
  BY <1>a, <1>b DEF GrownData
<1>2. /\ free \in Seq(0 .. n - 1)
      /\ Len(free) = PageSize
      /\ \A i \in 1 .. PageSize : free[i] = cnt_data + i - 1
      /\ free # <<>>
  <2>1. \A i \in 1 .. PageSize : cnt_data + i - 1 \in 0 .. n - 1
    BY <1>a
  <2>2. free \in [1 .. PageSize -> 0 .. n - 1]
    BY <2>1 DEF GrownFree
  <2>3. free \in Seq(0 .. n - 1)
    BY <2>2, SeqDef
  <2>4. Len(free) = PageSize
    BY <2>2, <2>3, LenProperties
  <2> QED
    BY <2>3, <2>4 DEF GrownFree
<1>3. \A i, j \in 1 .. Len(free) : free[i] = free[j] => i = j
  BY <1>a, <1>2
<1>4. ASSUME NEW s \in 0 .. n - 1
      PROVE  /\ data[s].id = NoId <=> \E i \in 1 .. Len(free) : free[i] = s
             /\ data[s].id # NoId => data[s].id.lo = s /\ oid[data[s].body] = data[s].id
  <2>1. CASE s \in 0 .. cnt_data - 1
    <3>1. ptr_data[s].id # NoId /\ ptr_data[s].id.lo = s
          /\ oid[ptr_data[s].body] = ptr_data[s].id
      BY <2>1, <1>c DEF IInv, TableOK
    <3>2. ~ \E i \in 1 .. Len(free) : free[i] = s
      BY <2>1, <1>a, <1>2
    <3> QED
      BY <1>d, <2>1, <3>1, <3>2
  <2>2. CASE s \in cnt_data .. n - 1
    <3>1. s - cnt_data + 1 \in 1 .. PageSize /\ free[s - cnt_data + 1] = s
      BY <1>a, <1>2, <2>2
    <3> QED
      BY <1>d, <1>2, <2>2, <3>1
  <2> QED
    BY <1>d, <2>1, <2>2
<1>5. \A c \in Named :
        oid[c].lo \in 0 .. n - 1 /\ data[oid[c].lo] = [id |-> oid[c], body |-> c]
  BY <1>b, <1>d DEF IInv, TableOK
<1>6. ASSUME NEW h \in stale, adds - h.serial < SeedSpan, h.id.lo \in 0 .. n - 1
      PROVE  data[h.id.lo].id # h.id
  <2>0. h.id \in Ids /\ h.id # NoId
    BY DEF IInv, ScalarsOK, Ids, NoId
  <2> QED
    BY <1>6, <1>d, <2>0 DEF IInv, TableOK
<1> HIDE DEF n, data, free
<1>7. TableOK(n, data, free)
  BY <1>b, <1>1, <1>2, <1>3, <1>4, <1>5, <1>6 DEF TableOK
<1> QED
  BY <1>7, <1>2 DEF n, data, free

\* Placing an object in a consistent table with a free slot: the end of add.
LEMMA Placed ==
    ASSUME InRange, ScalarsOK, NEW n, NEW data, NEW free, NEW b \in Bodies,
           TableOK(n, data, free), free # <<>>, oid[b] = Unborn,
           Place(b, data, free), cnt_data' = n
    PROVE  IInv'
<1> DEFINE slot == free[Len(free)]
           id   == MakeId(NextSeed, slot)
<1> USE StockAssumption
<1>a. n \in 0 .. MaxSlots /\ free \in Seq(0 .. n - 1)
  BY DEF TableOK
<1>b. Len(free) \in Nat \ {0} /\ slot \in 0 .. n - 1 /\ slot \in 0 .. MaxSlots - 1
  BY <1>a, EmptySeq, ElementOfSeq
<1>c. id = [hi |-> NextSeed, lo |-> slot] /\ id \in Ids /\ id # NoId /\ id # Unborn
  BY <1>b, IdOfSlot, SeedStep DEF ScalarsOK, Ids, NoId, Unborn, InRange
<1>d. /\ idx_seed' = NextSeed
      /\ ptr_free' = SubSeq(free, 1, Len(free) - 1)
      /\ ptr_data' = [data EXCEPT ![slot] = [id |-> id, body |-> b]]
      /\ oid' = [oid EXCEPT ![b] = id]
      /\ adds' = adds + 1
      /\ serial' = [serial EXCEPT ![b] = adds + 1]
      /\ stale' = stale
  BY DEF Place
<1> HIDE DEF id
<1>e. Named' = Named \cup {b} /\ b \notin Named
  BY <1>c, <1>d DEF Named, ScalarsOK, NoId, Unborn
<1>1. ScalarsOK'
  <2>1. idx_seed' \in 0 .. SeedSpan - 1
    BY <1>d, SeedStep DEF ScalarsOK
  <2>2. ASSUME NEW hi \in 0 .. SeedSpan - 1, NEW k \in Nat, Aligned(idx_seed, adds, hi, k)
        PROVE  Aligned(idx_seed', adds', hi, k)
    BY <1>d, <2>2, AlignedStep DEF ScalarsOK
  <2>3. ASSUME NEW h \in stale
        PROVE  Aligned(idx_seed', adds', h.id.hi, h.serial)
    BY <2>2 DEF ScalarsOK, Ids
  <2>4. ASSUME NEW c \in Named
        PROVE  Aligned(idx_seed', adds', oid[c].hi, serial[c])
    <3>1. oid[c] \in Ids /\ serial[c] \in Nat
      BY DEF Named, ScalarsOK
    <3> QED
      BY <2>2, <3>1 DEF ScalarsOK, Ids
  <2>5. Aligned(idx_seed', adds', id.hi, adds + 1)
    BY <1>c, <1>d, <2>1, StockAssumption DEF Aligned, ScalarsOK
  <2>6. ASSUME NEW c \in Named'
        PROVE  Aligned(idx_seed', adds', oid'[c].hi, serial'[c])
    <3>1. CASE c = b
      BY <1>d, <2>5, <3>1 DEF ScalarsOK
    <3>2. CASE c # b
      <4>1. c \in Bodies /\ c \in Named /\ oid'[c] = oid[c] /\ serial'[c] = serial[c]
        BY <1>d, <1>e, <3>2 DEF Named, ScalarsOK
      <4> QED
        BY <2>4, <4>1
    <3> QED
      BY <3>1, <3>2
  <2>7. /\ oid' \in [Bodies -> Ids \cup {NoId, Unborn}]
        /\ adds' \in Nat
        /\ serial' \in [Bodies -> Nat]
        /\ stale' \subseteq [id : Ids, serial : Nat]
    BY <1>c, <1>d DEF ScalarsOK
  <2> QED
    BY <1>d, <2>1, <2>3, <2>6, <2>7 DEF ScalarsOK
<1>2. /\ ptr_data' \in [0 .. n - 1 -> [id : Ids \cup {NoId}, body : Bodies]]
      /\ ptr_data'[slot] = [id |-> id, body |-> b]
      /\ \A s \in 0 .. n - 1 : s # slot => ptr_data'[s] = data[s]
  BY <1>b, <1>c, <1>d DEF TableOK
<1>3. /\ ptr_free' \in Seq(0 .. n - 1)
      /\ Len(ptr_free') = Len(free) - 1
      /\ \A i \in 1 .. Len(free) - 1 : ptr_free'[i] = free[i]
  <2>1. \A i \in 1 .. Len(free) - 1 : free[i] \in 0 .. n - 1
    BY <1>a, <1>b, ElementOfSeq
  <2> DEFINE m == Len(free) - 1
  <2>2. m \in Nat
    BY <1>b
  <2> HIDE DEF m
  <2>3. \A i \in 1 .. m : free[i] \in 0 .. n - 1
    BY <2>1 DEF m
  <2>4. /\ SubSeq(free, 1, m) \in Seq(0 .. n - 1)
        /\ Len(SubSeq(free, 1, m)) = IF 1 <= m THEN m - 1 + 1 ELSE 0
        /\ \A i \in 1 .. m - 1 + 1 : SubSeq(free, 1, m)[i] = free[1 + i - 1]
    BY <2>2, <2>3, SubSeqProperties
  <2>5. \A i \in 1 .. m : SubSeq(free, 1, m)[i] = free[i]
    BY <2>2, <2>4
  <2>6. Len(SubSeq(free, 1, m)) = m
    BY <2>2, <2>4
  <2>7. ptr_free' = SubSeq(free, 1, m) /\ m = Len(free) - 1
    BY <1>d DEF m
  <2> QED
    BY <2>4, <2>5, <2>6, <2>7
<1>4. /\ \A i, j \in 1 .. Len(ptr_free') : ptr_free'[i] = ptr_free'[j] => i = j
      /\ \A i \in 1 .. Len(ptr_free') : ptr_free'[i] # slot
  <2>1. \A i, j \in 1 .. Len(free) : free[i] = free[j] => i = j
    BY DEF TableOK
  <2>2. /\ \A i \in 1 .. Len(ptr_free') : i \in 1 .. Len(free) /\ i # Len(free)
        /\ Len(free) \in 1 .. Len(free)
        /\ \A i \in 1 .. Len(ptr_free') : ptr_free'[i] = free[i]
    BY <1>b, <1>3
  <2> QED
    BY <2>1, <2>2
<1>5. ASSUME NEW s \in 0 .. n - 1
      PROVE  /\ ptr_data'[s].id = NoId <=> \E i \in 1 .. Len(ptr_free') : ptr_free'[i] = s
             /\ ptr_data'[s].id # NoId =>
                  ptr_data'[s].id.lo = s /\ oid'[ptr_data'[s].body] = ptr_data'[s].id
  <2>1. CASE s = slot
    <3>1. ~ \E i \in 1 .. Len(ptr_free') : ptr_free'[i] = slot
      BY <1>4
    <3>2. oid'[b] = id
      BY <1>d DEF ScalarsOK
    <3> QED
      BY <1>c, <1>2, <2>1, <3>1, <3>2
  <2>2. CASE s # slot
    <3>1. (\E i \in 1 .. Len(free) : free[i] = s)
            <=> \E i \in 1 .. Len(ptr_free') : ptr_free'[i] = s
      BY <1>b, <1>3, <2>2
    <3>2. ptr_data'[s] = data[s]
      BY <1>2, <2>2
    <3>3. ASSUME data[s].id # NoId
          PROVE  oid'[data[s].body] = data[s].id
      <4>1. data[s].body \in Bodies /\ data[s].id \in Ids /\ oid[data[s].body] = data[s].id
        BY <3>3 DEF TableOK
      <4>2. data[s].body # b
        BY <4>1 DEF Ids, Unborn
      <4> QED
        BY <1>d, <4>1, <4>2 DEF ScalarsOK
    <3> QED
      BY <3>1, <3>2, <3>3 DEF TableOK
  <2> QED
    BY <2>1, <2>2
<1>6. ASSUME NEW c \in Named'
      PROVE  /\ oid'[c].lo \in 0 .. n - 1
             /\ ptr_data'[oid'[c].lo] = [id |-> oid'[c], body |-> c]
  <2>1. CASE c = b
    BY <1>b, <1>c, <1>d, <1>2, <2>1 DEF ScalarsOK
  <2>2. CASE c # b
    <3>1. c \in Named /\ oid'[c] = oid[c]
      BY <1>d, <1>e, <2>2 DEF Named, ScalarsOK
    <3>2. oid[c].lo \in 0 .. n - 1 /\ data[oid[c].lo] = [id |-> oid[c], body |-> c]
          /\ oid[c] # NoId
      BY <3>1 DEF TableOK, Named
    <3>3. data[slot].id = NoId
      BY <1>b DEF TableOK
    <3>4. oid[c].lo # slot
      BY <3>2, <3>3
    <3> QED
      BY <1>2, <3>1, <3>2, <3>4
  <2> QED
    BY <2>1, <2>2
<1>7. ASSUME NEW h \in stale, adds + 1 - h.serial < SeedSpan, h.id.lo \in 0 .. n - 1
      PROVE  ptr_data'[h.id.lo].id # h.id
  <2>0. h.serial \in Nat /\ h.id \in Ids /\ Aligned(idx_seed, adds, h.id.hi, h.serial)
        /\ adds \in Nat
    BY DEF ScalarsOK
  <2>1. CASE h.id.lo = slot
    <3>1. Aligned(NextSeed, adds + 1, h.id.hi, h.serial)
      BY <2>0, AlignedStep DEF ScalarsOK, Ids
    <3>2. h.serial < adds + 1
      BY <2>0 DEF Aligned
    <3>3. NextSeed # h.id.hi
      <4>1. /\ NextSeed \in Int /\ h.id.hi \in Int
            /\ adds + 1 \in Nat /\ adds + 1 - h.serial < SeedSpan
        BY <1>7, <2>0, SeedStep DEF ScalarsOK, Ids
      <4> QED
        BY <2>0, <3>1, <3>2, <4>1, AlignedAge
    <3> QED
      BY <1>c, <1>2, <2>1, <3>3
  <2>2. CASE h.id.lo # slot
    <3>1. adds - h.serial < SeedSpan
      BY <1>7, <2>0
    <3>2. data[h.id.lo].id # h.id
      BY <1>7, <3>1 DEF TableOK
    <3> QED
      BY <1>7, <1>2, <2>2, <3>2
  <2> QED
    BY <2>1, <2>2
<1>8. TableOK(cnt_data, ptr_data, ptr_free)'
  <2>1. /\ ptr_data' \in [0 .. cnt_data' - 1 -> [id : Ids \cup {NoId}, body : Bodies]]
        /\ cnt_data' \in 0 .. MaxSlots
        /\ ptr_free' \in Seq(0 .. cnt_data' - 1)
    BY <1>a, <1>2, <1>3
  <2>2. ASSUME NEW h \in stale', adds' - h.serial < SeedSpan,
               h.id.lo \in 0 .. cnt_data' - 1
        PROVE  ptr_data'[h.id.lo].id # h.id
    <3>0. h \in stale /\ h.serial \in Nat /\ adds \in Nat
      BY <1>d, <2>2 DEF ScalarsOK
    <3>1. adds + 1 - h.serial < SeedSpan /\ h.id.lo \in 0 .. n - 1
      BY <1>d, <2>2, <3>0
    <3> QED
      BY <1>7, <3>0, <3>1
  <2> QED
    BY <1>4, <1>5, <1>6, <2>1, <2>2 DEF TableOK
<1> QED
  BY <1>1, <1>8 DEF IInv

\* A failed add changes the id of the body that failed, and no table.
LEMMA FailedAdd ==
    ASSUME IInv, NEW b \in Bodies, AddFails(b)
    PROVE  IInv'
<1>a. /\ oid' = [oid EXCEPT ![b] = NoId] /\ oid[b] = Unborn
      /\ UNCHANGED <<cnt_data, ptr_data, ptr_free, idx_seed, adds, serial, stale>>
  BY DEF AddFails
<1>b. Named' = Named /\ \A c \in Named : oid'[c] = oid[c]
  BY <1>a DEF IInv, ScalarsOK, Named
<1>1. ScalarsOK'
  BY <1>a, <1>b DEF IInv, ScalarsOK
<1>2. ASSUME NEW s \in 0 .. cnt_data - 1, ptr_data[s].id # NoId
      PROVE  oid'[ptr_data[s].body] = ptr_data[s].id
  <2>1. /\ ptr_data[s].body \in Bodies /\ ptr_data[s].id \in Ids
        /\ oid[ptr_data[s].body] = ptr_data[s].id
    BY <1>2 DEF IInv, TableOK
  <2>2. ptr_data[s].body # b
    BY <1>a, <2>1 DEF Ids, Unborn
  <2> QED
    BY <1>a, <2>1, <2>2 DEF IInv, ScalarsOK
<1>3. TableOK(cnt_data, ptr_data, ptr_free)'
  BY <1>a, <1>b, <1>2 DEF IInv, TableOK
<1> QED
  BY <1>1, <1>3 DEF IInv

\* remove: the slot of a named object goes back to the stack; the id of an
\* object that was never entered (-1) frees nothing.
LEMMA Removed ==
    ASSUME InRange, IInv, NEW b \in Bodies, Remove(b)
    PROVE  IInv'
<1> USE StockAssumption
<1> DEFINE slot == oid[b].lo
<1>t. /\ cnt_data \in 0 .. MaxSlots
      /\ ptr_data \in [0 .. cnt_data - 1 -> [id : Ids \cup {NoId}, body : Bodies]]
      /\ ptr_free \in Seq(0 .. cnt_data - 1)
      /\ Len(ptr_free) \in Nat
  BY LenProperties DEF IInv, TableOK
<1>a. /\ oid[b] # Unborn
      /\ oid' = [oid EXCEPT ![b] = Unborn]
      /\ UNCHANGED <<cnt_data, idx_seed, adds, serial>>
  BY DEF Remove
<1>b. /\ Named' = Named \ {b}
      /\ \A c \in Named' : c \in Named /\ c # b /\ oid'[c] = oid[c]
  BY <1>a DEF IInv, ScalarsOK, Named
<1>1. CASE oid[b] = NoId
  <2>1. ~Found(oid[b])
    BY <1>1, <1>t DEF Found, NoId, Slots, InRange
  <2>2. UNCHANGED <<ptr_data, ptr_free, stale>>
    BY <1>1, <2>1 DEF Remove
  <2>3. Named' = Named
    BY <1>1, <1>b DEF Named
  <2>4. ScalarsOK'
    BY <1>a, <1>b, <2>2, <2>3 DEF IInv, ScalarsOK
  <2>5. ASSUME NEW s \in 0 .. cnt_data - 1, ptr_data[s].id # NoId
        PROVE  oid'[ptr_data[s].body] = ptr_data[s].id
    <3>1. ptr_data[s].body \in Bodies /\ oid[ptr_data[s].body] = ptr_data[s].id
      BY <1>t, <2>5 DEF IInv, TableOK
    <3>2. ptr_data[s].body # b
      BY <1>1, <2>5, <3>1
    <3> QED
      BY <1>a, <3>1, <3>2 DEF IInv, ScalarsOK
  <2>6. TableOK(cnt_data, ptr_data, ptr_free)'
    BY <1>a, <1>b, <2>2, <2>3, <2>5 DEF IInv, TableOK
  <2> QED
    BY <2>4, <2>6 DEF IInv
<1>2. CASE oid[b] # NoId
  <2>1. /\ b \in Named /\ oid[b] \in Ids
        /\ slot \in 0 .. cnt_data - 1
        /\ ptr_data[slot] = [id |-> oid[b], body |-> b]
    BY <1>2, <1>a DEF IInv, ScalarsOK, TableOK, Named
  <2>2. /\ ptr_free' = Append(ptr_free, slot)
        /\ ptr_data' = [ptr_data EXCEPT ![slot].id = NoId]
        /\ stale' = stale \cup {[id |-> oid[b], serial |-> serial[b]]}
    BY <1>2, <2>1 DEF Remove, Found, Slots
  <2>3. /\ ptr_data' \in [0 .. cnt_data - 1 -> [id : Ids \cup {NoId}, body : Bodies]]
        /\ ptr_data'[slot].id = NoId
        /\ \A s \in 0 .. cnt_data - 1 : s # slot => ptr_data'[s] = ptr_data[s]
    BY <1>t, <2>1, <2>2
  <2>4. /\ ptr_free' \in Seq(0 .. cnt_data - 1)
        /\ Len(ptr_free') = Len(ptr_free) + 1
        /\ ptr_free'[Len(ptr_free) + 1] = slot
        /\ \A i \in 1 .. Len(ptr_free) : ptr_free'[i] = ptr_free[i]
    BY <1>t, <2>1, <2>2, AppendProperties
  <2>5. \A i \in 1 .. Len(ptr_free) : ptr_free[i] # slot
    <3>1. ptr_data[slot].id = NoId <=> \E i \in 1 .. Len(ptr_free) : ptr_free[i] = slot
      BY <2>1 DEF IInv, TableOK
    <3>2. ptr_data[slot].id # NoId
      BY <1>2, <2>1
    <3> QED
      BY <3>1, <3>2
  <2>6. ScalarsOK'
    <3>1. Aligned(idx_seed, adds, oid[b].hi, serial[b]) /\ serial[b] \in Nat
      BY <2>1 DEF IInv, ScalarsOK
    <3> QED
      BY <1>a, <1>b, <2>1, <2>2, <3>1 DEF IInv, ScalarsOK
  <2>7. \A i, j \in 1 .. Len(ptr_free') : ptr_free'[i] = ptr_free'[j] => i = j
    <3>1. \A i \in 1 .. Len(ptr_free') : i \in 1 .. Len(ptr_free) \/ i = Len(ptr_free) + 1
      BY <1>t, <2>4
    <3>2. \A i, j \in 1 .. Len(ptr_free) : ptr_free[i] = ptr_free[j] => i = j
      BY DEF IInv, TableOK
    <3> QED
      BY <2>4, <2>5, <3>1, <3>2
  <2>8. ASSUME NEW s \in 0 .. cnt_data - 1
        PROVE  /\ ptr_data'[s].id = NoId <=> \E i \in 1 .. Len(ptr_free') : ptr_free'[i] = s
               /\ ptr_data'[s].id # NoId =>
                    ptr_data'[s].id.lo = s /\ oid'[ptr_data'[s].body] = ptr_data'[s].id
    <3>1. CASE s = slot
      <4>1. Len(ptr_free) + 1 \in 1 .. Len(ptr_free')
        BY <1>t, <2>4
      <4> QED
        BY <2>3, <2>4, <3>1, <4>1
    <3>2. CASE s # slot
      <4>1. (\E i \in 1 .. Len(ptr_free) : ptr_free[i] = s)
              <=> \E i \in 1 .. Len(ptr_free') : ptr_free'[i] = s
        <5>1. \A i \in 1 .. Len(ptr_free) : i \in 1 .. Len(ptr_free')
          BY <1>t, <2>4
        <5>2. \A i \in 1 .. Len(ptr_free') : i \in 1 .. Len(ptr_free) \/ i = Len(ptr_free) + 1
          BY <1>t, <2>4
        <5> QED
          BY <2>4, <3>2, <5>1, <5>2
      <4>2. ASSUME ptr_data[s].id # NoId
            PROVE  oid'[ptr_data[s].body] = ptr_data[s].id
        <5>1. /\ ptr_data[s].body \in Bodies /\ oid[ptr_data[s].body] = ptr_data[s].id
              /\ ptr_data[s].id.lo = s
          BY <1>t, <4>2 DEF IInv, TableOK
        <5>2. ptr_data[s].body # b
          BY <3>2, <5>1
        <5> QED
          BY <1>a, <5>1, <5>2 DEF IInv, ScalarsOK
      <4> QED
        BY <2>3, <3>2, <4>1, <4>2 DEF IInv, TableOK
    <3> QED
      BY <3>1, <3>2
  <2>9. ASSUME NEW c \in Named'
        PROVE  /\ oid'[c].lo \in 0 .. cnt_data - 1
               /\ ptr_data'[oid'[c].lo] = [id |-> oid'[c], body |-> c]
    <3>1. /\ oid'[c] = oid[c] /\ c # b /\ oid[c].lo \in 0 .. cnt_data - 1
          /\ ptr_data[oid[c].lo] = [id |-> oid[c], body |-> c]
      BY <1>b DEF IInv, TableOK
    <3>2. oid[c].lo # slot
      BY <2>1, <3>1
    <3> QED
      BY <2>3, <3>1, <3>2
  <2>10. ASSUME NEW h \in stale', adds' - h.serial < SeedSpan,
                h.id.lo \in 0 .. cnt_data - 1
         PROVE  ptr_data'[h.id.lo].id # h.id
    <3>0. h.id \in Ids /\ h.id # NoId
      BY <2>6 DEF ScalarsOK, Ids, NoId
    <3>1. CASE h.id.lo = slot
      BY <2>3, <3>0, <3>1
    <3>2. CASE h.id.lo # slot
      <4>1. h \in stale
        BY <2>2, <3>2
      <4>2. adds - h.serial < SeedSpan
        BY <1>a, <2>10
      <4> QED
        BY <2>3, <2>10, <3>2, <4>1, <4>2 DEF IInv, TableOK
    <3> QED
      BY <3>1, <3>2
  <2>11. TableOK(cnt_data, ptr_data, ptr_free)'
    BY <1>t, <1>a, <2>3, <2>4, <2>7, <2>8, <2>9, <2>10 DEF TableOK
  <2> QED
    BY <2>6, <2>11 DEF IInv
<1> QED
  BY <1>1, <1>2

\* IInv is inductive.
LEMMA Inductive == InRange /\ IInv /\ [Next]_vars => IInv'
<1> SUFFICES ASSUME InRange, IInv, [Next]_vars PROVE IInv'
  OBVIOUS
<1>1. ASSUME NEW b \in Bodies, AddReuse(b) PROVE IInv'
  <2>1. /\ oid[b] = Unborn /\ ptr_free # <<>>
        /\ Place(b, ptr_data, ptr_free)
        /\ cnt_data' = cnt_data
    BY <1>1 DEF AddReuse
  <2> QED
    BY <2>1, Placed DEF IInv
<1>2. ASSUME NEW b \in Bodies, AddGrow(b) PROVE IInv'
  <2>1. /\ oid[b] = Unborn /\ ptr_free = <<>> /\ cnt_data + PageSize <= MaxSlots
        /\ Place(b, GrownData(b), GrownFree)
        /\ cnt_data' = cnt_data + PageSize
    BY <1>2 DEF AddGrow
  <2>2. TableOK(cnt_data + PageSize, GrownData(b), GrownFree) /\ GrownFree # <<>>
    BY <2>1, Grown
  <2> QED
    BY <2>1, <2>2, Placed DEF IInv
<1>3. ASSUME NEW b \in Bodies, AddFails(b) PROVE IInv'
  BY <1>3, FailedAdd
<1>4. ASSUME NEW b \in Bodies, Remove(b) PROVE IInv'
  BY <1>4, Removed
<1>5. CASE UNCHANGED vars
  BY <1>5 DEF vars, IInv, ScalarsOK, TableOK, Named
<1> QED
  BY <1>1, <1>2, <1>3, <1>4, <1>5 DEF Next

\* In range the invariant holds throughout.
THEOREM StockInvariant == InRange => (Spec => []IInv)
<1> SUFFICES ASSUME InRange PROVE Spec => []IInv
  OBVIOUS
<1>1. IInv /\ [Next]_vars => IInv'
  BY Inductive
<1>2. Init => IInv
  BY InitOK
<1> QED
  BY <1>1, <1>2, PTL DEF Spec

\* IInv implies every property the model checker verified.
LEMMA InvariantSuffices ==
    InRange /\ IInv => TypeOK /\ FreeListExact /\ LiveResolves /\ StaleRejected /\ NoIdRejected
<1> SUFFICES ASSUME InRange, IInv
             PROVE  TypeOK /\ FreeListExact /\ LiveResolves /\ StaleRejected /\ NoIdRejected
  OBVIOUS
<1> USE StockAssumption DEF IInv, TableOK, ScalarsOK
<1>1. TypeOK
  BY DEF TypeOK, Slots
<1>2. FreeListExact
  BY DEF FreeListExact, Occupied, Slots
<1>3. LiveResolves
  <2> SUFFICES ASSUME NEW b \in Named PROVE Found(oid[b]) /\ Get(oid[b]) = b
    BY Zenon DEF LiveResolves
  <2>1. oid[b].lo \in 0 .. cnt_data - 1 /\ ptr_data[oid[b].lo] = [id |-> oid[b], body |-> b]
    OBVIOUS
  <2> HIDE DEF IInv, TableOK, ScalarsOK
  <2>2. ptr_data[oid[b].lo].id = oid[b] /\ ptr_data[oid[b].lo].body = b
    BY <2>1
  <2> QED
    BY <2>1, <2>2, Zenon DEF Found, Get, Slots
<1>4. StaleRejected
  BY DEF StaleRejected, Found, Slots
<1>5. NoIdRejected
  BY DEF NoIdRejected, Found, Slots, NoId, InRange
<1> QED
  BY <1>1, <1>2, <1>3, <1>4, <1>5

\* Every variable keeps its type; no slot outgrows the allocation.
THEOREM Typing == InRange => (Spec => []TypeOK)
<1> SUFFICES ASSUME InRange PROVE Spec => []TypeOK
  OBVIOUS
<1>1. IInv => TypeOK
  BY InvariantSuffices
<1> QED
  BY <1>1, StockInvariant, PTL

\* add never hands out a used slot, and remove loses none.
THEOREM FreeListStaysExact == InRange => (Spec => []FreeListExact)
<1> SUFFICES ASSUME InRange PROVE Spec => []FreeListExact
  OBVIOUS
<1>1. IInv => FreeListExact
  BY InvariantSuffices
<1> QED
  BY <1>1, StockInvariant, PTL

\* The id of a living object finds this object.
THEOREM LiveIdsResolve == InRange => (Spec => []LiveResolves)
<1> SUFFICES ASSUME InRange PROVE Spec => []LiveResolves
  OBVIOUS
<1>1. IInv => LiveResolves
  BY InvariantSuffices
<1> QED
  BY <1>1, StockInvariant, PTL

\* The id of a dead object finds nothing until SeedSpan ids were issued
\* since, whichever slots they took.
THEOREM StaleIdsRejected == InRange => (Spec => []StaleRejected)
<1> SUFFICES ASSUME InRange PROVE Spec => []StaleRejected
  OBVIOUS
<1>1. IInv => StaleRejected
  BY InvariantSuffices
<1> QED
  BY <1>1, StockInvariant, PTL

\* The id -1 finds nothing while slot IndexSpan - 1 is not allocated.
THEOREM NoIdStaysRejected == InRange => (Spec => []NoIdRejected)
<1> SUFFICES ASSUME InRange PROVE Spec => []NoIdRejected
  OBVIOUS
<1>1. IInv => NoIdRejected
  BY InvariantSuffices
<1> QED
  BY <1>1, StockInvariant, PTL

-----------------------------------------------------------------------------

\* Entries of a table <<n, data>> that is not committed yet.
EntriesOf(n, data) == {<<data[s].id, data[s].body>> : s \in {t \in 0 .. n - 1 : data[t].id # NoId}}

\* Filling a free slot of a consistent table inserts one entry in the set of
\* entries, for a body and under a handle that had none.
LEMMA PlaceInserts ==
    ASSUME InRange, IInv, NEW n, NEW data, NEW free, NEW b \in Bodies,
           TableOK(n, data, free), free # <<>>, oid[b] = Unborn,
           Place(b, data, free), cnt_data' = n, Entries = EntriesOf(n, data)
    PROVE  HT!Insert(b)
<1> DEFINE slot == free[Len(free)]
           id   == MakeId(NextSeed, slot)
<1>a. n \in 0 .. MaxSlots /\ free \in Seq(0 .. n - 1)
  BY DEF TableOK
<1>b. Len(free) \in 1 .. Len(free) /\ slot \in 0 .. n - 1 /\ slot \in 0 .. MaxSlots - 1
  BY <1>a, EmptySeq, ElementOfSeq, StockAssumption
<1>c. id = [hi |-> NextSeed, lo |-> slot] /\ id \in Ids /\ id # NoId
  BY <1>b, IdOfSlot, SeedStep, StockAssumption DEF IInv, ScalarsOK, Ids, NoId, InRange
<1>d. ptr_data' = [data EXCEPT ![slot] = [id |-> id, body |-> b]]
  BY DEF Place
<1> HIDE DEF id
<1>1. data[slot].id = NoId
  BY <1>b DEF TableOK
<1>2. ASSUME NEW s \in 0 .. n - 1, data[s].id # NoId
      PROVE  data[s].id # id /\ data[s].body # b
  <2>1. /\ data[s].id.lo = s /\ oid[data[s].body] = data[s].id
        /\ data[s].id \in Ids
    BY <1>2 DEF TableOK
  <2>2. s # slot
    BY <1>1, <1>2
  <2> QED
    BY <1>c, <2>1, <2>2 DEF Ids, Unborn
<1>3. \A e \in Entries : e[1] # id /\ e[2] # b
  BY <1>2 DEF EntriesOf
<1>4. /\ ptr_data'[slot] = [id |-> id, body |-> b]
      /\ \A s \in 0 .. n - 1 : s # slot => ptr_data'[s] = data[s]
  BY <1>b, <1>d DEF TableOK
<1>5. Entries' = Entries \cup {<<id, b>>}
  <2>1. Entries' = {<<ptr_data'[s].id, ptr_data'[s].body>> :
                       s \in {t \in 0 .. n - 1 : ptr_data'[t].id # NoId}}
    BY DEF Entries, Occupied, Slots, NoId
  <2>2. {t \in 0 .. n - 1 : ptr_data'[t].id # NoId}
          = {t \in 0 .. n - 1 : data[t].id # NoId} \cup {slot}
    BY <1>b, <1>c, <1>1, <1>4
  <2>3. \A s \in {t \in 0 .. n - 1 : data[t].id # NoId} : ptr_data'[s] = data[s]
    BY <1>1, <1>4
  <2> QED
    BY <1>4, <2>1, <2>2, <2>3 DEF EntriesOf
<1> QED
  BY <1>c, <1>3, <1>5 DEF HT!Insert

\* remove takes the entry of the body away, or changes nothing.
LEMMA RemoveDeletes ==
    ASSUME InRange, IInv, NEW b \in Bodies, Remove(b)
    PROVE  HT!Delete(b) \/ Entries' = Entries
<1> DEFINE slot == oid[b].lo
<1>1. CASE ~Found(oid[b])
  <2>1. UNCHANGED <<ptr_data, cnt_data>>
    BY <1>1 DEF Remove
  <2> QED
    BY <2>1 DEF Entries, Occupied, Slots, NoId
<1>2. CASE Found(oid[b])
  <2>1. oid[b] # NoId
    BY <1>2, InvariantSuffices DEF NoIdRejected
  <2>2. b \in Named /\ oid[b] # Unborn
    BY <2>1 DEF Named, Remove
  <2>3. /\ slot \in Slots
        /\ ptr_data[slot] = [id |-> oid[b], body |-> b]
        /\ ptr_data \in [Slots -> [id : Ids \cup {NoId}, body : Bodies]]
    BY <2>2 DEF IInv, TableOK, Slots
  <2>4. ptr_data' = [ptr_data EXCEPT ![slot].id = NoId] /\ cnt_data' = cnt_data
    BY <1>2 DEF Remove
  <2>5. /\ ptr_data'[slot].id = NoId
        /\ \A s \in Slots : s # slot => ptr_data'[s] = ptr_data[s]
    BY <2>3, <2>4
  <2>6. Occupied' = Occupied \ {slot} /\ slot \in Occupied
    BY <2>1, <2>3, <2>4, <2>5 DEF Occupied, Slots, NoId
  <2>7. \A s \in Occupied : s # slot => ptr_data[s].body # b
    <3>1. \A s \in Occupied : ptr_data[s].id.lo = s /\ oid[ptr_data[s].body] = ptr_data[s].id
      BY DEF IInv, TableOK, Occupied, Slots
    <3> QED
      BY <3>1
  <2>8. Entries' = Entries \ {<<oid[b], b>>} /\ <<oid[b], b>> \in Entries
    <3>1. Entries' = {<<ptr_data[s].id, ptr_data[s].body>> : s \in Occupied \ {slot}}
      BY <2>5, <2>6 DEF Entries, Occupied
    <3> QED
      BY <2>3, <2>6, <2>7, <3>1 DEF Entries
  <2> QED
    BY <2>8 DEF HT!Delete
<1> QED
  BY <1>1, <1>2

\* Whatever the page size and the serial numbers, the stock is a handle
\* table: an operation adds or takes away one entry and touches no other.
THEOREM StockImplementsHandleTable == InRange => (Spec => ImplementsHandleTable)
<1> SUFFICES ASSUME InRange PROVE Spec => HT!Spec
  BY DEF ImplementsHandleTable
<1>1. Init => HT!Init
  BY DEF Init, HT!Init, Entries, Occupied, Slots
<1>2. IInv /\ [Next]_vars => [HT!Next]_Entries
  <2> SUFFICES ASSUME IInv, [Next]_vars PROVE [HT!Next]_Entries
    OBVIOUS
  <2>1. ASSUME NEW b \in Bodies, AddReuse(b) PROVE HT!Insert(b)
    <3>1. Entries = EntriesOf(cnt_data, ptr_data)
      BY DEF Entries, EntriesOf, Occupied, Slots
    <3> QED
      BY <2>1, <3>1, PlaceInserts DEF AddReuse, IInv
  <2>2. ASSUME NEW b \in Bodies, AddGrow(b) PROVE HT!Insert(b)
    <3>1. Entries = EntriesOf(cnt_data + PageSize, GrownData(b))
      <4>1. cnt_data \in Nat /\ PageSize \in Nat
        BY StockAssumption DEF IInv, TableOK
      <4>2. PICK n : n = cnt_data + PageSize
        OBVIOUS
      <4>3. PICK data : data = GrownData(b)
        OBVIOUS
      <4>4. /\ \A s \in 0 .. cnt_data - 1 : data[s] = ptr_data[s]
            /\ \A s \in 0 .. n - 1 : s \notin 0 .. cnt_data - 1 => data[s].id = NoId
            /\ \A s \in 0 .. cnt_data - 1 : s \in 0 .. n - 1
        BY <4>1, <4>2, <4>3 DEF GrownData, Slots
      <4>5. Occupied = {t \in 0 .. n - 1 : data[t].id # NoId}
        BY <4>4 DEF Occupied, Slots
      <4>6. Entries = {<<data[s].id, data[s].body>> : s \in Occupied}
        BY <4>4 DEF Entries, Occupied, Slots
      <4>7. Entries = EntriesOf(n, data)
        BY <4>5, <4>6 DEF EntriesOf
      <4> QED
        BY <4>2, <4>3, <4>7
    <3>2. /\ oid[b] = Unborn /\ ptr_free = <<>> /\ cnt_data + PageSize <= MaxSlots
          /\ Place(b, GrownData(b), GrownFree)
          /\ cnt_data' = cnt_data + PageSize
      BY <2>2 DEF AddGrow
    <3>3. TableOK(cnt_data + PageSize, GrownData(b), GrownFree) /\ GrownFree # <<>>
      BY <3>2, Grown
    <3> QED
      BY <3>1, <3>2, <3>3, PlaceInserts
  <2>3. ASSUME NEW b \in Bodies, AddFails(b) PROVE Entries' = Entries
    BY <2>3 DEF AddFails, Entries, Occupied, Slots, NoId
  <2>4. ASSUME NEW b \in Bodies, Remove(b) PROVE HT!Delete(b) \/ Entries' = Entries
    BY <2>4, RemoveDeletes
  <2>5. CASE UNCHANGED vars
    BY <2>5 DEF vars, Entries, Occupied, Slots, NoId
  <2> QED
    BY <2>1, <2>2, <2>3, <2>4, <2>5 DEF Next, HT!Next
<1> QED
  BY <1>1, <1>2, StockInvariant, PTL DEF Spec, HT!Spec

-----------------------------------------------------------------------------
\* The paged allocator.

Of(p, blocks) == {k \in Items : <<p, k>> \in blocks}

Balanced ==
    \A p \in Pages : p \in Chain => available[p] + Cardinality(Of(p, live)) = PageItems

PagesInv == PagesTypeOK /\ StackExact /\ Balanced

\* The items of a page, and those of them in use, are finitely many.
LEMMA ItemsFinite == IsFiniteSet(Items) /\ Cardinality(Items) = PageItems
<1>1. IsFiniteSet(Items) /\ Cardinality(Items) =
        IF 0 > PageItems - 1 THEN 0 ELSE (PageItems - 1) - 0 + 1
  BY FS_Interval, PagemanAssumption DEF Items
<1> QED
  BY <1>1, PagemanAssumption

LEMMA OfFinite ==
    ASSUME NEW p, NEW blocks
    PROVE  IsFiniteSet(Of(p, blocks)) /\ Cardinality(Of(p, blocks)) \in Nat
BY ItemsFinite, FS_Subset, FS_CardinalityType DEF Of

\* One more block of a page, and no change to the other pages.
LEMMA OfMore ==
    ASSUME NEW p, NEW k \in Items, NEW blocks, <<p, k>> \notin blocks
    PROVE  /\ Cardinality(Of(p, blocks \cup {<<p, k>>})) = Cardinality(Of(p, blocks)) + 1
           /\ \A q : q # p => Of(q, blocks \cup {<<p, k>>}) = Of(q, blocks)
<1>1. Of(p, blocks \cup {<<p, k>>}) = Of(p, blocks) \cup {k} /\ k \notin Of(p, blocks)
  BY DEF Of
<1>2. Cardinality(Of(p, blocks) \cup {k}) = Cardinality(Of(p, blocks)) + 1
  BY <1>1, OfFinite, FS_AddElement
<1>3. \A q : q # p => Of(q, blocks \cup {<<p, k>>}) = Of(q, blocks)
  BY DEF Of
<1> QED
  BY <1>1, <1>2, <1>3

LEMMA OfLess ==
    ASSUME NEW p, NEW k \in Items, NEW blocks, <<p, k>> \in blocks
    PROVE  /\ Cardinality(Of(p, blocks \ {<<p, k>>})) = Cardinality(Of(p, blocks)) - 1
           /\ Cardinality(Of(p, blocks)) >= 1
           /\ \A q : q # p => Of(q, blocks \ {<<p, k>>}) = Of(q, blocks)
<1>1. /\ (blocks \ {<<p, k>>}) \cup {<<p, k>>} = blocks
      /\ <<p, k>> \notin blocks \ {<<p, k>>}
  OBVIOUS
<1>2. Cardinality(Of(p, blocks)) = Cardinality(Of(p, blocks \ {<<p, k>>})) + 1
  BY <1>1, OfMore
<1>3. \A q : q # p => Of(q, blocks \ {<<p, k>>}) = Of(q, blocks)
  BY DEF Of
<1>4. Cardinality(Of(p, blocks \ {<<p, k>>})) \in Nat
  BY OfFinite
<1>5. /\ Cardinality(Of(p, blocks \ {<<p, k>>})) = Cardinality(Of(p, blocks)) - 1
      /\ Cardinality(Of(p, blocks)) >= 1
  BY <1>2, <1>4
<1> QED
  BY <1>3, <1>5

-----------------------------------------------------------------------------
\* There are no pages at first.
LEMMA PagesInitOK == PagesInit => PagesInv
<1> SUFFICES ASSUME PagesInit PROVE PagesInv
  OBVIOUS
<1> USE PagemanAssumption DEF PagesInit, Chain
<1>1. 1 .. count = {}
  OBVIOUS
<1>2. PagesTypeOK
  BY <1>1 DEF PagesTypeOK, Items
<1>3. StackExact
  BY <1>1 DEF StackExact, Stack
<1>4. Balanced
  BY <1>1 DEF Balanced
<1> QED
  BY <1>2, <1>3, <1>4 DEF PagesInv

Top(stack, n) == {stack[i] : i \in 1 .. n}
Unused(p, blocks) == {k \in Items : <<p, k>> \notin blocks}

\* Before and after alloc takes the top of a stack that is exact and not empty.
Ready(p, stack, left) ==
    /\ stack \in [Places -> Items] /\ left \in [Pages -> 0 .. PageItems]
    /\ left[p] # 0 /\ live \subseteq Pages \X Items /\ most \in Nat
    /\ \A i, j \in 1 .. left[p] : stack[i] = stack[j] => i = j
    /\ Top(stack, left[p]) = Unused(p, live)

Taken(p, stack, left) ==
    \E k \in Items :
        /\ <<p, k>> \notin live
        /\ live' = live \cup {<<p, k>>}
        /\ available' = [left EXCEPT ![p] = @ - 1]
        /\ available' \in [Pages -> 0 .. PageItems]
        /\ most' \in Nat
        /\ Top(stack, available'[p]) = Unused(p, live')

LEMMA TakeOK ==
    ASSUME NEW p \in Pages, NEW size, NEW stack, NEW left,
           Ready(p, stack, left), Take(p, size, stack, left)
    PROVE  Taken(p, stack, left)
<1> USE PagemanAssumption DEF Top, Unused, Ready
<1> DEFINE k == stack[left[p]]
<1>1. left[p] \in 1 .. PageItems /\ left[p] \in Places
  BY DEF Places
<1>2. k \in Items
  BY <1>1
<1>3. <<p, k>> \notin live
  BY <1>1, <1>2
<1>4. live' = live \cup {<<p, k>>} /\ available' = [left EXCEPT ![p] = @ - 1]
  BY DEF Take
<1>5. available' \in [Pages -> 0 .. PageItems] /\ available'[p] = left[p] - 1
  BY <1>1, <1>4
<1>6. most' \in Nat
  BY DEF Take
<1>7. Top(stack, available'[p]) = Unused(p, live')
  <2>1. ASSUME NEW i \in 1 .. available'[p]
        PROVE  stack[i] \in Items /\ <<p, stack[i]>> \notin live'
    <3>1. i \in 1 .. left[p] /\ i # left[p] /\ left[p] \in 1 .. left[p]
      BY <1>1, <1>5
    <3>2. stack[i] # k
      BY <3>1
    <3>3. stack[i] \in {j \in Items : <<p, j>> \notin live}
      BY <3>1
    <3> QED
      BY <3>2, <3>3, <1>4
  <2>2. ASSUME NEW j \in Items, <<p, j>> \notin live'
        PROVE  \E i \in 1 .. available'[p] : j = stack[i]
    <3>1. <<p, j>> \notin live /\ j # k
      BY <2>2, <1>4
    <3>2. j \in {stack[i] : i \in 1 .. left[p]}
      BY <3>1
    <3>3. PICK i \in 1 .. left[p] : j = stack[i]
      BY <3>2
    <3>4. i # left[p]
      BY <3>1, <3>3
    <3> QED
      BY <1>1, <1>5, <3>3, <3>4
  <2> QED
    BY <2>1, <2>2
<1> HIDE DEF k
<1> QED
  BY <1>2, <1>3, <1>4, <1>5, <1>6, <1>7 DEF Taken

\* A block of a page that is reached.
LEMMA AllocOK ==
    ASSUME PagesInv, NEW p \in Pages, NEW size \in Sizes, Alloc(p, size)
    PROVE  PagesInv' /\ \E b \in Blocks \ live : live' = live \cup {b}
<1> USE PagemanAssumption
<1>0. PagesTypeOK /\ StackExact /\ Balanced
  BY DEF PagesInv
<1>1. /\ p \in Chain /\ available[p] # 0 /\ Take(p, size, index[p], available)
      /\ UNCHANGED <<count, itemsize, index>> /\ Chain' = Chain
  BY DEF Alloc, Reached, Chain
<1>2. /\ index[p] \in [Places -> Items] /\ available \in [Pages -> 0 .. PageItems]
      /\ live \subseteq Pages \X Items /\ most \in Nat
  BY <1>0 DEF PagesTypeOK, Chain, Pages
<1>3. /\ \A i, j \in 1 .. available[p] : index[p][i] = index[p][j] => i = j
      /\ Top(index[p], available[p]) = Unused(p, live)
  BY <1>0, <1>1 DEF StackExact, Stack, Top, Unused
<1>4. PICK k \in Items :
        /\ <<p, k>> \notin live
        /\ live' = live \cup {<<p, k>>}
        /\ available' = [available EXCEPT ![p] = @ - 1]
        /\ available' \in [Pages -> 0 .. PageItems]
        /\ most' \in Nat
        /\ Top(index[p], available'[p]) = Unused(p, live')
  <2>1. Ready(p, index[p], available)
    BY <1>1, <1>2, <1>3 DEF Ready
  <2>2. Taken(p, index[p], available)
    BY <1>1, <2>1, TakeOK
  <2> QED
    BY <2>2 DEF Taken
<1>5. PagesTypeOK'
  BY <1>0, <1>1, <1>4 DEF PagesTypeOK
<1>6. StackExact'
  <2> SUFFICES ASSUME NEW q \in Pages
               PROVE  /\ \A i, j \in 1 .. available'[q] : index'[q][i] = index'[q][j] => i = j
                      /\ {index'[q][i] : i \in 1 .. available'[q]}
                           = {j \in Items : q \in Chain' /\ <<q, j>> \notin live'}
    BY DEF StackExact, Stack
  <2>1. CASE q = p
    <3>1. available'[p] = available[p] - 1 /\ available[p] \in 0 .. PageItems
      BY <1>2, <1>4
    <3>2. \A i \in 1 .. available'[p] : i \in 1 .. available[p]
      BY <3>1
    <3> QED
      BY <1>1, <1>3, <1>4, <2>1, <3>2 DEF Top, Unused
  <2>2. CASE q # p
    <3>1. available'[q] = available[q] /\ index'[q] = index[q]
      BY <1>1, <1>2, <1>4, <2>2
    <3>2. \A j \in Items : <<q, j>> \in live' <=> <<q, j>> \in live
      BY <1>4, <2>2
    <3> QED
      BY <1>0, <1>1, <3>1, <3>2 DEF StackExact, Stack
  <2> QED
    BY <2>1, <2>2
<1>7. Balanced'
  <2> SUFFICES ASSUME NEW q \in Pages, q \in Chain
               PROVE  available'[q] + Cardinality(Of(q, live')) = PageItems
    BY <1>1 DEF Balanced
  <2>1. available[q] + Cardinality(Of(q, live)) = PageItems
    BY <1>0 DEF Balanced
  <2>2. CASE q = p
    <3>1. available'[p] = available[p] - 1 /\ available[p] \in Nat
      BY <1>2, <1>4
    <3>2. Cardinality(Of(p, live')) = Cardinality(Of(p, live)) + 1
      BY <1>4, OfMore
    <3> QED
      BY <2>1, <2>2, <3>1, <3>2, OfFinite
  <2>3. CASE q # p
    <3>1. available'[q] = available[q]
      BY <1>2, <1>4, <2>3
    <3>2. Of(q, live') = Of(q, live)
      BY <1>4, <2>3 DEF Of
    <3> QED
      BY <2>1, <3>1, <3>2
  <2> QED
    BY <2>2, <2>3
<1> QED
  BY <1>4, <1>5, <1>6, <1>7 DEF PagesInv, Blocks

\* A block of a page that is made for it.
LEMMA GrowOK ==
    ASSUME PagesInv, NEW size \in Sizes, AllocGrow(size)
    PROVE  PagesInv' /\ \E b \in Blocks \ live : live' = live \cup {b}
<1> USE PagemanAssumption
<1> DEFINE p == count + 1
           stack == [i \in Places |-> i - 1]
           left == [available EXCEPT ![p] = PageItems]
<1>0. PagesTypeOK /\ StackExact /\ Balanced
  BY DEF PagesInv
<1>1. /\ p \in Pages /\ count' = p /\ itemsize' = [itemsize EXCEPT ![p] = size]
      /\ index' = [index EXCEPT ![p] = stack]
      /\ Take(p, size, stack, left)
  BY DEF AllocGrow
<1>2. count \in Nat /\ p \notin Chain /\ Chain' = Chain \cup {p} /\ Chain' \subseteq Pages
  BY <1>0, <1>1 DEF PagesTypeOK, Chain, Pages
<1>3. /\ stack \in [Places -> Items] /\ left \in [Pages -> 0 .. PageItems] /\ left[p] = PageItems
      /\ live \subseteq Pages \X Items /\ most \in Nat
  <2>1. stack \in [Places -> Items]
    BY DEF Places, Items
  <2>2. left \in [Pages -> 0 .. PageItems] /\ left[p] = PageItems
    BY <1>0, <1>1 DEF PagesTypeOK
  <2>3. live \subseteq Pages \X Items /\ most \in Nat
    BY <1>0 DEF PagesTypeOK, Chain, Pages
  <2> QED
    BY <2>1, <2>2, <2>3
<1>4. \A k \in Items : <<p, k>> \notin live
  BY <1>0, <1>2 DEF PagesTypeOK
<1>5. /\ \A i, j \in 1 .. left[p] : stack[i] = stack[j] => i = j
      /\ Top(stack, left[p]) = Unused(p, live)
  <2>1. \A i, j \in 1 .. left[p] : stack[i] = stack[j] => i = j
    BY <1>3 DEF Places
  <2>2. \A i \in 1 .. left[p] : stack[i] \in Items
    BY <1>3 DEF Places
  <2>3. \A k \in Items : k + 1 \in 1 .. left[p] /\ stack[k + 1] = k
    BY <1>3 DEF Places, Items
  <2> HIDE DEF stack, left, p
  <2> QED
    BY <1>4, <2>1, <2>2, <2>3 DEF Top, Unused
<1>6. left[p] # 0
  BY <1>3
<1> HIDE DEF p, stack, left
<1>7. PICK k \in Items :
        /\ <<p, k>> \notin live
        /\ live' = live \cup {<<p, k>>}
        /\ available' = [left EXCEPT ![p] = @ - 1]
        /\ available' \in [Pages -> 0 .. PageItems]
        /\ most' \in Nat
        /\ Top(stack, available'[p]) = Unused(p, live')
  <2>1. Ready(p, stack, left)
    BY <1>1, <1>3, <1>5, <1>6 DEF Ready
  <2>2. Taken(p, stack, left)
    BY <1>1, <2>1, TakeOK
  <2> QED
    BY <2>2 DEF Taken
<1>8. index' \in [Pages -> [Places -> Items]] /\ index'[p] = stack
  BY <1>0, <1>1, <1>3 DEF PagesTypeOK
<1>9. PagesTypeOK'
  <2>1. count' \in 0 .. MaxPages
    BY <1>1, <1>2 DEF Pages
  <2>2. itemsize' \in [Pages -> Sizes \cup {None}]
    BY <1>0, <1>1 DEF PagesTypeOK
  <2>3. live' \subseteq Chain' \X Items
    BY <1>0, <1>2, <1>7 DEF PagesTypeOK
  <2> QED
    BY <1>7, <1>8, <2>1, <2>2, <2>3 DEF PagesTypeOK
<1>10. \A q \in Pages : q # p => available'[q] = available[q] /\ index'[q] = index[q]
  BY <1>0, <1>1, <1>3, <1>7 DEF PagesTypeOK, left
<1>11. StackExact'
  <2> SUFFICES ASSUME NEW q \in Pages
               PROVE  /\ \A i, j \in 1 .. available'[q] : index'[q][i] = index'[q][j] => i = j
                      /\ {index'[q][i] : i \in 1 .. available'[q]}
                           = {j \in Items : q \in Chain' /\ <<q, j>> \notin live'}
    BY DEF StackExact, Stack
  <2>1. CASE q = p
    <3>1. available'[p] = left[p] - 1 /\ left[p] \in Nat
      BY <1>1, <1>3, <1>7
    <3>2. \A i \in 1 .. available'[p] : i \in 1 .. left[p]
      BY <3>1
    <3> QED
      BY <1>2, <1>5, <1>7, <1>8, <2>1, <3>2 DEF Top, Unused
  <2>2. CASE q # p
    <3>1. \A j \in Items : <<q, j>> \in live' <=> <<q, j>> \in live
      BY <1>7, <2>2
    <3>2. q \in Chain' <=> q \in Chain
      BY <1>2, <2>2
    <3> QED
      BY <1>0, <1>10, <2>2, <3>1, <3>2 DEF StackExact, Stack
  <2> QED
    BY <2>1, <2>2
<1>12. Balanced'
  <2> SUFFICES ASSUME NEW q \in Pages, q \in Chain'
               PROVE  available'[q] + Cardinality(Of(q, live')) = PageItems
    BY DEF Balanced
  <2>1. CASE q = p
    <3>1. available'[p] = PageItems - 1
      BY <1>1, <1>3, <1>7
    <3>2. Of(p, live) = {}
      BY <1>4 DEF Of
    <3>3. Cardinality(Of(p, live')) = Cardinality(Of(p, live)) + 1
      BY <1>7, OfMore
    <3>4. Cardinality(Of(p, live')) = 1
      BY <3>2, <3>3, FS_EmptySet
    <3> QED
      BY <2>1, <3>1, <3>4
  <2>2. CASE q # p
    <3>1. available[q] + Cardinality(Of(q, live)) = PageItems
      BY <1>0, <1>2, <2>2 DEF Balanced
    <3>2. Of(q, live') = Of(q, live)
      BY <1>7, <2>2 DEF Of
    <3> QED
      BY <1>10, <2>2, <3>1, <3>2
  <2> QED
    BY <2>1, <2>2
<1> QED
  BY <1>1, <1>7, <1>9, <1>11, <1>12 DEF PagesInv, Blocks

\* A block that comes back.
LEMMA FreeOK ==
    ASSUME PagesInv, NEW b \in Blocks, Free(b)
    PROVE  PagesInv'
<1> USE PagemanAssumption
<1>0. PagesTypeOK /\ StackExact /\ Balanced
  BY DEF PagesInv
<1>1. PICK p \in Pages, k \in Items : b = <<p, k>>
  BY DEF Blocks
<1>2. /\ <<p, k>> \in live /\ live' = live \ {<<p, k>>}
      /\ available' = [available EXCEPT ![p] = @ + 1]
      /\ index' = [index EXCEPT ![p][available[p] + 1] = k]
      /\ UNCHANGED <<count, itemsize, most>> /\ Chain' = Chain
  BY <1>1 DEF Free, Chain
<1>3. p \in Chain /\ available[p] \in Nat
  BY <1>0, <1>2 DEF PagesTypeOK
<1>4. available[p] + 1 \in 1 .. PageItems
  <2>1. available[p] + Cardinality(Of(p, live)) = PageItems
    BY <1>0, <1>3 DEF Balanced
  <2>2. Cardinality(Of(p, live)) >= 1
    BY <1>2, OfLess
  <2> QED
    BY <1>3, <2>1, <2>2, OfFinite
<1>5. /\ available' \in [Pages -> 0 .. PageItems] /\ available'[p] = available[p] + 1
      /\ \A q \in Pages : q # p => available'[q] = available[q]
  BY <1>0, <1>2, <1>4 DEF PagesTypeOK
<1>6. /\ index' \in [Pages -> [Places -> Items]]
      /\ index'[p][available[p] + 1] = k
      /\ \A i \in 1 .. available[p] : index'[p][i] = index[p][i]
      /\ \A q \in Pages : q # p => index'[q] = index[q]
  BY <1>0, <1>2, <1>4 DEF PagesTypeOK, Places
<1>7. PagesTypeOK'
  BY <1>0, <1>2, <1>5, <1>6 DEF PagesTypeOK
<1>8. StackExact'
  <2> SUFFICES ASSUME NEW q \in Pages
               PROVE  /\ \A i, j \in 1 .. available'[q] : index'[q][i] = index'[q][j] => i = j
                      /\ {index'[q][i] : i \in 1 .. available'[q]}
                           = {j \in Items : q \in Chain' /\ <<q, j>> \notin live'}
    BY DEF StackExact, Stack
  <2>1. CASE q = p
    <3>1. \A i \in 1 .. available[p] :
            index[p][i] \in Items /\ <<p, index[p][i]>> \notin live /\ index[p][i] # k
      BY <1>0, <1>2, <1>3 DEF StackExact, Stack
    <3>2. \A i, j \in 1 .. available[p] : index[p][i] = index[p][j] => i = j
      BY <1>0 DEF StackExact
    <3>3. \A i \in 1 .. available'[p] : i \in 1 .. available[p] \/ i = available[p] + 1
      BY <1>3, <1>5
    <3>4. \A i, j \in 1 .. available'[p] : index'[p][i] = index'[p][j] => i = j
      BY <1>6, <3>1, <3>2, <3>3
    <3>5. ASSUME NEW i \in 1 .. available'[p]
          PROVE  index'[p][i] \in Items /\ <<p, index'[p][i]>> \notin live'
      BY <1>2, <1>6, <3>1, <3>3
    <3>6. ASSUME NEW j \in Items, <<p, j>> \notin live'
          PROVE  \E i \in 1 .. available'[p] : j = index'[p][i]
      <4>1. CASE j = k
        BY <1>3, <1>5, <1>6, <4>1
      <4>2. CASE j # k
        <5>1. <<p, j>> \notin live
          BY <1>2, <3>6, <4>2
        <5>2. j \in Stack(p)
          BY <1>0, <1>3, <5>1 DEF StackExact
        <5>3. PICK i \in 1 .. available[p] : j = index[p][i]
          BY <5>2 DEF Stack
        <5>4. i \in 1 .. available'[p]
          BY <1>3, <1>5
        <5> QED
          BY <1>6, <5>3, <5>4
      <4> QED
        BY <4>1, <4>2
    <3>7. {index'[p][i] : i \in 1 .. available'[p]} = {j \in Items : <<p, j>> \notin live'}
      BY <3>5, <3>6
    <3> QED
      BY <1>2, <1>3, <2>1, <3>4, <3>7
  <2>2. CASE q # p
    <3>1. \A j \in Items : <<q, j>> \in live' <=> <<q, j>> \in live
      BY <1>2, <2>2
    <3>2. available'[q] = available[q] /\ index'[q] = index[q]
      BY <1>5, <1>6, <2>2
    <3> QED
      BY <1>0, <1>2, <3>1, <3>2 DEF StackExact, Stack
  <2> QED
    BY <2>1, <2>2
<1>9. Balanced'
  <2> SUFFICES ASSUME NEW q \in Pages, q \in Chain
               PROVE  available'[q] + Cardinality(Of(q, live')) = PageItems
    BY <1>2 DEF Balanced
  <2>1. available[q] + Cardinality(Of(q, live)) = PageItems
    BY <1>0 DEF Balanced
  <2>2. CASE q = p
    <3>1. Cardinality(Of(p, live')) = Cardinality(Of(p, live)) - 1
      BY <1>2, OfLess
    <3> QED
      BY <1>3, <1>5, <2>1, <2>2, <3>1, OfFinite
  <2>3. CASE q # p
    <3>1. Of(q, live') = Of(q, live)
      BY <1>2, <2>3 DEF Of
    <3> QED
      BY <1>5, <2>1, <2>3, <3>1
  <2> QED
    BY <2>2, <2>3
<1> QED
  BY <1>7, <1>8, <1>9 DEF PagesInv

LEMMA StepOK == PagesInv /\ [PagesNext]_pagevars => PagesInv'
<1> SUFFICES ASSUME PagesInv, [PagesNext]_pagevars PROVE PagesInv'
  OBVIOUS
<1>1. CASE UNCHANGED pagevars
  BY <1>1 DEF pagevars, PagesInv, PagesTypeOK, StackExact, Stack, Balanced, Of, Chain
<1>2. ASSUME NEW size \in Sizes, AllocGrow(size) PROVE PagesInv'
  BY <1>2, GrowOK
<1>3. ASSUME NEW size \in Sizes, NEW p \in Pages, Alloc(p, size) PROVE PagesInv'
  BY <1>3, AllocOK
<1>4. ASSUME NEW size \in Sizes, NEW p \in Pages, AllocRefused(p, size) PROVE PagesInv'
  BY <1>1, <1>4 DEF AllocRefused
<1>5. CASE AllocFails
  BY <1>1, <1>5 DEF AllocFails
<1>6. ASSUME NEW b \in Blocks, Free(b) PROVE PagesInv'
  BY <1>6, FreeOK
<1> QED
  BY <1>1, <1>2, <1>3, <1>4, <1>5, <1>6 DEF PagesNext

\* The inductive invariant holds in every reachable state.
THEOREM PagemanInvariant == PagesSpec => []PagesInv
BY PagesInitOK, StepOK, PTL DEF PagesSpec

\* Types (memory.h:39-76): the stack of a page never outgrows its array.
THEOREM PagesTyping == PagesSpec => []PagesTypeOK
<1>1. PagesInv => PagesTypeOK
  BY DEF PagesInv
<1> QED
  BY <1>1, PagemanInvariant, PTL

\* The stack of each page lists exactly its unused items (memory.cc:58-61, 98).
THEOREM StacksStayExact == PagesSpec => []StackExact
<1>1. PagesInv => StackExact
  BY DEF PagesInv
<1> QED
  BY <1>1, PagemanInvariant, PTL

GivesFree ==
    \A size \in Sizes :
        AllocGrow(size) \/ (\E p \in Pages : Alloc(p, size)) =>
            \E b \in Blocks \ live : live' = live \cup {b}

\* A block that pmalloc returns belongs to nobody (memory.cc:29-48).
THEOREM NoBlockGivenTwice == PagesSpec => [][GivesFree]_pagevars
<1>1. PagesInv /\ [PagesNext]_pagevars => [GivesFree]_pagevars
  <2> SUFFICES ASSUME PagesInv PROVE GivesFree
    OBVIOUS
  <2> QED
    BY AllocOK, GrowOK DEF GivesFree
<1> QED
  BY <1>1, PagemanInvariant, PTL DEF PagesSpec

-----------------------------------------------------------------------------
\* There is a first page of those that have something available.
LEMMA Least ==
    ASSUME NEW T \in SUBSET Nat, T # {}
    PROVE  \E m \in T : \A k \in T : m <= k
<1>. DEFINE R == OpToRel(<, Nat)
<1>1. IsWellFoundedOn(R, Nat)
  BY NatLessThanWellFounded
<1>2. R = {ss \in Nat \X Nat : ss[1] < ss[2]}
  BY DEF OpToRel
<1>3. \A x, y \in Nat : <<x, y>> \in R <=> x < y
  BY <1>2
<1>. HIDE DEF R
<1>4. \E m \in T : \A k \in T : ~(<<k, m>> \in R)
  BY <1>1, WFMin
<1>5. PICK m \in T : \A k \in T : ~(<<k, m>> \in R)
  BY <1>4
<1>6. ASSUME NEW k \in T PROVE m <= k
  <2>1. m \in Nat /\ k \in Nat /\ ~(<<k, m>> \in R)
    BY <1>5
  <2>2. ~(k < m)
    BY <1>3, <2>1
  <2>. QED  BY <2>1, <2>2
<1>. QED  BY <1>6

\* When the walk finds nothing, the program has every block there is.
LEMMA AllTaken ==
    ASSUME PagesInv, Exhausted PROVE live = Chain \X Items
<1>1. \A p \in Chain : available[p] = 0
  <2>. SUFFICES ASSUME NEW q \in Chain, available[q] # 0 PROVE FALSE
    OBVIOUS
  <2>. DEFINE T == {p \in Chain : available[p] # 0}
  <2>1. T \in SUBSET Nat /\ q \in T /\ Chain \subseteq Pages
    BY PagemanAssumption DEF PagesInv, PagesTypeOK, Chain, Pages
  <2>2. PICK p \in T : \A k \in T : p <= k
    BY <2>1, Least
  <2>3. \A k \in 1..p - 1 : k \in Chain /\ ~(p <= k)
    BY <2>1, <2>2 DEF PagesInv, PagesTypeOK, Chain
  <2>. QED  BY <2>1, <2>2, <2>3 DEF Exhausted, Reached
<1>2. ASSUME NEW p \in Chain, NEW k \in Items PROVE <<p, k>> \in live
  <2>1. p \in Pages
    BY PagemanAssumption DEF PagesInv, PagesTypeOK, Chain, Pages
  <2>2. Stack(p) = {}
    BY <1>1 DEF Stack
  <2>. QED  BY <2>1, <2>2 DEF PagesInv, StackExact
<1>. QED  BY <1>2 DEF PagesInv, PagesTypeOK

\* The record is not below what the program has.
Demand == Cardinality(live) <= most /\ Thrifty

\* Blocks are finitely many: full pages times items.
LEMMA LiveFinite ==
    ASSUME PagesTypeOK
    PROVE  /\ IsFiniteSet(Chain) /\ Cardinality(Chain) = count
           /\ IsFiniteSet(Chain \X Items) /\ Cardinality(Chain \X Items) = count * PageItems
           /\ IsFiniteSet(live) /\ Cardinality(live) \in Nat
<1>1. count \in Nat /\ live \subseteq Chain \X Items
  BY PagemanAssumption DEF PagesTypeOK
<1>2. IsFiniteSet(Chain) /\ Cardinality(Chain) = count
  BY <1>1, FS_Interval DEF Chain
<1>3. IsFiniteSet(Chain \X Items) /\ Cardinality(Chain \X Items) = count * PageItems
  BY <1>2, ItemsFinite, FS_Product
<1>. QED  BY <1>1, <1>2, <1>3, FS_Subset, FS_CardinalityType

\* One that is handed out is one more, and the record follows.
LEMMA OneMore ==
    ASSUME PagesTypeOK, Cardinality(live) <= most, NEW b, b \notin live,
           live' = live \cup {b},
           most' = IF Cardinality(live \cup {b}) > most THEN most + 1 ELSE most
    PROVE  /\ Cardinality(live') = Cardinality(live) + 1
           /\ Cardinality(live') <= most' /\ most <= most'
<1>1. Cardinality(live') = Cardinality(live) + 1 /\ Cardinality(live) \in Nat
  BY LiveFinite, FS_AddElement
<1>. QED  BY <1>1 DEF PagesTypeOK

LEMMA DemandStep ==
    ASSUME PagesInv, Demand, [PagesNext]_pagevars PROVE Demand'
<1>0. PagesTypeOK /\ count \in Nat /\ most \in Nat /\ PageItems \in Nat /\ MaxPages \in Nat
  BY PagemanAssumption DEF PagesInv, PagesTypeOK
<1>1. CASE UNCHANGED pagevars
  BY <1>1 DEF pagevars, Demand, Thrifty
<1>2. ASSUME NEW size \in Sizes, AllocGrow(size) PROVE Demand'
  <2>1. PICK b \in Blocks \ live : live' = live \cup {b}
    BY <1>2, GrowOK
  <2>2. count' = count + 1 /\ most' = IF Cardinality(live') > most THEN most + 1 ELSE most
    BY <1>2 DEF AllocGrow, Take
  <2>3. /\ Cardinality(live') = Cardinality(live) + 1
        /\ Cardinality(live') <= most'
    BY <1>0, <2>1, <2>2, OneMore DEF Demand
  <2>4. Cardinality(live) = count * PageItems
    BY <1>0, <1>2, AllTaken, LiveFinite DEF AllocGrow
  <2>5. (count' - 1) * PageItems = count * PageItems /\ count * PageItems \in Nat
    BY <1>0, <2>2
  <2>6. most' \in Nat
    BY <1>0, <2>2
  <2>. QED  BY <2>3, <2>4, <2>5, <2>6 DEF Demand, Thrifty
<1>3. ASSUME NEW size \in Sizes, NEW p \in Pages, Alloc(p, size) PROVE Demand'
  <2>1. PICK b \in Blocks \ live : live' = live \cup {b}
    BY <1>3, AllocOK
  <2>2. count' = count /\ most' = IF Cardinality(live') > most THEN most + 1 ELSE most
    BY <1>3 DEF Alloc, Take
  <2>3. Cardinality(live') <= most' /\ most <= most' /\ most' \in Nat
    BY <1>0, <2>1, <2>2, OneMore DEF Demand
  <2>4. (count - 1) * PageItems \in Int
    BY <1>0
  <2>. QED  BY <1>0, <2>2, <2>3, <2>4 DEF Demand, Thrifty
<1>4. ASSUME NEW size \in Sizes, NEW p \in Pages, AllocRefused(p, size) PROVE Demand'
  BY <1>1, <1>4 DEF AllocRefused
<1>5. CASE AllocFails
  BY <1>1, <1>5 DEF AllocFails
<1>6. ASSUME NEW b \in Blocks, Free(b) PROVE Demand'
  <2>1. live' \subseteq live /\ UNCHANGED <<count, most>>
    BY <1>6 DEF Free
  <2>2. Cardinality(live') <= Cardinality(live) /\ Cardinality(live') \in Nat
    BY <1>0, <2>1, LiveFinite, FS_Subset, FS_CardinalityType
  <2>3. Cardinality(live) \in Nat
    BY <1>0, LiveFinite
  <2>. QED  BY <1>0, <2>1, <2>2, <2>3 DEF Demand, Thrifty
<1>. QED
  BY <1>1, <1>2, <1>3, <1>4, <1>5, <1>6 DEF PagesNext

\* Thrifty: another page is made only when every item of the others is in use
\* (memory.cc:35-41).
THEOREM MemoryFollowsDemand == PagesSpec => []Thrifty
<1>1. PagesInit => Demand
  BY FS_EmptySet DEF PagesInit, Demand, Thrifty
<1>2. PagesInv /\ Demand /\ [PagesNext]_pagevars => Demand'
  BY DemandStep
<1>3. Demand => Thrifty
  BY DEF Demand
<1>. QED  BY <1>1, <1>2, <1>3, PagemanInvariant, PTL DEF PagesSpec
=============================================================================

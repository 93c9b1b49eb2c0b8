-------------------------------- MODULE Stock --------------------------------
(***************************************************************************)
(* stock<object *> (common/util/stock.h): the table that maps the rrid_t   *)
(* the application holds to the object the library keeps.  A slot carries  *)
(* the full id of its occupant; the id packs a slot index into its low     *)
(* half and a serial number (idx_seed) into its high half, and a lookup    *)
(* compares the whole id with the one in the slot.                         *)
(*                                                                         *)
(* add, get and remove each run under stock::mx, so each is one action.    *)
(* get changes nothing: it is the operators Found and Get.  The clients    *)
(* are the constructor and the destructor of class object (object.cc),     *)
(* which call add once and remove once, with the id they were given.       *)
(***************************************************************************)
EXTENDS Integers, Sequences, FiniteSets

CONSTANTS
    Bodies,     \* the objects the library may create
    PageSize,   \* slots added when the table is full (100 in the code)
    IndexSpan,  \* slot indexes the low half can tell apart (0x10000)
    SeedSpan,   \* serial numbers before idx_seed wraps (0x8000)
    MaxSlots,   \* bound: slots for which realloc finds memory
    MaxAdds     \* bound: successful calls of add in a behaviour

ASSUME StockAssumption ==
    /\ PageSize \in Nat \ {0}
    /\ IndexSpan \in Nat \ {0}
    /\ SeedSpan \in Nat \ {0}
    /\ MaxSlots \in Nat
    /\ MaxAdds \in Nat

VARIABLES
    cnt_data,   \* allocated slots
    ptr_data,   \* the slots, 0 .. cnt_data - 1
    ptr_free,   \* stack of the unused slot indexes
    idx_seed,   \* the serial number in use
    oid,        \* object::id of every body; Unborn when it does not exist
    adds,       \* history: ids issued so far
    serial,     \* history: which issue gave a body its id
    stale       \* history: the ids that were removed, with their issue

vars == <<cnt_data, ptr_data, ptr_free, idx_seed, oid, adds, serial, stale>>

\* A 32-bit id read as its two 16-bit halves.  NoId is the -1 of a free
\* slot and of a failed add: all bits set, hence the last slot index.
NoId == [hi |-> -1, lo |-> IndexSpan - 1]
Unborn == [hi |-> -2, lo |-> 0]

Slots == 0 .. cnt_data - 1
Occupied == {s \in Slots : ptr_data[s].id # NoId}

\* Bitwise or of two naturals.
BitOr[a \in Nat, b \in Nat] ==
    IF a = 0 \/ b = 0 THEN a + b
    ELSE 2 * BitOr[a \div 2, b \div 2]
         + (IF a % 2 = 1 \/ b % 2 = 1 THEN 1 ELSE 0)

\* (idx_seed | slot): a slot index that outgrows the low half spills into
\* the serial number.
MakeId(seed, slot) ==
    IF slot < IndexSpan THEN [hi |-> seed, lo |-> slot]
    ELSE [hi |-> BitOr[seed, slot \div IndexSpan], lo |-> slot % IndexSpan]

\* Mutant of NextSeed: the serial never advances.
NextSeedStuck == idx_seed

\* (idx_seed + 0x10000) & 0x7fff0000
NextSeed == IF idx_seed + 1 = SeedSpan THEN 0 ELSE idx_seed + 1

\* get(id): the slot named by the low half, if it holds this very id.
Found(id) == id.lo \in Slots /\ ptr_data[id.lo].id = id
Get(id) == ptr_data[id.lo].body

Init ==
    /\ cnt_data = 0
    /\ ptr_data = [s \in {} |-> 0]
    /\ ptr_free = <<>>
    /\ idx_seed = 0
    /\ oid = [b \in Bodies |-> Unborn]
    /\ adds = 0
    /\ serial = [b \in Bodies |-> 0]
    /\ stale = {}

\* Mutant of Place: the free stack is read but not popped.
PlaceNoPop(b, data, free) ==
    LET slot == free[Len(free)]
        id   == MakeId(NextSeed, slot)
    IN  /\ idx_seed' = NextSeed
        /\ ptr_free' = free
        /\ ptr_data' = [data EXCEPT ![slot] = [id |-> id, body |-> b]]
        /\ oid' = [oid EXCEPT ![b] = id]
        /\ adds' = adds + 1
        /\ serial' = [serial EXCEPT ![b] = adds + 1]
        /\ UNCHANGED stale

\* The end of add: draw the next serial number, pop a free slot, fill it.
Place(b, data, free) ==
    LET slot == free[Len(free)]
        id   == MakeId(NextSeed, slot)
    IN  /\ idx_seed' = NextSeed
        /\ ptr_free' = SubSeq(free, 1, Len(free) - 1)
        /\ ptr_data' = [data EXCEPT ![slot] = [id |-> id, body |-> b]]
        /\ oid' = [oid EXCEPT ![b] = id]
        /\ adds' = adds + 1
        /\ serial' = [serial EXCEPT ![b] = adds + 1]
        /\ UNCHANGED stale

\* add when a slot is free.
AddReuse(b) ==
    /\ oid[b] = Unborn
    /\ adds < MaxAdds
    /\ ptr_free # <<>>
    /\ Place(b, ptr_data, ptr_free)
    /\ UNCHANGED cnt_data

\* Mutant of GrownData: the new page is initialized from slot 0 on.
GrownDataFromZero(b) ==
    [s \in 0 .. cnt_data + PageSize - 1 |->
        IF s \in Slots /\ s >= PageSize THEN ptr_data[s] ELSE [id |-> NoId, body |-> b]]

\* The table and the free stack after both reallocs succeeded.
GrownData(b) ==
    [s \in 0 .. cnt_data + PageSize - 1 |->
        IF s \in Slots THEN ptr_data[s] ELSE [id |-> NoId, body |-> b]]
GrownFree == [i \in 1 .. PageSize |-> cnt_data + i - 1]

\* add when no slot is free: a page more.  (The body of a fresh slot is
\* uninitialized memory; any value does, nothing may read it.)
AddGrow(b) ==
    /\ oid[b] = Unborn
    /\ adds < MaxAdds
    /\ ptr_free = <<>>
    /\ cnt_data + PageSize <= MaxSlots
    /\ Place(b, GrownData(b), GrownFree)
    /\ cnt_data' = cnt_data + PageSize

\* add when no slot is free and no memory either: the object gets id -1.
AddFails(b) ==
    /\ oid[b] = Unborn
    /\ ptr_free = <<>>
    /\ oid' = [oid EXCEPT ![b] = NoId]
    /\ UNCHANGED <<cnt_data, ptr_data, ptr_free, idx_seed, adds, serial, stale>>

\* Mutant of Remove: the slot is freed but keeps its id.
RemoveKeepsId(b) ==
    /\ oid[b] # Unborn
    /\ ptr_free' = IF Found(oid[b]) THEN Append(ptr_free, oid[b].lo) ELSE ptr_free
    /\ stale' = IF oid[b] = NoId THEN stale
                ELSE stale \cup {[id |-> oid[b], serial |-> serial[b]]}
    /\ oid' = [oid EXCEPT ![b] = Unborn]
    /\ UNCHANGED <<ptr_data, cnt_data, idx_seed, adds, serial>>

\* remove(id) from ~object, whatever id the object holds, -1 included.
Remove(b) ==
    /\ oid[b] # Unborn
    /\ IF Found(oid[b])
       THEN /\ ptr_free' = Append(ptr_free, oid[b].lo)
            /\ ptr_data' = [ptr_data EXCEPT ![oid[b].lo].id = NoId]
       ELSE UNCHANGED <<ptr_data, ptr_free>>
    /\ stale' = IF oid[b] = NoId THEN stale
                ELSE stale \cup {[id |-> oid[b], serial |-> serial[b]]}
    /\ oid' = [oid EXCEPT ![b] = Unborn]
    /\ UNCHANGED <<cnt_data, idx_seed, adds, serial>>

Next == \E b \in Bodies : AddReuse(b) \/ AddGrow(b) \/ AddFails(b) \/ Remove(b)

Spec == Init /\ [][Next]_vars

-----------------------------------------------------------------------------
Ids == [hi : 0 .. SeedSpan - 1, lo : 0 .. IndexSpan - 1]
Named == {b \in Bodies : oid[b] \notin {Unborn, NoId}}

\* Every variable stays within its type; slots and free stack never
\* outgrow the allocation (stock.h:26-39).
TypeOK ==
    /\ cnt_data \in 0 .. MaxSlots
    /\ ptr_data \in [Slots -> [id : Ids \cup {NoId}, body : Bodies]]
    /\ ptr_free \in Seq(Slots)
    /\ idx_seed \in 0 .. SeedSpan - 1
    /\ oid \in [Bodies -> Ids \cup {NoId, Unborn}]
    /\ adds \in Nat
    /\ serial \in [Bodies -> Nat]
    /\ stale \subseteq [id : Ids, serial : Nat]

\* The free stack lists the unused slots, all of them and each once: no
\* slot is handed out twice and none is lost (stock.h:113-123, 163-164).
FreeListExact ==
    /\ \A i, j \in 1 .. Len(ptr_free) : ptr_free[i] = ptr_free[j] => i = j
    /\ \A s \in Slots : s \notin Occupied <=> \E i \in 1 .. Len(ptr_free) : ptr_free[i] = s

\* The id of a living object leads to that object, whatever was added and
\* removed around it (stock.h:133-143).
LiveResolves ==
    \A b \in Named : Found(oid[b]) /\ Get(oid[b]) = b

\* A removed id leads nowhere, for as long as fewer than SeedSpan ids have
\* been issued after it: reusing its slot does not revive it
\* (stock.h:121-125, 155-166).
StaleRejected ==
    \A h \in stale : adds - h.serial < SeedSpan => ~Found(h.id)

\* The documentation of get: "false if the object could not be found"
\* (app.intref.docbook:46).  No object has the id -1; once the last page
\* reaches slot IndexSpan - 1, the code takes that free slot for one
\* (stock.h:136-142, 155-161).
NoIdRejected == ~Found(NoId)

\* The inductive invariant behind these properties.  It speaks of a table
\* <<n, data, free>>, so that it covers the page add is about to commit too.
\* Free slots are exactly those on the stack; a used slot holds an id that
\* names it, and the object that owns this id.
TableOK(n, data, free) ==
    /\ n \in 0 .. MaxSlots
    /\ data \in [0 .. n - 1 -> [id : Ids \cup {NoId}, body : Bodies]]
    /\ free \in Seq(0 .. n - 1)
    /\ \A i, j \in 1 .. Len(free) : free[i] = free[j] => i = j
    /\ \A s \in 0 .. n - 1 :
         /\ data[s].id = NoId <=> \E i \in 1 .. Len(free) : free[i] = s
         /\ data[s].id # NoId => data[s].id.lo = s /\ oid[data[s].body] = data[s].id
    /\ \A b \in Named :
         oid[b].lo \in 0 .. n - 1 /\ data[oid[b].lo] = [id |-> oid[b], body |-> b]
    /\ \A h \in stale :
         adds - h.serial < SeedSpan /\ h.id.lo \in 0 .. n - 1 => data[h.id.lo].id # h.id

\* An id is as many serial numbers behind idx_seed as ids were issued since,
\* as long as these are fewer than SeedSpan.
Aligned(seed, n, hi, k) ==
    /\ k \in 1 .. n
    /\ n - k < SeedSpan => n - k \in {seed - hi, seed - hi + SeedSpan}

ScalarsOK ==
    /\ idx_seed \in 0 .. SeedSpan - 1
    /\ oid \in [Bodies -> Ids \cup {NoId, Unborn}]
    /\ adds \in Nat
    /\ serial \in [Bodies -> Nat]
    /\ stale \subseteq [id : Ids, serial : Nat]
    /\ \A h \in stale : Aligned(idx_seed, adds, h.id.hi, h.serial)
    /\ \A b \in Named : Aligned(idx_seed, adds, oid[b].hi, serial[b])

IInv == ScalarsOK /\ TableOK(cnt_data, ptr_data, ptr_free)

\* The low half can name every slot and the one that NoId seems to name is
\* never allocated: true of the code up to 65500 slots.
InRange == MaxSlots < IndexSpan

\* The table seen as a set of entries, for the refinement.
Entries == {<<ptr_data[s].id, ptr_data[s].body>> : s \in Occupied}

HT == INSTANCE HandleTable WITH Handles <- Ids, table <- Entries

\* Adding and removing touch one entry of the table and no other, and no two
\* entries share an id (stock.h:97-166).
ImplementsHandleTable == HT!Spec
=============================================================================

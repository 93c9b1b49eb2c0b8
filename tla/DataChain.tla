----------------------------- MODULE DataChain -----------------------------
(***************************************************************************)
(* The buffers of a connection (common/datachain.cc, packetchain.cc): a    *)
(* chain of items of ItemSize bytes (2048 in the code), as a stream or,    *)
(* virtually, as a queue of packets.  The chain is the sequence of its     *)
(* items, the first one at head and the last one at tail; an item is the   *)
(* bytes put into it (used of them) and the number read since (dead).      *)
(*                                                                         *)
(* Each call of a connection on its chain runs under the mutex of that     *)
(* connection (connection.cc:362-396), so a call is a step.                *)
(***************************************************************************)
EXTENDS Integers, SequencesExt

CONSTANTS
    CR, LF,
    Chunks,     \* what is appended at a time: a set of sequences of bytes
    Sizes,      \* the sizes of the readers' buffers
    ItemSize,   \* sizeof(datachainitem::data)
    Capacity    \* no bytes are appended beyond (bound)

ASSUME DataChainAssumption ==
    /\ ItemSize \in Nat \ {0}
    /\ Capacity \in Nat
    /\ Sizes \subseteq Nat
    /\ CR # LF
    /\ \A src \in Chunks : src \in Seq(ToSet(src))

VARIABLES
    kind,       \* the class of the object: datachain or packetchain
    chain,
    out         \* what the last call returned

vars == <<kind, chain, out>>

Item(data) == [data |-> data, dead |-> 0]
Live(item) == SubSeq(item.data, item.dead + 1, Len(item.data))
Full(item) == Len(item.data) = ItemSize
Left(item) == Len(item.data) - item.dead
Least(a, b) == IF a < b THEN a ELSE b
First(s, n) == SubSeq(s, 1, Least(n, Len(s)))

\* get_size, and the part of it that is before item i.
Sums(c) ==
    LET size[i \in 0..Len(c)] == IF i = 0 THEN 0 ELSE size[i - 1] + Left(c[i])
    IN  size
SizeBefore(c, i) == Sums(c)[i - 1]
GetSize(c) == Sums(c)[Len(c)]
HasData(c) == \E i \in DOMAIN c : Left(c[i]) # 0

Result(rc, text, size) == [rc |-> rc, text |-> text, size |-> size]
Nothing == Result("ok", <<>>, 0)

Init == kind \in {"stream", "packet"} /\ chain = <<>> /\ out = Nothing

-----------------------------------------------------------------------------
\* A chain that is empty gets an item before anything is appended.
Headed(c) == IF c = <<>> THEN <<Item(<<>>)>> ELSE c

\* One byte of a stream: a new item if the tail is full.
Push(c, byte) ==
    IF Full(Last(c)) THEN Append(c, Item(<<byte>>))
    ELSE [c EXCEPT ![Len(c)].data = Append(@, byte)]

\* The chain after each byte of src.
Pushed(c, src) ==
    LET after[k \in 0..Len(src)] == IF k = 0 THEN Headed(c) ELSE Push(after[k - 1], src[k])
    IN  after
AppendBytes(c, src) == Pushed(c, src)[Len(src)]

\* A packet: an item of its own, truncated.
AppendPacket(c, src) ==
    IF Last(c).data # <<>> THEN Append(c, Item(First(src, ItemSize)))
    ELSE [c EXCEPT ![Len(c)].data = First(src, ItemSize)]

Appended(c, src) ==
    IF kind = "stream" THEN AppendBytes(c, src)
    ELSE IF src = <<>> THEN Headed(c) ELSE AppendPacket(Headed(c), src)

\* What is left when the item that is needed next can not be had.
OutOfMemory(c, src) ==
    (IF c = <<>> THEN {<<>>} ELSE {})
    \cup (IF kind = "stream"
          THEN {d \in {Pushed(c, src)[k] : k \in 0..Len(src) - 1} : Full(Last(d))}
          ELSE IF c # <<>> /\ src # <<>> /\ Last(c).data # <<>> THEN {c} ELSE {})

AppendData(src) ==
    /\ GetSize(chain) + Len(src) <= Capacity
    /\ \/ chain' = Appended(chain, src) /\ out' = Nothing
       \/ chain' \in OutOfMemory(chain, src) /\ out' = Result("no_memory", <<>>, 0)
    /\ UNCHANGED kind

-----------------------------------------------------------------------------
\* What a copying loop takes from the items of c: n bytes at most.
Copied(c, n) ==
    LET text[i \in 0..Len(c)] ==
            IF i = 0 THEN <<>> ELSE text[i - 1] \o First(Live(c[i]), n - Len(text[i - 1]))
    IN  text[Len(c)]

\* Mutant of PeekText: the loop of the stream for both classes.
PeekThrough(c, n) == Copied(c, n)

\* A packet chain looks at its head only.
PeekText(c, n) == Copied(IF kind = "packet" THEN First(c, 1) ELSE c, n)

\* remove: count bytes as dead, item by item ...
Dead(c, n) ==
    [i \in DOMAIN c |->
        [c[i] EXCEPT !.dead = @ + Least(n - Least(n, SizeBefore(c, i)), Left(c[i]))]]

\* Mutant of Trim: one item is freed, not all that are dead.
TrimOne(c) == IF c # <<>> /\ Left(c[1]) = 0 THEN Tail(c) ELSE c

\* ... then free the items that are dead at the head.
Trim(c) ==
    LET alive == SelectInSeq(c, LAMBDA item : Left(item) # 0)
    IN  IF alive = 0 THEN <<>> ELSE SubSeq(c, alive, Len(c))

Removed(c, n) == Trim(Dead(c, n))

\* The first one removes what it read: rascal_read, and on_write between
\* peek and remove.
Extract(n, peeking) ==
    LET text == PeekText(chain, n) IN
    /\ out' = Result("ok", text, Len(text))
    /\ chain' = IF peeking THEN chain ELSE Removed(chain, Len(text))
    /\ UNCHANGED kind

-----------------------------------------------------------------------------
\* gets, of both classes: packetchain's has other parameters and does not
\* override it.  The number of bytes up to the first LF, or 0.
LineSize(c) ==
    LET i == SelectInSeq(c, LAMBDA item : LF \in ToSet(Live(item)))
    IN  IF i = 0 THEN 0
        ELSE SizeBefore(c, i) + SelectInSeq(Live(c[i]), LAMBDA b : b = LF)

\* The copy ends after an item if the byte behind its last one happens to be
\* an LF.  In a full item that is a byte of a pointer, which is aligned and
\* never looks so; in others it is one that was never written.
CopyEnds(c) == {Len(c)} \cup {i \in DOMAIN c : ~Full(c[i])}

StripEol(s) == First(s, SelectLastInSeq(s, LAMBDA b : b \notin {CR, LF}))

\* There must be room for a NUL, if there is for anything.
WithNul(text, n) == IF text # <<>> /\ Len(text) = n THEN Front(text) ELSE text

Line(c, end, n, untrimmed) ==
    LET copied == Copied(First(c, end), Least(n, LineSize(c)))
    IN  WithNul(IF untrimmed THEN copied ELSE StripEol(copied), n)

Gets(n, untrimmed, peeking) ==
    /\ IF LineSize(chain) = 0
       THEN out' = Result("no_data", <<>>, 0) /\ UNCHANGED chain
       ELSE /\ \E end \in CopyEnds(chain) :
                 LET text == Line(chain, end, n, untrimmed)
                 IN  out' = Result("ok", text, Len(text))
            /\ chain' = IF peeking THEN chain ELSE Removed(chain, LineSize(chain))
    /\ UNCHANGED kind

\* gets with RRF_MEASURE: RRF_UNTRIMMED and RRF_PEEK make no difference.
MeasureLine ==
    /\ out' = Result(IF LineSize(chain) = 0 THEN "no_data" ELSE "ok", <<>>, LineSize(chain))
    /\ UNCHANGED <<kind, chain>>

\* get_size and has_data.
Measure ==
    /\ out' = Result(IF HasData(chain) THEN "filled" ELSE "empty", <<>>, GetSize(chain))
    /\ UNCHANGED <<kind, chain>>

-----------------------------------------------------------------------------
Next ==
    \/ \E src \in Chunks : AppendData(src)
    \/ \E n \in Sizes, peeking \in BOOLEAN : Extract(n, peeking)
    \/ \E n \in Sizes, untrimmed, peeking \in BOOLEAN : Gets(n, untrimmed, peeking)
    \/ MeasureLine \/ Measure

Spec == Init /\ [][Next]_vars

-----------------------------------------------------------------------------
\* The chain keeps no item longer than it must (datachain.cc:49-53, 99-108,
\* packetchain.cc:21-35): only the tail of a stream may have room left, only
\* the head may be partly read, and an item is empty only if it is alone.
Shaped(c) ==
    \A i \in DOMAIN c :
        /\ Len(c[i].data) <= ItemSize
        /\ c[i].dead = 0 \/ i = 1
        /\ Left(c[i]) > 0 \/ c = <<Item(<<>>)>>
        /\ Full(c[i]) \/ i = Len(c) \/ kind = "packet"
Shape == kind \in {"stream", "packet"} /\ Shaped(chain)

\* With what a chain is made of this is inductive.
Byte == UNION {ToSet(src) : src \in Chunks}
Items == {item \in [data : Seq(Byte), dead : Nat] : item.dead <= Len(item.data)}
ChainInv == chain \in Seq(Items) /\ Shape

\* The bytes a chain holds, up to each item, as the queue of Parcels.
Cell(class, item, j) ==
    [byte |-> item.data[item.dead + j], begins |-> class = "packet" /\ j = 1 /\ item.dead = 0]
Parcel(class, item) == [j \in 1..Left(item) |-> Cell(class, item, j)]
Contents(class, c) ==
    LET cells[i \in 0..Len(c)] == IF i = 0 THEN <<>> ELSE cells[i - 1] \o Parcel(class, c[i])
    IN  cells
Queue == Contents(kind, chain)[Len(chain)]

P == INSTANCE Parcels WITH q <- Queue

\* "The caller will not be able to retreive two chain items by a single call
\* to the extraction function" (datachain.h:64-66), of a stream "the whole
\* incoming buffer can be retreived with one call" (app.funcref.docbook:486),
\* and rascal_reads "copies the data to the specified destination, excluding
\* all trailing CR and LF characters" and "removes the data up to and
\* including the LF character" (518-519): a chain is a queue of parcels, in
\* items of that shape.
KeepsParcels == P!Spec /\ []Shape
=============================================================================

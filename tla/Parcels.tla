------------------------------ MODULE Parcels ------------------------------
(***************************************************************************)
(* What the buffer of a connection promises, in either direction           *)
(* (datachain.h:32-68, app.funcref.docbook:456-551): bytes leave in the    *)
(* order in which they came, one read never joins two datagrams, and a     *)
(* line is read when, and only when, its LF is there.                      *)
(*                                                                         *)
(* Every byte of the queue says whether a datagram begins with it; none    *)
(* does in a stream.                                                       *)
(***************************************************************************)
EXTENDS Integers, SequencesExt

CONSTANTS
    CR, LF,
    Chunks,     \* what is appended at a time: a set of sequences of bytes
    Sizes,      \* the sizes of the readers' buffers
    ItemSize    \* the longest datagram that is kept whole

VARIABLES
    kind,       \* "stream" or "packet"
    q,          \* the queue of bytes
    out         \* what the last call returned

vars == <<kind, q, out>>

Result(rc, text, size) == [rc |-> rc, text |-> text, size |-> size]
Nothing == Result("ok", <<>>, 0)

First(s, n) == SubSeq(s, 1, IF n < Len(s) THEN n ELSE Len(s))
Bytes == [i \in DOMAIN q |-> q[i].byte]
Without(n) == SubSeq(q, n + 1, Len(q))

Marked(src) == [i \in DOMAIN src |-> [byte |-> src[i], begins |-> kind = "packet" /\ i = 1]]

\* The bytes before the next datagram, or all there are.
Ready == LET next == SelectInSubSeq(q, 2, Len(q), LAMBDA b : b.begins)
         IN  IF next = 0 THEN Bytes ELSE First(Bytes, next - 1)

EndOfLine == SelectInSeq(Bytes, LAMBDA b : b = LF)
LineSize == IF EndOfLine = 0 THEN 0 ELSE EndOfLine
IsEol(b) == b \in {CR, LF}
Trimmed(s) == First(s, SelectLastInSeq(s, LAMBDA b : ~IsEol(b)))

Init == kind \in {"stream", "packet"} /\ q = <<>> /\ out = Nothing

\* A stream takes bytes until memory ends; a datagram is taken, up to
\* ItemSize bytes of it, or not taken at all.
Put(src) ==
    /\ \/ /\ q' = q \o Marked(IF kind = "packet" THEN First(src, ItemSize) ELSE src)
          /\ out' = Nothing
       \/ /\ \E k \in 0..Len(src) : q' = q \o Marked(First(src, k))
          /\ kind = "packet" => q' = q
          /\ out' = Result("no_memory", <<>>, 0)
    /\ UNCHANGED kind

\* A read fills its buffer with what is ready.
Take(n, peeking) ==
    LET text == First(Ready, n) IN
    /\ out' = Result("ok", text, Len(text))
    /\ q' = IF peeking THEN q ELSE Without(Len(text))
    /\ UNCHANGED kind

\* A line of which the buffer of n bytes takes all it can but for a NUL.  A
\* line that must be cut may lose CRs before the cut, and one that spans
\* several datagrams (which are not meant to be read so) may lose more.
LineText(t, n, untrimmed) ==
    LET whole == First(Bytes, LineSize)
        line == IF untrimmed THEN whole ELSE Trimmed(whole)
    IN  /\ IsPrefix(t, line)
        /\ t # <<>> => Len(t) < n
        /\ kind = "stream" /\ Len(line) < n => t = line
        /\ kind = "stream" =>
              \A i \in Len(t) + 1..Len(line) : i < n => ~untrimmed /\ IsEol(line[i])

TakeLine(n, untrimmed, peeking) ==
    /\ IF LineSize = 0
       THEN out' = Result("no_data", <<>>, 0) /\ q' = q
       ELSE /\ out'.rc = "ok" /\ out'.size = Len(out'.text)
            /\ LineText(out'.text, n, untrimmed)
            /\ q' = IF peeking THEN q ELSE Without(LineSize)
    /\ UNCHANGED kind

MeasureLine ==
    /\ out' = Result(IF LineSize = 0 THEN "no_data" ELSE "ok", <<>>, LineSize)
    /\ UNCHANGED <<kind, q>>

\* How much is there, and whether there is anything.
Measure ==
    /\ out' = Result(IF q = <<>> THEN "empty" ELSE "filled", <<>>, Len(q))
    /\ UNCHANGED <<kind, q>>

Next ==
    \/ \E src \in Chunks : Put(src)
    \/ \E n \in Sizes, peeking \in BOOLEAN : Take(n, peeking)
    \/ \E n \in Sizes, untrimmed, peeking \in BOOLEAN : TakeLine(n, untrimmed, peeking)
    \/ MeasureLine \/ Measure

Spec == Init /\ [][Next]_vars
=============================================================================

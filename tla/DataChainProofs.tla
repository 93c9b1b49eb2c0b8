--------------------------- MODULE DataChainProofs ---------------------------
(***************************************************************************)
(* Theorems about the buffers of a connection, for every set of chunks,    *)
(* every item size and every capacity: a chain keeps its shape, and it is  *)
(* the queue of Parcels.                                                   *)
(*                                                                         *)
(* What loops over the items of a chain (get_size, peek, append) is        *)
(* written as a recursive function; that there is such a function, and     *)
(* what it gives, is proved by induction on the number of items or bytes.  *)
(* The argument for each call is then one about sequences: append adds to  *)
(* the end of what the items hold (AppendedParts), remove takes from the   *)
(* beginning (RemovedParts), peek copies the beginning (CopiedIs), and the *)
(* first LF of the items is the first LF of the queue (LineSizeIs).        *)
(***************************************************************************)
EXTENDS DataChain, SequenceTheorems, WellFoundedInduction, TLAPS
-----------------------------------------------------------------------------
\* Induction: a set that has zero, and the successor of each natural it has,
\* has all naturals.
LEMMA Induction ==
    ASSUME NEW T, 0 \in T, \A n \in Nat : n \in T => n + 1 \in T
    PROVE  Nat \subseteq T
<1>. DEFINE R == OpToRel(<, Nat)
            B == Nat \ T
<1>1. IsWellFoundedOn(R, Nat)
  BY NatLessThanWellFounded
<1>2. R = {ss \in Nat \X Nat : ss[1] < ss[2]}
  BY DEF OpToRel
<1>3. \A x, y \in Nat : <<x, y>> \in R <=> x < y
  BY <1>2
<1>. HIDE DEF R
<1>. SUFFICES ASSUME B # {} PROVE FALSE
  OBVIOUS
<1>4. B \in SUBSET Nat
  OBVIOUS
<1>. HIDE DEF B
<1>5. PICK m \in B : \A k \in B : ~(<<k, m>> \in R)
  BY <1>1, <1>4, WFMin
<1>6. m \in Nat /\ m \notin T
  BY <1>5 DEF B
<1>7. m # 0
  BY <1>6
<1>8. m - 1 \in Nat /\ m - 1 + 1 = m /\ m - 1 < m
  BY <1>6, <1>7
<1>9. m - 1 \notin B
  BY <1>3, <1>5, <1>6, <1>8
<1>. QED  BY <1>6, <1>8, <1>9 DEF B

-----------------------------------------------------------------------------
\* The beginning of a sequence, and the rest of it.
Rest(s, n) == SubSeq(s, n + 1, Len(s))

LEMMA LeastParts ==
    ASSUME NEW a \in Nat, NEW b \in Nat
    PROVE  Least(a, b) \in Nat /\ Least(a, b) <= a /\ Least(a, b) <= b /\ (Least(a, b) = a \/ Least(a, b) = b)
  BY DEF Least

LEMMA FirstParts ==
    ASSUME NEW S, NEW s \in Seq(S), NEW n \in Nat
    PROVE  /\ First(s, n) \in Seq(S) /\ Len(First(s, n)) = Least(n, Len(s))
           /\ \A j \in 1 .. Least(n, Len(s)) : First(s, n)[j] = s[j]
<1>. DEFINE k == Least(n, Len(s))
<1>1. Len(s) \in Nat /\ k \in Nat /\ k <= Len(s)
  BY LenProperties, LeastParts
<1>. HIDE DEF k
<1>2. \A j \in 1 .. k : s[j] \in S
  BY <1>1, ElementOfSeq
<1>3. /\ SubSeq(s, 1, k) \in Seq(S) /\ Len(SubSeq(s, 1, k)) = IF 1 <= k THEN k - 1 + 1 ELSE 0
      /\ \A j \in 1 .. k - 1 + 1 : SubSeq(s, 1, k)[j] = s[1 + j - 1]
  BY <1>1, <1>2, SubSeqProperties
<1>4. SubSeq(s, 1, k) = First(s, n)
  BY DEF First, k
<1>5. Len(SubSeq(s, 1, k)) = k
  BY <1>1, <1>3
<1>6. ASSUME NEW j \in 1 .. k PROVE SubSeq(s, 1, k)[j] = s[j]
  <2>1. j \in 1 .. k - 1 + 1 /\ 1 + j - 1 = j
    BY <1>1
  <2>. QED  BY <1>3, <2>1
<1>. QED  BY <1>3, <1>4, <1>5, <1>6 DEF k

LEMMA RestParts ==
    ASSUME NEW S, NEW s \in Seq(S), NEW n \in 0 .. Len(s)
    PROVE  /\ Rest(s, n) \in Seq(S) /\ Len(Rest(s, n)) = Len(s) - n
           /\ \A j \in 1 .. Len(s) - n : Rest(s, n)[j] = s[n + j]
<1>. DEFINE k == Len(s)
            m == n + 1
<1>1. k \in Nat /\ n \in Nat /\ n <= k /\ m \in Int
  BY LenProperties
<1>2. \A j \in m .. k : s[j] \in S
  BY <1>1, ElementOfSeq
<1>3. SubSeq(s, m, k) = Rest(s, n)
  BY DEF Rest
<1>4. k - m + 1 = k - n /\ (IF m <= k THEN k - m + 1 ELSE 0) = k - n
  BY <1>1
<1>. HIDE DEF k, m
<1>5. /\ SubSeq(s, m, k) \in Seq(S) /\ Len(SubSeq(s, m, k)) = IF m <= k THEN k - m + 1 ELSE 0
      /\ \A j \in 1 .. k - m + 1 : SubSeq(s, m, k)[j] = s[m + j - 1]
  BY <1>1, <1>2, SubSeqProperties
<1>6. Len(SubSeq(s, m, k)) = k - n
  BY <1>4, <1>5
<1>7. ASSUME NEW j \in 1 .. k - n PROVE SubSeq(s, m, k)[j] = s[n + j]
  <2>1. j \in 1 .. k - m + 1 /\ m + j - 1 = n + j
    BY <1>1, <1>4 DEF m
  <2>. QED  BY <1>5, <2>1
<1>. QED  BY <1>3, <1>5, <1>6, <1>7 DEF k

\* Where an element of two sequences comes from.
LEMMA ConcatParts ==
    ASSUME NEW S, NEW s \in Seq(S), NEW t \in Seq(S)
    PROVE  /\ s \o t \in Seq(S) /\ Len(s \o t) = Len(s) + Len(t) /\ Len(s) \in Nat /\ Len(t) \in Nat
           /\ \A j \in 1 .. Len(s) : (s \o t)[j] = s[j]
           /\ \A j \in 1 .. Len(t) : (s \o t)[Len(s) + j] = t[j]
<1>. DEFINE u == s \o t
            a == Len(s)
            b == Len(t)
<1>1. a \in Nat /\ b \in Nat
  BY LenProperties
<1>2. u \in Seq(S) /\ Len(u) = a + b /\ \A j \in 1 .. a + b : u[j] = IF j <= a THEN s[j] ELSE t[j - a]
  BY ConcatProperties
<1>. HIDE DEF u, a, b
<1>5. \A j \in 1 .. a + b : u[j] = IF j <= a THEN s[j] ELSE t[j - a]
  BY <1>2
<1>3. ASSUME NEW j \in 1 .. a PROVE u[j] = s[j]
  <2>1. j \in 1 .. a + b /\ j <= a
    BY <1>1
  <2>. QED  BY <1>2, <2>1
<1>4. ASSUME NEW j \in 1 .. b PROVE u[a + j] = t[j]
  <2>1. a + j \in 1 .. a + b /\ ~(a + j <= a) /\ a + j - a = j
    BY <1>1
  <2>2. u[a + j] = IF a + j <= a THEN s[a + j] ELSE t[a + j - a]
    BY <1>1, <1>5, <2>1
  <2>. QED  BY <2>1, <2>2
<1>. QED  BY <1>1, <1>2, <1>3, <1>4 DEF u, a, b

LEMMA Regroup ==
    ASSUME NEW S, NEW s \in Seq(S), NEW t \in Seq(S), NEW u \in Seq(S)
    PROVE  (s \o t) \o u = s \o (t \o u)
  BY ConcatAssociative

\* The first elements of two sequences are those of the one and of the other.
LEMMA FirstOfConcat ==
    ASSUME NEW S, NEW s \in Seq(S), NEW t \in Seq(S), NEW n \in Nat
    PROVE  /\ n - Len(First(s, n)) \in Nat
           /\ First(s \o t, n) = First(s, n) \o First(t, n - Len(First(s, n)))
<1>. DEFINE a == Len(s)
            b == Len(t)
            k == Least(n, a)
            l == Least(n - k, b)
            f == First(s, n)
            g == First(t, n - k)
            u == s \o t
<1>1. a \in Nat /\ b \in Nat /\ k \in Nat /\ k <= n /\ k <= a /\ n - k \in Nat /\ (k = n \/ k = a)
  <2>1. a \in Nat /\ b \in Nat
    BY LenProperties
  <2>. HIDE DEF a
  <2>2. k \in Nat /\ k <= n /\ k <= a /\ (k = n \/ k = a)
    BY <2>1, LeastParts
  <2>. QED  BY <2>1, <2>2
<1>2. l \in Nat /\ l <= n - k /\ l <= b /\ (l = n - k \/ l = b)
  BY <1>1, LeastParts
<1>3. f \in Seq(S) /\ Len(f) = k /\ \A j \in 1 .. k : f[j] = s[j]
  BY FirstParts
<1>4. g \in Seq(S) /\ Len(g) = l /\ \A j \in 1 .. l : g[j] = t[j]
  <2>. HIDE DEF k
  <2>. QED  BY <1>1, FirstParts
<1>5. u \in Seq(S) /\ Len(u) = a + b /\ (\A j \in 1 .. a : u[j] = s[j]) /\ \A j \in 1 .. b : u[a + j] = t[j]
  BY ConcatParts
<1>6. /\ f \o g \in Seq(S) /\ Len(f \o g) = k + l /\ (\A j \in 1 .. k : (f \o g)[j] = f[j])
      /\ \A j \in 1 .. l : (f \o g)[k + j] = g[j]
  <2>1. /\ f \o g \in Seq(S) /\ Len(f \o g) = Len(f) + Len(g)
        /\ \A j \in 1 .. Len(f) : (f \o g)[j] = f[j]
        /\ \A j \in 1 .. Len(g) : (f \o g)[Len(f) + j] = g[j]
    <3>. HIDE DEF f, g
    <3>1. f \in Seq(S) /\ g \in Seq(S)
      BY <1>3, <1>4
    <3>2. f \o g \in Seq(S) /\ Len(f \o g) = Len(f) + Len(g)
      BY <3>1, ConcatParts
    <3>3. \A j \in 1 .. Len(f) : (f \o g)[j] = f[j]
      BY <3>1, ConcatParts
    <3>4. \A j \in 1 .. Len(g) : (f \o g)[Len(f) + j] = g[j]
      BY <3>1, ConcatParts
    <3>. QED  BY <3>2, <3>3, <3>4
  <2>. HIDE DEF f, g, k, l
  <2>. QED  BY <1>3, <1>4, <2>1
<1>7. Least(n, a + b) = k + l
  <2>1. k = IF n < a THEN n ELSE a
    BY DEF Least
  <2>2. l = IF n - k < b THEN n - k ELSE b
    BY DEF Least
  <2>. HIDE DEF k, l, a, b
  <2>. QED  BY <1>1, <2>1, <2>2 DEF Least
<1>8. First(u, n) \in Seq(S) /\ Len(First(u, n)) = k + l /\ \A j \in 1 .. k + l : First(u, n)[j] = u[j]
  <2>. HIDE DEF u, a, b, k, l
  <2>1. /\ First(u, n) \in Seq(S) /\ Len(First(u, n)) = Least(n, Len(u))
        /\ \A j \in 1 .. Least(n, Len(u)) : First(u, n)[j] = u[j]
    BY <1>5, FirstParts
  <2>2. Least(n, Len(u)) = k + l
    BY <1>5, <1>7
  <2>. QED  BY <2>1, <2>2
<1>. HIDE DEF f, g, u, a, b, k, l
<1>9. \A j \in 1 .. k + l : First(u, n)[j] = (f \o g)[j]
  <2>. SUFFICES ASSUME NEW j \in 1 .. k + l PROVE First(u, n)[j] = (f \o g)[j]
    OBVIOUS
  <2>1. First(u, n)[j] = u[j] /\ j \in Nat /\ 1 <= j /\ j <= k + l
    BY <1>1, <1>2, <1>8
  <2>2. CASE j <= k
    <3>1. j \in 1 .. k /\ j \in 1 .. a
      BY <1>1, <1>2, <2>2
    <3>. QED  BY <1>3, <1>5, <1>6, <2>1, <3>1
  <2>3. CASE j > k
    <3>1. j - k \in 1 .. l /\ k + (j - k) = j /\ k = a /\ j - k \in 1 .. b
      BY <1>1, <1>2, <2>3
    <3>2. (f \o g)[j] = g[j - k] /\ g[j - k] = t[j - k]
      BY <1>4, <1>6, <3>1
    <3>3. u[j] = t[j - k]
      BY <1>5, <3>1
    <3>. QED  BY <2>1, <3>2, <3>3
  <2>4. j <= k \/ j > k
    BY <1>1, <2>1
  <2>. QED  BY <2>2, <2>3, <2>4
<1>10. First(u, n) = f \o g
  BY <1>6, <1>8, <1>9, SeqEqual
<1>. QED  BY <1>1, <1>3, <1>10 DEF f, g, u, k

\* So are the rest of them.
LEMMA RestOfConcat ==
    ASSUME NEW S, NEW s \in Seq(S), NEW t \in Seq(S), NEW n \in 0 .. Len(s) + Len(t)
    PROVE  LET k == Least(n, Len(s))
           IN  k \in 0 .. Len(s) /\ n - k \in 0 .. Len(t) /\ Rest(s \o t, n) = Rest(s, k) \o Rest(t, n - k)
<1>. DEFINE a == Len(s)
            b == Len(t)
            k == Least(n, a)
            f == Rest(s, k)
            g == Rest(t, n - k)
            u == s \o t
<1>1. a \in Nat /\ b \in Nat /\ n \in Nat /\ n <= a + b
  BY LenProperties
<1>2. k \in Nat /\ k <= n /\ k <= a /\ n - k \in Nat /\ (k = n \/ k = a)
  <2>. HIDE DEF a
  <2>1. k \in Nat /\ k <= n /\ k <= a /\ (k = n \/ k = a)
    BY <1>1, LeastParts
  <2>. QED  BY <1>1, <2>1
<1>3. k \in 0 .. a /\ n - k \in 0 .. b
  BY <1>1, <1>2
<1>4. f \in Seq(S) /\ Len(f) = a - k /\ \A j \in 1 .. a - k : f[j] = s[k + j]
  <2>. HIDE DEF k
  <2>. QED  BY <1>3, RestParts
<1>5. g \in Seq(S) /\ Len(g) = b - (n - k) /\ \A j \in 1 .. b - (n - k) : g[j] = t[n - k + j]
  <2>. HIDE DEF k
  <2>. QED  BY <1>3, RestParts
<1>6. u \in Seq(S) /\ Len(u) = a + b /\ (\A j \in 1 .. a : u[j] = s[j]) /\ \A j \in 1 .. b : u[a + j] = t[j]
  BY ConcatParts
<1>7. /\ f \o g \in Seq(S) /\ Len(f \o g) = a - k + (b - (n - k))
      /\ (\A j \in 1 .. a - k : (f \o g)[j] = f[j])
      /\ \A j \in 1 .. b - (n - k) : (f \o g)[a - k + j] = g[j]
  <2>1. /\ f \o g \in Seq(S) /\ Len(f \o g) = Len(f) + Len(g)
        /\ \A j \in 1 .. Len(f) : (f \o g)[j] = f[j]
        /\ \A j \in 1 .. Len(g) : (f \o g)[Len(f) + j] = g[j]
    <3>. HIDE DEF f, g
    <3>1. f \in Seq(S) /\ g \in Seq(S)
      BY <1>4, <1>5
    <3>2. f \o g \in Seq(S) /\ Len(f \o g) = Len(f) + Len(g)
      BY <3>1, ConcatParts
    <3>3. \A j \in 1 .. Len(f) : (f \o g)[j] = f[j]
      BY <3>1, ConcatParts
    <3>4. \A j \in 1 .. Len(g) : (f \o g)[Len(f) + j] = g[j]
      BY <3>1, ConcatParts
    <3>. QED  BY <3>2, <3>3, <3>4
  <2>. HIDE DEF f, g, k
  <2>. QED  BY <1>4, <1>5, <2>1
<1>8. Rest(u, n) \in Seq(S) /\ Len(Rest(u, n)) = a + b - n
      /\ \A j \in 1 .. a + b - n : Rest(u, n)[j] = u[n + j]
  <2>. HIDE DEF u
  <2>1. n \in 0 .. Len(u)
    BY <1>1, <1>6
  <2>2. /\ Rest(u, n) \in Seq(S) /\ Len(Rest(u, n)) = Len(u) - n
        /\ \A j \in 1 .. Len(u) - n : Rest(u, n)[j] = u[n + j]
    BY <1>6, <2>1, RestParts
  <2>. QED  BY <1>6, <2>2
<1>. HIDE DEF f, g, u, a, b, k
<1>9. \A j \in 1 .. a + b - n : Rest(u, n)[j] = (f \o g)[j]
  <2>. SUFFICES ASSUME NEW j \in 1 .. a + b - n PROVE Rest(u, n)[j] = (f \o g)[j]
    OBVIOUS
  <2>1. Rest(u, n)[j] = u[n + j] /\ j \in Nat /\ 1 <= j /\ j <= a + b - n
    BY <1>1, <1>8
  <2>2. CASE j <= a - k
    <3>1. j \in 1 .. a - k /\ n + j \in 1 .. a /\ k + j = n + j
      BY <1>1, <1>2, <2>2
    <3>. QED  BY <1>4, <1>6, <1>7, <2>1, <3>1
  <2>3. CASE j > a - k
    <3>1. j - (a - k) \in 1 .. b - (n - k) /\ a - k + (j - (a - k)) = j /\ n - k + (j - (a - k)) \in 1 .. b
          /\ a + (n - k + (j - (a - k))) = n + j
      BY <1>1, <1>2, <2>3
    <3>2. (f \o g)[j] = t[n - k + (j - (a - k))]
      BY <1>5, <1>7, <3>1
    <3>3. u[n + j] = t[n - k + (j - (a - k))]
      BY <1>6, <3>1
    <3>. QED  BY <2>1, <3>2, <3>3
  <2>4. j <= a - k \/ j > a - k
    BY <1>1, <1>2, <2>1
  <2>. QED  BY <2>2, <2>3, <2>4
<1>10. a - k + (b - (n - k)) = a + b - n
  BY <1>1, <1>2
<1>11. Rest(u, n) = f \o g
  BY <1>7, <1>8, <1>9, <1>10, SeqEqual
<1>. QED  BY <1>3, <1>11 DEF f, g, u, a, b, k

-----------------------------------------------------------------------------
\* What is to be read in an item.
LEMMA ItemParts ==
    ASSUME NEW x \in Items
    PROVE  /\ x \in [data : Seq(Byte), dead : Nat] /\ x.data \in Seq(Byte) /\ Len(x.data) \in Nat
           /\ x.dead \in Nat /\ x.dead <= Len(x.data)
           /\ Left(x) \in Nat /\ Left(x) = Len(x.data) - x.dead
           /\ Live(x) \in Seq(Byte) /\ Len(Live(x)) = Left(x)
           /\ \A j \in 1 .. Left(x) : Live(x)[j] = x.data[x.dead + j]
<1>1. x \in [data : Seq(Byte), dead : Nat] /\ x.data \in Seq(Byte) /\ x.dead \in Nat /\ x.dead <= Len(x.data)
  BY DEF Items
<1>2. Len(x.data) \in Nat
  BY <1>1, LenProperties
<1>3. Left(x) \in Nat /\ Left(x) = Len(x.data) - x.dead
  BY <1>1, <1>2 DEF Left
<1>4. Live(x) = Rest(x.data, x.dead)
  BY DEF Live, Rest
<1>5. x.dead \in 0 .. Len(x.data)
  BY <1>1, <1>2
<1>6. /\ Rest(x.data, x.dead) \in Seq(Byte) /\ Len(Rest(x.data, x.dead)) = Len(x.data) - x.dead
      /\ \A j \in 1 .. Len(x.data) - x.dead : Rest(x.data, x.dead)[j] = x.data[x.dead + j]
  BY <1>1, <1>5, RestParts
<1>. QED  BY <1>1, <1>2, <1>3, <1>4, <1>6

\* The bytes of the abstract queue.
Cells == [byte : Byte, begins : BOOLEAN]

LEMMA CellParts ==
    ASSUME NEW x \in Items, NEW j \in 1 .. Left(x)
    PROVE  /\ Cell(kind, x, j) \in Cells /\ Cell(kind, x, j).byte = Live(x)[j]
           /\ Cell(kind, x, j).begins <=> kind = "packet" /\ j = 1 /\ x.dead = 0
<1>1. Live(x)[j] = x.data[x.dead + j]
  BY ItemParts
<1>2. Live(x) \in Seq(Byte) /\ j \in 1 .. Len(Live(x))
  BY ItemParts
<1>3. Live(x)[j] \in Byte
  BY <1>2, ElementOfSeq
<1>. DEFINE begins == kind = "packet" /\ j = 1 /\ x.dead = 0
<1>4. begins \in BOOLEAN
  OBVIOUS
<1>5. Cell(kind, x, j) = [byte |-> Live(x)[j], begins |-> begins]
  BY <1>1 DEF Cell
<1>. HIDE DEF begins
<1>6. Cell(kind, x, j) \in Cells /\ Cell(kind, x, j).byte = Live(x)[j]
  BY <1>3, <1>4, <1>5 DEF Cells
<1>7. Cell(kind, x, j).begins = begins
  BY <1>5
<1>. QED  BY <1>6, <1>7 DEF begins

LEMMA ParcelParts ==
    ASSUME NEW x \in Items
    PROVE  /\ Parcel(kind, x) \in Seq(Cells) /\ Len(Parcel(kind, x)) = Left(x) /\ Left(x) \in Nat
           /\ \A j \in 1 .. Left(x) : Parcel(kind, x)[j] = Cell(kind, x, j)
<1>1. Left(x) \in Nat
  BY ItemParts
<1>2. \A j \in 1 .. Left(x) : Cell(kind, x, j) \in Cells
  BY CellParts
<1>. QED  BY <1>1, <1>2 DEF Parcel

\* An item some bytes of which are read holds the rest.
LEMMA ParcelRest ==
    ASSUME NEW x \in Items, NEW n \in 0 .. Left(x), NEW y, y = [x EXCEPT !.dead = @ + n]
    PROVE  /\ y \in Items /\ y.data = x.data /\ y.dead = x.dead + n /\ Left(y) = Left(x) - n
           /\ Parcel(kind, y) = Rest(Parcel(kind, x), n)
<1>1. /\ x \in [data : Seq(Byte), dead : Nat] /\ x.data \in Seq(Byte) /\ Len(x.data) \in Nat
      /\ x.dead \in Nat /\ Left(x) \in Nat /\ Left(x) = Len(x.data) - x.dead
  BY ItemParts
<1>2. y \in [data : Seq(Byte), dead : Nat] /\ y.data = x.data /\ y.dead = x.dead + n /\ y.dead <= Len(y.data)
  <2>. DEFINE m == x.dead + n
  <2>1. m \in Nat /\ m <= Len(x.data)
    BY <1>1
  <2>2. y = [x EXCEPT !.dead = m]
    OBVIOUS
  <2>. HIDE DEF m
  <2>3. y \in [data : Seq(Byte), dead : Nat] /\ y.data = x.data /\ y.dead = m
    BY <1>1, <2>1, <2>2
  <2>. QED  BY <2>1, <2>3 DEF m
<1>3. y \in Items
  BY <1>2 DEF Items
<1>4. Left(y) = Left(x) - n
  BY <1>1, <1>2 DEF Left
<1>5. Parcel(kind, y) \in Seq(Cells) /\ Len(Parcel(kind, y)) = Left(x) - n
      /\ \A j \in 1 .. Left(x) - n : Parcel(kind, y)[j] = Cell(kind, y, j)
  BY <1>3, <1>4, ParcelParts
<1>6. Parcel(kind, x) \in Seq(Cells) /\ Len(Parcel(kind, x)) = Left(x)
      /\ \A j \in 1 .. Left(x) : Parcel(kind, x)[j] = Cell(kind, x, j)
  BY ParcelParts
<1>7. n \in 0 .. Len(Parcel(kind, x))
  BY <1>6
<1>8. /\ Rest(Parcel(kind, x), n) \in Seq(Cells) /\ Len(Rest(Parcel(kind, x), n)) = Left(x) - n
      /\ \A j \in 1 .. Left(x) - n : Rest(Parcel(kind, x), n)[j] = Parcel(kind, x)[n + j]
  <2>1. Rest(Parcel(kind, x), n) \in Seq(Cells) /\ Len(Rest(Parcel(kind, x), n)) = Len(Parcel(kind, x)) - n
    BY <1>6, <1>7, RestParts
  <2>2. \A j \in 1 .. Len(Parcel(kind, x)) - n : Rest(Parcel(kind, x), n)[j] = Parcel(kind, x)[n + j]
    BY <1>6, <1>7, RestParts
  <2>. QED  BY <1>6, <2>1, <2>2
<1>9. ASSUME NEW j \in 1 .. Left(x) - n PROVE Parcel(kind, y)[j] = Rest(Parcel(kind, x), n)[j]
  <2>1. n + j \in 1 .. Left(x) /\ j \in 1 .. Left(y) /\ x.dead + (n + j) = y.dead + j
    BY <1>1, <1>2, <1>4
  <2>2. Cell(kind, y, j) = Cell(kind, x, n + j)
    <3>1. y.data[y.dead + j] = x.data[x.dead + (n + j)]
      BY <1>2, <2>1
    <3>2. (j = 1 /\ y.dead = 0) <=> (n + j = 1 /\ x.dead = 0)
      BY SMTT(30), <1>1, <1>2
    <3>3. (kind = "packet" /\ j = 1 /\ y.dead = 0) = (kind = "packet" /\ n + j = 1 /\ x.dead = 0)
      BY <3>2
    <3>. QED  BY <3>1, <3>3, Zenon DEF Cell
  <2>3. Parcel(kind, y)[j] = Cell(kind, y, j)
    BY <1>5
  <2>4. Parcel(kind, x)[n + j] = Cell(kind, x, n + j)
    BY <1>6, <2>1
  <2>. QED  BY <1>8, <2>2, <2>3, <2>4
<1>10. Parcel(kind, y) = Rest(Parcel(kind, x), n)
  BY <1>5, <1>8, <1>9, SeqEqual
<1>. QED  BY <1>2, <1>3, <1>4, <1>10

-----------------------------------------------------------------------------
\* What items hold together is what its definition says: there is such a
\* function, by induction on the number of items.
LEMMA ContentsDef ==
    ASSUME NEW c \in Seq(Items)
    PROVE  Contents(kind, c) = [i \in 0 .. Len(c) |-> IF i = 0 THEN <<>> ELSE Contents(kind, c)[i - 1] \o Parcel(kind, c[i])]
<1>. DEFINE Next1(s, i) == s \o Parcel(kind, c[i])
            Is(f, n) == f = [i \in 0 .. n |-> IF i = 0 THEN <<>> ELSE Next1(f[i - 1], i)]
            T == {n \in Nat : \E f : Is(f, n)}
<1>. HIDE DEF Next1
<1>1. 0 \in T
  <2>1. Is([i \in 0 .. 0 |-> <<>>], 0)
    OBVIOUS
  <2>. QED  BY <2>1
<1>2. ASSUME NEW n \in Nat, n \in T PROVE n + 1 \in T
  <2>1. PICK f : Is(f, n)
    BY <1>2
  <2>. DEFINE g == [i \in 0 .. n + 1 |-> IF i = n + 1 THEN Next1(f[i - 1], i) ELSE f[i]]
  <2>2. Is(g, n + 1)
    BY <2>1
  <2>. HIDE DEF Is, g
  <2>3. \E h : Is(h, n + 1)
    BY <2>2, Zenon
  <2>. QED  BY <2>3
<1>. HIDE DEF Is
<1>3. Nat \subseteq T
  BY <1>1, <1>2, Induction
<1>4. \E f : Is(f, Len(c))
  BY <1>3, LenProperties
<1>5. Is(CHOOSE f : Is(f, Len(c)), Len(c))
  BY <1>4, Zenon
<1>6. Contents(kind, c) = CHOOSE f : Is(f, Len(c))
  BY DEF Contents, Is, Next1
<1>. QED  BY <1>5, <1>6 DEF Is, Next1

LEMMA ContentsParts ==
    ASSUME NEW c \in Seq(Items)
    PROVE  /\ Len(c) \in Nat /\ Contents(kind, c)[0] = <<>>
           /\ \A i \in 0 .. Len(c) : Contents(kind, c)[i] \in Seq(Cells) /\ Len(Contents(kind, c)[i]) \in Nat
           /\ \A i \in 1 .. Len(c) :
                /\ Contents(kind, c)[i] = Contents(kind, c)[i - 1] \o Parcel(kind, c[i])
                /\ Len(Contents(kind, c)[i]) = Len(Contents(kind, c)[i - 1]) + Left(c[i])
                /\ c[i] \in Items /\ Left(c[i]) \in Nat
<1>. DEFINE C == Contents(kind, c)
            T == {n \in Nat : n <= Len(c) => C[n] \in Seq(Cells)}
<1>1. Len(c) \in Nat /\ \A i \in 1 .. Len(c) : c[i] \in Items
  BY LenProperties, ElementOfSeq
<1>2. C = [i \in 0 .. Len(c) |-> IF i = 0 THEN <<>> ELSE C[i - 1] \o Parcel(kind, c[i])]
  BY ContentsDef
<1>. HIDE DEF C
<1>3. C[0] = <<>>
  BY <1>1, <1>2
<1>4. ASSUME NEW i \in 1 .. Len(c) PROVE C[i] = C[i - 1] \o Parcel(kind, c[i])
  <2>1. i \in 0 .. Len(c) /\ i # 0
    BY <1>1
  <2>. QED  BY <1>2, <2>1
<1>5. 0 \in T
  BY <1>3, EmptySeq
<1>6. ASSUME NEW n \in Nat, n \in T PROVE n + 1 \in T
  <2>1. SUFFICES ASSUME n + 1 <= Len(c) PROVE C[n + 1] \in Seq(Cells)
    OBVIOUS
  <2>2. n + 1 \in 1 .. Len(c) /\ n + 1 - 1 = n /\ n <= Len(c)
    BY <1>1, <2>1
  <2>3. C[n] \in Seq(Cells) /\ C[n + 1] = C[n] \o Parcel(kind, c[n + 1])
    <3>1. C[n + 1] = C[n] \o Parcel(kind, c[n + 1])
      <4>1. n + 1 \in 0 .. Len(c) /\ n + 1 # 0 /\ n + 1 - 1 = n
        BY <1>1, <2>2
      <4>. QED  BY <1>2, <4>1
    <3>2. C[n] \in Seq(Cells)
      BY <1>6, <2>2
    <3>. QED  BY <2>2, <3>1, <3>2
  <2>4. Parcel(kind, c[n + 1]) \in Seq(Cells)
    BY <1>1, <2>2, ParcelParts
  <2>. QED  BY <2>3, <2>4, ConcatParts
<1>7. Nat \subseteq T
  BY <1>5, <1>6, Induction
<1>8. ASSUME NEW i \in 0 .. Len(c) PROVE C[i] \in Seq(Cells) /\ Len(C[i]) \in Nat
  <2>1. C[i] \in Seq(Cells)
    BY <1>1, <1>7
  <2>. QED  BY <2>1, LenProperties
<1>9. ASSUME NEW i \in 1 .. Len(c)
      PROVE  Len(C[i]) = Len(C[i - 1]) + Left(c[i]) /\ Left(c[i]) \in Nat
  <2>1. i - 1 \in 0 .. Len(c)
    BY <1>1
  <2>2. C[i - 1] \in Seq(Cells) /\ Parcel(kind, c[i]) \in Seq(Cells)
        /\ Len(Parcel(kind, c[i])) = Left(c[i]) /\ Left(c[i]) \in Nat
    BY <1>1, <1>8, <2>1, ParcelParts
  <2>3. Len(C[i - 1] \o Parcel(kind, c[i])) = Len(C[i - 1]) + Len(Parcel(kind, c[i]))
    BY <2>2, ConcatParts
  <2>. QED  BY <1>4, <2>2, <2>3
<1>. QED  BY <1>1, <1>3, <1>4, <1>8, <1>9 DEF C

LEMMA SumsDef ==
    ASSUME NEW c \in Seq(Items)
    PROVE  Sums(c) = [i \in 0 .. Len(c) |-> IF i = 0 THEN 0 ELSE Sums(c)[i - 1] + Left(c[i])]
<1>. DEFINE Next1(s, i) == s + Left(c[i])
            Is(f, n) == f = [i \in 0 .. n |-> IF i = 0 THEN 0 ELSE Next1(f[i - 1], i)]
            T == {n \in Nat : \E f : Is(f, n)}
<1>. HIDE DEF Next1
<1>1. 0 \in T
  <2>1. Is([i \in 0 .. 0 |-> 0], 0)
    OBVIOUS
  <2>. QED  BY <2>1
<1>2. ASSUME NEW n \in Nat, n \in T PROVE n + 1 \in T
  <2>1. PICK f : Is(f, n)
    BY <1>2
  <2>. DEFINE g == [i \in 0 .. n + 1 |-> IF i = n + 1 THEN Next1(f[i - 1], i) ELSE f[i]]
  <2>2. Is(g, n + 1)
    BY <2>1
  <2>. HIDE DEF Is, g
  <2>3. \E h : Is(h, n + 1)
    BY <2>2, Zenon
  <2>. QED  BY <2>3
<1>. HIDE DEF Is
<1>3. Nat \subseteq T
  BY <1>1, <1>2, Induction
<1>4. \E f : Is(f, Len(c))
  BY <1>3, LenProperties
<1>5. Is(CHOOSE f : Is(f, Len(c)), Len(c))
  BY <1>4, Zenon
<1>6. Sums(c) = CHOOSE f : Is(f, Len(c))
  BY DEF Sums, Is, Next1
<1>. QED  BY <1>5, <1>6 DEF Is, Next1

\* The sizes are those of what the items hold.
LEMMA SumsParts ==
    ASSUME NEW c \in Seq(Items)
    PROVE  \A i \in 0 .. Len(c) : Sums(c)[i] = Len(Contents(kind, c)[i])
<1>. DEFINE D == Sums(c)
            C == Contents(kind, c)
            T == {n \in Nat : n <= Len(c) => D[n] = Len(C[n])}
<1>1. D = [i \in 0 .. Len(c) |-> IF i = 0 THEN 0 ELSE D[i - 1] + Left(c[i])]
  BY SumsDef
<1>2. /\ Len(c) \in Nat /\ C[0] = <<>>
      /\ \A i \in 1 .. Len(c) : Len(C[i]) = Len(C[i - 1]) + Left(c[i])
  BY ContentsParts
<1>. HIDE DEF C, D
<1>3. 0 \in T
  <2>1. D[0] = 0
    BY <1>1, <1>2
  <2>. QED  BY <1>2, <2>1
<1>4. ASSUME NEW n \in Nat, n \in T PROVE n + 1 \in T
  <2>1. SUFFICES ASSUME n + 1 <= Len(c) PROVE D[n + 1] = Len(C[n + 1])
    OBVIOUS
  <2>2. n + 1 \in 1 .. Len(c) /\ n + 1 \in 0 .. Len(c) /\ n + 1 # 0 /\ n + 1 - 1 = n /\ n <= Len(c)
    BY <1>2, <2>1
  <2>3. D[n + 1] = D[n] + Left(c[n + 1])
    BY <1>1, <2>2
  <2>4. Len(C[n + 1]) = Len(C[n]) + Left(c[n + 1])
    BY <1>2, <2>2
  <2>5. D[n] = Len(C[n])
    BY <1>4, <2>2
  <2>. QED  BY <2>3, <2>4, <2>5
<1>5. Nat \subseteq T
  BY <1>3, <1>4, Induction
<1>6. ASSUME NEW i \in 0 .. Len(c) PROVE D[i] = Len(C[i])
  BY <1>2, <1>5
<1>. QED  BY <1>6 DEF C, D

\* All that a chain holds.
All(c) == Contents(kind, c)[Len(c)]

LEMMA AllParts ==
    ASSUME NEW c \in Seq(Items)
    PROVE  All(c) \in Seq(Cells) /\ Len(All(c)) \in Nat /\ GetSize(c) = Len(All(c))
<1>1. Len(c) \in 0 .. Len(c)
  BY LenProperties
<1>. QED  BY <1>1, ContentsParts, SumsParts DEF All, GetSize

\* What the first items hold depends on nothing else.
LEMMA SameItems ==
    ASSUME NEW c \in Seq(Items), NEW d \in Seq(Items), NEW m \in Nat, m <= Len(c), m <= Len(d),
           \A i \in 1 .. m : c[i] = d[i]
    PROVE  \A i \in 0 .. m : Contents(kind, c)[i] = Contents(kind, d)[i]
<1>. DEFINE T == {n \in Nat : n <= m => Contents(kind, c)[n] = Contents(kind, d)[n]}
<1>1. Len(c) \in Nat /\ Len(d) \in Nat
  BY LenProperties
<1>2. 0 \in T
  BY ContentsParts
<1>3. ASSUME NEW n \in Nat, n \in T PROVE n + 1 \in T
  <2>1. SUFFICES ASSUME n + 1 <= m PROVE Contents(kind, c)[n + 1] = Contents(kind, d)[n + 1]
    OBVIOUS
  <2>. DEFINE k == n + 1
  <2>2. k \in 1 .. m /\ k \in 1 .. Len(c) /\ k \in 1 .. Len(d) /\ k - 1 = n /\ n <= m
    BY <1>1, <2>1
  <2>3. Contents(kind, c)[n] = Contents(kind, d)[n]
    BY <1>3, <2>2
  <2>. HIDE DEF k
  <2>4. Contents(kind, c)[k] = Contents(kind, c)[k - 1] \o Parcel(kind, c[k])
    BY <2>2, ContentsParts
  <2>5. Contents(kind, d)[k] = Contents(kind, d)[k - 1] \o Parcel(kind, d[k])
    BY <2>2, ContentsParts
  <2>6. c[k] = d[k]
    BY <2>2
  <2>7. Contents(kind, c)[k] = Contents(kind, d)[k]
    BY <2>2, <2>3, <2>4, <2>5, <2>6
  <2>. QED  BY <2>7 DEF k
<1>4. Nat \subseteq T
  BY <1>2, <1>3, Induction
<1>. QED  BY <1>4

\* One more item, or another last one.
LEMMA AllAppend ==
    ASSUME NEW c \in Seq(Items), NEW x \in Items
    PROVE  /\ Append(c, x) \in Seq(Items) /\ Len(Append(c, x)) = Len(c) + 1 /\ Append(c, x)[Len(c) + 1] = x
           /\ \A i \in 1 .. Len(c) : Append(c, x)[i] = c[i]
           /\ All(Append(c, x)) = All(c) \o Parcel(kind, x)
<1>. DEFINE d == Append(c, x)
            n == Len(c)
<1>1. n \in Nat /\ d \in Seq(Items) /\ Len(d) = n + 1 /\ d[n + 1] = x /\ \A i \in 1 .. n : d[i] = c[i]
  BY LenProperties, AppendProperties
<1>2. \A i \in 0 .. n : Contents(kind, c)[i] = Contents(kind, d)[i]
  <2>. HIDE DEF d
  <2>. QED  BY <1>1, SameItems
<1>. HIDE DEF d
<1>3. Contents(kind, d)[n + 1] = Contents(kind, d)[n] \o Parcel(kind, d[n + 1])
  <2>. DEFINE k == n + 1
  <2>1. k \in 1 .. Len(d) /\ k - 1 = n
    BY <1>1
  <2>. HIDE DEF k, n
  <2>2. Contents(kind, d)[k] = Contents(kind, d)[k - 1] \o Parcel(kind, d[k])
    BY <1>1, <2>1, ContentsParts
  <2>. QED  BY <2>1, <2>2 DEF k
<1>4. Contents(kind, d)[n] = Contents(kind, c)[n]
  BY <1>1, <1>2
<1>5. All(d) = Contents(kind, d)[n + 1] /\ All(c) = Contents(kind, c)[n]
  BY <1>1 DEF All
<1>6. All(d) = All(c) \o Parcel(kind, x)
  BY <1>1, <1>3, <1>4, <1>5
<1>. QED  BY <1>1, <1>6 DEF d

LEMMA AllLast ==
    ASSUME NEW c \in Seq(Items), c # <<>>, NEW x \in Items, NEW d, d = [c EXCEPT ![Len(c)] = x]
    PROVE  /\ d \in Seq(Items) /\ Len(d) = Len(c) /\ Len(c) \in Nat \ {0} /\ d[Len(c)] = x
           /\ \A i \in 1 .. Len(c) - 1 : d[i] = c[i]
           /\ Contents(kind, c)[Len(c) - 1] \in Seq(Cells)
           /\ All(d) = Contents(kind, c)[Len(c) - 1] \o Parcel(kind, x)
           /\ All(c) = Contents(kind, c)[Len(c) - 1] \o Parcel(kind, c[Len(c)])
<1>. DEFINE n == Len(c)
            m == n - 1
<1>1. n \in Nat /\ n # 0
  BY LenProperties
<1>2. n \in 1 .. n /\ m \in 0 .. n /\ m \in Nat /\ m <= n
  BY <1>1
<1>3. d \in Seq(Items) /\ Len(d) = n /\ \A i \in 1 .. n : d[i] = IF i = n THEN x ELSE c[i]
  BY <1>2, ExceptSeq
<1>4. d[n] = x /\ \A i \in 1 .. m : d[i] = c[i]
  <2>1. \A i \in 1 .. m : i \in 1 .. n /\ i # n
    BY <1>1
  <2>. HIDE DEF n, m
  <2>. QED  BY <1>2, <1>3, <2>1
<1>. HIDE DEF n, m
<1>5. \A i \in 0 .. m : Contents(kind, c)[i] = Contents(kind, d)[i]
  BY <1>2, <1>3, <1>4, SameItems DEF n
<1>6. Contents(kind, c)[m] = Contents(kind, d)[m]
  <2>1. m \in 0 .. m
    BY <1>2
  <2>. QED  BY <1>5, <2>1
<1>7. Contents(kind, c)[n] = Contents(kind, c)[n - 1] \o Parcel(kind, c[n])
  BY <1>2, ContentsParts DEF n
<1>8. Contents(kind, d)[n] = Contents(kind, d)[n - 1] \o Parcel(kind, d[n])
  <2>1. n \in 1 .. Len(d)
    BY <1>2, <1>3
  <2>2. \A i \in 1 .. Len(d) : Contents(kind, d)[i] = Contents(kind, d)[i - 1] \o Parcel(kind, d[i])
    BY <1>3, ContentsParts
  <2>. QED  BY <2>1, <2>2
<1>9. Contents(kind, c)[m] \in Seq(Cells)
  BY <1>2, ContentsParts DEF n
<1>10. All(d) = Contents(kind, c)[m] \o Parcel(kind, x) /\ All(c) = Contents(kind, c)[m] \o Parcel(kind, c[n])
  BY <1>3, <1>4, <1>6, <1>7, <1>8 DEF All, n, m
<1>. QED  BY <1>1, <1>3, <1>4, <1>9, <1>10 DEF n, m

-----------------------------------------------------------------------------
\* The bytes of cells.
BytesOf(q) == [j \in DOMAIN q |-> q[j].byte]

LEMMA BytesParts ==
    ASSUME NEW q \in Seq(Cells)
    PROVE  /\ BytesOf(q) \in Seq(Byte) /\ Len(BytesOf(q)) = Len(q) /\ Len(q) \in Nat
           /\ \A j \in 1 .. Len(q) : BytesOf(q)[j] = q[j].byte
<1>1. Len(q) \in Nat /\ DOMAIN q = 1 .. Len(q)
  BY LenProperties
<1>2. \A j \in 1 .. Len(q) : q[j] \in Cells
  BY ElementOfSeq
<1>3. \A j \in 1 .. Len(q) : q[j].byte \in Byte
  BY <1>2 DEF Cells
<1>4. BytesOf(q) = [j \in 1 .. Len(q) |-> q[j].byte]
  BY <1>1 DEF BytesOf
<1>5. BytesOf(q) \in [1 .. Len(q) -> Byte]
  BY <1>3, <1>4
<1>6. BytesOf(q) \in Seq(Byte)
  BY <1>1, <1>5, SeqDef
<1>7. Len(BytesOf(q)) = Len(q)
  <2>1. DOMAIN BytesOf(q) = 1 .. Len(q)
    BY <1>4
  <2>. QED  BY <1>1, <1>6, <2>1, LenProperties
<1>. QED  BY <1>1, <1>4, <1>6, <1>7

LEMMA BytesConcat ==
    ASSUME NEW q \in Seq(Cells), NEW r \in Seq(Cells)
    PROVE  BytesOf(q \o r) = BytesOf(q) \o BytesOf(r)
<1>. DEFINE s == q \o r
            a == BytesOf(q)
            b == BytesOf(r)
<1>1. Len(q) \in Nat /\ Len(r) \in Nat /\ s \in Seq(Cells) /\ Len(s) = Len(q) + Len(r)
  BY ConcatParts
<1>2. \A j \in 1 .. Len(q) : s[j] = q[j]
  BY ConcatParts
<1>3. \A j \in 1 .. Len(r) : s[Len(q) + j] = r[j]
  BY ConcatParts
<1>4. a \in Seq(Byte) /\ Len(a) = Len(q) /\ \A j \in 1 .. Len(q) : a[j] = q[j].byte
  BY BytesParts
<1>5. b \in Seq(Byte) /\ Len(b) = Len(r) /\ \A j \in 1 .. Len(r) : b[j] = r[j].byte
  BY BytesParts
<1>. HIDE DEF s, a, b
<1>6. BytesOf(s) \in Seq(Byte) /\ Len(BytesOf(s)) = Len(q) + Len(r)
  BY <1>1, BytesParts
<1>7. \A j \in 1 .. Len(q) + Len(r) : BytesOf(s)[j] = s[j].byte
  <2>1. \A j \in 1 .. Len(s) : BytesOf(s)[j] = s[j].byte
    BY <1>1, BytesParts
  <2>. QED  BY <1>1, <2>1
<1>8. a \o b \in Seq(Byte) /\ Len(a \o b) = Len(q) + Len(r)
  <2>1. a \o b \in Seq(Byte) /\ Len(a \o b) = Len(a) + Len(b)
    BY <1>4, <1>5, ConcatParts
  <2>. QED  BY <1>4, <1>5, <2>1
<1>9. \A j \in 1 .. Len(q) : (a \o b)[j] = a[j]
  <2>1. \A j \in 1 .. Len(a) : (a \o b)[j] = a[j]
    BY <1>4, <1>5, ConcatParts
  <2>. QED  BY <1>4, <2>1
<1>10. \A j \in 1 .. Len(r) : (a \o b)[Len(q) + j] = b[j]
  <2>1. \A j \in 1 .. Len(b) : (a \o b)[Len(a) + j] = b[j]
    BY <1>4, <1>5, ConcatParts
  <2>. QED  BY <1>4, <1>5, <2>1
<1>11. ASSUME NEW j \in 1 .. Len(q) + Len(r) PROVE BytesOf(s)[j] = (a \o b)[j]
  <2>1. CASE j \in 1 .. Len(q)
    BY <1>2, <1>4, <1>7, <1>9, <2>1
  <2>2. CASE j \notin 1 .. Len(q)
    <3>. DEFINE k == j - Len(q)
    <3>1. k \in 1 .. Len(r) /\ Len(q) + k = j
      BY <1>1, <2>2
    <3>. HIDE DEF k
    <3>2. s[j] = r[k] /\ (a \o b)[j] = b[k] /\ b[k] = r[k].byte
      BY <1>3, <1>5, <1>10, <3>1
    <3>. QED  BY <1>7, <3>2
  <2>. QED  BY <2>1, <2>2
<1>12. BytesOf(s) = a \o b
  BY <1>6, <1>8, <1>11, SeqEqual
<1>. QED  BY <1>12 DEF s, a, b

LEMMA BytesParcel ==
    ASSUME NEW x \in Items
    PROVE  BytesOf(Parcel(kind, x)) = Live(x)
<1>1. Parcel(kind, x) \in Seq(Cells) /\ Len(Parcel(kind, x)) = Left(x)
      /\ \A j \in 1 .. Left(x) : Parcel(kind, x)[j] = Cell(kind, x, j)
  BY ParcelParts
<1>2. Live(x) \in Seq(Byte) /\ Len(Live(x)) = Left(x)
  BY ItemParts
<1>3. BytesOf(Parcel(kind, x)) \in Seq(Byte) /\ Len(BytesOf(Parcel(kind, x))) = Left(x)
  BY <1>1, BytesParts
<1>4. ASSUME NEW j \in 1 .. Left(x) PROVE BytesOf(Parcel(kind, x))[j] = Live(x)[j]
  <2>1. BytesOf(Parcel(kind, x))[j] = Parcel(kind, x)[j].byte
    BY <1>1, BytesParts
  <2>2. Cell(kind, x, j).byte = Live(x)[j]
    BY CellParts
  <2>. QED  BY <1>1, <2>1, <2>2
<1>. QED  BY <1>2, <1>3, <1>4, SeqEqual

\* What a copying loop takes is the beginning of what the items hold.
LEMMA CopiedDef ==
    ASSUME NEW c \in Seq(Items), NEW n \in Nat
    PROVE  \E f : /\ f = [i \in 0 .. Len(c) |->
                            IF i = 0 THEN <<>> ELSE f[i - 1] \o First(Live(c[i]), n - Len(f[i - 1]))]
                  /\ Copied(c, n) = f[Len(c)]
<1>. DEFINE Next1(s, i) == s \o First(Live(c[i]), n - Len(s))
            Is(f, m) == f = [i \in 0 .. m |-> IF i = 0 THEN <<>> ELSE Next1(f[i - 1], i)]
            T == {m \in Nat : \E f : Is(f, m)}
<1>. HIDE DEF Next1
<1>1. 0 \in T
  <2>1. Is([i \in 0 .. 0 |-> <<>>], 0)
    OBVIOUS
  <2>. QED  BY <2>1
<1>2. ASSUME NEW m \in Nat, m \in T PROVE m + 1 \in T
  <2>1. PICK f : Is(f, m)
    BY <1>2
  <2>. DEFINE g == [i \in 0 .. m + 1 |-> IF i = m + 1 THEN Next1(f[i - 1], i) ELSE f[i]]
  <2>2. Is(g, m + 1)
    BY <2>1
  <2>. HIDE DEF Is, g
  <2>3. \E h : Is(h, m + 1)
    BY <2>2, Zenon
  <2>. QED  BY <2>3
<1>. HIDE DEF Is
<1>3. Nat \subseteq T
  BY <1>1, <1>2, Induction
<1>4. \E f : Is(f, Len(c))
  BY <1>3, LenProperties
<1>. DEFINE t == CHOOSE f : Is(f, Len(c))
<1>5. Is(t, Len(c))
  BY <1>4, Zenon
<1>6. Copied(c, n) = t[Len(c)]
  BY DEF Copied, Is, Next1
<1>. HIDE DEF t
<1>. QED  BY <1>5, <1>6, Zenon DEF Is, Next1

LEMMA CopiedIs ==
    ASSUME NEW c \in Seq(Items), NEW n \in Nat
    PROVE  Copied(c, n) = First(BytesOf(All(c)), n)
<1>1. PICK f : /\ f = [i \in 0 .. Len(c) |->
                            IF i = 0 THEN <<>> ELSE f[i - 1] \o First(Live(c[i]), n - Len(f[i - 1]))]
               /\ Copied(c, n) = f[Len(c)]
  BY CopiedDef
<1>. DEFINE C == Contents(kind, c)
            T == {m \in Nat : m <= Len(c) => f[m] = First(BytesOf(C[m]), n)}
<1>2. Len(c) \in Nat /\ C[0] = <<>>
  BY ContentsParts
<1>3. 0 \in T
  <2>1. f[0] = <<>>
    BY <1>1, <1>2
  <2>2. <<>> \in Seq(Cells) /\ Len(<<>>) = 0
    OBVIOUS
  <2>3. BytesOf(<<>>) \in Seq(Byte) /\ Len(BytesOf(<<>>)) = 0
    BY <2>2, BytesParts
  <2>4. Least(n, 0) = 0
    BY DEF Least
  <2>5. First(BytesOf(<<>>), n) \in Seq(Byte) /\ Len(First(BytesOf(<<>>), n)) = 0
    BY <2>3, <2>4, FirstParts
  <2>6. First(BytesOf(<<>>), n) = <<>>
    BY <2>5, EmptySeq
  <2>. QED  BY <1>2, <2>1, <2>6
<1>4. ASSUME NEW m \in Nat, m \in T PROVE m + 1 \in T
  <2>1. SUFFICES ASSUME m + 1 <= Len(c) PROVE f[m + 1] = First(BytesOf(C[m + 1]), n)
    OBVIOUS
  <2>. DEFINE k == m + 1
              b == BytesOf(C[m])
              l == Live(c[k])
  <2>2. k \in 1 .. Len(c) /\ k \in 0 .. Len(c) /\ k # 0 /\ k - 1 = m /\ m <= Len(c) /\ m \in 0 .. Len(c)
    BY <1>2, <2>1
  <2>3. f[m] = First(b, n)
    BY <1>4, <2>2
  <2>. HIDE DEF k
  <2>4. f[k] = f[m] \o First(l, n - Len(f[m]))
    <3>. HIDE DEF T, l
    <3>1. f[k] = f[k - 1] \o First(Live(c[k]), n - Len(f[k - 1]))
      BY <1>1, <2>2
    <3>. QED  BY <2>2, <3>1 DEF l
  <2>5. C[k] = C[k - 1] \o Parcel(kind, c[k]) /\ c[k] \in Items
    BY <2>2, ContentsParts
  <2>6. C[m] \in Seq(Cells)
    BY <2>2, ContentsParts
  <2>7. Parcel(kind, c[k]) \in Seq(Cells) /\ l \in Seq(Byte) /\ BytesOf(Parcel(kind, c[k])) = l
    BY <2>5, ParcelParts, ItemParts, BytesParcel
  <2>8. b \in Seq(Byte)
    BY <2>6, BytesParts
  <2>. HIDE DEF C
  <2>9. BytesOf(C[k]) = b \o l
    BY <2>2, <2>5, <2>6, <2>7, BytesConcat
  <2>. HIDE DEF b, l
  <2>10. First(b \o l, n) = First(b, n) \o First(l, n - Len(First(b, n)))
    BY <2>7, <2>8, FirstOfConcat
  <2>11. f[k] = First(BytesOf(C[k]), n)
    BY <2>3, <2>4, <2>9, <2>10
  <2>. QED  BY <2>11 DEF k
<1>5. Nat \subseteq T
  BY <1>3, <1>4, Induction
<1>6. f[Len(c)] = First(BytesOf(C[Len(c)]), n)
  BY <1>2, <1>5
<1>. QED  BY <1>1, <1>6 DEF All

-----------------------------------------------------------------------------
\* Bytes that come, as cells.
Mark(b, i) == [byte |-> b, begins |-> kind = "packet" /\ i = 1]
Marked(src) == [i \in DOMAIN src |-> Mark(src[i], i)]

LEMMA MarkParts ==
    ASSUME NEW b \in Byte, NEW i
    PROVE  /\ Mark(b, i) \in Cells /\ Mark(b, i).byte = b
           /\ Mark(b, i).begins <=> kind = "packet" /\ i = 1
<1>. DEFINE begins == kind = "packet" /\ i = 1
<1>1. begins \in BOOLEAN
  OBVIOUS
<1>2. Mark(b, i) = [byte |-> b, begins |-> begins]
  BY DEF Mark
<1>. HIDE DEF begins
<1>3. Mark(b, i) \in Cells /\ Mark(b, i).byte = b
  BY <1>1, <1>2 DEF Cells
<1>4. Mark(b, i).begins = begins
  BY <1>2
<1>. QED  BY <1>3, <1>4 DEF begins

LEMMA MarkedParts ==
    ASSUME NEW src \in Seq(Byte)
    PROVE  /\ Marked(src) \in Seq(Cells) /\ Len(Marked(src)) = Len(src) /\ Len(src) \in Nat
           /\ \A i \in 1 .. Len(src) : Marked(src)[i] = Mark(src[i], i)
<1>1. Len(src) \in Nat /\ DOMAIN src = 1 .. Len(src) /\ \A i \in 1 .. Len(src) : src[i] \in Byte
  BY LenProperties, ElementOfSeq
<1>2. \A i \in 1 .. Len(src) : Mark(src[i], i) \in Cells
  BY <1>1, MarkParts
<1>3. Marked(src) = [i \in 1 .. Len(src) |-> Mark(src[i], i)]
  BY <1>1 DEF Marked
<1>. QED  BY <1>1, <1>2, <1>3

\* A new item holds the bytes it is made of.
LEMMA ItemOf ==
    ASSUME NEW src \in Seq(Byte)
    PROVE  /\ Item(src) \in Items /\ Item(src).data = src /\ Item(src).dead = 0 /\ Left(Item(src)) = Len(src)
           /\ Parcel(kind, Item(src)) = Marked(src)
<1>. DEFINE x == Item(src)
<1>1. x \in [data : Seq(Byte), dead : Nat] /\ x.data = src /\ x.dead = 0
  BY DEF Item
<1>2. Len(src) \in Nat
  BY LenProperties
<1>. HIDE DEF x
<1>3. x \in Items /\ Left(x) = Len(src)
  BY <1>1, <1>2 DEF Items, Left
<1>4. Parcel(kind, x) \in Seq(Cells) /\ Len(Parcel(kind, x)) = Len(src)
      /\ \A j \in 1 .. Len(src) : Parcel(kind, x)[j] = Cell(kind, x, j)
  BY <1>3, ParcelParts
<1>5. Marked(src) \in Seq(Cells) /\ Len(Marked(src)) = Len(src)
      /\ \A j \in 1 .. Len(src) : Marked(src)[j] = Mark(src[j], j)
  BY MarkedParts
<1>6. ASSUME NEW j \in 1 .. Len(src) PROVE Cell(kind, x, j) = Mark(src[j], j)
  <2>1. x.data[x.dead + j] = src[j]
    BY <1>1, <1>2
  <2>2. (kind = "packet" /\ j = 1 /\ x.dead = 0) = (kind = "packet" /\ j = 1)
    BY <1>1
  <2>. QED  BY <2>1, <2>2, Zenon DEF Cell, Mark
<1>7. Parcel(kind, x) = Marked(src)
  BY <1>4, <1>5, <1>6, SeqEqual
<1>. QED  BY <1>1, <1>3, <1>7 DEF x

\* A sequence and one element more.
LEMMA OneMore ==
    ASSUME NEW S, NEW s \in Seq(S), NEW e \in S
    PROVE  /\ s \o <<e>> \in Seq(S) /\ Len(s \o <<e>>) = Len(s) + 1 /\ Len(s) \in Nat
           /\ \A j \in 1 .. Len(s) : (s \o <<e>>)[j] = s[j]
           /\ (s \o <<e>>)[Len(s) + 1] = e
<1>1. s \o <<e>> = Append(s, e)
  BY AppendIsConcat
<1>2. /\ Append(s, e) \in Seq(S) /\ Len(Append(s, e)) = Len(s) + 1
      /\ \A j \in 1 .. Len(s) : Append(s, e)[j] = s[j]
      /\ Append(s, e)[Len(s) + 1] = e
  BY AppendProperties
<1>. QED  BY <1>1, <1>2, LenProperties

\* One byte more in an item, and in what is marked.
LEMMA ParcelLonger ==
    ASSUME NEW x \in Items, NEW b \in Byte, NEW y, y = [x EXCEPT !.data = Append(@, b)], kind = "stream"
    PROVE  /\ y \in Items /\ y.data = Append(x.data, b) /\ y.dead = x.dead /\ Left(y) = Left(x) + 1
           /\ Len(y.data) = Len(x.data) + 1
           /\ Parcel(kind, y) = Parcel(kind, x) \o <<Mark(b, 1)>>
<1>. DEFINE l == Append(x.data, b)
            u == <<Mark(b, 1)>>
            p == Parcel(kind, x)
<1>1. /\ x \in [data : Seq(Byte), dead : Nat] /\ x.data \in Seq(Byte) /\ Len(x.data) \in Nat
      /\ x.dead \in Nat /\ x.dead <= Len(x.data) /\ Left(x) \in Nat /\ Left(x) = Len(x.data) - x.dead
  BY ItemParts
<1>2. /\ l \in Seq(Byte) /\ Len(l) = Len(x.data) + 1 /\ l[Len(x.data) + 1] = b
      /\ \A i \in 1 .. Len(x.data) : l[i] = x.data[i]
  BY <1>1, AppendProperties
<1>3. y = [x EXCEPT !.data = l]
  OBVIOUS
<1>. HIDE DEF l
<1>4. y \in [data : Seq(Byte), dead : Nat] /\ y.data = l /\ y.dead = x.dead
  BY <1>1, <1>2, <1>3
<1>5. y \in Items /\ Left(y) = Left(x) + 1
  <2>1. Len(y.data) = Len(x.data) + 1 /\ y.dead <= Len(y.data)
    BY <1>1, <1>2, <1>4
  <2>2. Left(y) = Len(y.data) - y.dead
    BY DEF Left
  <2>3. y \in Items
    BY <1>4, <2>1 DEF Items
  <2>4. Left(y) = Left(x) + 1
    BY <1>1, <1>4, <2>1, <2>2
  <2>. QED  BY <2>3, <2>4
<1>6. Mark(b, 1) \in Cells
  BY MarkParts
<1>7. p \in Seq(Cells) /\ Len(p) = Left(x) /\ \A j \in 1 .. Left(x) : p[j] = Cell(kind, x, j)
  BY ParcelParts
<1>8. Parcel(kind, y) \in Seq(Cells) /\ Len(Parcel(kind, y)) = Left(x) + 1
      /\ \A j \in 1 .. Left(x) + 1 : Parcel(kind, y)[j] = Cell(kind, y, j)
  BY <1>5, ParcelParts
<1>. HIDE DEF u, p
<1>9. p \o u \in Seq(Cells) /\ Len(p \o u) = Left(x) + 1
  BY <1>6, <1>7, OneMore DEF u
<1>10. \A j \in 1 .. Left(x) : (p \o u)[j] = p[j]
  BY <1>6, <1>7, OneMore DEF u
<1>11. (p \o u)[Left(x) + 1] = Mark(b, 1)
  BY <1>6, <1>7, OneMore DEF u
<1>12. ASSUME NEW j \in 1 .. Left(x) + 1 PROVE Parcel(kind, y)[j] = (p \o u)[j]
  <2>1. Parcel(kind, y)[j] = Cell(kind, y, j)
    BY <1>8
  <2>2. CASE j \in 1 .. Left(x)
    <3>1. x.dead + j \in 1 .. Len(x.data)
      BY <1>1, <2>2
    <3>2. y.data[y.dead + j] = x.data[x.dead + j]
      BY <1>2, <1>4, <3>1
    <3>3. Cell(kind, y, j) = Cell(kind, x, j)
      BY <1>4, <3>2, Zenon DEF Cell
    <3>. QED  BY <1>7, <1>10, <2>1, <2>2, <3>3
  <2>3. CASE j \notin 1 .. Left(x)
    <3>1. j = Left(x) + 1 /\ x.dead + j = Len(x.data) + 1
      BY <1>1, <2>3
    <3>2. y.data[y.dead + j] = b
      BY <1>2, <1>4, <3>1
    <3>3. (kind = "packet" /\ j = 1 /\ y.dead = 0) = (kind = "packet" /\ 1 = 1)
      OBVIOUS
    <3>4. Cell(kind, y, j) = Mark(b, 1)
      BY <3>2, <3>3, Zenon DEF Cell, Mark
    <3>. QED  BY <1>11, <2>1, <3>1, <3>4
  <2>. QED  BY <2>2, <2>3
<1>13. Parcel(kind, y) = p \o u
  BY <1>8, <1>9, <1>12, SeqEqual
<1>. QED  BY <1>2, <1>4, <1>5, <1>13 DEF p, u, l

LEMMA MarkedLonger ==
    ASSUME NEW src \in Seq(Byte), NEW k \in 0 .. Len(src) - 1, kind = "stream"
    PROVE  /\ First(src, k) \in Seq(Byte) /\ src[k + 1] \in Byte
           /\ Marked(First(src, k + 1)) = Marked(First(src, k)) \o <<Mark(src[k + 1], 1)>>
<1>. DEFINE s == First(src, k)
            t == First(src, k + 1)
            m == Marked(s)
            u == <<Mark(src[k + 1], 1)>>
<1>1. Len(src) \in Nat /\ k \in Nat /\ k + 1 \in 1 .. Len(src) /\ k + 1 \in Nat
  BY LenProperties
<1>2. src[k + 1] \in Byte
  BY <1>1, ElementOfSeq
<1>3. Least(k, Len(src)) = k /\ Least(k + 1, Len(src)) = k + 1
  BY <1>1 DEF Least
<1>4. s \in Seq(Byte) /\ Len(s) = k /\ \A j \in 1 .. k : s[j] = src[j]
  BY <1>1, <1>3, FirstParts
<1>5. t \in Seq(Byte) /\ Len(t) = k + 1 /\ \A j \in 1 .. k + 1 : t[j] = src[j]
  BY <1>1, <1>3, FirstParts
<1>. HIDE DEF s, t
<1>6. m \in Seq(Cells) /\ Len(m) = k /\ \A j \in 1 .. k : m[j] = Mark(s[j], j)
  BY <1>4, MarkedParts
<1>7. Marked(t) \in Seq(Cells) /\ Len(Marked(t)) = k + 1 /\ \A j \in 1 .. k + 1 : Marked(t)[j] = Mark(t[j], j)
  BY <1>5, MarkedParts
<1>8. Mark(src[k + 1], 1) \in Cells
  BY <1>2, MarkParts
<1>. HIDE DEF m, u
<1>9. m \o u \in Seq(Cells) /\ Len(m \o u) = k + 1
  BY <1>8, <1>6, OneMore DEF u
<1>10. \A j \in 1 .. k : (m \o u)[j] = m[j]
  BY <1>8, <1>6, OneMore DEF u
<1>11. (m \o u)[k + 1] = Mark(src[k + 1], 1)
  BY <1>8, <1>6, OneMore DEF u
<1>12. ASSUME NEW j \in 1 .. k + 1 PROVE Marked(t)[j] = (m \o u)[j]
  <2>1. Marked(t)[j] = Mark(src[j], j)
    BY <1>5, <1>7
  <2>2. CASE j \in 1 .. k
    BY <1>4, <1>6, <1>10, <2>1, <2>2
  <2>3. CASE j \notin 1 .. k
    <3>1. j = k + 1
      BY <1>1, <2>3
    <3>2. (kind = "packet" /\ j = 1) = (kind = "packet" /\ 1 = 1)
      OBVIOUS
    <3>3. Mark(src[j], j) = Mark(src[k + 1], 1)
      BY <3>1, <3>2, Zenon DEF Mark
    <3>. QED  BY <1>11, <2>1, <3>1, <3>3
  <2>. QED  BY <2>2, <2>3
<1>13. Marked(t) = m \o u
  BY <1>7, <1>9, <1>12, SeqEqual
<1>. QED  BY <1>2, <1>4, <1>13 DEF s, t, m, u

-----------------------------------------------------------------------------
\* append of a stream.  A chain that is empty gets an item.
LEMMA HeadedParts ==
    ASSUME NEW c \in Seq(Items), Shaped(c)
    PROVE  Headed(c) \in Seq(Items) /\ Headed(c) # <<>> /\ Shaped(Headed(c)) /\ All(Headed(c)) = All(c)
<1>1. CASE c # <<>>
  BY <1>1 DEF Headed
<1>2. CASE c = <<>>
  <2>. DEFINE x == Item(<<>>)
              d == <<x>>
  <2>1. <<>> \in Seq(Byte)
    OBVIOUS
  <2>2. x \in Items /\ x.data = <<>> /\ x.dead = 0 /\ Left(x) = 0 /\ Parcel(kind, x) = Marked(<<>>)
    BY <2>1, ItemOf
  <2>3. Marked(<<>>) = <<>>
    BY DEF Marked
  <2>4. d = Append(c, x)
    BY <1>2
  <2>. HIDE DEF x
  <2>5. d \in Seq(Items) /\ Len(d) = 1 /\ d[1] = x /\ d # <<>>
    BY <2>2
  <2>6. All(d) = All(c) \o <<>>
    BY <2>2, <2>3, <2>4, AllAppend
  <2>7. All(d) = All(c)
    BY <2>6, AllParts, ConcatEmptySeq
  <2>8. Headed(c) = d
    BY <1>2 DEF Headed, x
  <2>9. Shaped(d)
    <3>1. DOMAIN d = {1}
      BY <2>5
    <3>2. Len(x.data) = 0 /\ 0 <= ItemSize
      BY <2>2, DataChainAssumption
    <3>. QED  BY <2>2, <2>5, <3>1, <3>2 DEF Shaped, x
  <2>. QED  BY <2>5, <2>7, <2>8, <2>9
<1>. QED  BY <1>1, <1>2

LEMMA PushParts ==
    ASSUME NEW c \in Seq(Items), c # <<>>, Shaped(c), NEW b \in Byte, kind = "stream"
    PROVE  /\ Push(c, b) \in Seq(Items) /\ Push(c, b) # <<>> /\ Shaped(Push(c, b))
           /\ All(Push(c, b)) = All(c) \o <<Mark(b, 1)>>
<1>. DEFINE n == Len(c)
            u == <<Mark(b, 1)>>
            d == Push(c, b)
<1>1. n \in Nat /\ n # 0 /\ n \in 1 .. n /\ DOMAIN c = 1 .. n /\ \A i \in 1 .. n : c[i] \in Items
  BY LenProperties, ElementOfSeq
<1>2. Last(c) = c[n]
  BY DEF Last
<1>3. \A i \in 1 .. n : /\ Len(c[i].data) <= ItemSize
                        /\ c[i].dead = 0 \/ i = 1
                        /\ Left(c[i]) > 0 \/ c = <<Item(<<>>)>>
                        /\ Full(c[i]) \/ i = n
  BY <1>1 DEF Shaped
<1>4. ItemSize \in Nat /\ ItemSize >= 1
  BY DataChainAssumption
<1>5. CASE Full(Last(c))
  <2>. DEFINE x == Item(<<b>>)
  <2>1. <<b>> \in Seq(Byte) /\ Len(<<b>>) = 1
    OBVIOUS
  <2>2. x \in Items /\ x.data = <<b>> /\ x.dead = 0 /\ Left(x) = 1 /\ Parcel(kind, x) = Marked(<<b>>)
    BY <2>1, ItemOf
  <2>3. Marked(<<b>>) = u
    <3>1. Marked(<<b>>) \in Seq(Cells) /\ Len(Marked(<<b>>)) = 1
      BY <2>1, MarkedParts
    <3>2. 1 \in 1 .. Len(<<b>>) /\ <<b>>[1] = b
      BY <2>1
    <3>3. Marked(<<b>>)[1] = Mark(<<b>>[1], 1)
      BY <2>1, <3>2, MarkedParts
    <3>. QED  BY <3>1, <3>2, <3>3
  <2>4. d = Append(c, x)
    BY <1>5 DEF Push
  <2>5. Len(x.data) = 1
    BY <2>1, <2>2
  <2>. HIDE DEF x, d, u
  <2>6. d \in Seq(Items) /\ Len(d) = n + 1 /\ d[n + 1] = x /\ \A i \in 1 .. n : d[i] = c[i]
    BY <2>2, <2>4, AllAppend
  <2>7. All(d) = All(c) \o u
    <3>1. All(d) = All(c) \o Parcel(kind, x)
      BY <2>2, <2>4, AllAppend
    <3>. QED  BY <2>2, <2>3, <3>1
  <2>8. c # <<Item(<<>>)>>
    <3>1. SUFFICES ASSUME c = <<Item(<<>>)>> PROVE FALSE
      OBVIOUS
    <3>2. n = 1 /\ c[1].data = <<>>
      BY <3>1 DEF Item
    <3>. QED  BY <1>2, <1>4, <1>5, <3>2 DEF Full
  <2>9. ASSUME NEW i \in DOMAIN d
        PROVE  /\ Len(d[i].data) <= ItemSize
               /\ d[i].dead = 0 \/ i = 1
               /\ Left(d[i]) > 0
               /\ Full(d[i]) \/ i = Len(d)
    <3>1. i \in 1 .. n + 1
      BY <2>6, LenProperties
    <3>2. CASE i \in 1 .. n
      <4>1. d[i] = c[i]
        BY <2>6, <3>2
      <4>2. Full(c[i])
        <5>1. i # n => Full(c[i])
          BY <1>3, <3>2
        <5>2. Full(c[n])
          BY <1>2, <1>5
        <5>. QED  BY <5>1, <5>2
      <4>. QED  BY <1>3, <2>8, <3>2, <4>1, <4>2
    <3>3. CASE i = n + 1
      <4>1. d[i] = x /\ i = Len(d)
        BY <2>6, <3>3
      <4>2. Len(d[i].data) <= ItemSize
        BY <1>4, <2>5, <4>1
      <4>3. d[i].dead = 0 /\ Left(d[i]) > 0
        BY <2>2, <4>1
      <4>. QED  BY <4>1, <4>2, <4>3
    <3>. QED  BY <1>1, <3>1, <3>2, <3>3
  <2>10. Shaped(d)
    BY <2>9 DEF Shaped
  <2>11. d # <<>>
    BY <1>1, <2>6
  <2>. QED  BY <2>6, <2>7, <2>10, <2>11 DEF d, u
<1>6. CASE ~Full(Last(c))
  <2>. DEFINE x == c[n]
              y == [x EXCEPT !.data = Append(@, b)]
              p == Contents(kind, c)[n - 1]
  <2>1. x \in Items
    BY <1>1
  <2>2. d = [c EXCEPT ![n] = y]
    BY <1>6 DEF Push
  <2>3. /\ y \in Items /\ y.dead = x.dead /\ Left(y) = Left(x) + 1 /\ Len(y.data) = Len(x.data) + 1
        /\ Parcel(kind, y) = Parcel(kind, x) \o u
    <3>. HIDE DEF x, u
    <3>. QED  BY <2>1, ParcelLonger DEF u
  <2>. HIDE DEF y, d, u
  <2>4. /\ d \in Seq(Items) /\ Len(d) = n /\ d[n] = y /\ \A i \in 1 .. n - 1 : d[i] = c[i]
    BY <2>2, <2>3, AllLast
  <2>5. p \in Seq(Cells) /\ All(d) = p \o Parcel(kind, y) /\ All(c) = p \o Parcel(kind, x)
    BY <2>2, <2>3, AllLast
  <2>6. Parcel(kind, x) \in Seq(Cells) /\ u \in Seq(Cells) /\ Left(x) \in Nat
    BY <2>1, ParcelParts, MarkParts DEF u
  <2>. HIDE DEF x, p
  <2>7. All(d) = All(c) \o u
    <3>. DEFINE r == Parcel(kind, x)
    <3>0. p \in Seq(Cells) /\ r \in Seq(Cells) /\ u \in Seq(Cells)
      BY <2>5, <2>6
    <3>. HIDE DEF r
    <3>1. (p \o r) \o u = p \o (r \o u)
      BY <3>0, Regroup
    <3>. QED  BY <2>3, <2>5, <3>1 DEF r
  <2>8. x.dead = 0 \/ n = 1
    BY <1>1, <1>3 DEF x
  <2>9. Len(y.data) <= ItemSize
    <3>1. Len(x.data) <= ItemSize /\ Len(x.data) # ItemSize /\ Len(x.data) \in Nat
      BY <1>1, <1>2, <1>3, <1>6, <2>1, ItemParts DEF x, Full
    <3>. QED  BY <1>4, <2>3, <3>1
  <2>10. ASSUME NEW i \in DOMAIN d
         PROVE  /\ Len(d[i].data) <= ItemSize
                /\ d[i].dead = 0 \/ i = 1
                /\ Left(d[i]) > 0
                /\ Full(d[i]) \/ i = Len(d)
    <3>1. i \in 1 .. n
      BY <2>4, LenProperties
    <3>2. CASE i # n
      <4>1. d[i] = c[i]
        BY <1>1, <2>4, <3>1, <3>2
      <4>2. c # <<Item(<<>>)>>
        <5>1. n # 1
          BY <1>1, <3>1, <3>2
        <5>. QED  BY <5>1
      <4>. QED  BY <1>3, <3>1, <3>2, <4>1, <4>2
    <3>3. CASE i = n
      BY <2>3, <2>4, <2>6, <2>8, <2>9, <3>3
    <3>. QED  BY <3>2, <3>3
  <2>11. Shaped(d)
    BY <2>10 DEF Shaped
  <2>12. d # <<>>
    BY <1>1, <2>4
  <2>. QED  BY <2>4, <2>7, <2>11, <2>12 DEF d, u
<1>. QED  BY <1>5, <1>6

\* The chain after each byte is what its definition says.
LEMMA PushedDef ==
    ASSUME NEW c \in Seq(Items), NEW src \in Seq(Byte)
    PROVE  Pushed(c, src) = [k \in 0 .. Len(src) |->
                                IF k = 0 THEN Headed(c) ELSE Push(Pushed(c, src)[k - 1], src[k])]
<1>. DEFINE Next1(s, k) == Push(s, src[k])
            Is(f, m) == f = [k \in 0 .. m |-> IF k = 0 THEN Headed(c) ELSE Next1(f[k - 1], k)]
            T == {m \in Nat : \E f : Is(f, m)}
<1>. HIDE DEF Next1
<1>1. 0 \in T
  <2>1. Is([k \in 0 .. 0 |-> Headed(c)], 0)
    OBVIOUS
  <2>. QED  BY <2>1
<1>2. ASSUME NEW m \in Nat, m \in T PROVE m + 1 \in T
  <2>1. PICK f : Is(f, m)
    BY <1>2
  <2>. DEFINE g == [k \in 0 .. m + 1 |-> IF k = m + 1 THEN Next1(f[k - 1], k) ELSE f[k]]
  <2>2. Is(g, m + 1)
    BY <2>1
  <2>. HIDE DEF Is, g
  <2>3. \E h : Is(h, m + 1)
    BY <2>2, Zenon
  <2>. QED  BY <2>3
<1>. HIDE DEF Is
<1>3. Nat \subseteq T
  BY <1>1, <1>2, Induction
<1>4. \E f : Is(f, Len(src))
  BY <1>3, LenProperties
<1>5. Is(CHOOSE f : Is(f, Len(src)), Len(src))
  BY <1>4, Zenon
<1>6. Pushed(c, src) = CHOOSE f : Is(f, Len(src))
  BY DEF Pushed, Is, Next1
<1>. QED  BY <1>5, <1>6 DEF Is, Next1

\* After each byte the chain holds all before it, in a chain of the same shape.
LEMMA PushedParts ==
    ASSUME NEW c \in Seq(Items), Shaped(c), NEW src \in Seq(Byte), kind = "stream"
    PROVE  \A k \in 0 .. Len(src) :
             LET d == Pushed(c, src)[k]
             IN  d \in Seq(Items) /\ d # <<>> /\ Shaped(d) /\ All(d) = All(c) \o Marked(First(src, k))
<1>. DEFINE D == Pushed(c, src)
            Good(d, k) == d \in Seq(Items) /\ d # <<>> /\ Shaped(d) /\ All(d) = All(c) \o Marked(First(src, k))
            T == {k \in Nat : k <= Len(src) => Good(D[k], k)}
<1>1. Len(src) \in Nat
  BY LenProperties
<1>2. D = [k \in 0 .. Len(src) |-> IF k = 0 THEN Headed(c) ELSE Push(D[k - 1], src[k])]
  BY PushedDef
<1>. HIDE DEF D
<1>3. All(c) \in Seq(Cells)
  BY AllParts
<1>4. 0 \in T
  <2>1. D[0] = Headed(c)
    BY <1>1, <1>2
  <2>2. First(src, 0) = <<>>
    <3>1. Least(0, Len(src)) = 0
      BY <1>1 DEF Least
    <3>2. First(src, 0) \in Seq(Byte) /\ Len(First(src, 0)) = 0
      BY <3>1, FirstParts
    <3>. QED  BY <3>2, EmptySeq
  <2>3. Marked(<<>>) = <<>>
    BY DEF Marked
  <2>4. All(c) \o Marked(First(src, 0)) = All(c)
    BY <1>3, <2>2, <2>3, ConcatEmptySeq
  <2>5. Good(Headed(c), 0)
    BY <2>4, HeadedParts
  <2>. HIDE DEF Good
  <2>. QED  BY <2>1, <2>5
<1>5. ASSUME NEW k \in Nat, k \in T PROVE k + 1 \in T
  <2>1. SUFFICES ASSUME k + 1 <= Len(src) PROVE Good(D[k + 1], k + 1)
    OBVIOUS
  <2>2. k \in 0 .. Len(src) - 1 /\ k + 1 \in 0 .. Len(src) /\ k + 1 # 0 /\ k + 1 - 1 = k /\ k <= Len(src)
    BY <1>1, <2>1
  <2>. DEFINE d == D[k]
              b == src[k + 1]
              m == Marked(First(src, k))
              u == <<Mark(b, 1)>>
  <2>3. Good(d, k)
    BY <1>5, <2>2
  <2>4. D[k + 1] = Push(d, b)
    BY <1>2, <2>2
  <2>5. First(src, k) \in Seq(Byte) /\ b \in Byte /\ Marked(First(src, k + 1)) = m \o u
    BY <2>2, MarkedLonger
  <2>6. m \in Seq(Cells) /\ u \in Seq(Cells)
    BY <2>5, MarkedParts, MarkParts
  <2>. HIDE DEF d, b
  <2>7. d \in Seq(Items) /\ d # <<>> /\ Shaped(d) /\ All(d) = All(c) \o m
    BY <2>3
  <2>8. Push(d, b) \in Seq(Items) /\ Push(d, b) # <<>> /\ Shaped(Push(d, b)) /\ All(Push(d, b)) = All(d) \o u
    BY <2>5, <2>7, PushParts
  <2>. HIDE DEF m, u
  <2>9. (All(c) \o m) \o u = All(c) \o (m \o u)
    BY SMTT(30), <1>3, <2>6, Regroup
  <2>10. Good(Push(d, b), k + 1)
    BY <2>5, <2>7, <2>8, <2>9
  <2>. HIDE DEF Good
  <2>. QED  BY <2>4, <2>10
<1>6. Nat \subseteq T
  BY <1>4, <1>5, Induction
<1>. HIDE DEF Good
<1>7. ASSUME NEW k \in 0 .. Len(src) PROVE Good(D[k], k)
  BY <1>1, <1>6
<1>. QED  BY <1>7 DEF Good, D

\* append of packets: an item of its own, or the empty one.
LEMMA PacketParts ==
    ASSUME NEW c \in Seq(Items), c # <<>>, Shaped(c), NEW src \in Seq(Byte), src # <<>>, kind = "packet"
    PROVE  /\ AppendPacket(c, src) \in Seq(Items) /\ Shaped(AppendPacket(c, src))
           /\ All(AppendPacket(c, src)) = All(c) \o Marked(First(src, ItemSize))
<1>. DEFINE n == Len(c)
            p == First(src, ItemSize)
            x == Item(p)
            d == AppendPacket(c, src)
<1>1. n \in Nat /\ n # 0 /\ n \in 1 .. n /\ DOMAIN c = 1 .. n /\ \A i \in 1 .. n : c[i] \in Items
  BY LenProperties, ElementOfSeq
<1>2. Last(c) = c[n]
  BY DEF Last
<1>3. \A i \in 1 .. n : /\ Len(c[i].data) <= ItemSize
                        /\ c[i].dead = 0 \/ i = 1
                        /\ Left(c[i]) > 0 \/ c = <<Item(<<>>)>>
  BY <1>1 DEF Shaped
<1>4. ItemSize \in Nat /\ ItemSize # 0
  BY DataChainAssumption
<1>5. p \in Seq(Byte) /\ Len(p) = Least(ItemSize, Len(src))
  BY <1>4, FirstParts
<1>6. Len(p) \in Nat /\ Len(p) > 0 /\ Len(p) <= ItemSize
  <2>1. Len(src) \in Nat /\ Len(src) # 0
    BY LenProperties, EmptySeq
  <2>2. Least(ItemSize, Len(src)) \in Nat /\ Least(ItemSize, Len(src)) > 0
        /\ Least(ItemSize, Len(src)) <= ItemSize
    BY <1>4, <2>1 DEF Least
  <2>. QED  BY <1>5, <2>2
<1>. HIDE DEF p
<1>7. x \in Items /\ x.data = p /\ x.dead = 0 /\ Left(x) = Len(p) /\ Parcel(kind, x) = Marked(p)
  BY <1>5, ItemOf
<1>8. CASE Last(c).data # <<>>
  <2>1. d = Append(c, x)
    BY <1>8 DEF AppendPacket, p
  <2>. HIDE DEF x, d
  <2>2. d \in Seq(Items) /\ Len(d) = n + 1 /\ d[n + 1] = x /\ \A i \in 1 .. n : d[i] = c[i]
    BY <1>7, <2>1, AllAppend
  <2>3. All(d) = All(c) \o Marked(p)
    <3>1. All(d) = All(c) \o Parcel(kind, x)
      BY <1>7, <2>1, AllAppend
    <3>. QED  BY <1>7, <3>1
  <2>4. c # <<Item(<<>>)>>
    <3>1. SUFFICES ASSUME c = <<Item(<<>>)>> PROVE FALSE
      OBVIOUS
    <3>2. n = 1 /\ c[1].data = <<>>
      BY <3>1 DEF Item
    <3>. QED  BY <1>2, <1>8, <3>2
  <2>5. ASSUME NEW i \in DOMAIN d
        PROVE  /\ Len(d[i].data) <= ItemSize
               /\ d[i].dead = 0 \/ i = 1
               /\ Left(d[i]) > 0
    <3>1. i \in 1 .. n + 1
      BY <2>2, LenProperties
    <3>2. CASE i \in 1 .. n
      <4>1. d[i] = c[i]
        BY <2>2, <3>2
      <4>. QED  BY <1>3, <2>4, <3>2, <4>1
    <3>3. CASE i = n + 1
      <4>1. d[i] = x
        BY <2>2, <3>3
      <4>2. Len(d[i].data) <= ItemSize
        BY <1>6, <1>7, <4>1
      <4>3. d[i].dead = 0 /\ Left(d[i]) > 0
        BY <1>6, <1>7, <4>1
      <4>. QED  BY <4>2, <4>3
    <3>. QED  BY <1>1, <3>1, <3>2, <3>3
  <2>6. Shaped(d)
    BY <2>5 DEF Shaped
  <2>. QED  BY <2>2, <2>3, <2>6 DEF d, p
<1>9. CASE Last(c).data = <<>>
  <2>1. Left(c[n]) = 0
    <3>1. c[n] \in Items /\ Len(c[n].data) = 0
      BY <1>1, <1>2, <1>9
    <3>2. Left(c[n]) = Len(c[n].data) - c[n].dead /\ Left(c[n]) \in Nat /\ c[n].dead \in Nat
      BY <3>1, ItemParts
    <3>. QED  BY <3>1, <3>2
  <2>2. c = <<Item(<<>>)>>
    BY <1>1, <1>3, <2>1
  <2>3. n = 1 /\ c[1] = Item(<<>>)
    BY <2>2
  <2>4. d = [c EXCEPT ![n] = x]
    <3>1. [c[n] EXCEPT !.data = p] = x
      BY <2>3 DEF Item
    <3>2. d = [c EXCEPT ![n] = [c[n] EXCEPT !.data = p]]
      BY <1>9 DEF AppendPacket, p
    <3>. HIDE DEF x, d
    <3>. QED  BY <3>1, <3>2
  <2>. HIDE DEF x, d
  <2>5. d \in Seq(Items) /\ Len(d) = n /\ d[n] = x
    <3>1. d \in Seq(Items) /\ Len(d) = n
      BY <1>7, <2>4, AllLast
    <3>2. d[n] = x
      BY <1>1, <2>4
    <3>. QED  BY <3>1, <3>2
  <2>6. All(d) = Contents(kind, c)[n - 1] \o Parcel(kind, x)
        /\ All(c) = Contents(kind, c)[n - 1] \o Parcel(kind, c[n])
    <3>1. All(d) = Contents(kind, c)[n - 1] \o Parcel(kind, x)
      <4>1. x \in Items
        BY <1>7
      <4>. QED  BY <2>4, <4>1, AllLast
    <3>2. All(c) = Contents(kind, c)[n - 1] \o Parcel(kind, c[n])
      BY <1>7, <2>4, AllLast
    <3>. QED  BY <3>1, <3>2
  <2>7. Contents(kind, c)[0] = <<>>
    BY ContentsParts
  <2>8. Parcel(kind, c[n]) = <<>>
    <3>1. c[n] \in Items
      BY <1>1
    <3>2. Parcel(kind, c[n]) \in Seq(Cells) /\ Len(Parcel(kind, c[n])) = 0
      BY <2>1, <3>1, ParcelParts
    <3>. QED  BY <3>2, EmptySeq
  <2>9. Marked(p) \in Seq(Cells) /\ <<>> \in Seq(Cells)
    BY <1>5, MarkedParts
  <2>10. n - 1 = 0 /\ Contents(kind, c)[n - 1] = <<>>
    BY <2>3, <2>7
  <2>11. All(d) = All(c) \o Marked(p)
    <3>1. All(c) = <<>> /\ All(d) = Marked(p)
      BY <1>7, <2>6, <2>8, <2>9, <2>10, ConcatEmptySeq
    <3>. QED  BY <2>9, <3>1, ConcatEmptySeq
  <2>12. Shaped(d)
    <3>1. \A i \in DOMAIN d : i = 1 /\ d[i] = x
      BY <2>3, <2>5, LenProperties
    <3>2. Len(x.data) <= ItemSize /\ x.dead = 0 /\ Left(x) > 0
      BY <1>6, <1>7
    <3>. QED  BY <3>1, <3>2 DEF Shaped
  <2>. QED  BY <2>5, <2>11, <2>12 DEF d, p
<1>. QED  BY <1>8, <1>9

-----------------------------------------------------------------------------
\* What the abstract operators are.
LEMMA Abstract ==
    /\ Queue = All(chain)
    /\ \A s, n : P!First(s, n) = First(s, n)
    /\ \A s : P!Marked(s) = Marked(s)
    /\ P!Bytes = BytesOf(All(chain))
    /\ \A n : P!Without(n) = Rest(All(chain), n)
<1>1. Queue = All(chain)
  BY DEF Queue, All
<1>2. \A s, n : P!First(s, n) = First(s, n)
  BY DEF P!First, First, Least
<1>3. \A s : P!Marked(s) = Marked(s)
  BY DEF P!Marked, Marked, Mark
<1>4. P!Bytes = BytesOf(All(chain))
  BY <1>1 DEF P!Bytes, BytesOf
<1>5. \A n : P!Without(n) = Rest(All(chain), n)
  BY <1>1 DEF P!Without, Rest
<1>. QED  BY <1>1, <1>2, <1>3, <1>4, <1>5

\* The queue after a call is what the chain then holds.
LEMMA Later ==
    ASSUME kind' = kind
    PROVE  /\ Queue' = All(chain')
           /\ Shaped(chain') => Shaped(chain)'
  BY DEF Queue, All, Shaped

LEMMA Kept ==
    ASSUME ChainInv, kind' = kind, chain' \in Seq(Items), Shaped(chain')
    PROVE  ChainInv'
<1>1. Shaped(chain)'
  BY Later
<1>2. kind' \in {"stream", "packet"}
  BY DEF ChainInv, Shape
<1>. QED  BY <1>1, <1>2 DEF ChainInv, Shape

LEMMA ChunkParts ==
    ASSUME NEW src \in Chunks
    PROVE  src \in Seq(Byte) /\ Len(src) \in Nat
<1>1. src \in Seq(ToSet(src))
  BY DataChainAssumption
<1>2. ToSet(src) \subseteq Byte
  BY DEF Byte
<1>3. \A i \in 1 .. Len(src) : src[i] \in Byte
  BY <1>1, <1>2, ElementOfSeq
<1>4. src = [i \in 1 .. Len(src) |-> src[i]] /\ Len(src) \in Nat
  BY <1>1, LenProperties
<1>. QED  BY <1>3, <1>4

LEMMA FirstAll ==
    ASSUME NEW S, NEW s \in Seq(S)
    PROVE  First(s, Len(s)) = s /\ First(s, 0) = <<>> /\ Len(s) \in Nat
<1>1. Len(s) \in Nat
  BY LenProperties
<1>2. Least(Len(s), Len(s)) = Len(s) /\ Least(0, Len(s)) = 0
  BY <1>1 DEF Least
<1>3. First(s, Len(s)) \in Seq(S) /\ Len(First(s, Len(s))) = Len(s)
      /\ \A j \in 1 .. Len(s) : First(s, Len(s))[j] = s[j]
  BY <1>1, <1>2, FirstParts
<1>4. First(s, 0) \in Seq(S) /\ Len(First(s, 0)) = 0
  BY <1>1, <1>2, FirstParts
<1>5. First(s, Len(s)) = s
  BY <1>3, SeqEqual
<1>. QED  BY <1>1, <1>4, <1>5, EmptySeq

\* A chain that holds nothing.
LEMMA AllOfNone == All(<<>>) = <<>> /\ Shaped(<<>>) /\ <<>> \in Seq(Items)
<1>1. <<>> \in Seq(Items) /\ Len(<<>>) = 0 /\ DOMAIN <<>> = {}
  OBVIOUS
<1>. QED  BY <1>1, ContentsParts DEF All, Shaped

\* append: a chain that is of the shape before is of it after, and what it
\* holds is what is put into the queue.
LEMMA AppendedParts ==
    ASSUME NEW c \in Seq(Items), Shaped(c), NEW src \in Seq(Byte), kind \in {"stream", "packet"}
    PROVE  /\ Appended(c, src) \in Seq(Items) /\ Shaped(Appended(c, src))
           /\ All(Appended(c, src)) = All(c) \o Marked(IF kind = "packet" THEN First(src, ItemSize) ELSE src)
<1>1. CASE kind = "stream"
  <2>1. Appended(c, src) = Pushed(c, src)[Len(src)]
    BY <1>1 DEF Appended, AppendBytes
  <2>2. Len(src) \in 0 .. Len(src) /\ First(src, Len(src)) = src
    <3>1. Len(src) \in Nat
      BY LenProperties
    <3>. QED  BY <3>1, FirstAll
  <2>. DEFINE d == Pushed(c, src)[Len(src)]
  <2>3. d \in Seq(Items) /\ Shaped(d) /\ All(d) = All(c) \o Marked(First(src, Len(src)))
    BY <1>1, <2>2, PushedParts
  <2>. HIDE DEF d
  <2>. QED  BY <1>1, <2>1, <2>2, <2>3 DEF d
<1>2. CASE kind = "packet" /\ src = <<>>
  <2>1. Appended(c, src) = Headed(c)
    BY <1>2 DEF Appended
  <2>2. First(src, ItemSize) = <<>>
    <3>1. ItemSize \in Nat /\ Len(src) = 0 /\ Least(ItemSize, 0) = 0
      BY <1>2, DataChainAssumption DEF Least
    <3>2. First(src, ItemSize) \in Seq(Byte) /\ Len(First(src, ItemSize)) = 0
      BY <3>1, FirstParts
    <3>. QED  BY <3>2, EmptySeq
  <2>3. Marked(<<>>) = <<>>
    BY DEF Marked
  <2>4. All(c) \o <<>> = All(c)
    BY AllParts, ConcatEmptySeq
  <2>5. Headed(c) \in Seq(Items) /\ Shaped(Headed(c)) /\ All(Headed(c)) = All(c)
    BY HeadedParts
  <2>. QED  BY <1>2, <2>1, <2>2, <2>3, <2>4, <2>5
<1>3. CASE kind = "packet" /\ src # <<>>
  <2>. DEFINE h == Headed(c)
              d == AppendPacket(h, src)
  <2>1. Appended(c, src) = d
    BY <1>3 DEF Appended
  <2>2. h \in Seq(Items) /\ h # <<>> /\ Shaped(h) /\ All(h) = All(c)
    BY HeadedParts
  <2>. HIDE DEF h
  <2>3. d \in Seq(Items) /\ Shaped(d) /\ All(d) = All(h) \o Marked(First(src, ItemSize))
    BY <1>3, <2>2, PacketParts
  <2>. HIDE DEF d
  <2>. QED  BY <1>3, <2>1, <2>2, <2>3
<1>4. kind = "stream" \/ kind = "packet"
  OBVIOUS
<1>. QED  BY <1>1, <1>2, <1>3, <1>4

\* An append that fails has put the first bytes, and no datagram.
LEMMA OutOfMemoryParts ==
    ASSUME NEW c \in Seq(Items), Shaped(c), NEW src \in Seq(Byte), NEW d \in OutOfMemory(c, src)
    PROVE  /\ d \in Seq(Items) /\ Shaped(d)
           /\ \E k \in 0 .. Len(src) : All(d) = All(c) \o Marked(First(src, k))
           /\ kind = "packet" => All(d) = All(c)
<1>1. Len(src) \in Nat /\ 0 \in 0 .. Len(src)
  BY LenProperties
<1>2. All(c) \o Marked(First(src, 0)) = All(c)
  <2>1. Marked(<<>>) = <<>>
    BY DEF Marked
  <2>2. All(c) \o <<>> = All(c)
    BY AllParts, ConcatEmptySeq
  <2>3. First(src, 0) = <<>>
    BY FirstAll
  <2>. QED  BY <2>1, <2>2, <2>3
<1>3. CASE c = <<>> /\ d = <<>>
  BY <1>1, <1>2, <1>3, AllOfNone
<1>4. CASE d = c
  BY <1>1, <1>2, <1>4
<1>5. CASE kind = "stream" /\ \E k \in 0 .. Len(src) - 1 : d = Pushed(c, src)[k]
  <2>1. PICK k \in 0 .. Len(src) - 1 : d = Pushed(c, src)[k]
    BY <1>5
  <2>2. k \in 0 .. Len(src)
    BY <1>1
  <2>3. d \in Seq(Items) /\ Shaped(d) /\ All(d) = All(c) \o Marked(First(src, k))
    BY <1>5, <2>1, <2>2, PushedParts
  <2>. QED  BY <1>5, <2>2, <2>3
<1>6. \/ c = <<>> /\ d = <<>>
      \/ d = c
      \/ kind = "stream" /\ \E k \in 0 .. Len(src) - 1 : d = Pushed(c, src)[k]
  BY Zenon DEF OutOfMemory
<1>. QED  BY <1>3, <1>4, <1>5, <1>6

LEMMA PutStep ==
    ASSUME ChainInv, NEW src \in Chunks, AppendData(src)
    PROVE  ChainInv' /\ P!Put(src)
<1>1. chain \in Seq(Items) /\ Shaped(chain) /\ kind \in {"stream", "packet"} /\ src \in Seq(Byte)
  BY ChunkParts DEF ChainInv, Shape
<1>2. kind' = kind
  BY DEF AppendData
<1>3. Queue = All(chain) /\ Queue' = All(chain')
  BY <1>2, Abstract, Later
<1>4. CASE chain' = Appended(chain, src) /\ out' = Nothing
  <2>1. /\ chain' \in Seq(Items) /\ Shaped(chain')
        /\ All(chain') = All(chain) \o Marked(IF kind = "packet" THEN First(src, ItemSize) ELSE src)
    BY <1>1, <1>4, AppendedParts
  <2>2. Queue' = Queue \o P!Marked(IF kind = "packet" THEN P!First(src, ItemSize) ELSE src)
    BY <1>3, <2>1, Abstract
  <2>3. out' = P!Nothing
    BY <1>4 DEF Nothing, Result, P!Nothing, P!Result
  <2>. QED  BY <1>2, <2>1, <2>2, <2>3, Kept DEF P!Put
<1>5. CASE chain' \in OutOfMemory(chain, src) /\ out' = Result("no_memory", <<>>, 0)
  <2>1. chain' \in Seq(Items) /\ Shaped(chain')
    BY <1>1, <1>5, OutOfMemoryParts
  <2>2. \E k \in 0 .. Len(src) : Queue' = Queue \o P!Marked(P!First(src, k))
    <3>1. PICK k \in 0 .. Len(src) : All(chain') = All(chain) \o Marked(First(src, k))
      BY <1>1, <1>5, OutOfMemoryParts
    <3>. QED  BY <1>3, <3>1, Abstract
  <2>3. kind = "packet" => Queue' = Queue
    BY <1>1, <1>3, <1>5, OutOfMemoryParts
  <2>4. out' = P!Result("no_memory", <<>>, 0)
    BY <1>5 DEF Result, P!Result
  <2>. QED  BY <1>2, <2>1, <2>2, <2>3, <2>4, Kept DEF P!Put
<1>. QED  BY <1>4, <1>5 DEF AppendData

-----------------------------------------------------------------------------
\* The least and the greatest index of a set, which is what the selections
\* take.
LEMMA LeastIndex ==
    ASSUME NEW I \in SUBSET Nat, I # {}
    PROVE  Min(I) \in I /\ \A i \in I : Min(I) <= i
<1>. DEFINE R == OpToRel(<, Nat)
<1>1. IsWellFoundedOn(R, Nat)
  BY NatLessThanWellFounded
<1>2. R = {ss \in Nat \X Nat : ss[1] < ss[2]}
  BY DEF OpToRel
<1>3. \A x, y \in Nat : <<x, y>> \in R <=> x < y
  BY <1>2
<1>. HIDE DEF R
<1>4. PICK m \in I : \A k \in I : ~(<<k, m>> \in R)
  BY <1>1, WFMin
<1>5. ASSUME NEW k \in I PROVE m <= k
  <2>1. k \in Nat /\ m \in Nat
    BY <1>4
  <2>2. ~(k < m)
    BY <1>3, <1>4, <2>1
  <2>. QED  BY <2>1, <2>2
<1>6. Min(I) \in I /\ \A i \in I : Min(I) <= i
  BY <1>4, <1>5, Zenon DEF Min
<1>. QED  BY <1>6

LEMMA GreatestIndex ==
    ASSUME NEW n \in Nat, NEW I \in SUBSET (1 .. n), I # {}
    PROVE  Max(I) \in I /\ \A i \in I : Max(I) >= i
<1>. DEFINE J == {j \in Nat : n - j \in I}
<1>1. J \in SUBSET Nat /\ J # {}
  <2>1. PICK i \in I : TRUE
    OBVIOUS
  <2>2. n - i \in Nat /\ n - (n - i) = i
    OBVIOUS
  <2>. QED  BY <2>1, <2>2
<1>2. Min(J) \in J /\ \A j \in J : Min(J) <= j
  <2>. HIDE DEF J
  <2>. QED  BY <1>1, LeastIndex
<1>. DEFINE m == Min(J)
<1>3. m \in Nat /\ n - m \in I
  BY <1>2
<1>4. ASSUME NEW i \in I PROVE n - m >= i
  <2>1. i \in Nat /\ n - i \in Nat /\ n - (n - i) = i
    OBVIOUS
  <2>2. n - i \in J
    BY <2>1
  <2>3. m <= n - i
    BY <1>2, <2>2
  <2>. HIDE DEF m
  <2>. QED  BY <1>3, <2>1, <2>3
<1>5. Max(I) \in I /\ \A i \in I : Max(I) >= i
  <2>. HIDE DEF m
  <2>. QED  BY <1>3, <1>4, Zenon DEF Max
<1>. QED  BY <1>5

-----------------------------------------------------------------------------
\* The sizes grow along a chain.
LEMMA SizesGrow ==
    ASSUME NEW c \in Seq(Items), NEW i \in 0 .. Len(c), NEW j \in i .. Len(c)
    PROVE  Len(Contents(kind, c)[i]) <= Len(Contents(kind, c)[j])
<1>. DEFINE C == Contents(kind, c)
            T == {n \in Nat : i + n <= Len(c) => Len(C[i]) <= Len(C[i + n])}
<1>1. Len(c) \in Nat /\ (\A k \in 0 .. Len(c) : Len(C[k]) \in Nat)
      /\ \A k \in 1 .. Len(c) : Len(C[k]) = Len(C[k - 1]) + Left(c[k]) /\ Left(c[k]) \in Nat
  BY ContentsParts
<1>. HIDE DEF C
<1>2. 0 \in T
  <2>1. i + 0 = i /\ Len(C[i]) \in Nat
    BY <1>1
  <2>. QED  BY <2>1
<1>3. ASSUME NEW n \in Nat, n \in T PROVE n + 1 \in T
  <2>1. SUFFICES ASSUME i + (n + 1) <= Len(c) PROVE Len(C[i]) <= Len(C[i + (n + 1)])
    OBVIOUS
  <2>. DEFINE k == i + (n + 1)
  <2>2. k \in 1 .. Len(c) /\ k - 1 = i + n /\ i + n <= Len(c) /\ k - 1 \in 0 .. Len(c) /\ i \in 0 .. Len(c)
    BY <1>1, <2>1
  <2>3. Len(C[i]) <= Len(C[i + n])
    BY <1>3, <2>2
  <2>. HIDE DEF k
  <2>4. Len(C[k]) = Len(C[k - 1]) + Left(c[k]) /\ Left(c[k]) \in Nat
    BY <1>1, <2>2
  <2>5. Len(C[i]) \in Nat /\ Len(C[k - 1]) \in Nat
    BY <1>1, <2>2
  <2>6. Len(C[i]) <= Len(C[k])
    BY <2>2, <2>3, <2>4, <2>5
  <2>. QED  BY <2>6 DEF k
<1>4. Nat \subseteq T
  BY <1>2, <1>3, Induction
<1>5. j - i \in Nat /\ i + (j - i) = j /\ j <= Len(c)
  BY <1>1
<1>6. j - i \in T
  BY <1>4, <1>5
<1>. QED  BY <1>5, <1>6 DEF C

-----------------------------------------------------------------------------
\* remove, phase one.  The number of bytes of item i that become dead.
Dying(c, n, i) == Least(n - Least(n, SizeBefore(c, i)), Left(c[i]))

LEMMA DyingParts ==
    ASSUME NEW c \in Seq(Items), NEW n \in Nat, NEW i \in 1 .. Len(c)
    PROVE  LET a == Len(Contents(kind, c)[i - 1])
               m == Dying(c, n, i)
               k == Least(n, Len(Contents(kind, c)[i]))
           IN  /\ m \in 0 .. Left(c[i])
               /\ Least(k, a) = Least(n, a)
               /\ k - Least(n, a) = m
               /\ k \in 0 .. a + Left(c[i])
               /\ m < Left(c[i]) => n < Len(Contents(kind, c)[i])
               /\ n <= a => m = 0
<1>. DEFINE a == Len(Contents(kind, c)[i - 1])
            b == Len(Contents(kind, c)[i])
            l == Left(c[i])
            m == Dying(c, n, i)
            k == Least(n, b)
<1>1. i - 1 \in 0 .. Len(c) /\ i \in 0 .. Len(c)
  BY LenProperties
<1>2. a \in Nat /\ b \in Nat
  BY <1>1, ContentsParts
<1>3. b = a + l /\ l \in Nat
  BY ContentsParts
<1>4. SizeBefore(c, i) = a
  BY <1>1, SumsParts DEF SizeBefore
<1>5. m = Least(n - Least(n, a), l)
  <2>. HIDE DEF a
  <2>. QED  BY <1>4 DEF Dying
<1>. HIDE DEF a, b, l, m
<1>6. m \in 0 .. l
  BY <1>2, <1>3, <1>5 DEF Least
<1>7. Least(k, a) = Least(n, a)
  BY <1>2, <1>3 DEF Least
<1>8. k - Least(n, a) = m
  BY <1>2, <1>3, <1>5 DEF Least
<1>9. k \in 0 .. a + l
  BY <1>2, <1>3 DEF Least
<1>10. m < l => n < b
  BY <1>2, <1>3, <1>5 DEF Least
<1>11. n <= a => m = 0
  BY <1>2, <1>3, <1>5 DEF Least
<1>. QED  BY <1>6, <1>7, <1>8, <1>9, <1>10, <1>11 DEF a, b, l, m

LEMMA DeadParts ==
    ASSUME NEW c \in Seq(Items), NEW n \in Nat
    PROVE  /\ Dead(c, n) \in Seq(Items) /\ Len(Dead(c, n)) = Len(c)
           /\ \A i \in 1 .. Len(c) :
                /\ Dead(c, n)[i] = [c[i] EXCEPT !.dead = @ + Dying(c, n, i)]
                /\ Dead(c, n)[i].data = c[i].data
                /\ Dead(c, n)[i].dead = c[i].dead + Dying(c, n, i)
                /\ Left(Dead(c, n)[i]) = Left(c[i]) - Dying(c, n, i)
                /\ Parcel(kind, Dead(c, n)[i]) = Rest(Parcel(kind, c[i]), Dying(c, n, i))
<1>. DEFINE d == Dead(c, n)
<1>1. Len(c) \in Nat /\ DOMAIN c = 1 .. Len(c) /\ \A i \in 1 .. Len(c) : c[i] \in Items
  BY LenProperties, ElementOfSeq
<1>2. d = [i \in 1 .. Len(c) |-> [c[i] EXCEPT !.dead = @ + Dying(c, n, i)]]
  BY <1>1 DEF Dead, Dying
<1>. HIDE DEF d
<1>3. ASSUME NEW i \in 1 .. Len(c)
      PROVE  /\ d[i] = [c[i] EXCEPT !.dead = @ + Dying(c, n, i)]
             /\ d[i] \in Items /\ d[i].data = c[i].data
             /\ d[i].dead = c[i].dead + Dying(c, n, i)
             /\ Left(d[i]) = Left(c[i]) - Dying(c, n, i)
             /\ Parcel(kind, d[i]) = Rest(Parcel(kind, c[i]), Dying(c, n, i))
  <2>. DEFINE x == c[i]
              y == d[i]
              m == Dying(c, n, i)
  <2>1. y = [x EXCEPT !.dead = @ + m]
    BY <1>2
  <2>2. x \in Items /\ m \in 0 .. Left(x)
    BY <1>1, DyingParts
  <2>. HIDE DEF x, y, m
  <2>3. y \in Items /\ y.data = x.data /\ y.dead = x.dead + m /\ Left(y) = Left(x) - m
    BY <2>1, <2>2, ParcelRest
  <2>4. Parcel(kind, y) = Rest(Parcel(kind, x), m)
    BY <2>1, <2>2, ParcelRest
  <2>. QED  BY <2>1, <2>3, <2>4 DEF x, y, m
<1>4. d \in Seq(Items) /\ Len(d) = Len(c)
  <2>1. \A i \in 1 .. Len(c) : d[i] \in Items
    BY <1>3
  <2>2. d \in [1 .. Len(c) -> Items]
    BY <1>2, <2>1
  <2>3. d \in Seq(Items)
    BY <1>1, <2>2, SeqDef
  <2>4. DOMAIN d = 1 .. Len(c)
    BY <1>2
  <2>. QED  BY <1>1, <2>3, <2>4, LenProperties
<1>. QED  BY <1>3, <1>4 DEF d

\* What the items hold then is the rest.
LEMMA DeadRest ==
    ASSUME NEW c \in Seq(Items), NEW n \in 0 .. Len(All(c))
    PROVE  All(Dead(c, n)) = Rest(All(c), n)
<1>. DEFINE d == Dead(c, n)
            C == Contents(kind, c)
            D == Contents(kind, d)
            T == {i \in Nat : i <= Len(c) => D[i] = Rest(C[i], Least(n, Len(C[i])))}
<1>1. Len(c) \in Nat /\ n \in Nat /\ n <= Len(All(c)) /\ Len(All(c)) \in Nat
  BY AllParts, LenProperties
<1>2. d \in Seq(Items) /\ Len(d) = Len(c)
      /\ \A i \in 1 .. Len(c) : Parcel(kind, d[i]) = Rest(Parcel(kind, c[i]), Dying(c, n, i))
  BY <1>1, DeadParts
<1>. HIDE DEF d
<1>3. /\ C[0] = <<>>
      /\ \A i \in 0 .. Len(c) : C[i] \in Seq(Cells) /\ Len(C[i]) \in Nat
      /\ \A i \in 1 .. Len(c) : C[i] = C[i - 1] \o Parcel(kind, c[i]) /\ c[i] \in Items
  BY ContentsParts
<1>4. D[0] = <<>> /\ \A i \in 1 .. Len(c) : D[i] = D[i - 1] \o Parcel(kind, d[i])
  BY <1>2, ContentsParts
<1>. HIDE DEF C, D
<1>5. 0 \in T
  <2>1. Len(C[0]) = 0 /\ <<>> \in Seq(Cells) /\ Least(n, 0) = 0
    BY <1>1, <1>3 DEF Least
  <2>2. Rest(<<>>, 0) = <<>>
    BY DEF Rest
  <2>. QED  BY <1>3, <1>4, <2>1, <2>2
<1>6. ASSUME NEW j \in Nat, j \in T PROVE j + 1 \in T
  <2>1. SUFFICES ASSUME j + 1 <= Len(c) PROVE D[j + 1] = Rest(C[j + 1], Least(n, Len(C[j + 1])))
    OBVIOUS
  <2>. DEFINE i == j + 1
              a == Len(C[j])
              m == Dying(c, n, i)
              p == Parcel(kind, c[i])
              k == Least(n, Len(C[i]))
  <2>2. i \in 1 .. Len(c) /\ i - 1 = j /\ j \in 0 .. Len(c) /\ j <= Len(c)
    BY <1>1, <2>1
  <2>3. D[j] = Rest(C[j], Least(n, a))
    BY <1>6, <2>2
  <2>. HIDE DEF i
  <2>4. /\ m \in 0 .. Left(c[i]) /\ Least(k, a) = Least(n, a) /\ k - Least(n, a) = m
        /\ k \in 0 .. a + Left(c[i])
    <3>1. m \in 0 .. Left(c[i])
      BY <1>1, <2>2, DyingParts
    <3>2. Least(k, a) = Least(n, a) /\ k - Least(n, a) = m
      BY <1>1, <2>2, DyingParts DEF C
    <3>3. k \in 0 .. a + Left(c[i])
      BY <1>1, <2>2, DyingParts DEF C
    <3>. QED  BY <3>1, <3>2, <3>3
  <2>5. C[j] \in Seq(Cells) /\ C[i] = C[j] \o p /\ c[i] \in Items
    BY <1>3, <2>2
  <2>6. p \in Seq(Cells) /\ Len(p) = Left(c[i])
    BY <2>5, ParcelParts
  <2>7. D[i] = D[j] \o Rest(p, m)
    BY <1>2, <1>4, <2>2
  <2>. DEFINE s == C[j]
  <2>. HIDE DEF m, k, p
  <2>8. Rest(s \o p, k) = Rest(s, Least(k, Len(s))) \o Rest(p, k - Least(k, Len(s)))
    <3>1. s \in Seq(Cells) /\ k \in 0 .. Len(s) + Len(p)
      BY <2>4, <2>5, <2>6
    <3>. HIDE DEF s
    <3>. QED  BY <2>6, <3>1, RestOfConcat
  <2>9. D[i] = Rest(C[i], k)
    BY <2>3, <2>4, <2>5, <2>7, <2>8
  <2>. QED  BY <2>9 DEF i, k
<1>7. Nat \subseteq T
  BY <1>5, <1>6, Induction
<1>8. D[Len(c)] = Rest(C[Len(c)], Least(n, Len(C[Len(c)])))
  BY <1>1, <1>7
<1>9. C[Len(c)] = All(c) /\ D[Len(c)] = All(d)
  BY <1>2 DEF All, C, D
<1>10. Least(n, Len(All(c))) = n
  BY <1>1 DEF Least
<1>. QED  BY <1>8, <1>9, <1>10 DEF d

\* remove, phase two: the items at the head that are dead hold nothing.
LEMMA NothingIn ==
    ASSUME NEW c \in Seq(Items), NEW a \in 0 .. Len(c), \A i \in 1 .. a : Left(c[i]) = 0
    PROVE  Contents(kind, c)[a] = <<>>
<1>. DEFINE C == Contents(kind, c)
            T == {i \in Nat : i <= a => Len(C[i]) = 0}
<1>1. Len(c) \in Nat /\ a \in Nat /\ a <= Len(c)
  BY LenProperties
<1>2. /\ C[0] = <<>>
      /\ \A i \in 0 .. Len(c) : C[i] \in Seq(Cells)
      /\ \A i \in 1 .. Len(c) : Len(C[i]) = Len(C[i - 1]) + Left(c[i])
  BY ContentsParts
<1>. HIDE DEF C
<1>3. 0 \in T
  BY <1>2
<1>4. ASSUME NEW j \in Nat, j \in T PROVE j + 1 \in T
  <2>1. SUFFICES ASSUME j + 1 <= a PROVE Len(C[j + 1]) = 0
    OBVIOUS
  <2>2. j + 1 \in 1 .. a /\ j + 1 \in 1 .. Len(c) /\ j + 1 - 1 = j /\ j <= a
    BY <1>1, <2>1
  <2>3. Len(C[j + 1]) = Len(C[j]) + Left(c[j + 1])
    BY <1>2, <2>2
  <2>4. Left(c[j + 1]) = 0 /\ Len(C[j]) = 0
    BY <1>4, <2>2
  <2>. QED  BY <2>3, <2>4
<1>5. Nat \subseteq T
  BY <1>3, <1>4, Induction
<1>6. Len(C[a]) = 0
  BY <1>1, <1>5
<1>7. C[a] \in Seq(Cells)
  BY <1>2
<1>. QED  BY <1>6, <1>7, EmptySeq DEF C

\* What a chain holds is what its first items hold, and what the others do.
LEMMA AllSplit ==
    ASSUME NEW c \in Seq(Items), NEW a \in 0 .. Len(c)
    PROVE  /\ Rest(c, a) \in Seq(Items) /\ Contents(kind, c)[a] \in Seq(Cells) /\ All(Rest(c, a)) \in Seq(Cells)
           /\ All(c) = Contents(kind, c)[a] \o All(Rest(c, a))
<1>. DEFINE t == Rest(c, a)
            C == Contents(kind, c)
            D == Contents(kind, t)
            Good(i) == C[a + i] = C[a] \o D[i]
            T == {i \in Nat : i <= Len(c) - a => Good(i)}
<1>1. Len(c) \in Nat /\ a \in Nat /\ a <= Len(c)
  BY LenProperties
<1>2. t \in Seq(Items) /\ Len(t) = Len(c) - a /\ \A i \in 1 .. Len(c) - a : t[i] = c[a + i]
  BY RestParts
<1>. HIDE DEF t
<1>3. /\ \A i \in 0 .. Len(c) : C[i] \in Seq(Cells)
      /\ \A i \in 1 .. Len(c) : C[i] = C[i - 1] \o Parcel(kind, c[i]) /\ c[i] \in Items
  BY ContentsParts
<1>4. /\ D[0] = <<>> /\ \A i \in 0 .. Len(t) : D[i] \in Seq(Cells)
      /\ \A i \in 1 .. Len(t) : D[i] = D[i - 1] \o Parcel(kind, t[i])
  BY <1>2, ContentsParts
<1>. HIDE DEF C, D
<1>5. 0 \in T
  <2>1. a + 0 = a /\ C[a] \in Seq(Cells)
    BY <1>1, <1>3
  <2>2. C[a] \o <<>> = C[a]
    BY <2>1, ConcatEmptySeq
  <2>. QED  BY <1>4, <2>1, <2>2
<1>6. ASSUME NEW j \in Nat, j \in T PROVE j + 1 \in T
  <2>1. SUFFICES ASSUME j + 1 <= Len(c) - a PROVE Good(j + 1)
    <3>. HIDE DEF Good
    <3>. QED  OBVIOUS
  <2>. DEFINE i == j + 1
              k == a + (j + 1)
              p == Parcel(kind, c[k])
  <2>2. i \in 1 .. Len(c) - a /\ k \in 1 .. Len(c) /\ i - 1 = j /\ k - 1 = a + j /\ j <= Len(c) - a
        /\ k = a + i
        /\ j \in 0 .. Len(c) - a /\ a \in 0 .. Len(c)
    BY <1>1, <2>1
  <2>3. C[a + j] = C[a] \o D[j]
    BY <1>6, <2>2
  <2>. HIDE DEF i, k
  <2>4. t[i] = c[k]
    BY <1>2, <2>2
  <2>5. D[i] = D[j] \o p
    BY <1>2, <1>4, <2>2, <2>4
  <2>6. C[k] = C[k - 1] \o p /\ c[k] \in Items
    BY <1>3, <2>2
  <2>7. p \in Seq(Cells)
    BY <2>6, ParcelParts
  <2>8. C[a] \in Seq(Cells)
    BY <1>3
  <2>9. D[j] \in Seq(Cells)
    BY <1>2, <1>4, <2>2
  <2>. DEFINE s == C[a]
              u == D[j]
  <2>. HIDE DEF p
  <2>10. (s \o u) \o p = s \o (u \o p)
    <3>1. s \in Seq(Cells) /\ u \in Seq(Cells)
      BY <2>8, <2>9
    <3>. HIDE DEF s, u
    <3>. QED  BY <2>7, <3>1, Regroup
  <2>11. C[k] = C[a] \o D[i]
    BY <2>2, <2>3, <2>5, <2>6, <2>10
  <2>. QED  BY <2>11 DEF i, k
<1>7. Nat \subseteq T
  BY <1>5, <1>6, Induction
<1>8. Len(c) - a \in Nat /\ a + (Len(c) - a) = Len(c)
  BY <1>1
<1>9. C[Len(c)] = C[a] \o D[Len(c) - a]
  <2>1. Good(Len(c) - a)
    <3>. HIDE DEF Good
    <3>. QED  BY <1>7, <1>8
  <2>. QED  BY <1>8, <2>1
<1>10. All(c) = C[Len(c)] /\ All(t) = D[Len(c) - a]
  BY <1>2 DEF All, C, D
<1>11. All(t) \in Seq(Cells) /\ C[a] \in Seq(Cells)
  BY <1>2, <1>3, AllParts
<1>. QED  BY <1>2, <1>9, <1>10, <1>11 DEF t, C

LEMMA AllRest ==
    ASSUME NEW c \in Seq(Items), NEW a \in 0 .. Len(c), Contents(kind, c)[a] = <<>>
    PROVE  All(Rest(c, a)) = All(c)
<1>1. All(c) = <<>> \o All(Rest(c, a)) /\ All(Rest(c, a)) \in Seq(Cells)
  BY AllSplit
<1>. QED  BY <1>1, ConcatEmptySeq

LEMMA TrimParts ==
    ASSUME NEW c \in Seq(Items)
    PROVE  /\ Trim(c) \in Seq(Items) /\ All(Trim(c)) = All(c)
           /\ \/ Trim(c) = <<>>
              \/ \E a \in 1 .. Len(c) : Trim(c) = Rest(c, a - 1) /\ Left(c[a]) # 0
<1>. DEFINE I == {i \in 1 .. Len(c) : Left(c[i]) # 0}
            alive == IF I # {} THEN Min(I) ELSE 0
<1>1. Len(c) \in Nat /\ \A i \in 1 .. Len(c) : c[i] \in Items /\ Left(c[i]) \in Nat
  BY ContentsParts
<1>2. Trim(c) = IF alive = 0 THEN <<>> ELSE SubSeq(c, alive, Len(c))
  BY DEF Trim, SelectInSeq
<1>3. CASE I = {}
  <2>1. Trim(c) = <<>>
    BY <1>2, <1>3
  <2>2. Contents(kind, c)[Len(c)] = <<>>
    <3>1. Len(c) \in 0 .. Len(c) /\ \A i \in 1 .. Len(c) : Left(c[i]) = 0
      BY <1>1, <1>3
    <3>. QED  BY <3>1, NothingIn
  <2>3. All(c) = <<>>
    BY <2>2 DEF All
  <2>. QED  BY <2>1, <2>3, AllOfNone
<1>4. CASE I # {}
  <2>. DEFINE a == Min(I)
  <2>1. a \in I /\ \A i \in I : a <= i
    <3>. HIDE DEF I
    <3>1. I \in SUBSET Nat
      BY DEF I
    <3>. QED  BY <1>4, <3>1, LeastIndex
  <2>2. a \in 1 .. Len(c) /\ Left(c[a]) # 0 /\ a # 0 /\ a - 1 \in 0 .. Len(c) /\ a - 1 + 1 = a
    BY <1>1, <2>1
  <2>3. \A i \in 1 .. a - 1 : Left(c[i]) = 0
    <3>1. SUFFICES ASSUME NEW i \in 1 .. a - 1, Left(c[i]) # 0 PROVE FALSE
      OBVIOUS
    <3>2. i \in 1 .. Len(c) /\ ~(a <= i)
      BY <1>1, <2>2
    <3>3. i \in I
      BY <3>1, <3>2
    <3>. QED  BY <2>1, <3>2, <3>3
  <2>4. Trim(c) = Rest(c, a - 1)
    <3>1. alive = a
      BY <1>4
    <3>. HIDE DEF alive, a
    <3>. QED  BY <1>2, <2>2, <3>1 DEF Rest
  <2>. HIDE DEF a
  <2>5. Contents(kind, c)[a - 1] = <<>>
    BY <2>2, <2>3, NothingIn
  <2>6. All(Rest(c, a - 1)) = All(c)
    BY <2>2, <2>5, AllRest
  <2>7. Rest(c, a - 1) \in Seq(Items)
    BY <2>2, RestParts
  <2>. QED  BY <2>2, <2>4, <2>6, <2>7
<1>. QED  BY <1>3, <1>4

\* remove keeps the rest, in a chain of the same shape.
LEMMA RemovedParts ==
    ASSUME NEW c \in Seq(Items), Shaped(c), NEW n \in 0 .. Len(All(c))
    PROVE  /\ Removed(c, n) \in Seq(Items) /\ Shaped(Removed(c, n))
           /\ All(Removed(c, n)) = Rest(All(c), n)
<1>. DEFINE d == Dead(c, n)
            t == Trim(d)
            C == Contents(kind, c)
            m(i) == Dying(c, n, i)
<1>1. n \in Nat /\ Len(c) \in Nat /\ DOMAIN c = 1 .. Len(c) /\ \A i \in 1 .. Len(c) : c[i] \in Items
  BY LenProperties, ElementOfSeq
<1>2. /\ d \in Seq(Items) /\ Len(d) = Len(c)
      /\ \A i \in 1 .. Len(c) : d[i].data = c[i].data /\ d[i].dead = c[i].dead + m(i) /\ Left(d[i]) = Left(c[i]) - m(i)
  <2>1. d \in Seq(Items) /\ Len(d) = Len(c)
    BY <1>1, DeadParts
  <2>2. \A i \in 1 .. Len(c) : d[i].data = c[i].data /\ d[i].dead = c[i].dead + m(i) /\ Left(d[i]) = Left(c[i]) - m(i)
    BY <1>1, DeadParts
  <2>. QED  BY <2>1, <2>2
<1>3. All(d) = Rest(All(c), n)
  BY DeadRest
<1>. HIDE DEF d, m
<1>4. t \in Seq(Items) /\ All(t) = All(d)
      /\ (t = <<>> \/ \E a \in 1 .. Len(d) : t = Rest(d, a - 1) /\ Left(d[a]) # 0)
  BY <1>2, TrimParts
<1>5. Removed(c, n) = t
  BY DEF Removed, d
<1>. HIDE DEF t
<1>6. \A i \in 1 .. Len(c) : /\ Len(c[i].data) <= ItemSize
                             /\ c[i].dead = 0 \/ i = 1
                             /\ Left(c[i]) > 0 \/ c = <<Item(<<>>)>>
                             /\ Full(c[i]) \/ i = Len(c) \/ kind = "packet"
  BY <1>1 DEF Shaped
<1>7. ASSUME NEW a \in 1 .. Len(d), t = Rest(d, a - 1), Left(d[a]) # 0
      PROVE  Shaped(t)
  <2>1. a - 1 \in 0 .. Len(d) /\ a \in Nat /\ a \in 1 .. Len(c)
    BY <1>1, <1>2
  <2>2. Len(t) = Len(c) - (a - 1) /\ \A j \in 1 .. Len(c) - (a - 1) : t[j] = d[a - 1 + j]
    <3>. DEFINE b == a - 1
    <3>1. b \in 0 .. Len(d)
      BY <2>1
    <3>. HIDE DEF b
    <3>2. Len(Rest(d, b)) = Len(d) - b /\ \A j \in 1 .. Len(d) - b : Rest(d, b)[j] = d[b + j]
      BY <1>2, <3>1, RestParts
    <3>. QED  BY <1>2, <1>7, <3>2 DEF b
  <2>3. m(a) \in 0 .. Left(c[a]) /\ Left(c[a]) \in Nat /\ m(a) < Left(c[a]) /\ n < Len(C[a])
    <3>1. m(a) \in 0 .. Left(c[a])
      BY <1>1, <2>1, DyingParts DEF m
    <3>2. Left(c[a]) \in Nat
      BY <2>1, ContentsParts
    <3>3. m(a) < Left(c[a])
      <4>1. Left(d[a]) = Left(c[a]) - m(a)
        BY <1>2, <2>1
      <4>. QED  BY <1>7, <3>1, <3>2, <4>1
    <3>4. n < Len(C[a])
      BY <1>1, <2>1, <3>3, DyingParts DEF m
    <3>. QED  BY <3>1, <3>2, <3>3, <3>4
  <2>4. ASSUME NEW i \in a + 1 .. Len(c) PROVE m(i) = 0
    <3>1. i \in 1 .. Len(c) /\ a \in 0 .. Len(c) /\ i - 1 \in a .. Len(c) /\ i - 1 \in 0 .. Len(c)
      BY <1>1, <2>1
    <3>2. Len(C[a]) <= Len(C[i - 1])
      BY <3>1, SizesGrow
    <3>3. Len(C[a]) \in Nat /\ Len(C[i - 1]) \in Nat
      BY <3>1, ContentsParts
    <3>. HIDE DEF C
    <3>4. n <= Len(C[i - 1])
      BY <1>1, <2>3, <3>2, <3>3
    <3>. QED  BY <1>1, <3>1, <3>4, DyingParts DEF m, C
  <2>5. ASSUME NEW j \in DOMAIN t
        PROVE  /\ Len(t[j].data) <= ItemSize
               /\ t[j].dead = 0 \/ j = 1
               /\ Left(t[j]) > 0
               /\ Full(t[j]) \/ j = Len(t) \/ kind = "packet"
    <3>. DEFINE i == a - 1 + j
    <3>1. j \in 1 .. Len(t)
      BY <1>4, LenProperties
    <3>2. t[j] = d[i] /\ i \in 1 .. Len(c) /\ (i = Len(c) => j = Len(t)) /\ (j = 1 => i = a)
          /\ (j # 1 => i \in a + 1 .. Len(c))
      <4>1. j \in 1 .. Len(c) - (a - 1) /\ Len(t) = Len(c) - (a - 1)
        BY <2>2, <3>1
      <4>2. t[j] = d[i]
        BY <2>2, <4>1
      <4>3. i \in 1 .. Len(c) /\ (i = Len(c) => j = Len(t)) /\ (j = 1 => i = a)
            /\ (j # 1 => i \in a + 1 .. Len(c))
        BY SMTT(30), <1>1, <2>1, <4>1
      <4>. QED  BY <4>2, <4>3
    <3>. HIDE DEF i
    <3>3. d[i].data = c[i].data /\ d[i].dead = c[i].dead + m(i) /\ Left(d[i]) = Left(c[i]) - m(i)
      BY <1>2, <3>2
    <3>4. Full(t[j]) <=> Full(c[i])
      BY <3>2, <3>3 DEF Full
    <3>5. Len(t[j].data) <= ItemSize
      BY <1>6, <3>2, <3>3
    <3>6. Full(t[j]) \/ j = Len(t) \/ kind = "packet"
      BY <1>6, <3>2, <3>4
    <3>7. CASE j = 1
      <4>1. Left(t[j]) = Left(c[a]) - m(a)
        BY <3>2, <3>3, <3>7
      <4>2. Left(t[j]) > 0
        BY <2>3, <4>1
      <4>. QED  BY <3>5, <3>6, <3>7, <4>2
    <3>8. CASE j # 1
      <4>1. i \in a + 1 .. Len(c) /\ m(i) = 0
        BY <2>4, <3>2, <3>8
      <4>2. i # 1 /\ Len(c) # 1
        BY <1>1, <2>1, <4>1
      <4>3. c # <<Item(<<>>)>>
        BY <4>2
      <4>4. c[i].dead = 0 /\ Left(c[i]) > 0
        BY <1>6, <3>2, <4>2, <4>3
      <4>5. Left(c[i]) \in Nat
        BY <3>2, ContentsParts
      <4>6. t[j].dead = 0 /\ Left(t[j]) > 0
        BY <3>2, <3>3, <4>1, <4>4, <4>5
      <4>. QED  BY <3>5, <3>6, <4>6
    <3>. QED  BY <3>7, <3>8
  <2>. QED  BY <2>5 DEF Shaped
<1>8. Shaped(t)
  BY <1>4, <1>7, AllOfNone
<1>. QED  BY <1>3, <1>4, <1>5, <1>8

-----------------------------------------------------------------------------
\* Where a byte of an item is in what the chain holds ...
LEMMA Place ==
    ASSUME NEW c \in Seq(Items), NEW i \in 1 .. Len(c), NEW j \in 1 .. Left(c[i])
    PROVE  LET p == Len(Contents(kind, c)[i - 1]) + j
           IN  p \in 1 .. Len(Contents(kind, c)[i]) /\ p \in 1 .. Len(All(c)) /\ All(c)[p] = Cell(kind, c[i], j)
<1>. DEFINE C == Contents(kind, c)
            s == C[i - 1]
            p == Parcel(kind, c[i])
            r == All(Rest(c, i))
            a == Len(s) + j
<1>1. i \in 0 .. Len(c) /\ i - 1 \in 0 .. Len(c)
  BY LenProperties
<1>2. c[i] \in Items /\ C[i] = s \o p
  BY ContentsParts
<1>3. s \in Seq(Cells)
  BY <1>1, ContentsParts
<1>4. p \in Seq(Cells) /\ Len(p) = Left(c[i]) /\ Left(c[i]) \in Nat
      /\ \A k \in 1 .. Left(c[i]) : p[k] = Cell(kind, c[i], k)
  BY <1>2, ParcelParts
<1>5. C[i] \in Seq(Cells) /\ r \in Seq(Cells) /\ All(c) = C[i] \o r
  BY <1>1, AllSplit
<1>. HIDE DEF C, s, p, r
<1>6. Len(s) \in Nat /\ Len(s \o p) = Len(s) + Len(p) /\ (s \o p)[Len(s) + j] = p[j]
  <2>1. Len(s) \in Nat /\ Len(s \o p) = Len(s) + Len(p)
    BY <1>3, <1>4, ConcatParts
  <2>2. \A k \in 1 .. Len(p) : (s \o p)[Len(s) + k] = p[k]
    BY <1>3, <1>4, ConcatParts
  <2>. QED  BY <1>4, <2>1, <2>2
<1>7. a \in 1 .. Len(C[i]) /\ C[i][a] = Cell(kind, c[i], j)
  BY <1>2, <1>4, <1>6
<1>. DEFINE t == C[i]
<1>8. t \in Seq(Cells) /\ All(c) = t \o r /\ a \in 1 .. Len(t) /\ t[a] = Cell(kind, c[i], j)
  BY <1>5, <1>7
<1>. HIDE DEF t, a
<1>9. Len(t \o r) = Len(t) + Len(r) /\ Len(t) \in Nat /\ Len(r) \in Nat
  BY <1>5, <1>8, ConcatParts
<1>10. \A k \in 1 .. Len(t) : (t \o r)[k] = t[k]
  BY <1>5, <1>8, ConcatParts
<1>11. All(c)[a] = Cell(kind, c[i], j)
  BY <1>8, <1>10
<1>12. a \in 1 .. Len(All(c))
  BY <1>8, <1>9
<1>. QED  BY <1>7, <1>11, <1>12 DEF a, s, C

\* ... and which byte of which item is at a place.
LEMMA ItemAt ==
    ASSUME NEW c \in Seq(Items), NEW p \in 1 .. Len(All(c))
    PROVE  \E i \in 1 .. Len(c) : \E j \in 1 .. Left(c[i]) : p = Len(Contents(kind, c)[i - 1]) + j
<1>. DEFINE C == Contents(kind, c)
            I == {k \in 1 .. Len(c) : p <= Len(C[k])}
            i == Min(I)
<1>1. Len(c) \in Nat /\ C[0] = <<>>
      /\ (\A k \in 0 .. Len(c) : Len(C[k]) \in Nat)
      /\ (\A k \in 1 .. Len(c) : Len(C[k]) = Len(C[k - 1]) + Left(c[k]) /\ Left(c[k]) \in Nat)
      /\ Len(All(c)) \in Nat
  BY ContentsParts, AllParts
<1>2. All(c) = C[Len(c)]
  BY DEF All
<1>. HIDE DEF C
<1>3. Len(c) # 0
  <2>1. Len(C[0]) = 0
    BY <1>1
  <2>. QED  BY <1>1, <1>2, <2>1
<1>4. I \in SUBSET Nat /\ I # {}
  <2>1. Len(c) \in I
    BY <1>1, <1>2, <1>3
  <2>. QED  BY <2>1
<1>5. i \in I /\ \A k \in I : i <= k
  <2>. HIDE DEF I
  <2>. QED  BY <1>4, LeastIndex
<1>. HIDE DEF i
<1>6. i \in 1 .. Len(c) /\ p <= Len(C[i])
  BY <1>5
<1>7. Len(C[i - 1]) < p
  <2>1. CASE i = 1
    BY <1>1, <2>1
  <2>2. CASE i # 1
    <3>1. i - 1 \in 1 .. Len(c) /\ i - 1 \in 0 .. Len(c) /\ ~(i <= i - 1)
      BY <1>1, <1>6, <2>2
    <3>2. i - 1 \notin I
      BY <1>5, <3>1
    <3>3. ~(p <= Len(C[i - 1]))
      BY <3>1, <3>2
    <3>4. Len(C[i - 1]) \in Nat
      BY <1>1, <3>1
    <3>. QED  BY <1>1, <3>3, <3>4
  <2>. QED  BY <2>1, <2>2
<1>. DEFINE a == Len(C[i - 1])
            j == p - a
<1>8. a \in Nat /\ Len(C[i]) = a + Left(c[i]) /\ Left(c[i]) \in Nat
  <2>1. i - 1 \in 0 .. Len(c)
    BY <1>1, <1>6
  <2>. QED  BY <1>1, <1>6, <2>1
<1>9. j \in 1 .. Left(c[i]) /\ p = a + j
  <2>. HIDE DEF a
  <2>1. a < p
    BY <1>7 DEF a
  <2>. QED  BY <1>1, <1>6, <1>8, <2>1
<1>. HIDE DEF j
<1>. QED  BY <1>6, <1>9 DEF C

-----------------------------------------------------------------------------
\* What the first items hold.
LEMMA AllFirst ==
    ASSUME NEW c \in Seq(Items), NEW a \in 0 .. Len(c)
    PROVE  First(c, a) \in Seq(Items) /\ All(First(c, a)) = Contents(kind, c)[a]
<1>. DEFINE d == First(c, a)
<1>1. Len(c) \in Nat /\ a \in Nat /\ a <= Len(c) /\ Least(a, Len(c)) = a
  <2>1. Len(c) \in Nat
    BY LenProperties
  <2>. QED  BY <2>1 DEF Least
<1>2. d \in Seq(Items) /\ Len(d) = a /\ \A i \in 1 .. a : d[i] = c[i]
  BY <1>1, FirstParts
<1>. HIDE DEF d
<1>3. \A i \in 0 .. a : Contents(kind, d)[i] = Contents(kind, c)[i]
  BY <1>1, <1>2, SameItems
<1>4. All(d) = Contents(kind, c)[a]
  BY <1>1, <1>2, <1>3 DEF All
<1>. QED  BY <1>2, <1>4 DEF d

\* The part of a chain that a call reads: that of the first item, or all.
Readable == IF kind = "packet" THEN First(chain, 1) ELSE chain

\* A cell begins a datagram if it is the first of an item that is not read.
LEMMA StreamCells ==
    ASSUME NEW c \in Seq(Items), kind # "packet", NEW p \in 1 .. Len(All(c))
    PROVE  ~All(c)[p].begins
<1>1. PICK i \in 1 .. Len(c) : \E j \in 1 .. Left(c[i]) : p = Len(Contents(kind, c)[i - 1]) + j
  BY ItemAt
<1>2. PICK j \in 1 .. Left(c[i]) : p = Len(Contents(kind, c)[i - 1]) + j
  BY <1>1
<1>3. All(c)[p] = Cell(kind, c[i], j)
  BY <1>2, Place
<1>4. c[i] \in Items
  BY ElementOfSeq
<1>5. ~Cell(kind, c[i], j).begins
  BY <1>4, CellParts
<1>. QED  BY <1>3, <1>5

LEMMA ReadyIs ==
    ASSUME ChainInv
    PROVE  /\ Readable \in Seq(Items) /\ P!Ready = BytesOf(All(Readable))
           /\ Len(All(Readable)) \in Nat /\ Len(All(Readable)) <= Len(All(chain)) /\ Len(All(chain)) \in Nat
<1>. DEFINE q == Queue
            I == {i \in 2 .. Len(q) : q[i].begins}
            next == IF I # {} THEN Min(I) ELSE 0
<1>1. chain \in Seq(Items) /\ Shaped(chain) /\ kind \in {"stream", "packet"}
  BY DEF ChainInv, Shape
<1>2. q = All(chain) /\ q \in Seq(Cells) /\ Len(q) \in Nat
  BY <1>1, AllParts, Abstract
<1>3. P!Ready = IF next = 0 THEN BytesOf(q) ELSE First(BytesOf(q), next - 1)
  <2>0. P!Min(I) = Min(I)
    BY Zenon DEF P!Min, Min
  <2>1. P!Ready = IF next = 0 THEN P!Bytes ELSE P!First(P!Bytes, next - 1)
    BY <2>0 DEF P!Ready, P!SelectInSubSeq
  <2>2. P!Bytes = BytesOf(q)
    BY <1>2, Abstract
  <2>3. \A s, n : P!First(s, n) = First(s, n)
    BY Abstract
  <2>. HIDE DEF next
  <2>. QED  BY <2>1, <2>2, <2>3
<1>. HIDE DEF q
<1>4. CASE kind # "packet"
  <2>1. I = {}
    <3>1. \A i \in 2 .. Len(q) : i \in 1 .. Len(q)
      BY <1>2
    <3>2. \A i \in 1 .. Len(q) : ~q[i].begins
      BY <1>1, <1>2, <1>4, StreamCells
    <3>. QED  BY <3>1, <3>2
  <2>2. P!Ready = BytesOf(q)
    BY <1>3, <2>1
  <2>3. Readable = chain
    BY <1>4 DEF Readable
  <2>. QED  BY <1>1, <1>2, <2>2, <2>3
<1>5. CASE kind = "packet" /\ chain = <<>>
  <2>1. First(chain, 1) = <<>> /\ Len(chain) = 0
    BY <1>5 DEF First, Least
  <2>2. Readable = chain /\ q = <<>>
    BY <1>2, <1>5, <2>1, AllOfNone DEF Readable
  <2>3. I = {}
    <3>1. Len(q) = 0
      BY <2>2
    <3>. QED  BY <3>1
  <2>. QED  BY <1>1, <1>2, <1>3, <2>2, <2>3
<1>6. CASE kind = "packet" /\ chain # <<>>
  <2>. DEFINE x == chain[1]
              p == Parcel(kind, x)
              r == Rest(chain, 1)
              l == Left(x)
  <2>1. Len(chain) \in Nat /\ Len(chain) # 0 /\ 1 \in 0 .. Len(chain) /\ 1 \in 1 .. Len(chain)
        /\ DOMAIN chain = 1 .. Len(chain)
    BY <1>1, <1>6, LenProperties, EmptySeq
  <2>2. x \in Items
    BY <1>1, <2>1, ElementOfSeq
  <2>3. p \in Seq(Cells) /\ Len(p) = l /\ l \in Nat /\ \A j \in 1 .. l : p[j] = Cell(kind, x, j)
    BY <2>2, ParcelParts
  <2>4. Contents(kind, chain)[1] = p
    <3>. DEFINE i == 1
    <3>0. i \in 1 .. Len(chain) /\ i - 1 = 0
      BY <2>1
    <3>. HIDE DEF i
    <3>1. Contents(kind, chain)[i] = Contents(kind, chain)[i - 1] \o Parcel(kind, chain[i])
      BY <1>1, <3>0, ContentsParts
    <3>2. Contents(kind, chain)[0] = <<>>
      BY <1>1, ContentsParts
    <3>3. Contents(kind, chain)[1] = <<>> \o p
      BY <3>0, <3>1, <3>2 DEF i
    <3>. QED  BY <2>3, <3>3, ConcatEmptySeq
  <2>5. Readable \in Seq(Items) /\ All(Readable) = p
    BY <1>1, <1>6, <2>1, <2>4, AllFirst DEF Readable
  <2>. DEFINE u == All(r)
  <2>6. r \in Seq(Items) /\ u \in Seq(Cells) /\ q = p \o u
    BY <1>1, <1>2, <2>1, <2>4, AllSplit
  <2>. HIDE DEF u, p, q, l, r, x
  <2>7. Len(q) = Len(p) + Len(u) /\ Len(u) \in Nat
    BY <2>3, <2>6, ConcatParts
  <2>8. \A j \in 1 .. Len(p) : q[j] = p[j]
    BY <2>3, <2>6, ConcatParts
  <2>9. ASSUME NEW i \in 2 .. Len(p) PROVE ~q[i].begins
    <3>1. i \in 1 .. Len(p) /\ i # 1
      BY <2>3
    <3>2. q[i] = Cell(kind, x, i) /\ i \in 1 .. Left(x)
      BY <2>3, <2>8, <3>1 DEF l
    <3>3. ~Cell(kind, x, i).begins
      BY <2>2, <3>1, <3>2, CellParts
    <3>. QED  BY <3>2, <3>3
  <2>10. BytesOf(q) = BytesOf(p) \o BytesOf(u)
    BY <2>3, <2>6, BytesConcat
  <2>11. BytesOf(p) \in Seq(Byte) /\ Len(BytesOf(p)) = Len(p) /\ BytesOf(u) \in Seq(Byte)
    BY <2>3, <2>6, BytesParts
  <2>12. P!Ready = BytesOf(p)
    <3>1. CASE r = <<>>
      <4>1. u = <<>>
        BY <3>1, AllOfNone DEF u
      <4>2. Len(q) = Len(p)
        BY <2>3, <2>7, <4>1
      <4>3. I = {}
        BY <2>9, <4>2
      <4>4. BytesOf(u) = <<>>
        BY <4>1 DEF BytesOf
      <4>5. BytesOf(q) = BytesOf(p)
        BY <2>10, <2>11, <4>4, ConcatEmptySeq
      <4>. QED  BY <1>3, <4>3, <4>5
    <3>2. CASE r # <<>>
      <4>1. Len(chain) >= 2 /\ r[1] = chain[2] /\ 2 \in 1 .. Len(chain) /\ Len(r) >= 1 /\ 2 \in DOMAIN chain
        <5>1. Len(r) = Len(chain) - 1 /\ \A j \in 1 .. Len(chain) - 1 : r[j] = chain[1 + j]
          BY <1>1, <2>1, RestParts DEF r
        <5>2. Len(r) # 0
          BY <2>6, <3>2, EmptySeq
        <5>3. Len(chain) >= 2
          BY <2>1, <5>1, <5>2
        <5>4. 1 \in 1 .. Len(chain) - 1 /\ 1 + 1 = 2
          BY <2>1, <5>3
        <5>5. r[1] = chain[2]
          BY <5>1, <5>4
        <5>. QED  BY <2>1, <5>1, <5>3, <5>5
      <4>2. chain # <<Item(<<>>)>>
        <5>1. Len(chain) # 1
          BY <2>1, <4>1
        <5>. QED  BY <5>1
      <4>3. l > 0
        BY <1>1, <2>1, <4>2 DEF Shaped, l, x
      <4>4. Left(chain[2]) > 0 /\ chain[2].dead = 0 /\ chain[2] \in Items /\ Left(chain[2]) \in Nat
        <5>1. Left(chain[2]) > 0
          BY <1>1, <4>1, <4>2 DEF Shaped
        <5>2. chain[2].dead = 0
          <6>1. chain[2].dead = 0 \/ 2 = 1
            BY <1>1, <4>1 DEF Shaped
          <6>. QED  BY <6>1
        <5>3. chain[2] \in Items
          BY <1>1, <4>1, ElementOfSeq
        <5>. QED  BY <5>1, <5>2, <5>3, ItemParts
      <4>. DEFINE k == Len(p) + 1
      <4>5. q[k] = Cell(kind, chain[2], 1) /\ k \in 1 .. Len(q)
        <5>. DEFINE i == 2
                    j == 1
        <5>1. i \in 1 .. Len(chain) /\ j \in 1 .. Left(chain[i]) /\ i - 1 = 1
          BY <4>1, <4>4
        <5>. HIDE DEF i, j
        <5>2. LET e == Len(Contents(kind, chain)[i - 1]) + j
              IN  e \in 1 .. Len(All(chain)) /\ All(chain)[e] = Cell(kind, chain[i], j)
          BY <1>1, <5>1, Place
        <5>3. LET e == Len(p) + j IN e \in 1 .. Len(q) /\ q[e] = Cell(kind, chain[i], j)
          BY <1>2, <2>4, <5>1, <5>2
        <5>. QED  BY <5>3 DEF i, j
      <4>6. Cell(kind, chain[2], 1).begins
        <5>1. 1 \in 1 .. Left(chain[2])
          BY <4>4
        <5>. QED  BY <1>6, <4>4, <5>1, CellParts
      <4>7. k \in I /\ k \in Nat /\ I # {}
        <5>1. k \in 2 .. Len(q)
          BY <2>3, <4>3, <4>5
        <5>. QED  BY <4>5, <4>6, <5>1
      <4>8. \A i \in I : k <= i
        <5>1. SUFFICES ASSUME NEW i \in I, ~(k <= i) PROVE FALSE
          OBVIOUS
        <5>2. i \in 2 .. Len(p)
          BY <2>3, <5>1
        <5>. QED  BY <2>9, <5>1, <5>2
      <4>9. Min(I) = k
        <5>. DEFINE m == Min(I)
        <5>1. m \in I /\ \A i \in I : m <= i
          <6>. HIDE DEF I
          <6>1. I \in SUBSET Nat
            BY DEF I
          <6>. QED  BY <4>7, <6>1, LeastIndex
        <5>2. m \in Nat /\ m <= k /\ k <= m
          BY <4>7, <4>8, <5>1
        <5>. HIDE DEF m
        <5>3. m = k
          BY <4>7, <5>2
        <5>. QED  BY <5>3 DEF m
      <4>10. next = k /\ k # 0 /\ k - 1 = Len(p)
        BY <2>3, <4>7, <4>9
      <4>11. P!Ready = First(BytesOf(q), Len(p))
        <5>. HIDE DEF next, k
        <5>. QED  BY <1>3, <4>10
      <4>. DEFINE b == BytesOf(p)
                  e == BytesOf(u)
      <4>12. b \in Seq(Byte) /\ e \in Seq(Byte) /\ Len(b) = Len(p) /\ BytesOf(q) = b \o e
        BY <2>10, <2>11
      <4>. HIDE DEF b, e
      <4>13. First(b \o e, Len(b)) = b
        <5>1. Len(b) \in Nat /\ First(b, Len(b)) = b
          BY <4>12, FirstAll
        <5>. DEFINE n == Len(b)
        <5>6. n \in Nat
          BY <5>1
        <5>. HIDE DEF n
        <5>7. First(b \o e, n) = First(b, n) \o First(e, n - Len(First(b, n)))
          BY <4>12, <5>6, FirstOfConcat
        <5>2. First(b \o e, Len(b)) = First(b, Len(b)) \o First(e, Len(b) - Len(First(b, Len(b))))
          BY <5>7 DEF n
        <5>3. Len(b) - Len(b) = 0
          BY <5>1
        <5>4. First(e, 0) = <<>>
          BY <4>12, FirstAll
        <5>5. First(b \o e, Len(b)) = b \o <<>>
          BY <5>1, <5>2, <5>3, <5>4
        <5>. QED  BY <4>12, <5>5, ConcatEmptySeq
      <4>. QED  BY <4>11, <4>12, <4>13 DEF b
    <3>. QED  BY <3>1, <3>2
  <2>13. Len(p) <= Len(q)
    BY <2>3, <2>7
  <2>. QED  BY <1>2, <2>3, <2>5, <2>12, <2>13
<1>. QED  BY <1>4, <1>5, <1>6

-----------------------------------------------------------------------------
\* A read takes what is ready, and no more than there is.
LEMMA PeekParts ==
    ASSUME ChainInv, NEW n \in Nat
    PROVE  /\ PeekText(chain, n) = P!First(P!Ready, n)
           /\ Len(PeekText(chain, n)) \in 0 .. Len(All(chain))
<1>. DEFINE t == PeekText(chain, n)
            b == BytesOf(All(Readable))
<1>1. /\ Readable \in Seq(Items) /\ P!Ready = b
      /\ Len(All(Readable)) \in Nat /\ Len(All(Readable)) <= Len(All(chain)) /\ Len(All(chain)) \in Nat
  BY ReadyIs
<1>2. t = First(b, n)
  <2>1. t = Copied(Readable, n)
    BY DEF PeekText, Readable
  <2>. HIDE DEF t
  <2>. QED  BY <1>1, <2>1, CopiedIs
<1>3. b \in Seq(Byte) /\ Len(b) = Len(All(Readable))
  <2>1. All(Readable) \in Seq(Cells)
    BY <1>1, AllParts
  <2>. QED  BY <2>1, BytesParts
<1>. HIDE DEF b, t
<1>4. Len(t) = Least(n, Len(b))
  BY <1>2, <1>3, FirstParts
<1>5. Least(n, Len(b)) \in Nat /\ Least(n, Len(b)) <= Len(b)
  BY <1>1, <1>3, LeastParts
<1>6. Len(t) \in 0 .. Len(All(chain))
  BY <1>1, <1>3, <1>4, <1>5
<1>7. t = P!First(P!Ready, n)
  BY <1>1, <1>2, Abstract
<1>. QED  BY <1>6, <1>7 DEF t

LEMMA TakeStep ==
    ASSUME ChainInv, NEW n \in Sizes, NEW peeking \in BOOLEAN, Extract(n, peeking)
    PROVE  ChainInv' /\ P!Take(n, peeking)
<1>. DEFINE t == PeekText(chain, n)
<1>1. n \in Nat
  BY DataChainAssumption
<1>2. t = P!First(P!Ready, n) /\ Len(t) \in 0 .. Len(All(chain))
  BY <1>1, PeekParts
<1>3. /\ out' = Result("ok", t, Len(t)) /\ kind' = kind
      /\ chain' = IF peeking THEN chain ELSE Removed(chain, Len(t))
  BY DEF Extract
<1>. HIDE DEF t
<1>4. chain \in Seq(Items) /\ Shaped(chain)
  BY DEF ChainInv, Shape
<1>5. Queue = All(chain) /\ Queue' = All(chain')
  BY <1>3, Abstract, Later
<1>6. /\ chain' \in Seq(Items) /\ Shaped(chain')
      /\ Queue' = IF peeking THEN Queue ELSE P!Without(Len(t))
  <2>1. CASE peeking
    BY <1>3, <1>4, <1>5, <2>1
  <2>2. CASE ~peeking
    <3>1. chain' = Removed(chain, Len(t))
      BY <1>3, <2>2
    <3>2. chain' \in Seq(Items) /\ Shaped(chain') /\ All(chain') = Rest(All(chain), Len(t))
      BY <1>2, <1>4, <3>1, RemovedParts
    <3>3. P!Without(Len(t)) = Rest(All(chain), Len(t))
      BY Abstract
    <3>. QED  BY <1>5, <2>2, <3>2, <3>3
  <2>. QED  BY <2>1, <2>2
<1>7. ChainInv'
  BY <1>3, <1>6, Kept
<1>8. out' = P!Result("ok", t, Len(t))
  BY <1>3 DEF Result, P!Result
<1>. QED  BY <1>2, <1>3, <1>6, <1>7, <1>8 DEF P!Take

\* A chain has data when there is a byte in it.
LEMMA HasDataParts ==
    ASSUME NEW c \in Seq(Items)
    PROVE  HasData(c) <=> All(c) # <<>>
<1>1. Len(c) \in Nat /\ DOMAIN c = 1 .. Len(c) /\ \A i \in 1 .. Len(c) : c[i] \in Items /\ Left(c[i]) \in Nat
  BY ContentsParts, LenProperties
<1>2. CASE HasData(c)
  <2>1. PICK i \in 1 .. Len(c) : Left(c[i]) # 0
    BY <1>1, <1>2 DEF HasData
  <2>2. 1 \in 1 .. Left(c[i])
    BY <1>1, <2>1
  <2>3. \E p : p \in 1 .. Len(All(c))
    BY <2>1, <2>2, Place
  <2>4. Len(All(c)) # 0
    <3>1. Len(All(c)) \in Nat
      BY AllParts
    <3>. QED  BY <2>3, <3>1
  <2>5. All(c) # <<>>
    BY <2>4
  <2>. QED  BY <1>2, <2>5
<1>3. CASE ~HasData(c)
  <2>1. \A i \in 1 .. Len(c) : Left(c[i]) = 0
    BY <1>1, <1>3 DEF HasData
  <2>2. Len(c) \in 0 .. Len(c)
    BY <1>1
  <2>3. Contents(kind, c)[Len(c)] = <<>>
    BY <2>1, <2>2, NothingIn
  <2>. QED  BY <1>3, <2>3 DEF All
<1>. QED  BY <1>2, <1>3

\* A call that changes no item keeps all.
LEMMA Untouched ==
    ASSUME ChainInv, UNCHANGED <<kind, chain>>
    PROVE  ChainInv' /\ Queue' = Queue
<1>1. kind' = kind /\ chain' = chain
  OBVIOUS
<1>2. ChainInv'
  <2>1. chain' \in Seq(Items) /\ Shaped(chain')
    BY <1>1 DEF ChainInv, Shape
  <2>. QED  BY <1>1, <2>1, Kept
<1>3. Queue = All(chain) /\ Queue' = All(chain')
  BY <1>1, Abstract, Later
<1>. QED  BY <1>1, <1>2, <1>3

LEMMA MeasureStep ==
    ASSUME ChainInv, Measure
    PROVE  ChainInv' /\ P!Measure
<1>1. kind' = kind /\ chain' = chain
      /\ out' = Result(IF HasData(chain) THEN "filled" ELSE "empty", <<>>, GetSize(chain))
  BY DEF Measure
<1>2. ChainInv' /\ Queue' = Queue
  BY <1>1, Untouched
<1>3. Queue = All(chain) /\ chain \in Seq(Items)
  BY Abstract DEF ChainInv
<1>4. GetSize(chain) = Len(Queue) /\ (HasData(chain) <=> Queue # <<>>)
  BY <1>3, AllParts, HasDataParts
<1>5. out' = P!Result(IF Queue = <<>> THEN "empty" ELSE "filled", <<>>, Len(Queue))
  BY <1>1, <1>4 DEF Result, P!Result
<1>. QED  BY <1>1, <1>2, <1>5 DEF P!Measure

-----------------------------------------------------------------------------
\* The place of the first LF.
FirstLF(s) == LET I == {i \in 1 .. Len(s) : s[i] = LF} IN IF I # {} THEN Min(I) ELSE 0

LEMMA FirstLFParts ==
    ASSUME NEW s \in Seq(Byte)
    PROVE  /\ FirstLF(s) \in 0 .. Len(s) /\ Len(s) \in Nat
           /\ FirstLF(s) # 0 => s[FirstLF(s)] = LF
           /\ \A i \in 1 .. Len(s) : s[i] = LF => FirstLF(s) # 0 /\ FirstLF(s) <= i
<1>. DEFINE I == {i \in 1 .. Len(s) : s[i] = LF}
            m == Min(I)
<1>1. Len(s) \in Nat
  BY LenProperties
<1>2. FirstLF(s) = IF I # {} THEN m ELSE 0
  BY DEF FirstLF
<1>3. CASE I = {}
  BY <1>1, <1>2, <1>3
<1>4. CASE I # {}
  <2>1. m \in I /\ \A i \in I : m <= i
    <3>. HIDE DEF I
    <3>1. I \in SUBSET Nat
      BY DEF I
    <3>. QED  BY <1>4, <3>1, LeastIndex
  <2>. HIDE DEF m
  <2>2. FirstLF(s) = m /\ m \in 1 .. Len(s) /\ s[m] = LF /\ m # 0
    BY <1>1, <1>2, <1>4, <2>1
  <2>3. \A i \in 1 .. Len(s) : s[i] = LF => m <= i
    BY <2>1
  <2>. QED  BY <1>1, <2>2, <2>3
<1>. QED  BY <1>3, <1>4

\* A place that has an LF with none before it is the first.
LEMMA FirstLFIs ==
    ASSUME NEW s \in Seq(Byte), NEW p \in 1 .. Len(s), s[p] = LF, \A i \in 1 .. Len(s) : s[i] = LF => p <= i
    PROVE  FirstLF(s) = p
<1>1. FirstLF(s) \in 0 .. Len(s) /\ Len(s) \in Nat /\ FirstLF(s) # 0 /\ FirstLF(s) <= p
  BY FirstLFParts
<1>2. s[FirstLF(s)] = LF
  BY <1>1, FirstLFParts
<1>3. FirstLF(s) \in 1 .. Len(s)
  BY <1>1
<1>4. p <= FirstLF(s)
  BY <1>2, <1>3
<1>. QED  BY <1>1, <1>4

LEMMA LineSizeIs ==
    ASSUME NEW c \in Seq(Items)
    PROVE  LineSize(c) = FirstLF(BytesOf(All(c)))
<1>. DEFINE C == Contents(kind, c)
            b == BytesOf(All(c))
            I == {i \in 1 .. Len(c) : LF \in ToSet(Live(c[i]))}
            k == IF I # {} THEN Min(I) ELSE 0
<1>1. Len(c) \in Nat /\ \A i \in 1 .. Len(c) : c[i] \in Items /\ Left(c[i]) \in Nat
  BY ContentsParts
<1>2. All(c) \in Seq(Cells) /\ b \in Seq(Byte) /\ Len(b) = Len(All(c)) /\ Len(b) \in Nat
      /\ \A p \in 1 .. Len(b) : b[p] = All(c)[p].byte
  BY AllParts, BytesParts
<1>3. \A i \in 1 .. Len(c) : Live(c[i]) \in Seq(Byte) /\ Len(Live(c[i])) = Left(c[i])
  BY <1>1, ItemParts
<1>4. ASSUME NEW i \in 1 .. Len(c) PROVE LF \in ToSet(Live(c[i])) <=> \E j \in 1 .. Left(c[i]) : Live(c[i])[j] = LF
  <2>1. DOMAIN Live(c[i]) = 1 .. Left(c[i])
    BY <1>3, LenProperties
  <2>. QED  BY <2>1 DEF ToSet
<1>5. ASSUME NEW i \in 1 .. Len(c), NEW j \in 1 .. Left(c[i])
      PROVE  LET p == Len(C[i - 1]) + j IN p \in 1 .. Len(b) /\ b[p] = Live(c[i])[j] /\ p <= Len(C[i])
  <2>. DEFINE p == Len(C[i - 1]) + j
  <2>1. p \in 1 .. Len(C[i]) /\ p \in 1 .. Len(All(c)) /\ All(c)[p] = Cell(kind, c[i], j)
    BY Place
  <2>2. Cell(kind, c[i], j).byte = Live(c[i])[j]
    BY <1>1, CellParts
  <2>. HIDE DEF p, C, b
  <2>3. p \in 1 .. Len(b) /\ b[p] = Live(c[i])[j]
    BY <1>2, <2>1, <2>2
  <2>4. p <= Len(C[i])
    BY <2>1
  <2>. QED  BY <2>3, <2>4 DEF p
<1>6. ASSUME NEW p \in 1 .. Len(b)
      PROVE  \E i \in 1 .. Len(c) : \E j \in 1 .. Left(c[i]) : p = Len(C[i - 1]) + j
  <2>1. p \in 1 .. Len(All(c))
    BY <1>2
  <2>. QED  BY <2>1, ItemAt
<1>7. LineSize(c) = IF k = 0 THEN 0 ELSE SizeBefore(c, k) + FirstLF(Live(c[k]))
  BY DEF LineSize, SelectInSeq, FirstLF
<1>8. \A i \in 1 .. Len(c) : i - 1 \in 0 .. Len(c) /\ SizeBefore(c, i) = Len(C[i - 1]) /\ Len(C[i - 1]) \in Nat
  <2>. SUFFICES ASSUME NEW i \in 1 .. Len(c)
                PROVE  i - 1 \in 0 .. Len(c) /\ SizeBefore(c, i) = Len(C[i - 1]) /\ Len(C[i - 1]) \in Nat
    OBVIOUS
  <2>1. i - 1 \in 0 .. Len(c)
    BY <1>1
  <2>2. Sums(c)[i - 1] = Len(C[i - 1])
    BY <2>1, SumsParts
  <2>. QED  BY <2>1, <2>2, ContentsParts DEF SizeBefore
<1>. HIDE DEF C, b
<1>9. CASE I = {}
  <2>1. LineSize(c) = 0
    <3>1. k = 0
      BY <1>9
    <3>. HIDE DEF k
    <3>. QED  BY <1>7, <3>1
  <2>2. ASSUME NEW p \in 1 .. Len(b) PROVE b[p] # LF
    <3>1. PICK i \in 1 .. Len(c) : \E j \in 1 .. Left(c[i]) : p = Len(C[i - 1]) + j
      BY <1>6
    <3>2. PICK j \in 1 .. Left(c[i]) : p = Len(C[i - 1]) + j
      BY <3>1
    <3>3. b[p] = Live(c[i])[j]
      BY <1>5, <3>2
    <3>4. Live(c[i])[j] # LF
      BY <1>4, <1>9
    <3>. QED  BY <3>3, <3>4
  <2>3. FirstLF(b) = 0
    <3>1. FirstLF(b) \in 0 .. Len(b) /\ (FirstLF(b) # 0 => b[FirstLF(b)] = LF)
      BY <1>2, FirstLFParts
    <3>. QED  BY <1>2, <2>2, <3>1
  <2>. QED  BY <2>1, <2>3 DEF b
<1>10. CASE I # {}
  <2>. DEFINE i == Min(I)
              l == Live(c[i])
              j == FirstLF(l)
              p == Len(C[i - 1]) + j
  <2>1. i \in I /\ \A h \in I : i <= h
    <3>. HIDE DEF I
    <3>1. I \in SUBSET Nat
      BY DEF I
    <3>. QED  BY <1>10, <3>1, LeastIndex
  <2>2. i \in 1 .. Len(c) /\ i # 0 /\ LF \in ToSet(l)
    BY <1>1, <2>1
  <2>3. k = i
    BY <1>10
  <2>. HIDE DEF i, k
  <2>4. l \in Seq(Byte) /\ Len(l) = Left(c[i]) /\ Left(c[i]) \in Nat
    BY <1>1, <1>3, <2>2
  <2>5. PICK e \in 1 .. Left(c[i]) : l[e] = LF
    BY <1>4, <2>2
  <2>. HIDE DEF l
  <2>6. j # 0 /\ j \in 0 .. Len(l) /\ l[j] = LF /\ \A h \in 1 .. Len(l) : l[h] = LF => j <= h
    <3>1. e \in 1 .. Len(l)
      BY <2>4
    <3>2. \A h \in 1 .. Len(l) : l[h] = LF => j # 0 /\ j <= h
      BY <2>4, FirstLFParts
    <3>3. j # 0
      BY <2>5, <3>1, <3>2
    <3>4. j \in 0 .. Len(l)
      BY <2>4, FirstLFParts
    <3>5. l[j] = LF
      BY <2>4, <3>3, FirstLFParts
    <3>. QED  BY <3>2, <3>3, <3>4, <3>5
  <2>. HIDE DEF j
  <2>7. j \in 1 .. Left(c[i])
    BY <2>4, <2>6
  <2>8. p \in 1 .. Len(b) /\ b[p] = LF /\ p <= Len(C[i])
    <3>1. p \in 1 .. Len(b) /\ b[p] = Live(c[i])[j] /\ p <= Len(C[i])
      BY <1>5, <2>2, <2>7
    <3>. QED  BY <2>6, <3>1 DEF l
  <2>9. LineSize(c) = p
    <3>1. SizeBefore(c, i) = Len(C[i - 1])
      BY <1>8, <2>2
    <3>. QED  BY <1>7, <2>2, <2>3, <3>1 DEF j, l
  <2>10. ASSUME NEW h \in 1 .. Len(b), b[h] = LF PROVE p <= h
    <3>1. PICK f \in 1 .. Len(c) : \E g \in 1 .. Left(c[f]) : h = Len(C[f - 1]) + g
      BY <1>6
    <3>2. PICK g \in 1 .. Left(c[f]) : h = Len(C[f - 1]) + g
      BY <3>1
    <3>3. Live(c[f])[g] = LF
      BY <1>5, <2>10, <3>2
    <3>4. f \in I
      BY <1>4, <3>3
    <3>5. i <= f
      BY <2>1, <3>4
    <3>6. CASE f = i
      <4>1. j <= g
        BY <2>4, <2>6, <3>2, <3>3, <3>6 DEF l
      <4>2. Len(C[i - 1]) \in Nat
        BY <1>8, <2>2
      <4>. QED  BY <2>7, <3>2, <3>6, <4>1, <4>2
    <3>7. CASE f # i
      <4>1. i \in 0 .. Len(c) /\ f - 1 \in i .. Len(c)
        BY <1>1, <2>2, <3>5, <3>7
      <4>2. Len(C[i]) <= Len(C[f - 1])
        BY <4>1, SizesGrow DEF C
      <4>3. Len(C[i]) \in Nat /\ Len(C[f - 1]) \in Nat
        <5>1. Len(C[f - 1]) \in Nat
          BY <1>8
        <5>2. Len(C[i]) \in Nat
          BY <4>1, ContentsParts DEF C
        <5>. QED  BY <5>1, <5>2
      <4>. HIDE DEF p
      <4>4. p \in Nat /\ g \in Nat
        BY <2>8
      <4>. QED  BY <2>8, <3>2, <4>2, <4>3, <4>4
    <3>. QED  BY <3>6, <3>7
  <2>. HIDE DEF p
  <2>11. FirstLF(b) = p
    BY <1>2, <2>8, <2>10, FirstLFIs
  <2>. QED  BY <2>9, <2>11 DEF b
<1>. QED  BY <1>9, <1>10

\* The size of a line is that of the line that is ready.
LEMMA SameLine ==
    ASSUME ChainInv
    PROVE  /\ LineSize(chain) = P!LineSize /\ LineSize(chain) \in 0 .. Len(All(chain))
           /\ LineSize(chain) = FirstLF(BytesOf(All(chain)))
<1>. DEFINE b == P!Bytes
            I == {i \in 1 .. Len(b) : b[i] = LF}
<1>1. chain \in Seq(Items)
  BY DEF ChainInv
<1>2. b = BytesOf(All(chain)) /\ b \in Seq(Byte) /\ Len(b) = Len(All(chain))
  <2>1. All(chain) \in Seq(Cells)
    BY <1>1, AllParts
  <2>2. b = BytesOf(All(chain))
    BY Abstract
  <2>. QED  BY <2>1, <2>2, BytesParts
<1>3. P!EndOfLine = FirstLF(b)
  <2>1. P!Min(I) = Min(I)
    BY Zenon DEF P!Min, Min
  <2>2. P!EndOfLine = IF I # {} THEN P!Min(I) ELSE 0
    BY DEF P!EndOfLine, P!SelectInSeq
  <2>3. FirstLF(b) = IF I # {} THEN Min(I) ELSE 0
    BY DEF FirstLF
  <2>. QED  BY <2>1, <2>2, <2>3
<1>. HIDE DEF b
<1>4. P!LineSize = FirstLF(b)
  BY <1>3 DEF P!LineSize
<1>5. LineSize(chain) = FirstLF(b)
  BY <1>1, <1>2, LineSizeIs
<1>6. FirstLF(b) \in 0 .. Len(All(chain))
  BY <1>2, FirstLFParts
<1>. QED  BY <1>2, <1>4, <1>5, <1>6

LEMMA MeasureLineStep ==
    ASSUME ChainInv, MeasureLine
    PROVE  ChainInv' /\ P!MeasureLine
<1>1. kind' = kind /\ chain' = chain
      /\ out' = Result(IF LineSize(chain) = 0 THEN "no_data" ELSE "ok", <<>>, LineSize(chain))
  BY DEF MeasureLine
<1>2. ChainInv' /\ Queue' = Queue
  BY <1>1, Untouched
<1>3. LineSize(chain) = P!LineSize
  BY SameLine
<1>4. out' = P!Result(IF P!LineSize = 0 THEN "no_data" ELSE "ok", <<>>, P!LineSize)
  BY <1>1, <1>3 DEF Result, P!Result
<1>. QED  BY <1>1, <1>2, <1>4 DEF P!MeasureLine

-----------------------------------------------------------------------------
\* The first of the first.
LEMMA FirstOf ==
    ASSUME NEW S, NEW s \in Seq(S), NEW a \in 0 .. Len(s)
    PROVE  /\ First(s, a) \in Seq(S) /\ Len(First(s, a)) = a /\ First(s, a) = SubSeq(s, 1, a)
           /\ \A i \in 1 .. a : First(s, a)[i] = s[i]
           /\ \A b \in 0 .. a : First(First(s, a), b) = First(s, b)
<1>1. Len(s) \in Nat /\ a \in Nat /\ a <= Len(s) /\ Least(a, Len(s)) = a
  <2>1. Len(s) \in Nat
    BY LenProperties
  <2>. QED  BY <2>1 DEF Least
<1>2. First(s, a) \in Seq(S) /\ Len(First(s, a)) = a /\ \A i \in 1 .. a : First(s, a)[i] = s[i]
  BY <1>1, FirstParts
<1>3. First(s, a) = SubSeq(s, 1, a)
  BY <1>1 DEF First
<1>4. ASSUME NEW b \in 0 .. a PROVE First(First(s, a), b) = First(s, b)
  <2>. DEFINE f == First(s, a)
  <2>1. b \in Nat /\ Least(b, a) = b /\ Least(b, Len(s)) = b
    BY <1>1 DEF Least
  <2>. HIDE DEF f
  <2>2. f \in Seq(S) /\ Len(f) = a /\ \A i \in 1 .. a : f[i] = s[i]
    BY <1>2 DEF f
  <2>3. First(f, b) \in Seq(S) /\ Len(First(f, b)) = b /\ \A i \in 1 .. b : First(f, b)[i] = f[i]
    BY <2>1, <2>2, FirstParts
  <2>4. First(s, b) \in Seq(S) /\ Len(First(s, b)) = b /\ \A i \in 1 .. b : First(s, b)[i] = s[i]
    BY <2>1, FirstParts
  <2>5. ASSUME NEW i \in 1 .. b PROVE First(f, b)[i] = First(s, b)[i]
    <3>1. i \in 1 .. a
      BY <1>1, <2>1
    <3>. QED  BY <2>2, <2>3, <2>4, <3>1
  <2>6. First(f, b) = First(s, b)
    BY <2>3, <2>4, <2>5, SeqEqual
  <2>. QED  BY <2>6 DEF f
<1>. QED  BY <1>2, <1>3, <1>4

\* The size of a text without the CRs and LFs at its end.
TextSize(s) == LET I == {i \in 1 .. Len(s) : s[i] \notin {CR, LF}} IN IF I # {} THEN Max(I) ELSE 0

LEMMA TextParts ==
    ASSUME NEW S, NEW s \in Seq(S)
    PROVE  /\ TextSize(s) \in 0 .. Len(s) /\ Len(s) \in Nat
           /\ \A i \in 1 .. Len(s) : s[i] \notin {CR, LF} => i <= TextSize(s)
           /\ TextSize(s) # 0 => s[TextSize(s)] \notin {CR, LF}
<1>. DEFINE I == {i \in 1 .. Len(s) : s[i] \notin {CR, LF}}
            m == Max(I)
<1>1. Len(s) \in Nat
  BY LenProperties
<1>2. TextSize(s) = IF I # {} THEN m ELSE 0
  BY DEF TextSize
<1>3. CASE I = {}
  BY <1>1, <1>2, <1>3
<1>4. CASE I # {}
  <2>1. m \in I /\ \A i \in I : m >= i
    <3>. HIDE DEF I
    <3>1. I \in SUBSET (1 .. Len(s))
      BY DEF I
    <3>. QED  BY <1>1, <1>4, <3>1, GreatestIndex
  <2>. HIDE DEF m
  <2>2. TextSize(s) = m /\ m \in 1 .. Len(s) /\ s[m] \notin {CR, LF}
    BY <1>2, <1>4, <2>1
  <2>3. \A i \in 1 .. Len(s) : s[i] \notin {CR, LF} => i <= m
    <3>1. SUFFICES ASSUME NEW i \in 1 .. Len(s), s[i] \notin {CR, LF} PROVE i <= m
      OBVIOUS
    <3>2. i \in I
      BY <3>1
    <3>. QED  BY <1>1, <2>1, <2>2, <3>2
  <2>. QED  BY <1>1, <2>2, <2>3
<1>. QED  BY <1>3, <1>4

LEMMA StripIs ==
    /\ \A s : StripEol(s) = First(s, TextSize(s))
    /\ \A s : P!Trimmed(s) = StripEol(s)
<1>1. ASSUME NEW s PROVE StripEol(s) = First(s, TextSize(s)) /\ P!Trimmed(s) = StripEol(s)
  <2>. DEFINE I == {i \in 1 .. Len(s) : s[i] \notin {CR, LF}}
              k == IF I # {} THEN Max(I) ELSE 0
  <2>1. TextSize(s) = k
    BY DEF TextSize
  <2>2. StripEol(s) = First(s, k)
    BY DEF StripEol, SelectLastInSeq
  <2>3. P!Max(I) = Max(I)
    BY Zenon DEF P!Max, Max
  <2>4. P!Trimmed(s) = P!First(s, k)
    BY <2>3 DEF P!Trimmed, P!SelectLastInSeq, P!IsEol
  <2>5. P!First(s, k) = First(s, k)
    BY Abstract
  <2>. HIDE DEF k
  <2>. QED  BY <2>1, <2>2, <2>4, <2>5
<1>. QED  BY <1>1

\* What is left of the first bytes of a text.
LEMMA TextOfFirst ==
    ASSUME NEW S, NEW s \in Seq(S), NEW e \in 0 .. Len(s)
    PROVE  LET k == TextSize(First(s, e))
               m == TextSize(s)
           IN  /\ k \in 0 .. e /\ k <= m /\ (m <= e => k = m)
               /\ \A i \in k + 1 .. e : s[i] \in {CR, LF}
<1>. DEFINE f == First(s, e)
            k == TextSize(f)
            m == TextSize(s)
<1>1. f \in Seq(S) /\ Len(f) = e /\ \A i \in 1 .. e : f[i] = s[i]
  BY FirstOf
<1>. HIDE DEF f
<1>2. /\ k \in 0 .. e /\ e \in Nat
      /\ \A i \in 1 .. e : f[i] \notin {CR, LF} => i <= k
      /\ k # 0 => f[k] \notin {CR, LF}
  BY <1>1, TextParts
<1>3. /\ m \in 0 .. Len(s) /\ Len(s) \in Nat
      /\ \A i \in 1 .. Len(s) : s[i] \notin {CR, LF} => i <= m
      /\ m # 0 => s[m] \notin {CR, LF}
  BY TextParts
<1>. HIDE DEF k, m
<1>4. k <= m
  <2>1. CASE k = 0
    BY <1>3, <2>1
  <2>2. CASE k # 0
    <3>1. k \in 1 .. e /\ k \in 1 .. Len(s)
      BY <1>2, <1>3, <2>2
    <3>2. s[k] \notin {CR, LF}
      BY <1>1, <1>2, <2>2, <3>1
    <3>. QED  BY <1>3, <3>1, <3>2
  <2>. QED  BY <2>1, <2>2
<1>5. ASSUME m <= e PROVE k = m
  <2>1. CASE m = 0
    BY <1>2, <1>4, <2>1
  <2>2. CASE m # 0
    <3>1. m \in 1 .. e
      BY <1>2, <1>3, <1>5, <2>2
    <3>2. f[m] \notin {CR, LF}
      BY <1>1, <1>3, <2>2, <3>1
    <3>3. m <= k
      BY <1>2, <3>1, <3>2
    <3>. QED  BY <1>2, <1>3, <1>4, <3>3
  <2>. QED  BY <2>1, <2>2
<1>6. ASSUME NEW i \in k + 1 .. e PROVE s[i] \in {CR, LF}
  <2>1. i \in 1 .. e /\ ~(i <= k)
    BY <1>2
  <2>2. f[i] \in {CR, LF}
    BY <1>2, <2>1
  <2>. QED  BY <1>1, <2>1, <2>2
<1>. QED  BY <1>2, <1>4, <1>5, <1>6 DEF k, m, f

\* There is room for a NUL, if there is for anything.
LEMMA NulParts ==
    ASSUME NEW S, NEW s \in Seq(S), NEW k \in 0 .. Len(s), NEW n \in Nat
    PROVE  WithNul(First(s, k), n) = First(s, IF k # 0 /\ k = n THEN k - 1 ELSE k)
<1>. DEFINE f == First(s, k)
<1>1. f \in Seq(S) /\ Len(f) = k /\ \A b \in 0 .. k : First(f, b) = First(s, b)
  BY FirstOf
<1>2. k \in Nat
  BY LenProperties
<1>. HIDE DEF f
<1>3. f # <<>> <=> k # 0
  BY <1>1, EmptySeq
<1>4. CASE k # 0 /\ k = n
  <2>1. WithNul(f, n) = SubSeq(f, 1, k - 1)
    BY <1>1, <1>3, <1>4 DEF WithNul, Front
  <2>2. k - 1 \in 0 .. k /\ k - 1 \in 0 .. Len(f)
    BY <1>1, <1>2, <1>4
  <2>. DEFINE b == k - 1
  <2>. HIDE DEF b
  <2>3. First(f, b) = SubSeq(f, 1, b) /\ First(f, b) = First(s, b)
    BY <1>1, <2>2, FirstOf DEF b
  <2>. QED  BY <1>4, <2>1, <2>3 DEF b, f
<1>5. CASE ~(k # 0 /\ k = n)
  <2>1. WithNul(f, n) = f
    BY <1>1, <1>3, <1>5 DEF WithNul
  <2>. QED  BY <1>5, <2>1 DEF f
<1>. QED  BY <1>4, <1>5

\* A line of w bytes that is cut after e of them.
LEMMA CutLine ==
    ASSUME NEW s \in Seq(Byte), NEW w \in 0 .. Len(s), NEW n \in Nat, NEW e \in 0 .. w, e <= n,
           kind = "stream" => e = Least(n, w), NEW untrimmed \in BOOLEAN,
           NEW line, line = (IF untrimmed THEN First(s, w) ELSE StripEol(First(s, w))),
           NEW t, t = WithNul(IF untrimmed THEN First(s, e) ELSE StripEol(First(s, e)), n)
    PROVE  /\ Len(t) \in Nat
           /\ P!IsPrefix(t, line)
           /\ t # <<>> => Len(t) < n
           /\ kind = "stream" /\ Len(line) < n => t = line
           /\ kind = "stream" => \A i \in Len(t) + 1 .. Len(line) : i < n => ~untrimmed /\ line[i] \in {CR, LF}
<1>. DEFINE k == IF untrimmed THEN e ELSE TextSize(First(s, e))
            m == IF untrimmed THEN w ELSE TextSize(First(s, w))
            c == IF k # 0 /\ k = n THEN k - 1 ELSE k
<1>1. Len(s) \in Nat /\ w \in Nat /\ e \in Nat /\ e <= w /\ w <= Len(s) /\ e \in 0 .. Len(s)
  BY LenProperties
<1>2. /\ k \in 0 .. e /\ m \in 0 .. w /\ k <= m /\ (m <= e => k = m)
      /\ \A i \in k + 1 .. e : ~untrimmed /\ s[i] \in {CR, LF}
  <2>1. CASE untrimmed
    <3>1. k = e /\ m = w
      BY <2>1
    <3>. HIDE DEF k, m
    <3>. QED  BY <1>1, <3>1
  <2>2. CASE ~untrimmed
    <3>. DEFINE f == First(s, w)
    <3>1. f \in Seq(Byte) /\ Len(f) = w /\ First(f, e) = First(s, e) /\ \A i \in 1 .. w : f[i] = s[i]
      BY FirstOf
    <3>2. k = TextSize(First(f, e)) /\ m = TextSize(f)
      BY <2>2, <3>1
    <3>. HIDE DEF f, k, m
    <3>3. m \in 0 .. w
      BY <3>1, <3>2, TextParts
    <3>4. k \in 0 .. e /\ k <= m /\ (m <= e => k = m)
      BY <1>1, <3>1, <3>2, TextOfFirst
    <3>5. \A i \in k + 1 .. e : f[i] \in {CR, LF}
      BY <1>1, <3>1, <3>2, TextOfFirst
    <3>6. ASSUME NEW i \in k + 1 .. e PROVE s[i] \in {CR, LF}
      <4>1. i \in 1 .. w
        BY <1>1, <3>4
      <4>. QED  BY <3>1, <3>5, <4>1
    <3>. QED  BY <2>2, <3>3, <3>4, <3>6
  <2>. QED  BY <2>1, <2>2
<1>3. k \in 0 .. Len(s) /\ m \in 0 .. Len(s) /\ k \in Nat /\ m \in Nat
  <2>. HIDE DEF k, m
  <2>. QED  BY <1>1, <1>2
<1>4. c \in 0 .. k /\ c \in Nat /\ c <= k /\ (c = k \/ (c = k - 1 /\ k = n))
  <2>0. k \in Nat
    BY <1>3
  <2>. HIDE DEF k
  <2>1. CASE k # 0 /\ k = n
    <3>1. c = k - 1
      BY <2>1
    <3>. HIDE DEF c
    <3>. QED  BY <2>0, <2>1, <3>1
  <2>2. CASE ~(k # 0 /\ k = n)
    <3>1. c = k
      BY <2>2
    <3>. HIDE DEF c
    <3>. QED  BY <2>0, <3>1
  <2>. QED  BY <2>1, <2>2
<1>5. line = First(s, m)
  <2>1. CASE untrimmed
    BY <2>1
  <2>2. CASE ~untrimmed
    <3>. DEFINE f == First(s, w)
    <3>1. line = First(f, TextSize(f))
      BY <2>2, StripIs
    <3>2. m = TextSize(f)
      BY <2>2
    <3>3. \A b \in 0 .. w : First(f, b) = First(s, b)
      BY FirstOf
    <3>. HIDE DEF f, m
    <3>. QED  BY <1>2, <3>1, <3>2, <3>3
  <2>. QED  BY <2>1, <2>2
<1>6. t = First(s, c)
  <2>1. CASE untrimmed
    <3>1. k = e
      BY <2>1
    <3>2. t = WithNul(First(s, k), n)
      BY <2>1, <3>1
    <3>. HIDE DEF k
    <3>. QED  BY <1>3, <3>2, NulParts
  <2>2. CASE ~untrimmed
    <3>. DEFINE f == First(s, e)
    <3>1. t = WithNul(First(f, TextSize(f)), n)
      BY <2>2, StripIs
    <3>2. k = TextSize(f)
      BY <2>2
    <3>3. \A b \in 0 .. e : First(f, b) = First(s, b)
      BY <1>1, FirstOf
    <3>. HIDE DEF f, k
    <3>4. t = WithNul(First(s, k), n)
      BY <1>2, <3>1, <3>2, <3>3
    <3>. QED  BY <1>3, <3>4, NulParts
  <2>. QED  BY <2>1, <2>2
<1>. HIDE DEF k, m, c
<1>7. c \in 0 .. Len(s) /\ c \in 0 .. m
  BY <1>1, <1>2, <1>3, <1>4
<1>8. /\ t \in Seq(Byte) /\ Len(t) = c /\ t = SubSeq(s, 1, c)
      /\ \A i \in 1 .. c : t[i] = s[i]
  BY <1>6, <1>7, FirstOf
<1>9. /\ line \in Seq(Byte) /\ Len(line) = m
      /\ \A i \in 1 .. m : line[i] = s[i]
      /\ First(line, c) = First(s, c)
  BY <1>3, <1>5, <1>7, FirstOf
<1>10. P!IsPrefix(t, line)
  <2>1. First(line, c) = SubSeq(line, 1, c)
    <3>1. c \in 0 .. Len(line)
      BY <1>7, <1>9
    <3>. QED  BY <1>9, <3>1, FirstOf
  <2>2. First(t, c) = SubSeq(t, 1, c) /\ First(t, c) = t
    <3>1. c \in 0 .. Len(t)
      BY <1>4, <1>8
    <3>2. First(t, c) = SubSeq(t, 1, c)
      BY <1>8, <3>1, FirstOf
    <3>3. First(t, Len(t)) = t
      BY <1>8, FirstAll
    <3>. QED  BY <1>8, <3>2, <3>3
  <2>3. c <= m
    BY <1>7
  <2>. QED  BY <1>6, <1>8, <1>9, <2>1, <2>2, <2>3 DEF P!IsPrefix
<1>11. t # <<>> => Len(t) < n
  <2>1. SUFFICES ASSUME c # 0 PROVE c < n
    BY <1>8, EmptySeq
  <2>2. k <= n
    BY <1>1, <1>2
  <2>3. k # 0 /\ k = n => c = k - 1
    BY DEF c
  <2>. QED  BY <1>3, <1>4, <2>1, <2>2, <2>3
<1>12. ASSUME kind = "stream", m < n PROVE c = m
  <2>1. e = Least(n, w)
    BY <1>12
  <2>2. m <= e
    BY <1>1, <1>2, <1>12, <2>1 DEF Least
  <2>3. k = m
    BY <1>2, <2>2
  <2>. QED  BY <1>3, <1>4, <1>12, <2>3
<1>13. ASSUME kind = "stream", NEW i \in c + 1 .. m, i < n PROVE ~untrimmed /\ line[i] \in {CR, LF}
  <2>1. e = Least(n, w)
    BY <1>13
  <2>2. i <= e /\ i \in 1 .. m
    BY <1>1, <1>2, <1>4, <1>13, <2>1 DEF Least
  <2>3. i \in k + 1 .. e
    BY <1>1, <1>3, <1>4, <1>13, <2>2
  <2>4. ~untrimmed /\ s[i] \in {CR, LF}
    BY <1>2, <2>3
  <2>. QED  BY <1>9, <2>2, <2>4
<1>14. Len(t) \in Nat
  BY <1>4, <1>8
<1>15. kind = "stream" /\ Len(line) < n => t = line
  BY <1>5, <1>6, <1>9, <1>12
<1>16. kind = "stream" => \A i \in Len(t) + 1 .. Len(line) : i < n => ~untrimmed /\ line[i] \in {CR, LF}
  BY <1>8, <1>9, <1>13
<1>. QED  BY <1>10, <1>11, <1>14, <1>15, <1>16

\* What is copied of a line is the first bytes of it, and all that fit of a
\* line in a stream.
LEMMA CopiedLine ==
    ASSUME ChainInv, NEW end \in CopyEnds(chain), NEW n \in Nat, chain # <<>>
    PROVE  \E e \in 0 .. LineSize(chain) :
             /\ e <= n
             /\ kind = "stream" => e = Least(n, LineSize(chain))
             /\ Copied(First(chain, end), Least(n, LineSize(chain))) = First(BytesOf(All(chain)), e)
<1>. DEFINE w == LineSize(chain)
            b == BytesOf(All(chain))
            m == Least(n, w)
            p == Contents(kind, chain)[end]
            a == BytesOf(p)
            e == Least(m, Len(a))
<1>1. chain \in Seq(Items) /\ Shaped(chain) /\ kind \in {"stream", "packet"}
  BY DEF ChainInv, Shape
<1>2. Len(chain) \in Nat /\ Len(chain) # 0 /\ DOMAIN chain = 1 .. Len(chain)
  BY <1>1, LenProperties, EmptySeq
<1>3. end \in 1 .. Len(chain) /\ end \in 0 .. Len(chain) /\ (kind = "stream" => end = Len(chain))
  <2>1. end = Len(chain) \/ (end \in DOMAIN chain /\ ~Full(chain[end]))
    BY Zenon DEF CopyEnds
  <2>2. end \in DOMAIN chain => Full(chain[end]) \/ end = Len(chain) \/ kind = "packet"
    BY <1>1 DEF Shaped
  <2>3. end \in 1 .. Len(chain)
    BY <1>2, <2>1
  <2>4. kind = "stream" => end = Len(chain)
    BY <2>1, <2>2
  <2>5. end \in 0 .. Len(chain)
    BY <1>2, <2>3
  <2>. QED  BY <2>3, <2>4, <2>5
<1>4. w \in 0 .. Len(All(chain)) /\ All(chain) \in Seq(Cells) /\ Len(All(chain)) \in Nat
  BY <1>1, SameLine, AllParts
<1>5. b \in Seq(Byte) /\ Len(b) = Len(All(chain))
  BY <1>4, BytesParts
<1>. DEFINE r == All(Rest(chain, end))
<1>6. p \in Seq(Cells) /\ r \in Seq(Cells) /\ All(chain) = p \o r
  BY <1>1, <1>3, AllSplit
<1>7. First(chain, end) \in Seq(Items) /\ All(First(chain, end)) = p
  BY <1>1, <1>3, AllFirst
<1>. HIDE DEF w, r
<1>8. m \in Nat /\ m <= n /\ m <= w
  <2>1. w \in Nat
    BY <1>4
  <2>. QED  BY <2>1, LeastParts
<1>9. a \in Seq(Byte) /\ Len(a) \in Nat /\ b = a \o BytesOf(r) /\ BytesOf(r) \in Seq(Byte)
  <2>. HIDE DEF p
  <2>1. BytesOf(p \o r) = a \o BytesOf(r)
    BY <1>6, BytesConcat
  <2>2. a \in Seq(Byte) /\ BytesOf(r) \in Seq(Byte)
    BY <1>6, BytesParts
  <2>. QED  BY <1>6, <2>1, <2>2, LenProperties
<1>10. Copied(First(chain, end), m) = First(a, m)
  <2>. DEFINE d == First(chain, end)
  <2>1. d \in Seq(Items) /\ All(d) = p
    BY <1>7
  <2>. HIDE DEF d, m, p
  <2>2. Copied(d, m) = First(BytesOf(All(d)), m)
    BY <1>8, <2>1, CopiedIs
  <2>. QED  BY <2>1, <2>2 DEF d
<1>. HIDE DEF m, a, b, p
<1>11. e \in Nat /\ e <= m /\ e <= Len(a)
  BY <1>8, <1>9, LeastParts
<1>12. First(a, m) = First(b, e)
  <2>. DEFINE u == BytesOf(r)
              l == Len(a)
  <2>1. u \in Seq(Byte) /\ b = a \o u
    BY <1>9
  <2>. HIDE DEF u
  <2>2. First(a, m) = First(a, e)
    BY <1>8, <1>9, <1>11 DEF First, Least
  <2>3. First(b, e) = First(a, e) \o First(u, e - Len(First(a, e)))
    <3>1. a \in Seq(Byte) /\ e \in Nat
      BY <1>9, <1>11
    <3>. HIDE DEF e
    <3>2. First(a \o u, e) = First(a, e) \o First(u, e - Len(First(a, e)))
      BY ZenonT(30), <2>1, <3>1, FirstOfConcat
    <3>. QED  BY <2>1, <3>2
  <2>4. Len(First(a, e)) = e
    <3>1. e \in 0 .. Len(a)
      BY <1>11
    <3>. HIDE DEF e
    <3>. QED  BY <1>9, <3>1, FirstOf
  <2>5. First(u, 0) = <<>>
    BY <2>1, FirstAll
  <2>6. First(b, e) = First(a, e) \o <<>>
    <3>1. e - e = 0
      BY <1>11
    <3>. HIDE DEF e
    <3>. QED  BY <2>3, <2>4, <2>5, <3>1
  <2>7. First(a, e) \in Seq(Byte)
    BY <1>9, <1>11, FirstParts
  <2>8. First(a, e) \o <<>> = First(a, e)
    BY <2>7, ConcatEmptySeq
  <2>. QED  BY <2>2, <2>6, <2>8
<1>13. ASSUME kind = "stream" PROVE e = m
  <2>1. end = Len(chain)
    BY <1>3, <1>13
  <2>2. p = All(chain)
    BY <2>1 DEF All, p
  <2>3. a = b
    BY <2>2 DEF a, b
  <2>4. m <= Len(a)
    BY <1>4, <1>5, <1>8, <2>3
  <2>. QED  BY <1>8, <1>9, <2>4 DEF Least
<1>14. e \in 0 .. w /\ e <= n
  BY <1>4, <1>8, <1>11
<1>. HIDE DEF e
<1>. QED  BY <1>10, <1>12, <1>13, <1>14 DEF m, w, b

LEMMA LineParts ==
    ASSUME ChainInv, NEW end \in CopyEnds(chain), NEW n \in Nat, NEW untrimmed \in BOOLEAN, LineSize(chain) # 0
    PROVE  P!LineText(Line(chain, end, n, untrimmed), n, untrimmed)
<1>. DEFINE w == LineSize(chain)
            s == BytesOf(All(chain))
            t == Line(chain, end, n, untrimmed)
            line == IF untrimmed THEN First(s, w) ELSE StripEol(First(s, w))
<1>1. chain \in Seq(Items) /\ w \in 0 .. Len(All(chain)) /\ P!LineSize = w
  BY SameLine DEF ChainInv
<1>2. All(chain) \in Seq(Cells) /\ s \in Seq(Byte) /\ Len(s) = Len(All(chain))
  <2>1. All(chain) \in Seq(Cells)
    BY <1>1, AllParts
  <2>. QED  BY <2>1, BytesParts
<1>3. chain # <<>>
  <2>1. SUFFICES ASSUME chain = <<>> PROVE FALSE
    OBVIOUS
  <2>2. Len(All(chain)) = 0
    BY <2>1, AllOfNone
  <2>. QED  BY <1>1, <2>2
<1>4. PICK e \in 0 .. w : /\ e <= n
                          /\ kind = "stream" => e = Least(n, w)
                          /\ Copied(First(chain, end), Least(n, w)) = First(s, e)
  BY <1>3, CopiedLine
<1>5. t = WithNul(IF untrimmed THEN First(s, e) ELSE StripEol(First(s, e)), n)
  BY <1>4 DEF Line
<1>6. w \in 0 .. Len(s)
  BY <1>1, <1>2
<1>. HIDE DEF w, s, t
<1>7. /\ P!IsPrefix(t, line)
      /\ t # <<>> => Len(t) < n
      /\ kind = "stream" /\ Len(line) < n => t = line
  <2>. HIDE DEF line
  <2>1. line = IF untrimmed THEN First(s, w) ELSE StripEol(First(s, w))
    BY DEF line
  <2>2. P!IsPrefix(t, line)
    BY <1>2, <1>4, <1>5, <1>6, <2>1, CutLine
  <2>3. t # <<>> => Len(t) < n
    BY <1>2, <1>4, <1>5, <1>6, <2>1, CutLine
  <2>4. kind = "stream" /\ Len(line) < n => t = line
    BY <1>2, <1>4, <1>5, <1>6, <2>1, CutLine
  <2>. QED  BY <2>2, <2>3, <2>4
<1>8. kind = "stream" => \A i \in Len(t) + 1 .. Len(line) : i < n => ~untrimmed /\ line[i] \in {CR, LF}
  <2>. HIDE DEF line
  <2>1. line = IF untrimmed THEN First(s, w) ELSE StripEol(First(s, w))
    BY DEF line
  <2>. QED  BY <1>2, <1>4, <1>5, <1>6, <2>1, CutLine
<1>9. line = IF untrimmed THEN P!First(P!Bytes, P!LineSize) ELSE P!Trimmed(P!First(P!Bytes, P!LineSize))
  <2>1. P!Bytes = s
    BY Abstract DEF s
  <2>2. P!First(P!Bytes, P!LineSize) = First(s, w)
    BY <1>1, <2>1, Abstract
  <2>3. P!Trimmed(First(s, w)) = StripEol(First(s, w))
    BY StripIs
  <2>. QED  BY <2>2, <2>3
<1>. HIDE DEF line
<1>10. P!LineText(t, n, untrimmed)
  BY <1>7, <1>8, <1>9, Zenon DEF P!LineText, P!IsEol
<1>. QED  BY <1>10 DEF t

LEMMA TakeLineStep ==
    ASSUME ChainInv, NEW n \in Sizes, NEW untrimmed \in BOOLEAN, NEW peeking \in BOOLEAN,
           Gets(n, untrimmed, peeking)
    PROVE  ChainInv' /\ P!TakeLine(n, untrimmed, peeking)
<1>. DEFINE w == LineSize(chain)
<1>1. n \in Nat
  BY DataChainAssumption
<1>2. chain \in Seq(Items) /\ Shaped(chain) /\ w \in 0 .. Len(All(chain)) /\ P!LineSize = w
  BY SameLine DEF ChainInv, Shape
<1>3. kind' = kind
  BY DEF Gets
<1>4. Queue = All(chain) /\ Queue' = All(chain')
  BY <1>3, Abstract, Later
<1>5. CASE w = 0
  <2>1. out' = Result("no_data", <<>>, 0) /\ chain' = chain
    BY <1>5 DEF Gets
  <2>2. ChainInv' /\ Queue' = Queue
    BY <1>3, <2>1, Untouched
  <2>3. out' = P!Result("no_data", <<>>, 0)
    BY <2>1 DEF Result, P!Result
  <2>4. P!LineSize = 0
    BY <1>2, <1>5
  <2>. QED  BY <1>3, <2>2, <2>3, <2>4 DEF P!TakeLine
<1>6. CASE w # 0
  <2>1. /\ \E end \in CopyEnds(chain) :
             LET text == Line(chain, end, n, untrimmed)
             IN  out' = Result("ok", text, Len(text))
        /\ chain' = IF peeking THEN chain ELSE Removed(chain, w)
    BY <1>6 DEF Gets
  <2>2. PICK end \in CopyEnds(chain) :
             LET text == Line(chain, end, n, untrimmed)
             IN  out' = Result("ok", text, Len(text))
    BY <2>1
  <2>. DEFINE t == Line(chain, end, n, untrimmed)
  <2>3. P!LineText(t, n, untrimmed)
    BY <1>1, <1>6, LineParts
  <2>4. out'.rc = "ok" /\ out'.text = t /\ out'.size = Len(t)
    BY <2>2 DEF Result
  <2>5. out'.rc = "ok" /\ out'.size = Len(out'.text) /\ P!LineText(out'.text, n, untrimmed)
    <3>. HIDE DEF t
    <3>. QED  BY <2>3, <2>4
  <2>. HIDE DEF w
  <2>6. /\ chain' \in Seq(Items) /\ Shaped(chain')
        /\ Queue' = IF peeking THEN Queue ELSE P!Without(w)
    <3>1. CASE peeking
      BY <1>2, <1>4, <2>1, <3>1
    <3>2. CASE ~peeking
      <4>1. chain' = Removed(chain, w)
        BY <2>1, <3>2
      <4>2. chain' \in Seq(Items) /\ Shaped(chain') /\ All(chain') = Rest(All(chain), w)
        BY <1>2, <4>1, RemovedParts
      <4>3. P!Without(w) = Rest(All(chain), w)
        BY Abstract
      <4>. QED  BY <1>4, <3>2, <4>2, <4>3
    <3>. QED  BY <3>1, <3>2
  <2>7. ChainInv'
    BY <1>3, <2>6, Kept
  <2>8. P!LineSize # 0
    BY <1>2, <1>6
  <2>9. Queue' = IF peeking THEN Queue ELSE P!Without(P!LineSize)
    BY <1>2, <2>6
  <2>. QED  BY <1>3, <2>5, <2>7, <2>8, <2>9 DEF P!TakeLine
<1>. QED  BY <1>5, <1>6

-----------------------------------------------------------------------------
\* "The caller will not be able to retreive two chain items by a single call
\* to the extraction function" (datachain.h:64-66), and a stream gives its
\* bytes in the order in which they came: whatever is appended, read, peeked
\* at or read by the line, the chain is the queue of Parcels, in items that are
\* no more and no emptier than they must be.
LEMMA Steps ==
    ASSUME ChainInv, [Next]_vars
    PROVE  ChainInv' /\ [P!Next]_(P!vars)
<1>1. ASSUME NEW src \in Chunks, AppendData(src) PROVE ChainInv' /\ P!Next
  BY <1>1, PutStep DEF P!Next
<1>2. ASSUME NEW n \in Sizes, NEW peeking \in BOOLEAN, Extract(n, peeking) PROVE ChainInv' /\ P!Next
  BY <1>2, TakeStep DEF P!Next
<1>3. ASSUME NEW n \in Sizes, NEW untrimmed \in BOOLEAN, NEW peeking \in BOOLEAN, Gets(n, untrimmed, peeking)
      PROVE  ChainInv' /\ P!Next
  BY <1>3, TakeLineStep DEF P!Next
<1>4. ASSUME MeasureLine PROVE ChainInv' /\ P!Next
  BY <1>4, MeasureLineStep DEF P!Next
<1>5. ASSUME Measure PROVE ChainInv' /\ P!Next
  BY <1>5, MeasureStep DEF P!Next
<1>6. ASSUME UNCHANGED vars PROVE ChainInv' /\ P!vars' = P!vars
  <2>1. kind' = kind /\ chain' = chain /\ out' = out
    BY <1>6 DEF vars
  <2>2. ChainInv' /\ Queue' = Queue
    BY <2>1, Untouched
  <2>. QED  BY <2>1, <2>2 DEF P!vars
<1>. QED  BY <1>1, <1>2, <1>3, <1>4, <1>5, <1>6 DEF Next

LEMMA Starts ==
    ASSUME Init
    PROVE  ChainInv /\ P!Init
<1>1. kind \in {"stream", "packet"} /\ chain = <<>> /\ out = Nothing
  BY DEF Init
<1>2. ChainInv
  BY <1>1, AllOfNone DEF ChainInv, Shape
<1>3. Queue = <<>>
  BY <1>1, Abstract, AllOfNone
<1>4. out = P!Nothing
  BY <1>1 DEF Nothing, Result, P!Nothing, P!Result
<1>. QED  BY <1>1, <1>2, <1>3, <1>4 DEF P!Init

\* The chain keeps its shape: only the tail of a stream has room left, only
\* the head is partly read, no item is empty but one that is alone.
THEOREM ChainInvariance == Spec => []ChainInv
<1>1. Init => ChainInv
  BY Starts
<1>2. ChainInv /\ [Next]_vars => ChainInv'
  BY Steps
<1>. QED  BY <1>1, <1>2, PTL DEF Spec

THEOREM Refinement == Spec => KeepsParcels
<1>1. Init => P!Init
  BY Starts
<1>2. ChainInv /\ [Next]_vars => [P!Next]_(P!vars)
  BY Steps
<1>3. ChainInv => Shape
  BY DEF ChainInv
<1>4. Spec => []Shape
  BY <1>3, ChainInvariance, PTL
<1>5. Spec => P!Spec
  BY <1>1, <1>2, ChainInvariance, PTL DEF Spec, P!Spec
<1>. QED  BY <1>4, <1>5, PTL DEF KeepsParcels
=============================================================================

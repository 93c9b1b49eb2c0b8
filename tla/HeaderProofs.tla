----------------------------- MODULE HeaderProofs -----------------------------
(***************************************************************************)
(* Theorems about the reading of answers (Header), for every question,     *)
(* every name and all records that RFC 1035 allows, cut off anywhere:      *)
(* nothing is read behind the end, and what is found is what arrived.      *)
(*                                                                         *)
(* The argument: what arrived is a beginning of what was sent (Sent), so   *)
(* that its octets are those of the question and of the records, one       *)
(* behind the other (SentParts).  skip_name goes forward (SkipNameParts)   *)
(* and finds the end of the question, or of what arrived of it             *)
(* (QuestionSkipped); with the fields of a record its end is found, if it  *)
(* is there (FieldsAt); and a name is read as it was put, through the mark *)
(* if there is one (HostAt).  So the loop is at the record whose number it *)
(* has (InPlace), and has what those before it hold (Gathered); it ends    *)
(* behind the last one that arrived whole (EndsHere).                      *)
(***************************************************************************)
EXTENDS Header, SequenceTheorems, WellFoundedInduction, TLAPS

-----------------------------------------------------------------------------
\* Induction: a set that has zero, and the successor of each natural it has,
\* has all naturals.
LEMMA Induction ==
    ASSUME NEW T, 0 \in T, \A n \in Nat : n \in T => n + 1 \in T
    PROVE  Nat \subseteq T
<1>. DEFINE R == OpToRel(<, Nat)
            B == Nat \ T
<1>1. IsWellFoundedOn(R, Nat)
  BY NatLessThanWellFounded
<1>2. R = {ss \in Nat \X Nat : ss[1] < ss[2]}
  BY DEF OpToRel
<1>3. \A x, y \in Nat : <<x, y>> \in R <=> x < y
  BY <1>2
<1>. HIDE DEF R
<1>. SUFFICES ASSUME B # {} PROVE FALSE
  OBVIOUS
<1>4. B \in SUBSET Nat
  OBVIOUS
<1>. HIDE DEF B
<1>5. PICK k \in B : \A j \in B : ~(<<j, k>> \in R)
  BY <1>1, <1>4, WFMin
<1>6. k \in Nat /\ k \notin T
  BY <1>5 DEF B
<1>7. k # 0
  BY <1>6
<1>8. k - 1 \in Nat /\ k - 1 + 1 = k /\ k - 1 < k
  BY <1>6, <1>7
<1>9. k - 1 \notin B
  BY <1>3, <1>5, <1>6, <1>8
<1>. QED  BY <1>6, <1>8, <1>9 DEF B

-----------------------------------------------------------------------------
\* Sequences: of a beginning, of two of them, and of an element more.
Upto(s, n) == SubSeq(s, 1, n)

\* The first n elements of a sequence.
LEMMA UptoParts ==
    ASSUME NEW S, NEW s \in Seq(S), NEW n \in 0 .. Len(s)
    PROVE  /\ Upto(s, n) \in Seq(S) /\ Len(Upto(s, n)) = n
           /\ \A j \in 1 .. n : Upto(s, n)[j] = s[j]
<1>1. Len(s) \in Nat /\ n \in Nat /\ n <= Len(s)
  BY LenProperties
<1>2. \A j \in 1 .. n : s[j] \in S
  BY <1>1, ElementOfSeq
<1>3. /\ SubSeq(s, 1, n) \in Seq(S) /\ Len(SubSeq(s, 1, n)) = IF 1 <= n THEN n - 1 + 1 ELSE 0
      /\ \A j \in 1 .. n - 1 + 1 : SubSeq(s, 1, n)[j] = s[1 + j - 1]
  BY <1>1, <1>2, SubSeqProperties
<1>4. Len(SubSeq(s, 1, n)) = n
  BY <1>1, <1>3
<1>5. ASSUME NEW j \in 1 .. n PROVE SubSeq(s, 1, n)[j] = s[j]
  <2>1. j \in 1 .. n - 1 + 1 /\ 1 + j - 1 = j
    BY <1>1
  <2>. QED  BY <1>3, <2>1
<1>. QED  BY <1>3, <1>4, <1>5 DEF Upto

\* All and none of its elements.
LEMMA UptoAll ==
    ASSUME NEW S, NEW s \in Seq(S)
    PROVE  Upto(s, Len(s)) = s /\ Upto(s, 0) = <<>>
<1>1. Len(s) \in Nat /\ Len(s) \in 0 .. Len(s) /\ 0 \in 0 .. Len(s)
  BY LenProperties
<1>2. /\ Upto(s, Len(s)) \in Seq(S) /\ Len(Upto(s, Len(s))) = Len(s)
      /\ \A j \in 1 .. Len(s) : Upto(s, Len(s))[j] = s[j]
  BY <1>1, UptoParts
<1>3. Upto(s, 0) \in Seq(S) /\ Len(Upto(s, 0)) = 0
  BY <1>1, UptoParts
<1>4. Upto(s, Len(s)) = s
  BY <1>2, SeqEqual
<1>. QED  BY <1>3, <1>4, EmptySeq

\* One element more of them.
LEMMA UptoNext ==
    ASSUME NEW S, NEW s \in Seq(S), NEW n \in Nat, n < Len(s)
    PROVE  Upto(s, n + 1) = Append(Upto(s, n), s[n + 1]) /\ s[n + 1] \in S
<1>1. Len(s) \in Nat /\ n \in 0 .. Len(s) /\ n + 1 \in 0 .. Len(s) /\ n + 1 \in 1 .. Len(s)
  BY LenProperties
<1>2. s[n + 1] \in S
  BY <1>1, ElementOfSeq
<1>. DEFINE u == Upto(s, n)
            v == Upto(s, n + 1)
            w == Append(u, s[n + 1])
<1>3. u \in Seq(S) /\ Len(u) = n /\ \A j \in 1 .. n : u[j] = s[j]
  BY <1>1, UptoParts
<1>4. v \in Seq(S) /\ Len(v) = n + 1 /\ \A j \in 1 .. n + 1 : v[j] = s[j]
  BY <1>1, UptoParts
<1>5. /\ w \in Seq(S) /\ Len(w) = n + 1
      /\ \A j \in 1 .. n : w[j] = u[j]
      /\ w[n + 1] = s[n + 1]
  BY <1>2, <1>3, AppendProperties
<1>. HIDE DEF u, v, w
<1>6. ASSUME NEW j \in 1 .. n + 1 PROVE v[j] = w[j]
  <2>1. CASE j = n + 1
    BY <1>4, <1>5, <2>1
  <2>2. CASE j # n + 1
    <3>1. j \in 1 .. n
      BY <2>2
    <3>. QED  BY <1>3, <1>4, <1>5, <3>1
  <2>. QED  BY <2>1, <2>2
<1>7. v = w
  BY <1>4, <1>5, <1>6, SeqEqual
<1>. QED  BY <1>2, <1>7 DEF u, v, w

\* Where an element of two sequences comes from.
LEMMA ConcatParts ==
    ASSUME NEW S, NEW s \in Seq(S), NEW t \in Seq(S)
    PROVE  /\ s \o t \in Seq(S) /\ Len(s \o t) = Len(s) + Len(t) /\ Len(s) \in Nat /\ Len(t) \in Nat
           /\ \A j \in 1 .. Len(s) : (s \o t)[j] = s[j]
           /\ \A j \in 1 .. Len(t) : (s \o t)[Len(s) + j] = t[j]
<1>. DEFINE u == s \o t
            a == Len(s)
            b == Len(t)
<1>1. a \in Nat /\ b \in Nat
  BY LenProperties
<1>2. u \in Seq(S) /\ Len(u) = a + b /\ \A j \in 1 .. a + b : u[j] = IF j <= a THEN s[j] ELSE t[j - a]
  BY ConcatProperties
<1>. HIDE DEF u, a, b
<1>5. \A j \in 1 .. a + b : u[j] = IF j <= a THEN s[j] ELSE t[j - a]
  BY <1>2
<1>3. ASSUME NEW j \in 1 .. a PROVE u[j] = s[j]
  <2>1. j \in 1 .. a + b /\ j <= a
    BY <1>1
  <2>. QED  BY <1>2, <2>1
<1>4. ASSUME NEW j \in 1 .. b PROVE u[a + j] = t[j]
  <2>1. a + j \in 1 .. a + b /\ ~(a + j <= a) /\ a + j - a = j
    BY <1>1
  <2>2. u[a + j] = IF a + j <= a THEN s[a + j] ELSE t[a + j - a]
    BY <1>1, <1>5, <2>1
  <2>. QED  BY <2>1, <2>2
<1>. QED  BY <1>1, <1>2, <1>3, <1>4 DEF u, a, b

-----------------------------------------------------------------------------
\* FlattenSeq: what the recursion behind it gives.
Join(s, t) == s \o t

\* The recursive function that FlattenSeq is defined with does what it says.
LEMMA FlatDef ==
    ASSUME NEW S, NEW s \in Seq(Seq(S)), s # <<>>
    PROVE  \E f : /\ \A i \in 1 .. Len(s) : f[i] = IF i = 1 THEN s[i] ELSE Join(f[i - 1], s[i])
                  /\ FlattenSeq(s) = f[Len(s)]
<1>. DEFINE Is(f, n) == f = [i \in 1 .. n |-> IF i = 1 THEN s[i] ELSE Join(f[i - 1], s[i])]
            T == {n \in Nat : \E f : Is(f, n)}
<1>1. 0 \in T
  <2>1. Is([i \in 1 .. 0 |-> 0], 0)
    OBVIOUS
  <2>. QED  BY <2>1
<1>2. ASSUME NEW n \in Nat, n \in T PROVE n + 1 \in T
  <2>1. PICK f : Is(f, n)
    BY <1>2
  <2>. DEFINE g == [i \in 1 .. n + 1 |-> IF i = 1 THEN s[i] ELSE IF i = n + 1 THEN Join(f[i - 1], s[i]) ELSE f[i]]
  <2>2. Is(g, n + 1)
    BY <2>1
  <2>. HIDE DEF Is, g
  <2>3. \E h : Is(h, n + 1)
    BY <2>2, Zenon
  <2>. QED  BY <2>3
<1>. HIDE DEF Is
<1>3. Nat \subseteq T
  BY <1>1, <1>2, Induction
<1>4. \E f : Is(f, Len(s))
  BY <1>3, LenProperties
<1>. DEFINE c == CHOOSE f : Is(f, Len(s))
<1>5. Is(c, Len(s))
  BY <1>4, Zenon
<1>6. Len(s) # 0
  BY EmptySeq, LenProperties
<1>7. FlattenSeq(s) = c[Len(s)]
  BY <1>6 DEF FlattenSeq, Is, Join
<1>. HIDE DEF c
<1>8. c = [i \in 1 .. Len(s) |-> IF i = 1 THEN s[i] ELSE Join(c[i - 1], s[i])]
  BY <1>5 DEF Is
<1>9. \A i \in 1 .. Len(s) : c[i] = IF i = 1 THEN s[i] ELSE Join(c[i - 1], s[i])
  BY <1>8
<1>. QED  BY <1>7, <1>9

\* The parts of a flattened sequence that is one longer.
LEMMA FlatAppend ==
    ASSUME NEW S, NEW s \in Seq(Seq(S)), NEW x \in Seq(S), FlattenSeq(s) \in Seq(S)
    PROVE  FlattenSeq(Append(s, x)) = FlattenSeq(s) \o x
<1>. DEFINE t == Append(s, x)
            k == Len(s)
<1>1. /\ t \in Seq(Seq(S)) /\ t # <<>> /\ Len(t) = k + 1
      /\ \A i \in 1 .. k : t[i] = s[i]
      /\ t[k + 1] = x
  BY AppendProperties
<1>2. k \in Nat
  BY LenProperties
<1>. HIDE DEF t
<1>3. PICK g : /\ \A i \in 1 .. Len(t) : g[i] = IF i = 1 THEN t[i] ELSE Join(g[i - 1], t[i])
               /\ FlattenSeq(t) = g[Len(t)]
  BY <1>1, FlatDef
<1>4. CASE s = <<>>
  <2>1. k = 0 /\ FlattenSeq(s) = <<>>
    BY <1>4, EmptySeq DEF FlattenSeq
  <2>2. g[1] = x
    BY <1>1, <1>3, <2>1
  <2>3. <<>> \o x = x
    BY ConcatEmptySeq
  <2>. QED  BY <1>1, <1>3, <2>1, <2>2, <2>3 DEF t
<1>5. CASE s # <<>>
  <2>1. PICK f : /\ \A i \in 1 .. k : f[i] = IF i = 1 THEN s[i] ELSE Join(f[i - 1], s[i])
                 /\ FlattenSeq(s) = f[k]
    BY <1>5, FlatDef
  <2>2. k # 0
    BY <1>5, EmptySeq
  <2>. DEFINE T == {n \in Nat : n + 1 <= k => f[n + 1] = g[n + 1]}
  <2>. HIDE DEF k
  <2>3. 0 \in T
    BY <1>1, <1>2, <1>3, <2>1, <2>2
  <2>4. ASSUME NEW n \in Nat, n \in T PROVE n + 1 \in T
    <3>. SUFFICES ASSUME n + 1 + 1 <= k PROVE f[n + 1 + 1] = g[n + 1 + 1]
      OBVIOUS
    <3>1. /\ n + 1 + 1 \in 1 .. k /\ n + 1 + 1 \in 1 .. Len(t) /\ n + 1 + 1 # 1 /\ n + 1 + 1 - 1 = n + 1
          /\ n + 1 <= k
      BY <1>1, <1>2
    <3>2. f[n + 1 + 1] = Join(f[n + 1], s[n + 1 + 1])
      BY <2>1, <3>1
    <3>3. g[n + 1 + 1] = Join(g[n + 1], t[n + 1 + 1])
      BY <1>3, <3>1
    <3>. QED  BY <1>1, <2>4, <3>1, <3>2, <3>3
  <2>5. Nat \subseteq T
    BY <2>3, <2>4, Induction
  <2>6. k - 1 \in Nat /\ k - 1 + 1 = k
    BY <1>2, <2>2
  <2>7. f[k] = g[k]
    BY <2>5, <2>6
  <2>8. k + 1 \in 1 .. Len(t) /\ k + 1 # 1 /\ k + 1 - 1 = k
    BY <1>1, <1>2, <2>2
  <2>9. g[k + 1] = Join(g[k], t[k + 1])
    BY <1>2, <1>3, <2>8
  <2>. QED  BY <1>1, <1>3, <2>1, <2>7, <2>9 DEF t, Join
<1>. QED  BY <1>4, <1>5

\* A flattened sequence, of what its parts are of.
LEMMA FlatType ==
    ASSUME NEW S, NEW s \in Seq(Seq(S))
    PROVE  FlattenSeq(s) \in Seq(S)
<1>. DEFINE T == {n \in Nat : n <= Len(s) => FlattenSeq(Upto(s, n)) \in Seq(S)}
<1>1. 0 \in T
  <2>1. FlattenSeq(<<>>) = <<>> /\ <<>> \in Seq(S)
    BY EmptySeq DEF FlattenSeq
  <2>. QED  BY <2>1, UptoAll
<1>2. ASSUME NEW n \in Nat, n \in T PROVE n + 1 \in T
  <2>. SUFFICES ASSUME n + 1 <= Len(s) PROVE FlattenSeq(Upto(s, n + 1)) \in Seq(S)
    OBVIOUS
  <2>1. Len(s) \in Nat /\ n < Len(s) /\ n \in 0 .. Len(s)
    BY LenProperties
  <2>2. Upto(s, n + 1) = Append(Upto(s, n), s[n + 1]) /\ s[n + 1] \in Seq(S)
    BY <2>1, UptoNext
  <2>3. FlattenSeq(Upto(s, n)) \in Seq(S) /\ Upto(s, n) \in Seq(Seq(S))
    BY <1>2, <2>1, UptoParts
  <2>4. FlattenSeq(Upto(s, n + 1)) = FlattenSeq(Upto(s, n)) \o s[n + 1]
    BY <2>2, <2>3, FlatAppend
  <2>. QED  BY <2>2, <2>3, <2>4, ConcatProperties
<1>3. Nat \subseteq T
  BY <1>1, <1>2, Induction
<1>4. Len(s) \in Nat /\ Upto(s, Len(s)) = s
  BY LenProperties, UptoAll
<1>. QED  BY <1>3, <1>4

-----------------------------------------------------------------------------
\* What was sent: octets, part after part.
LEMMA Constants ==
    /\ Room \in Nat /\ IsName(Name)
    /\ \A q \in Questions : \A records \in Zones[q] :
          /\ records \in Seq(ToSet(records)) /\ Len(records) \in Nat
          /\ \A n \in 1 .. Len(records) : IsRecord(records[n])
<1>1. ASSUME NEW q \in Questions, NEW records \in Zones[q]
      PROVE  /\ records \in Seq(ToSet(records)) /\ Len(records) \in Nat
             /\ \A n \in 1 .. Len(records) : IsRecord(records[n])
  <2>1. records \in Seq(ToSet(records)) /\ \A r \in ToSet(records) : IsRecord(r)
    BY HeaderAssumption
  <2>2. Len(records) \in Nat /\ \A n \in 1 .. Len(records) : records[n] \in ToSet(records)
    BY <2>1, LenProperties, ElementOfSeq
  <2>. QED  BY <2>1, <2>2
<1>. QED  BY <1>1, HeaderAssumption

\* Two octets.
LEMMA Pair ==
    ASSUME NEW x \in Octet, NEW y \in Octet
    PROVE  <<x, y>> \in Seq(Octet) /\ Len(<<x, y>>) = 2 /\ <<x, y>>[1] = x /\ <<x, y>>[2] = y
  OBVIOUS

\* What division by 256 leaves out is the remainder.
LEMMA Quotient ==
    ASSUME NEW n \in Nat, NEW d \in Int, NEW e \in Int, d = n \div 256, e = n % 256
    PROVE  n = 256 * d + e
  BY Z3

\* A number of two octets is read as it was put.
LEMMA ShortParts ==
    ASSUME NEW n \in Number
    PROVE  /\ Short(n) \in Seq(Octet) /\ Len(Short(n)) = 2
           /\ Short(n)[1] * 256 + Short(n)[2] = n
<1>1. n \in Nat /\ n < 65536
  <2>1. n \in 0 .. Greatest16
    BY DEF Number
  <2>2. Greatest16 \in Nat /\ Greatest16 < 65536
    BY DEF Greatest16
  <2>. QED  BY <2>1, <2>2
<1>. DEFINE d == n \div 256
            e == n % 256
<1>2. e \in 0 .. 255 /\ d \in Int /\ e \in Int
  BY <1>1
<1>. HIDE DEF d, e
<1>3. n = 256 * d + e /\ e \in 0 .. 255 /\ d \in Int
  BY <1>1, <1>2, Quotient DEF d, e
<1>4. d \in 0 .. 255
  BY <1>1, <1>3
<1>5. Short(n) = <<d, e>> /\ d \in Octet /\ e \in Octet
  BY <1>3, <1>4 DEF Short, d, e, Octet
<1>6. Short(n) \in Seq(Octet) /\ Len(Short(n)) = 2 /\ Short(n)[1] = d /\ Short(n)[2] = e
  BY <1>5, Pair
<1>. QED  BY <1>1, <1>3, <1>4, <1>6

\* A label with its length.
Part(label) == <<Len(label)>> \o label

\* A label is one of octets.
LEMMA LabelOctets ==
    ASSUME NEW label \in Label
    PROVE  label \in Seq(Octet) /\ Len(label) \in 1 .. 63
<1>1. label \in Seq(Octet \ {0, 46}) /\ Len(label) \in 1 .. 63
  BY DEF Label
<1>2. PICK n \in Nat : label \in [1 .. n -> Octet \ {0, 46}]
  BY <1>1, SeqDef
<1>3. label \in [1 .. n -> Octet]
  BY <1>2
<1>4. label \in Seq(Octet)
  BY <1>3, SeqDef
<1>. QED  BY <1>1, <1>4

\* A label with its length.
LEMMA PartParts ==
    ASSUME NEW label \in Label
    PROVE  /\ Part(label) \in Seq(Octet) /\ Len(Part(label)) = Len(label) + 1 /\ Len(label) \in 1 .. 63
           /\ Part(label)[1] = Len(label)
           /\ \A j \in 1 .. Len(label) : Part(label)[j + 1] = label[j]
<1>1. label \in Seq(Octet) /\ Len(label) \in 1 .. 63
  BY LabelOctets
<1>2. <<Len(label)>> \in Seq(Octet) /\ Len(<<Len(label)>>) = 1 /\ <<Len(label)>>[1] = Len(label)
  BY <1>1 DEF Octet
<1>3. /\ Part(label) \in Seq(Octet) /\ Len(Part(label)) = 1 + Len(label)
      /\ \A j \in 1 .. 1 : Part(label)[j] = <<Len(label)>>[j]
      /\ \A j \in 1 .. Len(label) : Part(label)[1 + j] = label[j]
  BY <1>1, <1>2, ConcatParts DEF Part
<1>4. Part(label)[1] = Len(label)
  BY <1>2, <1>3
<1>5. ASSUME NEW j \in 1 .. Len(label) PROVE Part(label)[j + 1] = label[j]
  <2>1. 1 + j = j + 1
    BY <1>1
  <2>. QED  BY <1>3, <2>1
<1>6. Len(Part(label)) = Len(label) + 1
  BY <1>1, <1>3
<1>. QED  BY <1>1, <1>3, <1>4, <1>5, <1>6

\* The parts of a name, up to the n-th.
Parts(name) == [i \in DOMAIN name |-> Part(name[i])]
Body(name, n) == FlattenSeq(Upto(Parts(name), n))

\* The labels of a name with their lengths.
LEMMA PartsOf ==
    ASSUME NEW name \in Seq(Label)
    PROVE  /\ Parts(name) \in Seq(Seq(Octet)) /\ Len(Parts(name)) = Len(name) /\ Len(name) \in Nat
           /\ \A i \in 1 .. Len(name) : Parts(name)[i] = Part(name[i]) /\ name[i] \in Label
<1>1. DOMAIN name = 1 .. Len(name) /\ Len(name) \in Nat
  BY LenProperties
<1>2. \A i \in 1 .. Len(name) : name[i] \in Label
  BY ElementOfSeq
<1>3. \A i \in 1 .. Len(name) : Part(name[i]) \in Seq(Octet)
  BY <1>2, PartParts
<1>4. Parts(name) \in [1 .. Len(name) -> Seq(Octet)]
  BY <1>1, <1>3 DEF Parts
<1>5. Parts(name) \in Seq(Seq(Octet))
  BY <1>1, <1>4
<1>6. Len(Parts(name)) = Len(name)
  BY <1>1, <1>4, <1>5
<1>. QED  BY <1>1, <1>2, <1>5, <1>6 DEF Parts

\* Each part goes behind those before it.
LEMMA BodyParts ==
    ASSUME NEW name \in Seq(Label)
    PROVE  /\ \A n \in 0 .. Len(name) : Body(name, n) \in Seq(Octet) /\ Len(Body(name, n)) \in Nat
           /\ Body(name, 0) = <<>>
           /\ \A n \in 0 .. Len(name) - 1 : Body(name, n + 1) = Body(name, n) \o Part(name[n + 1])
           /\ Put(name) = Body(name, Len(name)) \o <<0>>
<1>1. /\ Parts(name) \in Seq(Seq(Octet)) /\ Len(Parts(name)) = Len(name) /\ Len(name) \in Nat
      /\ \A i \in 1 .. Len(name) : Parts(name)[i] = Part(name[i])
  BY PartsOf
<1>2. ASSUME NEW n \in 0 .. Len(name)
      PROVE  Body(name, n) \in Seq(Octet) /\ Len(Body(name, n)) \in Nat
  <2>1. Upto(Parts(name), n) \in Seq(Seq(Octet))
    BY <1>1, UptoParts
  <2>2. Body(name, n) \in Seq(Octet)
    BY <2>1, FlatType DEF Body
  <2>. QED  BY <2>2, LenProperties
<1>3. Body(name, 0) = <<>>
  BY <1>1, UptoAll, EmptySeq DEF Body, FlattenSeq
<1>4. ASSUME NEW n \in 0 .. Len(name) - 1
      PROVE  Body(name, n + 1) = Body(name, n) \o Part(name[n + 1])
  <2>1. n \in Nat /\ n < Len(Parts(name)) /\ n \in 0 .. Len(Parts(name)) /\ n + 1 \in 1 .. Len(name)
    BY <1>1
  <2>2. /\ Upto(Parts(name), n + 1) = Append(Upto(Parts(name), n), Parts(name)[n + 1])
        /\ Parts(name)[n + 1] \in Seq(Octet)
    BY <1>1, <2>1, UptoNext
  <2>3. Upto(Parts(name), n) \in Seq(Seq(Octet))
    BY <1>1, <2>1, UptoParts
  <2>4. FlattenSeq(Upto(Parts(name), n)) \in Seq(Octet)
    BY <2>3, FlatType
  <2>5. FlattenSeq(Upto(Parts(name), n + 1)) = FlattenSeq(Upto(Parts(name), n)) \o Parts(name)[n + 1]
    BY <2>2, <2>3, <2>4, FlatAppend
  <2>. QED  BY <1>1, <2>1, <2>5 DEF Body
<1>5. Put(name) = Body(name, Len(name)) \o <<0>>
  <2>1. Upto(Parts(name), Len(name)) = Parts(name)
    BY <1>1, UptoAll
  <2>. QED  BY <2>1 DEF Put, Body, Parts, Part
<1>. QED  BY <1>2, <1>3, <1>4, <1>5

\* Where the n-th part begins, and what is there.
LEMMA PutParts ==
    ASSUME NEW name \in Seq(Label)
    PROVE  /\ Put(name) \in Seq(Octet) /\ Len(Put(name)) = Len(Body(name, Len(name))) + 1
           /\ Put(name)[Len(Put(name))] = 0
           /\ \A n \in 0 .. Len(name) : /\ Len(Body(name, n)) < Len(Put(name))
                                        /\ Len(Body(name, n)) >= n
           /\ \A n \in 0 .. Len(name) - 1 :
                 /\ Len(Body(name, n + 1)) = Len(Body(name, n)) + 1 + Len(name[n + 1])
                 /\ Put(name)[Len(Body(name, n)) + 1] = Len(name[n + 1])
                 /\ \A j \in 1 .. Len(name[n + 1]) : Put(name)[Len(Body(name, n)) + 1 + j] = name[n + 1][j]
<1>. DEFINE B(n) == Body(name, n)
            L == Len(name)
            p == Put(name)
<1>1. /\ \A n \in 0 .. L : B(n) \in Seq(Octet) /\ Len(B(n)) \in Nat
      /\ B(0) = <<>>
      /\ \A n \in 0 .. L - 1 : B(n + 1) = B(n) \o Part(name[n + 1])
      /\ p = B(L) \o <<0>>
  BY BodyParts
<1>2. L \in Nat /\ \A n \in 0 .. L - 1 : name[n + 1] \in Label
  <2>1. L \in Nat /\ \A i \in 1 .. L : name[i] \in Label
    BY PartsOf
  <2>2. \A n \in 0 .. L - 1 : n + 1 \in 1 .. L
    BY <2>1
  <2>. QED  BY <2>1, <2>2
<1>. HIDE DEF B, L, p
<1>3. ASSUME NEW n \in 0 .. L - 1
      PROVE  /\ Len(B(n + 1)) = Len(B(n)) + 1 + Len(name[n + 1]) /\ Len(name[n + 1]) \in 1 .. 63
             /\ \A j \in 1 .. Len(B(n)) : B(n + 1)[j] = B(n)[j]
             /\ B(n + 1)[Len(B(n)) + 1] = Len(name[n + 1])
             /\ \A j \in 1 .. Len(name[n + 1]) : B(n + 1)[Len(B(n)) + 1 + j] = name[n + 1][j]
  <2>. DEFINE l == name[n + 1]
              q == Part(l)
  <2>1. n \in 0 .. L /\ n + 1 \in 0 .. L /\ l \in Label
    BY <1>2
  <2>2. B(n) \in Seq(Octet) /\ Len(B(n)) \in Nat /\ B(n + 1) = B(n) \o q
    BY <1>1, <2>1
  <2>3. /\ q \in Seq(Octet) /\ Len(q) = Len(l) + 1 /\ Len(l) \in 1 .. 63 /\ q[1] = Len(l)
        /\ \A j \in 1 .. Len(l) : q[j + 1] = l[j]
    BY <2>1, PartParts
  <2>. HIDE DEF l, q
  <2>4. /\ Len(B(n + 1)) = Len(B(n)) + Len(q)
        /\ \A j \in 1 .. Len(B(n)) : B(n + 1)[j] = B(n)[j]
        /\ \A j \in 1 .. Len(q) : B(n + 1)[Len(B(n)) + j] = q[j]
    BY <2>2, <2>3, ConcatParts
  <2>5. ASSUME NEW j \in 1 .. Len(l) PROVE B(n + 1)[Len(B(n)) + 1 + j] = l[j]
    <3>1. j + 1 \in 1 .. Len(q) /\ Len(B(n)) + (j + 1) = Len(B(n)) + 1 + j
      BY <2>2, <2>3
    <3>2. B(n + 1)[Len(B(n)) + (j + 1)] = q[j + 1]
      BY <2>4, <3>1
    <3>. QED  BY <2>3, <3>1, <3>2
  <2>6. 1 \in 1 .. Len(q)
    BY <2>3
  <2>7. Len(B(n + 1)) = Len(B(n)) + 1 + Len(l)
    BY <2>2, <2>3, <2>4
  <2>. QED  BY <2>3, <2>4, <2>5, <2>6, <2>7 DEF l
<1>4. /\ p \in Seq(Octet) /\ Len(p) = Len(B(L)) + 1 /\ p[Len(p)] = 0
      /\ \A j \in 1 .. Len(B(L)) : p[j] = B(L)[j]
  <2>1. <<0>> \in Seq(Octet) /\ Len(<<0>>) = 1 /\ <<0>>[1] = 0
    BY DEF Octet
  <2>2. B(L) \in Seq(Octet) /\ Len(B(L)) \in Nat
    BY <1>1, <1>2
  <2>3. /\ p \in Seq(Octet) /\ Len(p) = Len(B(L)) + 1
        /\ \A j \in 1 .. Len(B(L)) : p[j] = B(L)[j]
        /\ \A j \in 1 .. 1 : p[Len(B(L)) + j] = <<0>>[j]
    BY <1>1, <2>1, <2>2, ConcatParts
  <2>4. p[Len(B(L)) + 1] = 0
    BY <2>1, <2>3
  <2>. QED  BY <2>3, <2>4
\* Downward from L: what B(n) holds is there in p.
<1>5. \A n \in 0 .. L : Len(B(n)) <= Len(B(L)) /\ \A j \in 1 .. Len(B(n)) : p[j] = B(n)[j]
  <2>. DEFINE T == {d \in Nat : d <= L =>
                     /\ Len(B(L - d)) <= Len(B(L))
                     /\ \A j \in 1 .. Len(B(L - d)) : p[j] = B(L - d)[j]}
  <2>1. 0 \in T
    <3>1. L - 0 = L /\ L \in 0 .. L
      BY <1>2
    <3>. QED  BY <1>1, <1>4, <3>1
  <2>2. ASSUME NEW d \in Nat, d \in T PROVE d + 1 \in T
    <3>. SUFFICES ASSUME d + 1 <= L
                  PROVE  /\ Len(B(L - (d + 1))) <= Len(B(L))
                         /\ \A j \in 1 .. Len(B(L - (d + 1))) : p[j] = B(L - (d + 1))[j]
      OBVIOUS
    <3>. DEFINE n == L - (d + 1)
    <3>1. n \in 0 .. L - 1 /\ n + 1 = L - d /\ n \in 0 .. L /\ n + 1 \in 0 .. L /\ d <= L
      BY <1>2
    <3>2. Len(B(n + 1)) <= Len(B(L)) /\ \A j \in 1 .. Len(B(n + 1)) : p[j] = B(n + 1)[j]
      BY <2>2, <3>1
    <3>. HIDE DEF n
    <3>3. /\ Len(B(n + 1)) = Len(B(n)) + 1 + Len(name[n + 1]) /\ Len(name[n + 1]) \in 1 .. 63
          /\ \A j \in 1 .. Len(B(n)) : B(n + 1)[j] = B(n)[j]
      BY <1>3, <3>1
    <3>4. Len(B(n)) \in Nat /\ Len(B(n + 1)) \in Nat /\ Len(B(L)) \in Nat
      BY <1>1, <1>2, <3>1
    <3>5. Len(B(n)) <= Len(B(L)) /\ Len(B(n)) <= Len(B(n + 1))
      <4>. DEFINE x == Len(B(n))
                  y == Len(B(n + 1))
                  z == Len(B(L))
                  w == Len(name[n + 1])
      <4>1. x \in Nat /\ y \in Nat /\ z \in Nat /\ w \in 1 .. 63 /\ y <= z /\ y = x + 1 + w
        BY <3>2, <3>3, <3>4
      <4>. HIDE DEF x, y, z, w
      <4>2. x <= z /\ x <= y
        BY <4>1
      <4>. QED  BY <4>2 DEF x, y, z
    <3>6. ASSUME NEW j \in 1 .. Len(B(n)) PROVE p[j] = B(n)[j]
      BY <3>2, <3>3, <3>4, <3>5
    <3>. QED  BY <3>5, <3>6 DEF n
  <2>. HIDE DEF T
  <2>3. Nat \subseteq T
    BY <2>1, <2>2, Induction
  <2>4. ASSUME NEW n \in 0 .. L
        PROVE  Len(B(n)) <= Len(B(L)) /\ \A j \in 1 .. Len(B(n)) : p[j] = B(n)[j]
    <3>1. L - n \in Nat /\ L - n <= L /\ L - (L - n) = n
      BY <1>2
    <3>2. L - n \in T
      BY <2>3, <3>1
    <3>. QED  BY <3>1, <3>2 DEF T
  <2>. QED  BY <2>4
<1>6. \A n \in 0 .. L : Len(B(n)) >= n
  <2>. DEFINE T == {n \in Nat : n <= L => Len(B(n)) >= n}
  <2>1. 0 \in T
    BY <1>1, <1>2
  <2>2. ASSUME NEW n \in Nat, n \in T PROVE n + 1 \in T
    <3>. SUFFICES ASSUME n + 1 <= L PROVE Len(B(n + 1)) >= n + 1
      OBVIOUS
    <3>1. n \in 0 .. L - 1 /\ n \in 0 .. L /\ n <= L
      BY <1>2
    <3>2. Len(B(n + 1)) = Len(B(n)) + 1 + Len(name[n + 1]) /\ Len(name[n + 1]) \in 1 .. 63
      BY <1>3, <3>1
    <3>3. Len(B(n)) \in Nat /\ Len(B(n)) >= n
      BY <1>1, <2>2, <3>1
    <3>. DEFINE x == Len(B(n))
                y == Len(B(n + 1))
                w == Len(name[n + 1])
    <3>4. x \in Nat /\ w \in 1 .. 63 /\ y = x + 1 + w /\ x >= n
      BY <3>2, <3>3
    <3>. HIDE DEF x, y, w
    <3>5. y >= n + 1
      BY <3>4
    <3>. QED  BY <3>5 DEF y
  <2>. HIDE DEF T
  <2>3. Nat \subseteq T
    BY <2>1, <2>2, Induction
  <2>. QED  BY <1>2, <2>3 DEF T
<1>7. ASSUME NEW n \in 0 .. L PROVE Len(B(n)) < Len(p) /\ Len(B(n)) >= n
  BY <1>1, <1>2, <1>4, <1>5, <1>6
<1>8. ASSUME NEW n \in 0 .. L - 1
      PROVE  /\ Len(B(n + 1)) = Len(B(n)) + 1 + Len(name[n + 1])
             /\ p[Len(B(n)) + 1] = Len(name[n + 1])
             /\ \A j \in 1 .. Len(name[n + 1]) : p[Len(B(n)) + 1 + j] = name[n + 1][j]
  <2>1. n + 1 \in 0 .. L /\ n \in 0 .. L
    BY <1>2
  <2>2. \A j \in 1 .. Len(B(n + 1)) : p[j] = B(n + 1)[j]
    BY <1>5, <2>1
  <2>3. Len(B(n)) \in Nat /\ Len(B(n + 1)) = Len(B(n)) + 1 + Len(name[n + 1]) /\ Len(name[n + 1]) \in 1 .. 63
    BY <1>1, <1>3, <2>1
  <2>4. /\ Len(B(n)) + 1 \in 1 .. Len(B(n + 1))
        /\ \A j \in 1 .. Len(name[n + 1]) : Len(B(n)) + 1 + j \in 1 .. Len(B(n + 1))
    <3>. DEFINE x == Len(B(n))
                y == Len(B(n + 1))
                w == Len(name[n + 1])
    <3>1. x \in Nat /\ w \in 1 .. 63 /\ y = x + 1 + w
      BY <2>3
    <3>. HIDE DEF x, y, w
    <3>2. x + 1 \in 1 .. y /\ \A j \in 1 .. w : x + 1 + j \in 1 .. y
      BY <3>1
    <3>. QED  BY <3>2 DEF x, y, w
  <2>. QED  BY <1>3, <2>2, <2>3, <2>4
<1>. QED  BY <1>4, <1>7, <1>8 DEF B, L, p

-----------------------------------------------------------------------------
\* Names as they are sent.
LEMMA NameParts ==
    ASSUME NEW name, IsName(name)
    PROVE  /\ name \in Seq(Label) /\ Put(name) \in Seq(Octet)
           /\ Len(Put(name)) \in 1 .. 255 /\ Len(name) \in Nat /\ Len(name) + 1 <= Len(Put(name))
<1>1. name \in Seq(Label) /\ Len(Put(name)) <= 255
  BY DEF IsName
<1>2. Len(name) \in Nat /\ Len(name) \in 0 .. Len(name)
  BY <1>1, LenProperties
<1>3. Put(name) \in Seq(Octet)
  BY <1>1, PutParts
<1>4. Len(Body(name, Len(name))) < Len(Put(name)) /\ Len(Body(name, Len(name))) >= Len(name)
  BY <1>1, <1>2, PutParts
<1>5. Len(Body(name, Len(name))) \in Nat /\ Len(Put(name)) \in Nat
  BY <1>1, <1>2, <1>3, BodyParts, LenProperties
<1>. DEFINE b == Len(Body(name, Len(name)))
            p == Len(Put(name))
            n == Len(name)
<1>6. b \in Nat /\ p \in Nat /\ n \in Nat /\ p <= 255 /\ b < p /\ b >= n
  BY <1>1, <1>2, <1>4, <1>5
<1>. HIDE DEF b, p, n
<1>7. p \in 1 .. 255 /\ n + 1 <= p
  BY <1>6
<1>. QED  BY <1>1, <1>2, <1>3, <1>7 DEF p, n

\* Octets behind octets.
LEMMA Concat ==
    ASSUME NEW s \in Seq(Octet), NEW t \in Seq(Octet)
    PROVE  /\ s \o t \in Seq(Octet) /\ Len(s \o t) = Len(s) + Len(t)
           /\ \A j \in 1 .. Len(s) : (s \o t)[j] = s[j]
           /\ \A j \in 1 .. Len(t) : (s \o t)[Len(s) + j] = t[j]
BY ConcatParts

\* The mark that stands for the question.
LEMMA RepeatParts == Repeat \in Seq(Octet) /\ Len(Repeat) = 2 /\ Repeat[1] = 192 /\ Repeat[2] = 12
<1>1. 192 \in Octet /\ 12 \in Octet
  BY DEF Octet
<1>. QED  BY <1>1, Pair DEF Repeat

\* The range up to a number.
LEMMA Between == ASSUME NEW n \in Nat, NEW x \in Int, 0 <= x, x <= n PROVE x \in 0 .. n
  OBVIOUS

\* Short lengths fit into two octets.
LEMMA Small == ASSUME NEW k \in 1 .. 255 PROVE k \in Number /\ 6 + k \in Number
<1>1. k \in Int /\ 0 <= k /\ k <= Greatest16 /\ 6 + k \in Int /\ 0 <= 6 + k /\ 6 + k <= Greatest16
  BY DEF Greatest16
<1>2. Greatest16 \in Nat
  BY DEF Greatest16
<1>. QED  BY <1>1, <1>2, Between DEF Number

\* The three ways to send a name.
IsRest(name) == name # Name /\ name # <<>> /\ Tail(name) = Name

\* Which of the three ways is taken.
LEMMA CompressedForms ==
    ASSUME NEW name, IsName(name)
    PROVE  /\ name = Name => Compressed(name) = Repeat
           /\ IsRest(name) => /\ Compressed(name) = Part(name[1]) \o Repeat
                              /\ name[1] \in Label /\ name = <<name[1]>> \o Name
           /\ name # Name /\ ~IsRest(name) => Compressed(name) = Put(name)
<1>1. ASSUME IsRest(name)
      PROVE  /\ Compressed(name) = Part(name[1]) \o Repeat
             /\ name[1] \in Label /\ name = <<name[1]>> \o Name
  <2>1. name \in Seq(Label) /\ name # <<>> /\ Tail(name) = Name /\ name # Name
    BY <1>1 DEF IsName, IsRest
  <2>2. Len(name) \in Nat /\ Len(name) # 0
    BY <2>1, EmptySeq, LenProperties
  <2>3. name[1] \in Label
    BY <2>1, <2>2, ElementOfSeq
  <2>4. name = <<name[1]>> \o Tail(name)
    <3>. DEFINE t == Tail(name)
                c == <<name[1]>> \o t
    <3>1. t \in Seq(Label) /\ Len(t) = Len(name) - 1 /\ \A i \in 1 .. Len(t) : t[i] = name[i + 1]
      BY <2>1, <2>2
    <3>2. <<name[1]>> \in Seq(Label) /\ Len(<<name[1]>>) = 1 /\ <<name[1]>>[1] = name[1]
      BY <2>3
    <3>3. /\ c \in Seq(Label) /\ Len(c) = 1 + Len(t)
          /\ \A j \in 1 .. 1 : c[j] = <<name[1]>>[j]
          /\ \A j \in 1 .. Len(t) : c[1 + j] = t[j]
      <4>. HIDE DEF t
      <4>1. /\ c \in Seq(Label) /\ Len(c) = Len(<<name[1]>>) + Len(t)
            /\ \A j \in 1 .. Len(<<name[1]>>) : c[j] = <<name[1]>>[j]
            /\ \A j \in 1 .. Len(t) : c[Len(<<name[1]>>) + j] = t[j]
        BY <3>1, <3>2, Concat
      <4>. HIDE DEF c
      <4>. QED  BY <3>2, <4>1
    <3>. HIDE DEF t, c
    <3>4. Len(c) = Len(name)
      BY <2>2, <3>1, <3>3
    <3>5. ASSUME NEW j \in 1 .. Len(name) PROVE c[j] = name[j]
      <4>1. CASE j = 1
        BY <3>2, <3>3, <4>1
      <4>2. CASE j # 1
        <5>1. j - 1 \in 1 .. Len(t) /\ 1 + (j - 1) = j /\ (j - 1) + 1 = j
          BY <2>2, <3>1, <4>2
        <5>2. c[1 + (j - 1)] = t[j - 1] /\ t[j - 1] = name[(j - 1) + 1]
          BY <3>1, <3>3, <5>1
        <5>. QED  BY <5>1, <5>2
      <4>. QED  BY <4>1, <4>2
    <3>6. c = name
      BY <2>1, <3>3, <3>4, <3>5, SeqEqual
    <3>. QED  BY <3>6 DEF c, t
  <2>. QED  BY <2>1, <2>3, <2>4 DEF Compressed, Part
<1>2. name = Name => Compressed(name) = Repeat
  BY DEF Compressed
<1>3. name # Name /\ ~IsRest(name) => Compressed(name) = Put(name)
  BY DEF Compressed, IsRest
<1>. QED  BY <1>1, <1>2, <1>3

\* A name is sent in at most 255 octets, whichever way.
LEMMA CompressedParts ==
    ASSUME NEW name, IsName(name)
    PROVE  Compressed(name) \in Seq(Octet) /\ Len(Compressed(name)) \in 1 .. 255
<1>1. CASE name = Name
  <2>1. Compressed(name) = Repeat
    BY <1>1, CompressedForms
  <2>. QED  BY <2>1, RepeatParts
<1>2. CASE IsRest(name)
  <2>1. Compressed(name) = Part(name[1]) \o Repeat /\ name[1] \in Label
    BY <1>2, CompressedForms
  <2>. DEFINE q == Part(name[1])
  <2>2. q \in Seq(Octet) /\ Len(q) = Len(name[1]) + 1 /\ Len(name[1]) \in 1 .. 63
    BY <2>1, PartParts
  <2>. HIDE DEF q
  <2>3. q \o Repeat \in Seq(Octet) /\ Len(q \o Repeat) = Len(q) + Len(Repeat)
    <3>1. q \in Seq(Octet) /\ Repeat \in Seq(Octet)
      BY <2>2, RepeatParts
    <3>. QED  BY <3>1, Concat
  <2>4. Len(q \o Repeat) \in 1 .. 255
    <3>. DEFINE n == Len(q \o Repeat)
                k == Len(name[1])
    <3>1. n = k + 1 + 2 /\ k \in 1 .. 63
      BY <2>2, <2>3, RepeatParts
    <3>. HIDE DEF n, k
    <3>2. n \in 1 .. 255
      BY <3>1
    <3>. QED  BY <3>2 DEF n
  <2>. QED  BY <2>1, <2>3, <2>4 DEF q
<1>3. CASE name # Name /\ ~IsRest(name)
  BY <1>3, CompressedForms, NameParts
<1>. QED  BY <1>1, <1>2, <1>3

\* What a record holds.
LEMMA DataParts ==
    ASSUME NEW r, IsRecord(r)
    PROVE  /\ Data(r) \in Seq(Octet) /\ Len(Data(r)) \in Number
           /\ r.type \in Number /\ r.class \in Number
           /\ r.type = TYPE_A => Data(r) = r.addr /\ (r.class = CLASS_IN => Len(r.addr) = 4)
           /\ r.type # TYPE_A => IsName(r.host)
           /\ r.type # TYPE_A /\ r.type # TYPE_SRV => Data(r) = Compressed(r.host)
           /\ r.type = TYPE_SRV =>
                 /\ Len(Data(r)) = 6 + Len(Compressed(r.host))
                 /\ Data(r)[1] * 256 + Data(r)[2] = r.priority
                 /\ Data(r)[3] * 256 + Data(r)[4] = r.weight
                 /\ Data(r)[5] * 256 + Data(r)[6] = r.port
                 /\ \A j \in 1 .. Len(Compressed(r.host)) : Data(r)[6 + j] = Compressed(r.host)[j]
<1>1. r.type \in Number /\ r.class \in Number
  BY DEF IsRecord
<1>2. CASE r.type = TYPE_A
  <2>1. r.addr \in Seq(Octet) /\ Len(r.addr) \in Number /\ (r.class = CLASS_IN => Len(r.addr) = 4)
    BY <1>2 DEF IsRecord
  <2>. QED  BY <1>1, <1>2, <2>1 DEF Data, TYPE_A, TYPE_SRV
<1>3. CASE r.type # TYPE_A /\ r.type # TYPE_SRV
  <2>1. IsName(r.host) /\ Data(r) = Compressed(r.host)
    BY <1>3 DEF IsRecord, Data
  <2>2. Compressed(r.host) \in Seq(Octet) /\ Len(Compressed(r.host)) \in 1 .. 255
    BY <2>1, CompressedParts
  <2>3. Len(Compressed(r.host)) \in Number
    BY <2>2, Small
  <2>. QED  BY <1>1, <1>3, <2>1, <2>2, <2>3
<1>4. CASE r.type = TYPE_SRV
  <2>. DEFINE a == Short(r.priority)
              b == Short(r.weight)
              c == Short(r.port)
              d == Compressed(r.host)
              ab == a \o b
              abc == ab \o c
              all == abc \o d
  <2>1. r.type # TYPE_A
    BY <1>4 DEF TYPE_A, TYPE_SRV
  <2>2. IsName(r.host) /\ Data(r) = all
    BY <1>4, <2>1 DEF IsRecord, Data
  <2>3. r.priority \in Number /\ r.weight \in Number /\ r.port \in Number
    BY <1>4 DEF IsRecord
  <2>4. /\ a \in Seq(Octet) /\ Len(a) = 2 /\ a[1] * 256 + a[2] = r.priority
        /\ b \in Seq(Octet) /\ Len(b) = 2 /\ b[1] * 256 + b[2] = r.weight
        /\ c \in Seq(Octet) /\ Len(c) = 2 /\ c[1] * 256 + c[2] = r.port
    BY <2>3, ShortParts
  <2>5. d \in Seq(Octet) /\ Len(d) \in 1 .. 255
    BY <2>2, CompressedParts
  <2>. HIDE DEF a, b, c, d
  <2>6. /\ ab \in Seq(Octet) /\ Len(ab) = Len(a) + Len(b)
        /\ \A j \in 1 .. Len(a) : ab[j] = a[j]
        /\ \A j \in 1 .. Len(b) : ab[Len(a) + j] = b[j]
    BY <2>4, Concat
  <2>. HIDE DEF ab
  <2>7. Len(ab) = 4 /\ ab[1] = a[1] /\ ab[2] = a[2] /\ ab[3] = b[1] /\ ab[4] = b[2]
    BY <2>4, <2>6
  <2>8. /\ abc \in Seq(Octet) /\ Len(abc) = Len(ab) + Len(c)
        /\ \A j \in 1 .. Len(ab) : abc[j] = ab[j]
        /\ \A j \in 1 .. Len(c) : abc[Len(ab) + j] = c[j]
    <3>1. ab \in Seq(Octet) /\ c \in Seq(Octet)
      BY <2>4, <2>6
    <3>. QED  BY <3>1, Concat
  <2>. HIDE DEF abc
  <2>9. /\ Len(abc) = 6 /\ abc[1] = a[1] /\ abc[2] = a[2] /\ abc[3] = b[1] /\ abc[4] = b[2]
        /\ abc[5] = c[1] /\ abc[6] = c[2]
    BY <2>4, <2>7, <2>8
  <2>10. /\ all \in Seq(Octet) /\ Len(all) = Len(abc) + Len(d)
         /\ \A j \in 1 .. Len(abc) : all[j] = abc[j]
         /\ \A j \in 1 .. Len(d) : all[Len(abc) + j] = d[j]
    <3>1. abc \in Seq(Octet) /\ d \in Seq(Octet)
      BY <2>5, <2>8
    <3>. QED  BY <3>1, Concat
  <2>. HIDE DEF all
  <2>11. /\ Len(all) = 6 + Len(d) /\ all[1] = a[1] /\ all[2] = a[2] /\ all[3] = b[1] /\ all[4] = b[2]
         /\ all[5] = c[1] /\ all[6] = c[2]
         /\ \A j \in 1 .. Len(d) : all[6 + j] = d[j]
    BY <2>9, <2>10
  <2>12. Len(all) \in Number
    <3>1. Len(all) = 6 + Len(d) /\ Len(d) \in 1 .. 255
      BY <2>5, <2>11
    <3>. QED  BY <3>1, Small
  <2>. QED  BY <1>1, <1>4, <2>1, <2>2, <2>4, <2>10, <2>11, <2>12 DEF d
<1>. QED  BY <1>2, <1>3, <1>4

\* Where the fields of a record are, and its data behind them.
LEMMA RecordParts ==
    ASSUME NEW r, IsRecord(r)
    PROVE  /\ Record(r) \in Seq(Octet) /\ Len(Record(r)) = 12 + Len(Data(r))
           /\ Record(r)[1] = 192 /\ Record(r)[2] = 12
           /\ Record(r)[3] * 256 + Record(r)[4] = r.type
           /\ Record(r)[5] * 256 + Record(r)[6] = r.class
           /\ Record(r)[11] * 256 + Record(r)[12] = Len(Data(r))
           /\ \A j \in 1 .. Len(Data(r)) : Record(r)[12 + j] = Data(r)[j]
<1>. DEFINE a == Repeat
            b == Short(r.type)
            c == Short(r.class)
            t == <<0, 0, 0, 9>>
            l == Short(Len(Data(r)))
            d == Data(r)
            s1 == a \o b
            s2 == s1 \o c
            s3 == s2 \o t
            s4 == s3 \o l
            s5 == s4 \o d
<1>1. Record(r) = s5
  BY DEF Record
<1>2. d \in Seq(Octet) /\ Len(d) \in Number /\ r.type \in Number /\ r.class \in Number
  BY DataParts
<1>3. /\ b \in Seq(Octet) /\ Len(b) = 2 /\ b[1] * 256 + b[2] = r.type
      /\ c \in Seq(Octet) /\ Len(c) = 2 /\ c[1] * 256 + c[2] = r.class
      /\ l \in Seq(Octet) /\ Len(l) = 2 /\ l[1] * 256 + l[2] = Len(d)
  BY <1>2, ShortParts
<1>4. a \in Seq(Octet) /\ Len(a) = 2 /\ a[1] = 192 /\ a[2] = 12
  BY RepeatParts
<1>5. t \in Seq(Octet) /\ Len(t) = 4
  BY DEF Octet
<1>. HIDE DEF a, b, c, t, l, d
<1>6. /\ s1 \in Seq(Octet) /\ Len(s1) = Len(a) + Len(b)
      /\ \A j \in 1 .. Len(a) : s1[j] = a[j]
      /\ \A j \in 1 .. Len(b) : s1[Len(a) + j] = b[j]
  <2>1. a \in Seq(Octet) /\ b \in Seq(Octet)
    BY <1>3, <1>4
  <2>. QED  BY <2>1, Concat
<1>. HIDE DEF s1
<1>7. Len(s1) = 4 /\ s1[1] = 192 /\ s1[2] = 12 /\ s1[3] = b[1] /\ s1[4] = b[2]
  BY <1>3, <1>4, <1>6
<1>8. /\ s2 \in Seq(Octet) /\ Len(s2) = Len(s1) + Len(c)
      /\ \A j \in 1 .. Len(s1) : s2[j] = s1[j]
      /\ \A j \in 1 .. Len(c) : s2[Len(s1) + j] = c[j]
  BY <1>3, <1>6, Concat
<1>. HIDE DEF s2
<1>9. /\ Len(s2) = 6 /\ s2[1] = 192 /\ s2[2] = 12 /\ s2[3] = b[1] /\ s2[4] = b[2]
      /\ s2[5] = c[1] /\ s2[6] = c[2]
  BY <1>3, <1>7, <1>8
<1>10. /\ s3 \in Seq(Octet) /\ Len(s3) = Len(s2) + Len(t)
       /\ \A j \in 1 .. Len(s2) : s3[j] = s2[j]
  BY <1>5, <1>8, Concat
<1>. HIDE DEF s3
<1>11. /\ Len(s3) = 10 /\ s3[1] = 192 /\ s3[2] = 12 /\ s3[3] = b[1] /\ s3[4] = b[2]
       /\ s3[5] = c[1] /\ s3[6] = c[2]
  BY <1>5, <1>9, <1>10
<1>12. /\ s4 \in Seq(Octet) /\ Len(s4) = Len(s3) + Len(l)
       /\ \A j \in 1 .. Len(s3) : s4[j] = s3[j]
       /\ \A j \in 1 .. Len(l) : s4[Len(s3) + j] = l[j]
  BY <1>3, <1>10, Concat
<1>. HIDE DEF s4
<1>13. /\ Len(s4) = 12 /\ s4[1] = 192 /\ s4[2] = 12 /\ s4[3] = b[1] /\ s4[4] = b[2]
       /\ s4[5] = c[1] /\ s4[6] = c[2] /\ s4[11] = l[1] /\ s4[12] = l[2]
  BY <1>3, <1>11, <1>12
<1>14. /\ s5 \in Seq(Octet) /\ Len(s5) = Len(s4) + Len(d)
       /\ \A j \in 1 .. Len(s4) : s5[j] = s4[j]
       /\ \A j \in 1 .. Len(d) : s5[Len(s4) + j] = d[j]
  BY <1>2, <1>12, Concat
<1>. HIDE DEF s5
<1>15. /\ Len(s5) = 12 + Len(d) /\ s5[1] = 192 /\ s5[2] = 12 /\ s5[3] = b[1] /\ s5[4] = b[2]
       /\ s5[5] = c[1] /\ s5[6] = c[2] /\ s5[11] = l[1] /\ s5[12] = l[2]
       /\ \A j \in 1 .. Len(d) : s5[12 + j] = d[j]
  BY <1>13, <1>14
<1>. QED  BY <1>1, <1>3, <1>14, <1>15 DEF d

\* The question begins with the name, and four octets follow it.
LEMMA QuestionParts ==
    /\ Question \in Seq(Octet) /\ Len(Question) = Len(Put(Name)) + 4 /\ Len(Put(Name)) \in 1 .. 255
    /\ \A j \in 1 .. Len(Put(Name)) : Question[j] = Put(Name)[j]
<1>. DEFINE p == Put(Name)
            b == Short(TYPE_A)
            c == Short(CLASS_IN)
            s == p \o b
            t == s \o c
<1>1. IsName(Name)
  BY HeaderAssumption
<1>2. p \in Seq(Octet) /\ Len(p) \in 1 .. 255
  BY <1>1, NameParts
<1>3. TYPE_A \in Number /\ CLASS_IN \in Number
  <2>1. 1 \in Number
    BY Small
  <2>. QED  BY <2>1 DEF TYPE_A, CLASS_IN
<1>4. b \in Seq(Octet) /\ Len(b) = 2 /\ c \in Seq(Octet) /\ Len(c) = 2
  BY <1>3, ShortParts
<1>5. Question = t
  BY DEF Question
<1>. HIDE DEF p, b, c
<1>6. s \in Seq(Octet) /\ Len(s) = Len(p) + Len(b) /\ \A j \in 1 .. Len(p) : s[j] = p[j]
  BY <1>2, <1>4, Concat
<1>. HIDE DEF s
<1>7. t \in Seq(Octet) /\ Len(t) = Len(s) + Len(c) /\ \A j \in 1 .. Len(s) : t[j] = s[j]
  BY <1>4, <1>6, Concat
<1>. HIDE DEF t
<1>8. Len(t) = Len(p) + 4 /\ \A j \in 1 .. Len(p) : t[j] = p[j]
  BY <1>2, <1>4, <1>6, <1>7
<1>. QED  BY <1>2, <1>5, <1>7, <1>8 DEF p

-----------------------------------------------------------------------------
\* The message up to each of its records.
AreRecords(records) ==
    /\ records \in Seq(ToSet(records)) /\ Len(records) \in Nat
    /\ \A n \in 1 .. Len(records) : IsRecord(records[n])
Records(records) == [i \in DOMAIN records |-> Record(records[i])]

\* The records as they are sent.
LEMMA RecordsOf ==
    ASSUME NEW records, AreRecords(records)
    PROVE  /\ Records(records) \in Seq(Seq(Octet)) /\ Len(Records(records)) = Len(records)
           /\ \A i \in 1 .. Len(records) : Records(records)[i] = Record(records[i])
<1>. DEFINE n == Len(records)
<1>1. DOMAIN records = 1 .. n /\ n \in Nat
  BY LenProperties DEF AreRecords
<1>2. \A i \in 1 .. n : Record(records[i]) \in Seq(Octet)
  BY RecordParts DEF AreRecords
<1>3. Records(records) = [i \in 1 .. n |-> Record(records[i])]
  BY <1>1 DEF Records
<1>. HIDE DEF n
<1>4. Records(records) \in [1 .. n -> Seq(Octet)]
  BY <1>2, <1>3
<1>5. Records(records) \in Seq(Seq(Octet)) /\ Len(Records(records)) = n
  BY <1>1, <1>4
<1>. QED  BY <1>3, <1>5 DEF n

\* Those of the first n records.
LEMMA RecordsUpto ==
    ASSUME NEW records, AreRecords(records), NEW n \in 0 .. Len(records)
    PROVE  /\ Records(Upto(records, n)) = Upto(Records(records), n)
           /\ Upto(Records(records), n) \in Seq(Seq(Octet))
<1>. DEFINE S == ToSet(records)
            u == Upto(records, n)
            v == Upto(Records(records), n)
            k == Len(records)
<1>1. records \in Seq(S) /\ k \in Nat /\ n \in 0 .. k
  BY DEF AreRecords
<1>2. u \in Seq(S) /\ Len(u) = n /\ \A j \in 1 .. n : u[j] = records[j]
  BY <1>1, UptoParts
<1>3. /\ Records(records) \in Seq(Seq(Octet)) /\ Len(Records(records)) = k
      /\ \A i \in 1 .. k : Records(records)[i] = Record(records[i])
  BY RecordsOf
<1>4. v \in Seq(Seq(Octet)) /\ Len(v) = n /\ \A j \in 1 .. n : v[j] = Records(records)[j]
  BY <1>3, UptoParts
<1>5. DOMAIN u = 1 .. n /\ DOMAIN v = 1 .. n
  BY <1>2, <1>4, LenProperties
<1>6. v = [j \in DOMAIN v |-> v[j]]
  BY <1>4
<1>. HIDE DEF u, v, S, k
<1>7. \A j \in 1 .. n : j \in 1 .. k
  BY <1>1
<1>8. \A j \in 1 .. n : v[j] = Record(u[j])
  BY <1>2, <1>3, <1>4, <1>7
<1>9. Records(u) = v
  BY <1>5, <1>6, <1>8 DEF Records
<1>. QED  BY <1>4, <1>9 DEF u, v

\* A message grows by a record at a time.
LEMMA MessageParts ==
    ASSUME NEW records, AreRecords(records)
    PROVE  /\ \A n \in 0 .. Len(records) : Message(Upto(records, n)) \in Seq(Octet)
           /\ Message(Upto(records, 0)) = Question
           /\ \A n \in 0 .. Len(records) - 1 :
                 Message(Upto(records, n + 1)) = Message(Upto(records, n)) \o Record(records[n + 1])
           /\ Upto(records, Len(records)) = records
<1>. DEFINE R(n) == Upto(Records(records), n)
            F(n) == FlattenSeq(R(n))
            k == Len(records)
<1>1. /\ records \in Seq(ToSet(records)) /\ k \in Nat
      /\ \A n \in 1 .. k : IsRecord(records[n])
  BY DEF AreRecords
<1>2. /\ Records(records) \in Seq(Seq(Octet)) /\ Len(Records(records)) = k
      /\ \A i \in 1 .. k : Records(records)[i] = Record(records[i])
  BY RecordsOf
<1>3. ASSUME NEW n \in 0 .. k
      PROVE  /\ Message(Upto(records, n)) = Question \o F(n)
             /\ R(n) \in Seq(Seq(Octet)) /\ F(n) \in Seq(Octet)
             /\ Question \o F(n) \in Seq(Octet)
  <2>1. Records(Upto(records, n)) = R(n) /\ R(n) \in Seq(Seq(Octet))
    BY RecordsUpto
  <2>2. F(n) \in Seq(Octet)
    BY <2>1, FlatType
  <2>3. Message(Upto(records, n)) = Question \o F(n)
    BY <2>1 DEF Message, Records
  <2>4. Question \o F(n) \in Seq(Octet)
    BY <2>2, QuestionParts, Concat
  <2>. QED  BY <2>1, <2>2, <2>3, <2>4
<1>4. Message(Upto(records, 0)) = Question
  <2>1. R(0) = <<>> /\ 0 \in 0 .. k
    BY <1>1, <1>2, UptoAll
  <2>2. F(0) = <<>>
    BY <2>1 DEF FlattenSeq
  <2>3. Question \o <<>> = Question
    BY QuestionParts, ConcatEmptySeq
  <2>. HIDE DEF F, R
  <2>. QED  BY <1>3, <2>1, <2>2, <2>3
<1>5. ASSUME NEW n \in 0 .. k - 1
      PROVE  Message(Upto(records, n + 1)) = Message(Upto(records, n)) \o Record(records[n + 1])
  <2>1. n \in Nat /\ n < k /\ n \in 0 .. k /\ n + 1 \in 0 .. k /\ n + 1 \in 1 .. k
    BY <1>1
  <2>2. R(n + 1) = Append(R(n), Records(records)[n + 1]) /\ Records(records)[n + 1] \in Seq(Octet)
    BY <1>2, <2>1, UptoNext
  <2>3. R(n) \in Seq(Seq(Octet)) /\ F(n) \in Seq(Octet)
    BY <1>3, <2>1
  <2>4. Records(records)[n + 1] = Record(records[n + 1])
    BY <1>2, <2>1
  <2>. HIDE DEF R
  <2>5. F(n + 1) = F(n) \o Record(records[n + 1])
    <3>1. FlattenSeq(Append(R(n), Records(records)[n + 1])) = FlattenSeq(R(n)) \o Records(records)[n + 1]
      BY <2>2, <2>3, FlatAppend
    <3>. QED  BY <2>2, <2>4, <3>1
  <2>. HIDE DEF F
  <2>6. Message(Upto(records, n + 1)) = Question \o F(n + 1) /\ Message(Upto(records, n)) = Question \o F(n)
    BY <1>3, <2>1
  <2>7. Question \o (F(n) \o Record(records[n + 1])) = (Question \o F(n)) \o Record(records[n + 1])
    <3>. DEFINE q == Question
                f == F(n)
                r == Record(records[n + 1])
    <3>1. q \in Seq(Octet) /\ f \in Seq(Octet) /\ r \in Seq(Octet)
      BY <2>2, <2>3, <2>4, QuestionParts
    <3>. HIDE DEF q, f, r
    <3>2. (q \o f) \o r = q \o (f \o r)
      BY <3>1, ConcatAssociative, SMTT(30)
    <3>. QED  BY <3>2 DEF q, f, r
  <2>. QED  BY <2>5, <2>6, <2>7
<1>6. Upto(records, k) = records
  BY <1>1, UptoAll
<1>7. \A n \in 0 .. k : Message(Upto(records, n)) \in Seq(Octet)
  BY <1>3
<1>. QED  BY <1>4, <1>5, <1>6, <1>7

\* What grows at its end keeps what it had.
Grows(S, L, b, p) ==
    /\ L \in Nat /\ \A n \in 0 .. L : b[n] \in Seq(S)
    /\ \A n \in 0 .. L - 1 : p[n] \in Seq(S) /\ b[n + 1] = Join(b[n], p[n])

Grown(L, b, p) ==
    /\ \A n \in 0 .. L - 1 : Len(b[n + 1]) = Len(b[n]) + Len(p[n])
    /\ \A q \in 0 .. L : \A n \in 0 .. q :
          Len(b[n]) <= Len(b[q]) /\ \A j \in 1 .. Len(b[n]) : b[q][j] = b[n][j]
    /\ \A q \in 0 .. L : \A n \in 0 .. q - 1 :
          \A j \in 1 .. Len(p[n]) : b[q][Len(b[n]) + j] = p[n][j]

\* What grows by parts has each of them in its place, and keeps it.
LEMMA Growing ==
    ASSUME NEW S, NEW L, NEW b, NEW p, Grows(S, L, b, p)
    PROVE  Grown(L, b, p)
<1>0. /\ L \in Nat /\ \A n \in 0 .. L : b[n] \in Seq(S)
      /\ \A n \in 0 .. L - 1 : p[n] \in Seq(S) /\ b[n + 1] = Join(b[n], p[n])
  BY DEF Grows
<1>1. ASSUME NEW n \in 0 .. L - 1
      PROVE  /\ Len(b[n + 1]) = Len(b[n]) + Len(p[n]) /\ Len(b[n]) \in Nat /\ Len(p[n]) \in Nat
             /\ Len(b[n + 1]) \in Nat
             /\ \A j \in 1 .. Len(b[n]) : b[n + 1][j] = b[n][j]
             /\ \A j \in 1 .. Len(p[n]) : b[n + 1][Len(b[n]) + j] = p[n][j]
  <2>1. n \in 0 .. L /\ n + 1 \in 0 .. L
    BY <1>0
  <2>. DEFINE s == b[n]
              t == p[n]
  <2>2. s \in Seq(S) /\ t \in Seq(S)
    BY <1>0, <2>1
  <2>3. b[n + 1] = s \o t
    BY <1>0 DEF Join
  <2>. HIDE DEF s, t
  <2>4. /\ Len(s \o t) = Len(s) + Len(t) /\ Len(s) \in Nat /\ Len(t) \in Nat
        /\ \A j \in 1 .. Len(s) : (s \o t)[j] = s[j]
        /\ \A j \in 1 .. Len(t) : (s \o t)[Len(s) + j] = t[j]
    BY <2>2, ConcatParts
  <2>5. Len(s) + Len(t) \in Nat
    BY <2>4
  <2>. QED  BY <2>3, <2>4, <2>5 DEF s, t
<1>. DEFINE Keeps(n, q) == Len(b[n]) <= Len(b[q]) /\ \A j \in 1 .. Len(b[n]) : b[q][j] = b[n][j]
            T == {q \in Nat : q <= L => \A n \in 0 .. q : Keeps(n, q)}
<1>2. 0 \in T
  <2>1. Len(b[0]) \in Nat
    BY <1>0, LenProperties
  <2>. QED  BY <2>1
<1>3. ASSUME NEW q \in Nat, q \in T PROVE q + 1 \in T
  <2>. SUFFICES ASSUME q + 1 <= L, NEW n \in 0 .. q + 1 PROVE Keeps(n, q + 1)
    OBVIOUS
  <2>1. q \in 0 .. L - 1 /\ q <= L /\ q + 1 \in 0 .. L
    BY <1>0
  <2>2. CASE n = q + 1
    <3>1. Len(b[q + 1]) \in Nat
      BY <1>0, <2>1, LenProperties
    <3>. QED  BY <2>2, <3>1
  <2>3. CASE n # q + 1
    <3>1. n \in 0 .. q
      BY <2>3
    <3>2. Keeps(n, q)
      BY <1>3, <2>1, <3>1
    <3>3. /\ Len(b[q + 1]) = Len(b[q]) + Len(p[q]) /\ Len(b[q]) \in Nat /\ Len(p[q]) \in Nat
          /\ \A j \in 1 .. Len(b[q]) : b[q + 1][j] = b[q][j]
      BY <1>1, <2>1
    <3>. DEFINE x == Len(b[n])
                y == Len(b[q])
                z == Len(b[q + 1])
    <3>4. x \in Nat /\ y \in Nat /\ x <= y /\ z = y + Len(p[q]) /\ Len(p[q]) \in Nat
      <4>1. n \in 0 .. L
        BY <1>0, <2>1, <3>1
      <4>. QED  BY <1>0, <3>2, <3>3, <4>1, LenProperties
    <3>5. \A j \in 1 .. x : b[q][j] = b[n][j]
      BY <3>2
    <3>6. \A j \in 1 .. y : b[q + 1][j] = b[q][j]
      BY <3>3
    <3>. HIDE DEF x, y, z
    <3>7. x <= z /\ \A j \in 1 .. x : j \in 1 .. y
      BY <3>4
    <3>8. \A j \in 1 .. x : b[q + 1][j] = b[n][j]
      BY <3>5, <3>6, <3>7
    <3>. QED  BY <3>7, <3>8 DEF x, z
  <2>. QED  BY <2>2, <2>3
<1>. HIDE DEF T
<1>4. Nat \subseteq T
  BY <1>2, <1>3, Induction
<1>5. \A q \in 0 .. L : \A n \in 0 .. q : Keeps(n, q)
  BY <1>4 DEF T
<1>6. ASSUME NEW q \in 0 .. L, NEW n \in 0 .. q - 1, NEW j \in 1 .. Len(p[n])
      PROVE  b[q][Len(b[n]) + j] = p[n][j]
  <2>1. n \in 0 .. L - 1 /\ n + 1 \in 0 .. q
    BY <1>0
  <2>2. /\ Len(b[n + 1]) = Len(b[n]) + Len(p[n]) /\ Len(b[n]) \in Nat /\ Len(p[n]) \in Nat
        /\ b[n + 1][Len(b[n]) + j] = p[n][j]
    BY <1>1, <2>1
  <2>3. \A i \in 1 .. Len(b[n + 1]) : b[q][i] = b[n + 1][i]
    BY <1>5, <2>1
  <2>4. Len(b[n]) + j \in 1 .. Len(b[n + 1])
    <3>. DEFINE x == Len(b[n])
                y == Len(b[n + 1])
                z == Len(p[n])
    <3>1. x \in Nat /\ z \in Nat /\ y = x + z /\ j \in 1 .. z
      BY <2>2
    <3>. HIDE DEF x, y, z
    <3>2. x + j \in 1 .. y
      BY <3>1
    <3>. QED  BY <3>2 DEF x, y
  <2>. QED  BY <2>2, <2>3, <2>4
<1>7. \A n \in 0 .. L - 1 : Len(b[n + 1]) = Len(b[n]) + Len(p[n])
  BY <1>1
<1>. HIDE DEF Keeps
<1>8. \A q \in 0 .. L : \A n \in 0 .. q :
         Len(b[n]) <= Len(b[q]) /\ \A j \in 1 .. Len(b[n]) : b[q][j] = b[n][j]
  BY <1>5 DEF Keeps
<1>. QED  BY <1>6, <1>7, <1>8 DEF Grown

\* Of what was sent, m holds a beginning.
LEMMA SentParts ==
    ASSUME Sent
    PROVE  /\ m \in Seq(Octet) /\ Len(m) \in Nat /\ AreRecords(zone)
           /\ \A n \in 0 .. Len(zone) : End(n) \in Nat
           /\ Len(m) <= End(Len(zone))
           /\ End(0) = Len(Put(Name)) + 4
           /\ \A n \in 0 .. Len(zone) - 1 : End(n + 1) = End(n) + 12 + Len(Data(zone[n + 1]))
           /\ \A q \in 0 .. Len(zone) : \A n \in 0 .. q : End(n) <= End(q)
           /\ \A j \in 1 .. Len(Put(Name)) : j <= Len(m) => m[j] = Put(Name)[j]
           /\ \A n \in 0 .. Len(zone) - 1 : \A j \in 1 .. 12 + Len(Data(zone[n + 1])) :
                 End(n) + j <= Len(m) => m[End(n) + j] = Record(zone[n + 1])[j]
<1>. DEFINE L == Len(zone)
            b == [n \in 0 .. L |-> Message(Upto(zone, n))]
            p == [n \in 0 .. L - 1 |-> Record(zone[n + 1])]
            all == Message(zone)
<1>1. AreRecords(zone) /\ L \in Nat
  BY Constants DEF AreRecords, Sent
<1>2. /\ \A n \in 0 .. L : Message(Upto(zone, n)) \in Seq(Octet)
      /\ Message(Upto(zone, 0)) = Question
      /\ \A n \in 0 .. L - 1 : Message(Upto(zone, n + 1)) = Join(Message(Upto(zone, n)), Record(zone[n + 1]))
      /\ Upto(zone, L) = zone
  BY <1>1, MessageParts DEF Join
<1>3. \A n \in 0 .. L - 1 : Record(zone[n + 1]) \in Seq(Octet) /\ Len(Record(zone[n + 1])) = 12 + Len(Data(zone[n + 1]))
  <2>1. ASSUME NEW n \in 0 .. L - 1 PROVE IsRecord(zone[n + 1])
    <3>1. n + 1 \in 1 .. L
      BY <1>1
    <3>. QED  BY <1>1, <3>1 DEF AreRecords
  <2>. QED  BY <2>1, RecordParts
<1>4. /\ \A n \in 0 .. L : b[n] \in Seq(Octet) /\ End(n) = Len(b[n])
      /\ \A n \in 0 .. L - 1 : p[n] \in Seq(Octet) /\ b[n + 1] = Join(b[n], p[n])
      /\ \A n \in 0 .. L - 1 : p[n] = Record(zone[n + 1])
      /\ b[0] = Question /\ b[L] = all
  <2>1. \A n \in 0 .. L : b[n] = Message(Upto(zone, n))
    OBVIOUS
  <2>2. \A n \in 0 .. L - 1 : p[n] = Record(zone[n + 1])
    OBVIOUS
  <2>3. 0 \in 0 .. L /\ L \in 0 .. L /\ \A n \in 0 .. L - 1 : n \in 0 .. L /\ n + 1 \in 0 .. L
    BY <1>1
  <2>4. \A n \in 0 .. L : End(n) = Len(Message(Upto(zone, n)))
    BY DEF End, Upto
  <2>. HIDE DEF b, p, L
  <2>5. b[0] = Question /\ b[L] = all
    BY <1>2, <2>1, <2>3
  <2>6. \A n \in 0 .. L - 1 : p[n] \in Seq(Octet) /\ b[n + 1] = Join(b[n], p[n])
    BY <1>2, <1>3, <2>1, <2>2, <2>3
  <2>. QED  BY <1>2, <2>1, <2>2, <2>4, <2>5, <2>6
<1>. HIDE DEF b, p
<1>5. /\ \A n \in 0 .. L - 1 : Len(b[n + 1]) = Len(b[n]) + Len(p[n])
      /\ \A q \in 0 .. L : \A n \in 0 .. q :
            Len(b[n]) <= Len(b[q]) /\ \A j \in 1 .. Len(b[n]) : b[q][j] = b[n][j]
      /\ \A q \in 0 .. L : \A n \in 0 .. q - 1 :
            \A j \in 1 .. Len(p[n]) : b[q][Len(b[n]) + j] = p[n][j]
  <2>. HIDE DEF L
  <2>1. Grows(Octet, L, b, p)
    BY <1>1, <1>4 DEF Grows
  <2>2. Grown(L, b, p)
    BY <2>1, Growing
  <2>. QED  BY <2>2 DEF Grown
<1>6. all \in Seq(Octet) /\ Len(all) \in Nat /\ L \in 0 .. L /\ 0 \in 0 .. L
  BY <1>1, <1>4, LenProperties
<1>7. /\ m \in Seq(Octet) /\ Len(m) \in Nat /\ Len(m) <= Len(all)
      /\ \A j \in 1 .. Len(m) : m[j] = all[j]
  <2>. DEFINE k == Len(m)
  <2>1. k \in 0 .. Len(all) /\ m = Upto(all, k)
    BY DEF Sent, Upto
  <2>. HIDE DEF k, all
  <2>2. Upto(all, k) \in Seq(Octet) /\ \A j \in 1 .. k : Upto(all, k)[j] = all[j]
    BY <1>6, <2>1, UptoParts
  <2>. QED  BY <1>6, <2>1, <2>2 DEF k
<1>8. \A n \in 0 .. L : End(n) \in Nat
  BY <1>4, LenProperties
<1>9. End(L) = Len(all) /\ End(0) = Len(Put(Name)) + 4
  BY <1>4, <1>6, QuestionParts
<1>10. ASSUME NEW n \in 0 .. L - 1
       PROVE  End(n + 1) = End(n) + 12 + Len(Data(zone[n + 1]))
  <2>1. n \in 0 .. L /\ n + 1 \in 0 .. L
    BY <1>1
  <2>2. End(n + 1) = End(n) + Len(Record(zone[n + 1])) /\ End(n) \in Nat
    BY <1>4, <1>5, <1>8, <2>1
  <2>3. Len(Record(zone[n + 1])) = 12 + Len(Data(zone[n + 1])) /\ Len(Data(zone[n + 1])) \in Nat
    <3>1. n + 1 \in 1 .. L
      BY <1>1
    <3>2. IsRecord(zone[n + 1])
      BY <1>1, <3>1 DEF AreRecords
    <3>3. Data(zone[n + 1]) \in Seq(Octet)
      BY <3>2, DataParts
    <3>. QED  BY <1>3, <3>3, LenProperties
  <2>. QED  BY <2>2, <2>3
<1>11. \A q \in 0 .. L : \A n \in 0 .. q : End(n) <= End(q)
  <2>1. ASSUME NEW q \in 0 .. L, NEW n \in 0 .. q PROVE End(n) <= End(q)
    <3>1. n \in 0 .. L
      BY <1>1
    <3>. QED  BY <1>4, <1>5, <3>1
  <2>. QED  BY <2>1
<1>12. ASSUME NEW j \in 1 .. Len(Put(Name)), j <= Len(m)
       PROVE  m[j] = Put(Name)[j]
  <2>1. Question[j] = Put(Name)[j] /\ j \in 1 .. Len(Question)
    BY QuestionParts
  <2>2. all[j] = Question[j]
    BY <1>4, <1>5, <1>6, <2>1
  <2>3. j \in 1 .. Len(m)
    BY <1>7, <1>12
  <2>. QED  BY <1>7, <2>1, <2>2, <2>3
<1>13. ASSUME NEW n \in 0 .. L - 1, NEW j \in 1 .. 12 + Len(Data(zone[n + 1])), End(n) + j <= Len(m)
       PROVE  m[End(n) + j] = Record(zone[n + 1])[j]
  <2>1. n \in 0 .. L /\ End(n) \in Nat /\ End(n) = Len(b[n])
    BY <1>1, <1>4, <1>8
  <2>2. p[n] = Record(zone[n + 1]) /\ j \in 1 .. Len(p[n])
    BY <1>3, <1>4
  <2>3. all[End(n) + j] = p[n][j]
    <3>1. b[L][Len(b[n]) + j] = p[n][j]
      BY <1>5, <1>6, <2>2
    <3>. QED  BY <1>4, <2>1, <3>1
  <2>4. End(n) + j \in 1 .. Len(m)
    <3>1. j \in Int /\ j >= 1
      OBVIOUS
    <3>. QED  BY <1>7, <1>13, <2>1, <3>1
  <2>. QED  BY <1>7, <2>2, <2>3, <2>4
<1>. HIDE DEF L
<1>14. Len(m) <= End(L)
  BY <1>7, <1>9
<1>. QED  BY <1>1, <1>7, <1>8, <1>9, <1>10, <1>11, <1>12, <1>13, <1>14 DEF L

-----------------------------------------------------------------------------
\* skip_name: what the recursion gives at each place.
AreOctets == m \in Seq(Octet) /\ Len(m) \in Nat
Places == 1 .. Len(m) + 1
Past(i) == Lesser(i + m[i] + 1, Len(m) + 1)
SkipBody(f, i) ==
    IF ~Has(i, 1) THEN [ok |-> FALSE, at |-> i]
    ELSE IF m[i] = 0 THEN [ok |-> TRUE, at |-> i + 1]
    ELSE IF m[i] < 64 THEN f[Past(i)]
    ELSE IF Has(i, 2) THEN [ok |-> TRUE, at |-> i + 2]
    ELSE [ok |-> FALSE, at |-> i]

\* What is there at a place of the message.
LEMMA OctetAt ==
    ASSUME AreOctets, NEW i \in Places
    PROVE  /\ Has(i, 1) <=> i # Len(m) + 1
           /\ Has(i, 2) <=> i + 2 <= Len(m) + 1
           /\ Has(i, 1) => m[i] \in Octet /\ m[i] \in Nat /\ m[i] <= 255
           /\ Has(i, 1) => Past(i) \in i + 1 .. Len(m) + 1
<1>1. Len(m) \in Nat /\ i \in 1 .. Len(m) + 1
  BY DEF AreOctets, Places
<1>. DEFINE k == Len(m)
<1>2. k \in Nat /\ i \in 1 .. k + 1
  BY <1>1
<1>3. ASSUME Has(i, 1) PROVE m[i] \in Octet /\ m[i] \in Nat /\ m[i] <= 255
  <2>1. i \in 1 .. k
    BY <1>2, <1>3 DEF Has
  <2>2. m[i] \in Octet
    BY <2>1, ElementOfSeq DEF AreOctets
  <2>. QED  BY <2>2 DEF Octet
<1>4. Has(i, 1) <=> i # k + 1
  <2>. HIDE DEF k
  <2>1. i + 1 <= k + 1 <=> i # k + 1
    BY <1>2
  <2>. QED  BY <2>1 DEF Has, k
<1>5. ASSUME Has(i, 1) PROVE Past(i) \in i + 1 .. k + 1
  <2>. DEFINE o == m[i]
  <2>1. o \in Nat /\ i # k + 1
    BY <1>3, <1>4, <1>5
  <2>. HIDE DEF k, o
  <2>2. (IF i + o + 1 < k + 1 THEN i + o + 1 ELSE k + 1) \in i + 1 .. k + 1
    BY <1>2, <2>1
  <2>. QED  BY <2>2 DEF Past, Lesser, k, o
<1>. QED  BY <1>3, <1>4, <1>5 DEF Has

\* The recursive function behind skip_name does what it says.
LEMMA SkipNameDef ==
    ASSUME AreOctets
    PROVE  \A i \in Places : SkipName(i) = SkipBody([j \in Places |-> SkipName(j)], i)
<1>. DEFINE k == Len(m) + 1
            Is(f, d) == f = [i \in k - d .. k |-> SkipBody(f, i)]
            T == {d \in Nat : d < k => \E f : Is(f, d)}
<1>1. k \in Nat /\ k > 0 /\ Places = 1 .. k
  BY DEF AreOctets, Places
<1>2. 0 \in T
  <2>. DEFINE f == [i \in k - 0 .. k |-> [ok |-> FALSE, at |-> i]]
  <2>1. \A i \in k - 0 .. k : i = k /\ ~Has(i, 1)
    BY <1>1, OctetAt DEF AreOctets
  <2>. HIDE DEF k
  <2>2. Is(f, 0)
    BY <2>1 DEF SkipBody
  <2>. HIDE DEF Is, f
  <2>3. \E g : Is(g, 0)
    BY <2>2, Zenon
  <2>. QED  BY <2>3
<1>3. ASSUME NEW d \in Nat, d \in T PROVE d + 1 \in T
  <2>. SUFFICES ASSUME d + 1 < k PROVE \E f : Is(f, d + 1)
    OBVIOUS
  <2>1. PICK f : Is(f, d)
    BY <1>1, <1>3
  <2>. DEFINE a == k - (d + 1)
              g == [i \in a .. k |-> IF i = a THEN SkipBody(f, a) ELSE f[i]]
  <2>2. a \in 1 .. k /\ a + 1 = k - d /\ \A i \in a .. k : i \in Places /\ (i # a => i \in k - d .. k)
    BY <1>1
  <2>3. \A i \in k - d .. k : f[i] = SkipBody(f, i)
    BY <2>1
  <2>. HIDE DEF a, k
  <2>4. \A i \in k - d .. k : g[i] = f[i]
    BY <1>1, <2>2
  <2>5. ASSUME NEW i \in a .. k PROVE SkipBody(g, i) = SkipBody(f, i)
    <3>1. CASE Has(i, 1)
      <4>1. Past(i) \in i + 1 .. k
        BY <2>2, <3>1, OctetAt DEF k
      <4>2. Past(i) \in k - d .. k
        BY <1>1, <2>2, <4>1
      <4>3. g[Past(i)] = f[Past(i)]
        BY <2>4, <4>2
      <4>. HIDE DEF g
      <4>. QED  BY <3>1, <4>3 DEF SkipBody
    <3>2. CASE ~Has(i, 1)
      BY <3>2 DEF SkipBody
    <3>. QED  BY <3>1, <3>2
  <2>6. ASSUME NEW i \in a .. k PROVE g[i] = SkipBody(g, i)
    <3>1. CASE i = a
      <4>1. g[a] = SkipBody(f, a)
        BY <3>1
      <4>. HIDE DEF g
      <4>. QED  BY <2>5, <3>1, <4>1
    <3>2. CASE i # a
      <4>1. i \in k - d .. k
        BY <2>2, <3>2
      <4>. HIDE DEF g
      <4>. QED  BY <2>3, <2>4, <2>5, <4>1
    <3>. QED  BY <3>1, <3>2
  <2>7. Is(g, d + 1)
    <3>1. g = [i \in a .. k |-> g[i]]
      OBVIOUS
    <3>. HIDE DEF g
    <3>2. g = [i \in a .. k |-> SkipBody(g, i)]
      BY <2>6, <3>1
    <3>. QED  BY <3>2 DEF a
  <2>. HIDE DEF Is, g
  <2>. QED  BY <2>7, Zenon
<1>. HIDE DEF T
<1>4. Nat \subseteq T
  BY <1>2, <1>3, Induction
<1>5. k - 1 \in Nat /\ k - 1 < k /\ k - (k - 1) = 1
  BY <1>1
<1>6. \E f : Is(f, k - 1)
  <2>. HIDE DEF Is, k
  <2>. QED  BY <1>4, <1>5 DEF T
<1>. DEFINE Whole(f) == f = [i \in 1 .. Len(m) + 1 |-> SkipBody(f, i)]
            c == CHOOSE f : Whole(f)
<1>7. Whole(c)
  <2>1. \E f : Whole(f)
    BY <1>5, <1>6
  <2>. HIDE DEF Whole
  <2>. QED  BY <2>1, Zenon
<1>8. \A i \in Places : SkipName(i) = c[i]
  BY DEF SkipName, SkipBody, Past
<1>. HIDE DEF c
<1>9. \A i \in Places : c[i] = SkipBody(c, i)
  BY <1>7 DEF Places
<1>. DEFINE s == [j \in Places |-> SkipName(j)]
<1>10. \A j \in Places : s[j] = c[j]
  BY <1>8
<1>. HIDE DEF s
<1>11. ASSUME NEW i \in Places PROVE SkipBody(s, i) = SkipBody(c, i)
  <2>1. CASE Has(i, 1)
    <3>1. Past(i) \in Places
      <4>1. Past(i) \in i + 1 .. k /\ i \in 1 .. k
        BY <1>1, <2>1, OctetAt
      <4>. HIDE DEF k
      <4>. QED  BY <1>1, <4>1
    <3>. QED  BY <1>10, <2>1, <3>1 DEF SkipBody
  <2>2. CASE ~Has(i, 1)
    BY <2>2 DEF SkipBody
  <2>. QED  BY <2>1, <2>2
<1>. QED  BY <1>8, <1>9, <1>11 DEF s

\* skip_name, step by step.
LEMMA SkipNameSteps ==
    ASSUME AreOctets, NEW i \in Places
    PROVE  /\ i = Len(m) + 1 => SkipName(i) = [ok |-> FALSE, at |-> i]
           /\ i # Len(m) + 1 /\ m[i] = 0 => SkipName(i) = [ok |-> TRUE, at |-> i + 1]
           /\ i # Len(m) + 1 /\ m[i] \in 1 .. 63 => SkipName(i) = SkipName(Past(i))
           /\ m[i] >= 64 /\ i + 2 <= Len(m) + 1 => SkipName(i) = [ok |-> TRUE, at |-> i + 2]
           /\ m[i] >= 64 /\ i = Len(m) => SkipName(i) = [ok |-> FALSE, at |-> i]
<1>. DEFINE s == [j \in Places |-> SkipName(j)]
            k == Len(m)
<1>1. SkipName(i) = SkipBody(s, i)
  BY SkipNameDef
<1>2. k \in Nat /\ i \in 1 .. k + 1
  BY DEF AreOctets, Places
<1>3. /\ Has(i, 1) <=> i # k + 1
      /\ Has(i, 2) <=> i + 2 <= k + 1
      /\ Has(i, 1) => m[i] \in Nat
      /\ Has(i, 1) => Past(i) \in i + 1 .. k + 1
  BY OctetAt
<1>4. ASSUME Has(i, 1) PROVE s[Past(i)] = SkipName(Past(i))
  <2>1. Past(i) \in 1 .. k + 1
    <3>. HIDE DEF k
    <3>. QED  BY <1>2, <1>3, <1>4
  <2>. QED  BY <2>1 DEF Places
<1>. HIDE DEF s, k
<1>5. i = k + 1 => SkipName(i) = [ok |-> FALSE, at |-> i]
  BY <1>1, <1>3 DEF SkipBody
<1>6. i # k + 1 /\ m[i] = 0 => SkipName(i) = [ok |-> TRUE, at |-> i + 1]
  BY <1>1, <1>3 DEF SkipBody
<1>7. i # k + 1 /\ m[i] \in 1 .. 63 => SkipName(i) = SkipName(Past(i))
  BY <1>1, <1>3, <1>4 DEF SkipBody
<1>8. m[i] >= 64 /\ i + 2 <= k + 1 => SkipName(i) = [ok |-> TRUE, at |-> i + 2]
  BY <1>1, <1>2, <1>3 DEF SkipBody
<1>9. m[i] >= 64 /\ i = k => SkipName(i) = [ok |-> FALSE, at |-> i]
  BY <1>1, <1>2, <1>3 DEF SkipBody
<1>. QED  BY <1>5, <1>6, <1>7, <1>8, <1>9 DEF k

\* skip_name goes forward, and not behind the end.
LEMMA SkipNameParts ==
    ASSUME AreOctets
    PROVE  \A i \in Places : SkipName(i).ok \in BOOLEAN /\ SkipName(i).at \in i .. Len(m) + 1
<1>. DEFINE k == Len(m) + 1
            P(i) == SkipName(i).ok \in BOOLEAN /\ SkipName(i).at \in i .. k
            T == {d \in Nat : d < k => \A i \in k - d .. k : P(i)}
<1>1. k \in Nat /\ k > 0 /\ Places = 1 .. k
  BY DEF AreOctets, Places
<1>2. 0 \in T
  <2>1. SkipName(k) = [ok |-> FALSE, at |-> k]
    <3>1. k \in Places /\ k = Len(m) + 1
      BY <1>1
    <3>. HIDE DEF k
    <3>. QED  BY <3>1, SkipNameSteps
  <2>. HIDE DEF k
  <2>2. P(k)
    BY <1>1, <2>1
  <2>3. \A i \in k - 0 .. k : i = k
    BY <1>1
  <2>. HIDE DEF P
  <2>. QED  BY <2>2, <2>3
<1>3. ASSUME NEW d \in Nat, d \in T PROVE d + 1 \in T
  <2>. SUFFICES ASSUME d + 1 < k, NEW i \in k - (d + 1) .. k PROVE P(i)
    OBVIOUS
  <2>1. i \in Places /\ i \in 1 .. k /\ (i \in k - d .. k \/ (i = k - (d + 1) /\ i < k))
    BY <1>1
  <2>2. \A j \in k - d .. k : P(j)
    BY <1>1, <1>3
  <2>3. CASE i \in k - d .. k
    BY <2>2, <2>3
  <2>4. CASE i = k - (d + 1) /\ i < k
    <3>1. Has(i, 1) /\ m[i] \in Nat /\ Past(i) \in i + 1 .. k
      <4>1. i # k
        BY <2>1, <2>4
      <4>. QED  BY <2>1, <4>1, OctetAt
    <3>2. \/ SkipName(i) = [ok |-> TRUE, at |-> i + 1]
          \/ SkipName(i) = SkipName(Past(i))
          \/ SkipName(i) = [ok |-> TRUE, at |-> i + 2] /\ i + 2 <= k
          \/ SkipName(i) = [ok |-> FALSE, at |-> i]
      <4>1. i # k /\ (m[i] = 0 \/ m[i] \in 1 .. 63 \/ m[i] >= 64) /\ (i + 2 <= k \/ i + 1 = k)
        <5>. DEFINE o == m[i]
        <5>1. o \in Nat
          BY <3>1
        <5>. HIDE DEF o, k
        <5>2. o = 0 \/ o \in 1 .. 63 \/ o >= 64
          BY <5>1
        <5>3. i # k /\ (i + 2 <= k \/ i + 1 = k)
          BY <1>1, <2>1, <2>4
        <5>. QED  BY <5>2, <5>3 DEF o
      <4>2. i + 1 = k => i = Len(m)
        BY <1>1, <2>1 DEF AreOctets
      <4>. QED  BY <2>1, <4>1, <4>2, SkipNameSteps
    <3>. HIDE DEF k
    <3>3. CASE SkipName(i) = SkipName(Past(i))
      <4>1. Past(i) \in k - d .. k
        BY <1>1, <2>1, <2>4, <3>1
      <4>2. P(Past(i))
        BY <2>2, <4>1
      <4>. QED  BY <1>1, <2>1, <3>1, <3>3, <4>2
    <3>4. CASE SkipName(i) = [ok |-> TRUE, at |-> i + 1]
      <4>1. i \in Int /\ i + 1 \in i .. k
        BY <1>1, <2>1, <2>4
      <4>. QED  BY <3>4, <4>1
    <3>5. CASE SkipName(i) = [ok |-> TRUE, at |-> i + 2] /\ i + 2 <= k
      BY <1>1, <2>1, <3>5
    <3>6. CASE SkipName(i) = [ok |-> FALSE, at |-> i]
      <4>1. i \in i .. k
        BY <1>1, <2>1, <2>4
      <4>. QED  BY <3>6, <4>1
    <3>. QED  BY <3>2, <3>3, <3>4, <3>5, <3>6
  <2>. QED  BY <2>1, <2>3, <2>4
<1>. HIDE DEF T
<1>4. Nat \subseteq T
  BY <1>2, <1>3, Induction
<1>5. k - 1 \in Nat /\ k - 1 < k /\ k - (k - 1) = 1
  BY <1>1
<1>6. \A i \in 1 .. k : P(i)
  <2>. HIDE DEF k, P
  <2>. QED  BY <1>4, <1>5 DEF T
<1>. QED  BY <1>1, <1>6

\* skip_name finds the end of a name at the start of m, or of what is there of it.
LEMMA NameSkipped ==
    ASSUME AreOctets, NEW name \in Seq(Label),
           \A j \in 1 .. Len(Put(name)) : j <= Len(m) => m[j] = Put(name)[j]
    PROVE  SkipName(1) = IF Len(Put(name)) <= Len(m) THEN [ok |-> TRUE, at |-> Len(Put(name)) + 1]
                         ELSE [ok |-> FALSE, at |-> Len(m) + 1]
<1>. DEFINE k == Len(m)
            L == Len(name)
            z == Len(Put(name))
            B(n) == Len(Body(name, n))
            end == IF z <= k THEN [ok |-> TRUE, at |-> z + 1] ELSE [ok |-> FALSE, at |-> k + 1]
            T == {d \in Nat : d <= L /\ B(L - d) <= k => SkipName(B(L - d) + 1) = end}
<1>1. k \in Nat /\ L \in Nat /\ Places = 1 .. k + 1
  BY LenProperties DEF AreOctets, Places
<1>2. /\ Put(name) \in Seq(Octet) /\ z = B(L) + 1 /\ Put(name)[z] = 0
      /\ \A n \in 0 .. L : B(n) < z
      /\ \A n \in 0 .. L - 1 : B(n + 1) = B(n) + 1 + Len(name[n + 1]) /\ Put(name)[B(n) + 1] = Len(name[n + 1])
  BY PutParts
<1>3. \A n \in 0 .. L : B(n) \in Nat
  BY BodyParts
<1>4. B(0) = 0
  <2>1. Body(name, 0) = <<>>
    BY BodyParts
  <2>. QED  BY <2>1
<1>5. z \in Nat
  BY <1>2, LenProperties
<1>6. \A n \in 0 .. L - 1 : Len(name[n + 1]) \in 1 .. 63
  <2>1. \A i \in 1 .. L : name[i] \in Label
    BY PartsOf
  <2>2. \A n \in 0 .. L - 1 : n + 1 \in 1 .. L
    BY <1>1
  <2>. QED  BY <2>1, <2>2 DEF Label
<1>7. \A j \in 1 .. z : j <= k => m[j] = Put(name)[j]
  OBVIOUS
<1>. HIDE DEF L, z, B
<1>8. 0 \in T
  <2>. SUFFICES ASSUME B(L) <= k PROVE SkipName(B(L) + 1) = end
    BY <1>1
  <2>1. z = B(L) + 1 /\ B(L) \in Nat /\ z \in 1 .. k + 1
    <3>1. L \in 0 .. L
      BY <1>1
    <3>2. B(L) \in Nat
      BY <1>3, <3>1
    <3>. HIDE DEF k
    <3>. QED  BY <1>1, <1>2, <3>2
  <2>2. CASE z = k + 1
    <3>1. SkipName(z) = [ok |-> FALSE, at |-> z]
      BY <1>1, <2>1, <2>2, SkipNameSteps
    <3>2. ~(z <= k)
      <4>. HIDE DEF k
      <4>. QED  BY <1>1, <2>2
    <3>. QED  BY <2>1, <2>2, <3>1, <3>2
  <2>3. CASE z # k + 1
    <3>1. z <= k /\ z \in 1 .. z
      <4>. HIDE DEF k
      <4>. QED  BY <1>1, <1>5, <2>1, <2>3
    <3>2. m[z] = 0
      BY <1>2, <1>7, <3>1
    <3>3. SkipName(z) = [ok |-> TRUE, at |-> z + 1]
      BY <1>1, <2>1, <2>3, <3>2, SkipNameSteps
    <3>. QED  BY <2>1, <3>1, <3>3
  <2>. QED  BY <2>2, <2>3
<1>9. ASSUME NEW d \in Nat, d \in T PROVE d + 1 \in T
  <2>. DEFINE n == L - (d + 1)
              i == B(n) + 1
              w == Len(name[n + 1])
  <2>. SUFFICES ASSUME d + 1 <= L, B(n) <= k PROVE SkipName(i) = end
    OBVIOUS
  <2>1. n \in 0 .. L - 1 /\ n \in 0 .. L /\ n + 1 = L - d /\ n + 1 \in 0 .. L /\ d <= L
    BY <1>1
  <2>2. B(n + 1) <= k => SkipName(B(n + 1) + 1) = end
    BY <1>9, <2>1
  <2>. HIDE DEF n
  <2>3. w \in 1 .. 63 /\ B(n + 1) = i + w /\ Put(name)[i] = w
    <3>1. B(n + 1) = B(n) + 1 + w /\ Put(name)[B(n) + 1] = w /\ w \in 1 .. 63
      BY <1>2, <1>6, <2>1
    <3>. HIDE DEF w
    <3>. QED  BY <3>1
  <2>4. B(n) \in Nat /\ B(n) < z /\ B(n + 1) < z
    BY <1>2, <1>3, <2>1
  <2>5. i \in 1 .. k + 1 /\ i \in 1 .. z
    <3>. HIDE DEF k
    <3>. QED  BY <1>1, <1>5, <2>4
  <2>. HIDE DEF w, i
  <2>6. CASE i = k + 1
    <3>1. SkipName(i) = [ok |-> FALSE, at |-> i]
      BY <1>1, <2>5, <2>6, SkipNameSteps
    <3>2. ~(z <= k)
      <4>. HIDE DEF k
      <4>. QED  BY <1>1, <1>5, <2>3, <2>4, <2>5, <2>6
    <3>. QED  BY <2>6, <3>1, <3>2
  <2>7. CASE i # k + 1
    <3>1. i <= k
      <4>. HIDE DEF k
      <4>. QED  BY <1>1, <2>5, <2>7
    <3>2. m[i] = w
      BY <1>7, <2>3, <2>5, <3>1
    <3>3. SkipName(i) = SkipName(Past(i))
      BY <1>1, <2>3, <2>5, <2>7, <3>2, SkipNameSteps
    <3>4. Past(i) = IF i + w + 1 < k + 1 THEN i + w + 1 ELSE k + 1
      BY <3>2 DEF Past, Lesser
    <3>5. CASE B(n + 1) <= k
      <4>1. Past(i) = B(n + 1) + 1
        <5>. HIDE DEF k
        <5>. QED  BY <1>1, <2>3, <2>5, <3>4, <3>5
      <4>. QED  BY <2>2, <3>3, <3>5, <4>1
    <3>6. CASE ~(B(n + 1) <= k)
      <4>1. Past(i) = k + 1 /\ ~(z <= k)
        <5>. HIDE DEF k
        <5>. QED  BY <1>1, <1>5, <2>3, <2>4, <2>5, <3>4, <3>6
      <4>2. k + 1 \in 1 .. k + 1
        BY <1>1
      <4>3. SkipName(k + 1) = [ok |-> FALSE, at |-> k + 1]
        BY <1>1, <4>2, SkipNameSteps
      <4>. QED  BY <3>3, <4>1, <4>3
    <3>. QED  BY <3>5, <3>6
  <2>. QED  BY <2>6, <2>7
<1>. HIDE DEF T
<1>10. Nat \subseteq T
  BY <1>8, <1>9, Induction
<1>11. SkipName(1) = end
  <2>. HIDE DEF end, k
  <2>1. L \in T /\ L - L = 0 /\ B(0) <= k
    BY <1>1, <1>4, <1>10
  <2>. QED  BY <1>1, <1>4, <2>1 DEF T
<1>. QED  BY <1>11 DEF z

\* The question is skipped, or what is there of it.
LEMMA QuestionSkipped ==
    ASSUME Sent
    PROVE  /\ Len(Put(Name)) + 4 <= Len(m) =>
                 SkipName(1).ok /\ Has(SkipName(1).at, 4) /\ SkipName(1).at + 4 = End(0) + 1
           /\ Len(m) < Len(Put(Name)) + 4 /\ SkipName(1).ok => ~Has(SkipName(1).at, 4)
           /\ Len(m) < Len(Put(Name)) + 4 /\ ~SkipName(1).ok => SkipName(1).at = Len(m) + 1
           /\ End(0) = Len(Put(Name)) + 4 /\ End(0) \in Nat
<1>. DEFINE k == Len(m)
            z == Len(Put(Name))
<1>1. AreOctets /\ k \in Nat /\ End(0) = z + 4
  BY SentParts DEF AreOctets
<1>2. Name \in Seq(Label) /\ z \in Nat
  BY HeaderAssumption, NameParts
<1>3. \A j \in 1 .. z : j <= k => m[j] = Put(Name)[j]
  BY SentParts
<1>4. SkipName(1) = IF z <= k THEN [ok |-> TRUE, at |-> z + 1] ELSE [ok |-> FALSE, at |-> k + 1]
  BY <1>1, <1>2, <1>3, NameSkipped
<1>5. Has(SkipName(1).at, 4) <=> SkipName(1).at + 4 <= k + 1
  BY DEF Has
<1>. HIDE DEF k, z
<1>6. CASE z <= k
  BY <1>1, <1>2, <1>4, <1>5, <1>6 DEF k, z
<1>7. CASE ~(z <= k)
  BY <1>1, <1>2, <1>4, <1>5, <1>7 DEF k, z
<1>. QED  BY <1>6, <1>7

\* Fields does not go behind the end.
LEMMA FieldsParts ==
    ASSUME AreOctets, NEW i \in Places
    PROVE  /\ Fields(i).ok \in BOOLEAN
           /\ Fields(i).ok => /\ Fields(i).length \in Nat /\ Fields(i).at \in i .. Len(m) + 1
                              /\ Fields(i).at + Fields(i).length <= Len(m) + 1
<1>. DEFINE a == SkipName(i).at
            k == Len(m)
<1>1. k \in Nat /\ i \in 1 .. k + 1 /\ Places = 1 .. k + 1
  BY DEF AreOctets, Places
<1>2. SkipName(i).ok \in BOOLEAN /\ a \in i .. k + 1
  BY SkipNameParts
<1>3. CASE SkipName(i).ok /\ Has(a, 10) /\ Has(a + 10, Value(a + 8))
  <2>1. Fields(i) = [ok |-> TRUE, type |-> Value(a), class |-> Value(a + 2),
                     length |-> Value(a + 8), at |-> a + 10]
    BY <1>3 DEF Fields
  <2>2. a + 10 <= k + 1 /\ a + 10 + Value(a + 8) <= k + 1
    BY <1>3 DEF Has
  <2>3. Value(a + 8) \in Nat
    <3>1. a + 8 \in Places /\ a + 9 \in Places
      <4>. HIDE DEF a, k
      <4>1. a + 8 \in 1 .. k + 1 /\ a + 9 \in 1 .. k + 1
        BY <1>1, <1>2, <2>2
      <4>. QED  BY <1>1, <4>1
    <3>2. Has(a + 8, 1) /\ Has(a + 9, 1)
      <4>. HIDE DEF a, k
      <4>1. a + 8 + 1 <= k + 1 /\ a + 9 + 1 <= k + 1
        BY <1>1, <1>2, <2>2
      <4>. QED  BY <4>1 DEF Has, k
    <3>3. m[a + 8] \in Nat /\ m[a + 9] \in Nat
      BY <3>1, <3>2, OctetAt
    <3>4. a + 8 + 1 = a + 9
      BY <1>1, <1>2
    <3>. HIDE DEF a
    <3>. QED  BY <3>3, <3>4 DEF Value
  <2>. HIDE DEF a, k
  <2>4. a + 10 \in i .. k + 1
    BY <1>1, <1>2, <2>2
  <2>. QED  BY <2>1, <2>2, <2>3, <2>4 DEF k
<1>4. CASE ~(SkipName(i).ok /\ Has(a, 10) /\ Has(a + 10, Value(a + 8)))
  <2>1. Fields(i) = [ok |-> FALSE]
    BY <1>4 DEF Fields
  <2>. QED  BY <2>1
<1>. QED  BY <1>3, <1>4

\* Behind the end there is no record.
LEMMA FieldsEnd ==
    ASSUME AreOctets
    PROVE  ~Fields(Len(m) + 1).ok
<1>1. Len(m) + 1 \in Places
  BY DEF AreOctets, Places
<1>2. SkipName(Len(m) + 1) = [ok |-> FALSE, at |-> Len(m) + 1]
  BY <1>1, SkipNameSteps
<1>. QED  BY <1>2 DEF Fields

\* A record's fields are found if it is there whole, and they are the record's.
LEMMA FieldsAt ==
    ASSUME Sent, NEW n \in 0 .. Len(zone) - 1, End(n) <= Len(m)
    PROVE  /\ Fields(End(n) + 1).ok <=> End(n + 1) <= Len(m)
           /\ End(n + 1) <= Len(m) =>
                 /\ Fields(End(n) + 1).type = zone[n + 1].type
                 /\ Fields(End(n) + 1).class = zone[n + 1].class
                 /\ Fields(End(n) + 1).length = Len(Data(zone[n + 1]))
                 /\ Fields(End(n) + 1).at = End(n) + 13
<1>. DEFINE k == Len(m)
            e == End(n)
            r == zone[n + 1]
            d == Len(Data(r))
<1>1. /\ AreOctets /\ k \in Nat /\ e \in Nat /\ End(n + 1) = e + 12 + d
      /\ \A j \in 1 .. 12 + d : e + j <= k => m[e + j] = Record(r)[j]
  <2>1. n \in 0 .. Len(zone)
    BY SentParts
  <2>. QED  BY <2>1, SentParts DEF AreOctets
<1>2. IsRecord(r)
  <2>1. AreRecords(zone)
    BY SentParts
  <2>2. n + 1 \in 1 .. Len(zone)
    BY <2>1 DEF AreRecords
  <2>. QED  BY <2>1, <2>2 DEF AreRecords
<1>3. d \in Nat
  <2>1. Data(r) \in Seq(Octet)
    BY <1>2, DataParts
  <2>. QED  BY <2>1, LenProperties
<1>4. /\ Record(r)[1] = 192 /\ Record(r)[3] * 256 + Record(r)[4] = r.type
      /\ Record(r)[5] * 256 + Record(r)[6] = r.class
      /\ Record(r)[11] * 256 + Record(r)[12] = d
  BY <1>2, RecordParts, SMTT(30)
<1>5. e <= k
  OBVIOUS
<1>. DEFINE i == e + 1
<1>6. i \in Places /\ 1 \in 1 .. 12 + d
  <2>. HIDE DEF e, d
  <2>. QED  BY <1>1, <1>3, <1>5 DEF Places
<1>7. i <= k => m[i] = 192
  BY <1>1, <1>4, <1>6, SMTT(30)
<1>. HIDE DEF r, d, e
<1>8. CASE e + 12 <= k
  <2>1. SkipName(i) = [ok |-> TRUE, at |-> i + 2]
    <3>1. i <= k /\ i + 2 <= k + 1 /\ 192 >= 64
      <4>. HIDE DEF k
      <4>. QED  BY <1>1, <1>8
    <3>. QED  BY <1>1, <1>6, <1>7, <3>1, SkipNameSteps
  <2>2. \A j \in 1 .. 12 : m[e + j] = Record(r)[j]
    <3>1. \A j \in 1 .. 12 : j \in 1 .. 12 + d /\ e + j <= k
      <4>. HIDE DEF k
      <4>. QED  BY <1>1, <1>3, <1>8
    <3>. QED  BY <1>1, <3>1
  <2>3. /\ m[e + 3] = Record(r)[3] /\ m[e + 4] = Record(r)[4] /\ m[e + 5] = Record(r)[5]
        /\ m[e + 6] = Record(r)[6] /\ m[e + 11] = Record(r)[11] /\ m[e + 12] = Record(r)[12]
    BY <2>2
  <2>4. /\ i + 2 = e + 3 /\ i + 2 + 1 = e + 4 /\ i + 2 + 2 = e + 5 /\ i + 2 + 2 + 1 = e + 6
        /\ i + 2 + 8 = e + 11 /\ i + 2 + 8 + 1 = e + 12 /\ i + 2 + 10 = e + 13
    BY <1>1
  <2>. HIDE DEF i
  <2>5. Value(i + 2) = r.type
    BY <1>4, <2>3, <2>4, SMTT(30) DEF Value
  <2>6. Value(i + 2 + 2) = r.class
    BY <1>4, <2>3, <2>4, SMTT(30) DEF Value
  <2>7. Value(i + 2 + 8) = d
    BY <1>4, <2>3, <2>4, SMTT(30) DEF Value
  <2>8. Has(i + 2, 10) /\ (Has(i + 2 + 10, d) <=> e + 12 + d <= k)
    <3>1. i + 2 + 10 <= k + 1 /\ (i + 2 + 10 + d <= k + 1 <=> e + 12 + d <= k)
      <4>. HIDE DEF k
      <4>1. i + 2 + 10 = e + 13 /\ e \in Nat /\ d \in Nat /\ k \in Nat /\ e + 12 <= k
        BY <1>1, <1>3, <1>8, <2>4
      <4>2. e + 13 <= k + 1 /\ (e + 13 + d <= k + 1 <=> e + 12 + d <= k)
        BY <4>1
      <4>. QED  BY <4>1, <4>2
    <3>. QED  BY <3>1 DEF Has
  <2>9. Fields(i) = IF e + 12 + d <= k THEN [ok |-> TRUE, type |-> r.type, class |-> r.class, length |-> d, at |-> e + 13]
                    ELSE [ok |-> FALSE]
    <3>1. SkipName(i).ok /\ SkipName(i).at = i + 2
      BY <2>1
    <3>2. CASE e + 12 + d <= k
      <4>1. SkipName(i).ok /\ Has(i + 2, 10) /\ Has(i + 2 + 10, Value(i + 2 + 8))
        BY <2>7, <2>8, <3>1, <3>2
      <4>2. Fields(i) = [ok |-> TRUE, type |-> Value(i + 2), class |-> Value(i + 2 + 2),
                         length |-> Value(i + 2 + 8), at |-> i + 2 + 10]
        BY <3>1, <4>1 DEF Fields
      <4>. QED  BY <2>4, <2>5, <2>6, <2>7, <3>2, <4>2
    <3>3. CASE ~(e + 12 + d <= k)
      <4>1. ~Has(i + 2 + 10, Value(i + 2 + 8))
        BY <2>7, <2>8, <3>3
      <4>2. Fields(i) = [ok |-> FALSE]
        BY <3>1, <4>1 DEF Fields
      <4>. QED  BY <3>3, <4>2
    <3>. QED  BY <3>2, <3>3
  <2>10. /\ Fields(i).ok <=> e + 12 + d <= k
         /\ e + 12 + d <= k => /\ Fields(i).type = r.type /\ Fields(i).class = r.class
                               /\ Fields(i).length = d /\ Fields(i).at = e + 13
    <3>1. CASE e + 12 + d <= k
      BY <2>9, <3>1
    <3>2. CASE ~(e + 12 + d <= k)
      BY <2>9, <3>2
    <3>. QED  BY <3>1, <3>2
  <2>. QED  BY <1>1, <2>10 DEF i, e, r, d
<1>9. CASE ~(e + 12 <= k)
  <2>1. ~(End(n + 1) <= k)
    <3>. HIDE DEF k
    <3>. QED  BY <1>1, <1>3, <1>9
  <2>2. ~Fields(i).ok
    <3>1. CASE i = k + 1
      BY <1>1, <3>1, FieldsEnd
    <3>2. CASE i = k
      <4>1. SkipName(i) = [ok |-> FALSE, at |-> i]
        <5>1. i <= k /\ 192 >= 64
          BY <1>1, <3>2
        <5>. QED  BY <1>1, <1>6, <1>7, <3>2, <5>1, SkipNameSteps
      <4>. QED  BY <4>1 DEF Fields
    <3>3. CASE i < k
      <4>1. SkipName(i) = [ok |-> TRUE, at |-> i + 2]
        <5>1. i <= k /\ i + 2 <= k + 1 /\ 192 >= 64
          <6>. HIDE DEF k
          <6>. QED  BY <1>1, <3>3
        <5>. QED  BY <1>1, <1>6, <1>7, <5>1, SkipNameSteps
      <4>2. ~Has(i + 2, 10)
        <5>1. ~(i + 2 + 10 <= k + 1)
          <6>. HIDE DEF k
          <6>. QED  BY <1>1, <1>9
        <5>. QED  BY <5>1 DEF Has
      <4>. HIDE DEF i
      <4>. QED  BY <4>1, <4>2 DEF Fields
    <3>4. i = k + 1 \/ i = k \/ i < k
      <4>. HIDE DEF k
      <4>. QED  BY <1>1, <1>5
    <3>. QED  BY <3>1, <3>2, <3>3, <3>4
  <2>. QED  BY <2>1, <2>2 DEF e
<1>. QED  BY <1>8, <1>9

-----------------------------------------------------------------------------
\* get of a name: what the recursion gives at each place.
NameOf(name) == [ok |-> TRUE, name |-> name]
NoName == [ok |-> FALSE, name |-> <<>>]
Before(label, rest) == [ok |-> rest.ok, name |-> label \o rest.name]
LabelAt(i) == IF Past(i) = i + 1 THEN <<>> ELSE <<SubSeq(m, i + 1, Past(i) - 1)>>
Target(i) == (Value(i) % 16384) - 11
GetBody(f, i) ==
    IF ~Has(i, 1) \/ m[i] = 0 THEN NameOf(<<>>)
    ELSE IF m[i] < 192 THEN Before(LabelAt(i), f[Past(i)])
    ELSE IF Has(i, 2) /\ Target(i) <= Len(m) THEN f[Target(i)] ELSE NoName
GetRow(f, k) == [i \in Places |-> IF k = 0 THEN NoName ELSE GetBody(f, i)]
IsGet(f) ==
    /\ \A k \in 1 .. Len(m) + 1 : \A i \in Places : f[k][i] = GetBody(f[k - 1], i)
    /\ \A i \in Places : GetName(i) = f[Len(m) + 1][i]

\* The recursive function behind get of a name does what it says.
LEMMA GetNameDef ==
    ASSUME AreOctets
    PROVE  \E f : IsGet(f)
<1>. DEFINE Is(f, n) == f = [k \in 0 .. n |-> GetRow(f[k - 1], k)]
            T == {n \in Nat : \E f : Is(f, n)}
<1>1. 0 \in T
  <2>. DEFINE f == [k \in 0 .. 0 |-> GetRow(k, 0)]
  <2>1. \A g, h : GetRow(g, 0) = GetRow(h, 0)
    BY DEF GetRow
  <2>2. Is(f, 0)
    BY <2>1
  <2>. HIDE DEF Is, f
  <2>3. \E g : Is(g, 0)
    BY <2>2, Zenon
  <2>. QED  BY <2>3
<1>2. ASSUME NEW n \in Nat, n \in T PROVE n + 1 \in T
  <2>1. PICK f : Is(f, n)
    BY <1>2
  <2>. DEFINE g == [k \in 0 .. n + 1 |-> IF k = n + 1 THEN GetRow(f[k - 1], k) ELSE f[k]]
  <2>2. \A k \in 0 .. n : f[k] = GetRow(f[k - 1], k)
    BY <2>1
  <2>3. \A k \in 0 .. n : g[k] = f[k]
    OBVIOUS
  <2>4. ASSUME NEW k \in 0 .. n + 1 PROVE g[k] = GetRow(g[k - 1], k)
    <3>1. CASE k = n + 1
      <4>1. g[k] = GetRow(f[k - 1], k) /\ k - 1 \in 0 .. n
        BY <3>1
      <4>2. g[k - 1] = f[k - 1]
        BY <2>3, <4>1
      <4>. QED  BY <4>1, <4>2
    <3>2. CASE k # n + 1
      <4>1. k \in 0 .. n
        BY <3>2
      <4>2. g[k] = GetRow(f[k - 1], k)
        BY <2>2, <2>3, <4>1
      <4>3. CASE k = 0
        <5>1. \A u, v : GetRow(u, 0) = GetRow(v, 0)
          BY DEF GetRow
        <5>. HIDE DEF g
        <5>2. GetRow(f[k - 1], k) = GetRow(g[k - 1], k)
          BY <4>3, <5>1
        <5>. QED  BY <4>2, <5>2
      <4>4. CASE k # 0
        <5>1. k - 1 \in 0 .. n
          BY <4>1, <4>4
        <5>2. g[k - 1] = f[k - 1]
          BY <2>3, <5>1
        <5>. QED  BY <4>2, <5>2
      <4>. QED  BY <4>3, <4>4
    <3>. QED  BY <3>1, <3>2
  <2>5. g = [k \in 0 .. n + 1 |-> g[k]]
    OBVIOUS
  <2>. HIDE DEF g
  <2>6. Is(g, n + 1)
    BY <2>4, <2>5
  <2>. HIDE DEF Is
  <2>7. \E h : Is(h, n + 1)
    BY <2>6, Zenon
  <2>. QED  BY <2>7
<1>. HIDE DEF Is
<1>3. Nat \subseteq T
  BY <1>1, <1>2, Induction
<1>4. \E f : Is(f, Len(m) + 1)
  BY <1>3 DEF AreOctets
<1>. DEFINE c == CHOOSE f : Is(f, Len(m) + 1)
<1>5. Is(c, Len(m) + 1)
  BY <1>4, Zenon
<1>6. \A i \in Places : GetName(i) = c[Len(m) + 1][i]
  BY DEF GetName, Is, GetRow, GetBody, NameOf, NoName, Before, LabelAt, Target, Past, Places
<1>. HIDE DEF c
<1>7. \A k \in 0 .. Len(m) + 1 : c[k] = GetRow(c[k - 1], k)
  BY <1>5 DEF Is
<1>8. ASSUME NEW k \in 1 .. Len(m) + 1, NEW i \in Places PROVE c[k][i] = GetBody(c[k - 1], i)
  <2>1. k \in 0 .. Len(m) + 1 /\ k # 0
    BY DEF AreOctets
  <2>2. c[k] = GetRow(c[k - 1], k)
    BY <1>7, <2>1
  <2>. QED  BY <2>1, <2>2 DEF GetRow
<1>9. IsGet(c)
  BY <1>6, <1>8 DEF IsGet
<1>. QED  BY <1>9, Zenon

\* With so many steps left, the name at a place is read.
Reads(f, i, n, name) == \A k \in n .. Len(m) + 1 : f[k][i] = NameOf(name)

\* The root ends a name.
LEMMA ReadRoot ==
    ASSUME AreOctets, NEW f, IsGet(f), NEW i \in Places, m[i] = 0
    PROVE  Reads(f, i, 1, <<>>)
<1>1. ASSUME NEW k \in 1 .. Len(m) + 1 PROVE f[k][i] = NameOf(<<>>)
  <2>1. f[k][i] = GetBody(f[k - 1], i)
    BY DEF IsGet
  <2>. QED  BY <2>1 DEF GetBody
<1>. QED  BY <1>1 DEF Reads

\* A label before a name that was read.
LEMMA BeforeName ==
    ASSUME NEW l, NEW rest
    PROVE  Before(l, NameOf(rest)) = NameOf(Join(l, rest))
<1>. DEFINE n == NameOf(rest)
<1>1. n.ok = TRUE /\ n.name = rest
  BY DEF NameOf
<1>. HIDE DEF n
<1>2. Before(l, n) = [ok |-> TRUE, name |-> Join(l, rest)]
  BY <1>1, Zenon DEF Before, Join
<1>. QED  BY <1>2 DEF n, NameOf

\* A label is read, if the rest of the name is.
LEMMA ReadLabel ==
    ASSUME AreOctets, NEW f, IsGet(f), NEW i \in Nat, NEW label \in Label, NEW n \in Nat, NEW rest,
           0 < i, 0 < n, i + Len(label) <= Len(m), m[i] = Len(label),
           \A j \in 1 .. Len(label) : m[i + j] = label[j],
           Reads(f, i + Len(label) + 1, n, rest)
    PROVE  Reads(f, i, n + 1, Join(<<label>>, rest))
<1>. DEFINE w == Len(label)
            k == Len(m)
<1>1. k \in Nat /\ w \in 1 .. 63 /\ label \in Seq(Octet) /\ i + w <= k /\ m[i] = w
  BY LabelOctets DEF AreOctets
<1>3. i \in 1 .. k + 1 /\ i # k + 1 /\ i + w + 1 \in 1 .. k + 1 /\ i + w + 1 # i + 1 /\ w # 0 /\ w < 192
      /\ (IF i + w + 1 < k + 1 THEN i + w + 1 ELSE k + 1) = i + w + 1
      /\ i + w + 1 - 1 = i + w
  <2>. HIDE DEF w, k
  <2>. QED  BY <1>1
<1>4. Past(i) = i + w + 1 /\ i \in Places /\ Has(i, 1)
  <2>1. i \in Places
    BY <1>3 DEF Places
  <2>2. Has(i, 1)
    BY <1>3, <2>1, OctetAt
  <2>. QED  BY <1>1, <1>3, <2>1, <2>2 DEF Past, Lesser
<1>5. SubSeq(m, i + 1, i + w) = label
  <2>. DEFINE s == SubSeq(m, i + 1, i + w)
  <2>1. i + 1 \in Int /\ i + w \in Int /\ \A j \in i + 1 .. i + w : m[j] \in Octet
    <3>1. \A j \in i + 1 .. i + w : j \in 1 .. k
      <4>. HIDE DEF w, k
      <4>. QED  BY <1>1
    <3>2. \A j \in 1 .. k : m[j] \in Octet
      BY ElementOfSeq DEF AreOctets
    <3>. QED  BY <1>1, <3>1, <3>2
  <2>. DEFINE a == i + 1
              b == i + w
  <2>2. /\ a \in Int /\ b \in Int /\ a <= b /\ b - a + 1 = w
        /\ \A j \in 1 .. w : a + j - 1 = i + j
    <3>. HIDE DEF w
    <3>. QED  BY <1>1
  <2>3. \A j \in a .. b : m[j] \in Octet
    BY <2>1
  <2>. HIDE DEF a, b
  <2>4. s \in Seq(Octet) /\ Len(s) = w
    <3>1. SubSeq(m, a, b) \in Seq(Octet)
      BY <2>2, <2>3, SubSeqProperties
    <3>2. Len(SubSeq(m, a, b)) = IF a <= b THEN b - a + 1 ELSE 0
      BY <2>2, <2>3, SubSeqProperties
    <3>3. Len(SubSeq(m, a, b)) = w
      BY <2>2, <3>2
    <3>. QED  BY <3>1, <3>3 DEF a, b
  <2>5. \A j \in 1 .. w : s[j] = m[i + j]
    <3>1. \A j \in 1 .. b - a + 1 : SubSeq(m, a, b)[j] = m[a + j - 1]
      BY <2>2, <2>3, SubSeqProperties
    <3>. HIDE DEF w
    <3>2. \A j \in 1 .. w : SubSeq(m, a, b)[j] = m[i + j]
      BY <2>2, <3>1
    <3>. QED  BY <3>2 DEF a, b
  <2>. HIDE DEF s
  <2>6. s = label
    BY <1>1, <2>4, <2>5, SeqEqual
  <2>. QED  BY <2>6 DEF s
<1>6. LabelAt(i) = <<label>>
  <2>1. Past(i) # i + 1 /\ Past(i) - 1 = i + w
    BY <1>3, <1>4
  <2>. HIDE DEF w
  <2>. QED  BY <1>5, <2>1 DEF LabelAt
<1>7. ASSUME NEW q \in n + 1 .. k + 1 PROVE f[q][i] = NameOf(Join(<<label>>, rest))
  <2>1. q \in 1 .. k + 1 /\ q - 1 \in n .. k + 1
    <3>. HIDE DEF k
    <3>. QED  BY <1>1
  <2>2. f[q][i] = GetBody(f[q - 1], i)
    BY <1>4, <2>1 DEF IsGet
  <2>3. f[q - 1][i + w + 1] = NameOf(rest)
    BY <2>1 DEF Reads
  <2>4. m[i] # 0 /\ m[i] < 192
    BY <1>1, <1>3
  <2>5. GetBody(f[q - 1], i) = Before(LabelAt(i), f[q - 1][Past(i)])
    BY <1>4, <2>4 DEF GetBody
  <2>6. GetBody(f[q - 1], i) = Before(<<label>>, NameOf(rest))
    BY <1>4, <1>6, <2>3, <2>5
  <2>. QED  BY <2>2, <2>6, BeforeName
<1>. QED  BY <1>7 DEF Reads

\* A mark that leads to the question stands for the name of the question.
LEMMA ReadMark ==
    ASSUME AreOctets, NEW f, IsGet(f), NEW i \in Nat, NEW n \in Nat, NEW name,
           0 < i, 0 < n, i + 1 <= Len(m), m[i] = 192, m[i + 1] = 12, Reads(f, 1, n, name)
    PROVE  Reads(f, i, n + 1, name)
<1>. DEFINE k == Len(m)
<1>1. k \in Nat /\ i + 1 <= k
  BY DEF AreOctets
<1>2. i \in 1 .. k + 1 /\ i + 1 <= k + 1 /\ i + 2 <= k + 1 /\ 1 <= k
  <2>. HIDE DEF k
  <2>. QED  BY <1>1
<1>3. Value(i) = 49164
  BY DEF Value
<1>4. 49164 % 16384 = 12
  OBVIOUS
<1>5. Target(i) = 1
  BY <1>3, <1>4 DEF Target
<1>6. ASSUME NEW q \in n + 1 .. k + 1 PROVE f[q][i] = NameOf(name)
  <2>1. q \in 1 .. k + 1 /\ q - 1 \in n .. k + 1
    <3>. HIDE DEF k
    <3>. QED  BY <1>1
  <2>2. f[q][i] = GetBody(f[q - 1], i)
    BY <1>2, <2>1 DEF IsGet, Places
  <2>3. f[q - 1][1] = NameOf(name)
    BY <2>1 DEF Reads
  <2>4. Has(i, 1) /\ Has(i, 2) /\ m[i] # 0 /\ ~(m[i] < 192)
    BY <1>2 DEF Has
  <2>5. GetBody(f[q - 1], i) = f[q - 1][Target(i)]
    BY <1>2, <1>5, <2>4 DEF GetBody
  <2>. QED  BY <1>5, <2>2, <2>3, <2>5
<1>. QED  BY <1>6 DEF Reads

\* The labels behind the n-th.
Suffix(s, n) == SubSeq(s, n + 1, Len(s))

\* What is left of a sequence behind its first n elements.
LEMMA SuffixParts ==
    ASSUME NEW S, NEW s \in Seq(S)
    PROVE  /\ Suffix(s, 0) = s /\ Suffix(s, Len(s)) = <<>>
           /\ \A n \in 0 .. Len(s) - 1 : Suffix(s, n) = Join(<<s[n + 1]>>, Suffix(s, n + 1))
<1>. DEFINE L == Len(s)
<1>1. L \in Nat /\ \A j \in 1 .. L : s[j] \in S
  BY LenProperties, ElementOfSeq
<1>2. ASSUME NEW n \in 0 .. L
      PROVE  /\ Suffix(s, n) \in Seq(S) /\ Len(Suffix(s, n)) = L - n
             /\ \A j \in 1 .. L - n : Suffix(s, n)[j] = s[n + j]
  <2>. DEFINE a == n + 1
              t == SubSeq(s, a, L)
  <2>1. a \in Int /\ L \in Int /\ \A j \in a .. L : s[j] \in S
    <3>1. a \in Int /\ L \in Int /\ \A j \in a .. L : j \in 1 .. L
      BY <1>1
    <3>. QED  BY <1>1, <3>1
  <2>. HIDE DEF a, L
  <2>2. t \in Seq(S)
    BY <2>1, SubSeqProperties
  <2>3. Len(t) = IF a <= L THEN L - a + 1 ELSE 0
    BY <2>1, SubSeqProperties
  <2>4. \A j \in 1 .. L - a + 1 : t[j] = s[a + j - 1]
    BY <2>1, SubSeqProperties
  <2>. HIDE DEF t
  <2>5. L - a + 1 = L - n /\ Len(t) = L - n /\ \A j \in 1 .. L - n : a + j - 1 = n + j
    BY <1>1, <2>3 DEF a
  <2>6. \A j \in 1 .. L - n : t[j] = s[n + j]
    BY <2>4, <2>5
  <2>7. Suffix(s, n) = t
    BY DEF Suffix, t, a, L
  <2>. QED  BY <2>2, <2>5, <2>6, <2>7
<1>3. Suffix(s, L) = <<>>
  <2>1. L \in 0 .. L /\ L - L = 0
    BY <1>1
  <2>2. Suffix(s, L) \in Seq(S) /\ Len(Suffix(s, L)) = 0
    BY <1>2, <2>1
  <2>. QED  BY <2>2, EmptySeq
<1>4. Suffix(s, 0) = s
  <2>1. 0 \in 0 .. L /\ L - 0 = L /\ \A j \in 1 .. L : 0 + j = j
    BY <1>1
  <2>. DEFINE t == Suffix(s, 0)
  <2>2. t \in Seq(S) /\ Len(t) = L - 0 /\ \A j \in 1 .. L - 0 : t[j] = s[0 + j]
    BY <1>2, <2>1, Zenon
  <2>. HIDE DEF t
  <2>3. \A j \in 1 .. L : t[j] = s[j]
    BY <2>1, <2>2
  <2>4. t \in Seq(S) /\ Len(t) = Len(s) /\ \A j \in 1 .. Len(t) : t[j] = s[j]
    BY <2>1, <2>2, <2>3
  <2>5. t = s
    BY <2>4, SeqEqual
  <2>. QED  BY <2>5 DEF t
<1>5. ASSUME NEW n \in 0 .. L - 1 PROVE Suffix(s, n) = Join(<<s[n + 1]>>, Suffix(s, n + 1))
  <2>. DEFINE x == <<s[n + 1]>>
              t == Suffix(s, n + 1)
              u == x \o t
              v == Suffix(s, n)
  <2>1. n \in 0 .. L /\ n + 1 \in 0 .. L /\ n + 1 \in 1 .. L
    BY <1>1
  <2>2. t \in Seq(S) /\ Len(t) = L - (n + 1) /\ \A j \in 1 .. L - (n + 1) : t[j] = s[n + 1 + j]
    BY <1>2, <2>1
  <2>3. v \in Seq(S) /\ Len(v) = L - n /\ \A j \in 1 .. L - n : v[j] = s[n + j]
    BY <1>2, <2>1
  <2>4. x \in Seq(S) /\ Len(x) = 1 /\ x[1] = s[n + 1]
    BY <1>1, <2>1
  <2>. HIDE DEF x, t
  <2>5. u \in Seq(S)
    BY <2>2, <2>4, ConcatParts
  <2>6. Len(u) = Len(x) + Len(t) /\ Len(x) \in Nat /\ Len(t) \in Nat
    BY <2>2, <2>4, ConcatParts
  <2>7. \A j \in 1 .. Len(x) : u[j] = x[j]
    BY <2>2, <2>4, ConcatParts
  <2>8. \A j \in 1 .. Len(t) : u[Len(x) + j] = t[j]
    <3>1. x \in Seq(S) /\ t \in Seq(S)
      BY <2>2, <2>4
    <3>. QED  BY <3>1, ConcatParts
  <2>. HIDE DEF u, v, L
  <2>9. Len(u) = Len(v)
    BY <1>1, <2>1, <2>2, <2>3, <2>4, <2>6
  <2>10. ASSUME NEW j \in 1 .. Len(v) PROVE v[j] = u[j]
    <3>1. j \in 1 .. L - n /\ v[j] = s[n + j]
      BY <2>3
    <3>2. CASE j = 1
      BY <2>4, <2>7, <3>1, <3>2
    <3>3. CASE j # 1
      <4>1. j - 1 \in 1 .. L - (n + 1) /\ 1 + (j - 1) = j /\ n + 1 + (j - 1) = n + j
        BY <1>1, <3>1, <3>3
      <4>2. u[1 + (j - 1)] = t[j - 1] /\ t[j - 1] = s[n + 1 + (j - 1)]
        BY <2>2, <2>4, <2>8, <4>1
      <4>. QED  BY <3>1, <4>1, <4>2
    <3>. QED  BY <3>2, <3>3
  <2>11. v = u
    BY <2>3, <2>5, <2>9, <2>10, SeqEqual
  <2>. QED  BY <2>11 DEF u, v, x, t, Join
<1>. QED  BY <1>3, <1>4, <1>5

\* A name is read as it was put.
LEMMA ReadPut ==
    ASSUME AreOctets, NEW f, IsGet(f), NEW name \in Seq(Label), NEW p \in Nat,
           p + Len(Put(name)) <= Len(m), \A j \in 1 .. Len(Put(name)) : m[p + j] = Put(name)[j]
    PROVE  Reads(f, p + 1, Len(name) + 1, name)
<1>. DEFINE k == Len(m)
            L == Len(name)
            z == Len(Put(name))
            B(n) == Len(Body(name, n))
            T == {d \in Nat : d <= L => Reads(f, p + B(L - d) + 1, d + 1, Suffix(name, L - d))}
<1>1. k \in Nat /\ L \in Nat /\ Places = 1 .. k + 1
  BY LenProperties DEF AreOctets, Places
<1>2. /\ Put(name) \in Seq(Octet) /\ z = B(L) + 1 /\ Put(name)[z] = 0
      /\ \A n \in 0 .. L : B(n) < z
      /\ \A n \in 0 .. L - 1 :
            /\ B(n + 1) = B(n) + 1 + Len(name[n + 1]) /\ Put(name)[B(n) + 1] = Len(name[n + 1])
            /\ \A j \in 1 .. Len(name[n + 1]) : Put(name)[B(n) + 1 + j] = name[n + 1][j]
  BY PutParts
<1>3. \A n \in 0 .. L : B(n) \in Nat
  BY BodyParts
<1>4. B(0) = 0
  <2>1. Body(name, 0) = <<>>
    BY BodyParts
  <2>. QED  BY <2>1
<1>5. z \in Nat
  BY <1>2, LenProperties
<1>6. \A n \in 0 .. L - 1 : name[n + 1] \in Label /\ Len(name[n + 1]) \in 1 .. 63
  <2>1. \A i \in 1 .. L : name[i] \in Label
    BY PartsOf
  <2>2. \A n \in 0 .. L - 1 : n + 1 \in 1 .. L
    BY <1>1
  <2>. QED  BY <2>1, <2>2 DEF Label
<1>7. p + z <= k /\ \A j \in 1 .. z : m[p + j] = Put(name)[j]
  OBVIOUS
<1>8. /\ Suffix(name, 0) = name /\ Suffix(name, L) = <<>>
      /\ \A n \in 0 .. L - 1 : Suffix(name, n) = Join(<<name[n + 1]>>, Suffix(name, n + 1))
  BY SuffixParts
<1>. HIDE DEF L, z, B
<1>9. 0 \in T
  <2>1. L - 0 = L /\ L \in 0 .. L
    BY <1>1
  <2>2. B(L) \in Nat
    BY <1>3, <2>1
  <2>3. p + B(L) + 1 = p + z /\ p + z \in 1 .. k + 1 /\ z \in 1 .. z
    <3>. HIDE DEF k
    <3>1. z = B(L) + 1 /\ p + z <= k
      <4>1. z = B(L) + 1
        BY <1>2, Zenon
      <4>. QED  BY <1>7, <4>1
    <3>. QED  BY <1>1, <1>5, <2>2, <3>1
  <2>4. m[p + z] = 0 /\ p + z \in Places
    BY <1>1, <1>2, <1>7, <2>3
  <2>5. Reads(f, p + z, 1, <<>>)
    BY <2>4, ReadRoot
  <2>. QED  BY <1>8, <2>1, <2>3, <2>5
<1>10. ASSUME NEW d \in Nat, d \in T PROVE d + 1 \in T
  <2>. DEFINE n == L - (d + 1)
              i == p + B(n) + 1
              l == name[n + 1]
  <2>. SUFFICES ASSUME d + 1 <= L PROVE Reads(f, i, d + 1 + 1, Suffix(name, n))
    OBVIOUS
  <2>1. n \in 0 .. L - 1 /\ n \in 0 .. L /\ n + 1 = L - d /\ n + 1 \in 0 .. L /\ d <= L
    BY <1>1
  <2>2. Reads(f, p + B(n + 1) + 1, d + 1, Suffix(name, n + 1))
    BY <1>10, <2>1
  <2>. HIDE DEF n
  <2>3. /\ l \in Label /\ Len(l) \in 1 .. 63
        /\ B(n + 1) = B(n) + 1 + Len(l) /\ Put(name)[B(n) + 1] = Len(l)
        /\ \A j \in 1 .. Len(l) : Put(name)[B(n) + 1 + j] = l[j]
    BY <1>2, <1>6, <2>1
  <2>4. B(n) \in Nat /\ B(n) < z /\ B(n + 1) < z
    BY <1>2, <1>3, <2>1
  <2>. DEFINE w == Len(l)
  <2>5. /\ i \in Nat /\ 0 < i /\ i + w <= k /\ p + B(n + 1) + 1 = i + w + 1
        /\ p + (B(n) + 1) = i /\ B(n) + 1 \in 1 .. z
        /\ \A j \in 1 .. w : p + (B(n) + 1 + j) = i + j /\ B(n) + 1 + j \in 1 .. z
    <3>1. w \in 1 .. 63 /\ B(n + 1) = B(n) + 1 + w
      BY <2>3
    <3>. DEFINE b == B(n)
                c == B(n + 1)
    <3>2. b \in Nat /\ b < z /\ c < z /\ c = b + 1 + w /\ p + z <= k
      BY <1>7, <2>4, <3>1
    <3>. HIDE DEF w, k, b, c, i
    <3>3. /\ p + b + 1 \in Nat /\ 0 < p + b + 1 /\ p + b + 1 + w <= k /\ p + c + 1 = p + b + 1 + w + 1
          /\ p + (b + 1) = p + b + 1 /\ b + 1 \in 1 .. z
      BY <1>1, <1>5, <3>1, <3>2
    <3>4. \A j \in 1 .. w : p + (b + 1 + j) = p + b + 1 + j /\ b + 1 + j \in 1 .. z
      BY <1>1, <1>5, <3>1, <3>2
    <3>. QED  BY <3>3, <3>4 DEF b, c, i
  <2>6. m[i] = w
    BY <1>7, <2>3, <2>5
  <2>7. \A j \in 1 .. w : m[i + j] = l[j]
    BY <1>7, <2>3, <2>5
  <2>8. Reads(f, i + w + 1, d + 1, Suffix(name, n + 1))
    BY <2>2, <2>5
  <2>9. d + 1 \in Nat /\ 0 < d + 1
    OBVIOUS
  <2>. DEFINE rest == Suffix(name, n + 1)
              c == d + 1
  <2>. HIDE DEF l, i, rest, c
  <2>10. Reads(f, i, c + 1, Join(<<l>>, rest))
    <3>1. i + Len(l) <= Len(m) /\ m[i] = Len(l) /\ \A j \in 1 .. Len(l) : m[i + j] = l[j]
      BY <2>5, <2>6, <2>7
    <3>2. Reads(f, i + Len(l) + 1, c, rest) /\ c \in Nat /\ 0 < c
      BY <2>8, <2>9 DEF c, rest
    <3>. QED  BY <2>3, <2>5, <3>1, <3>2, ReadLabel
  <2>. QED  BY <1>8, <2>1, <2>10 DEF i, l, rest, c
<1>. HIDE DEF T
<1>11. Nat \subseteq T
  BY <1>9, <1>10, Induction
<1>12. L \in T /\ L - L = 0 /\ p + 0 + 1 = p + 1
  BY <1>1, <1>11
<1>13. Reads(f, p + 1, L + 1, name)
  BY <1>4, <1>8, <1>12 DEF T
<1>. QED  BY <1>13 DEF L

\* A name is read as it was put, whatever way.
LEMMA HostAt ==
    ASSUME Sent, NEW host, IsName(host), NEW p \in Nat, End(0) <= p, p + Len(Compressed(host)) <= Len(m),
           \A j \in 1 .. Len(Compressed(host)) : m[p + j] = Compressed(host)[j]
    PROVE  GetName(p + 1) = NameOf(host)
<1>. DEFINE k == Len(m)
            L == Len(Name)
            z == Len(Put(Name))
            c == Compressed(host)
            x == Len(c)
<1>1. AreOctets /\ k \in Nat /\ End(0) = z + 4 /\ \A j \in 1 .. z : j <= k => m[j] = Put(Name)[j]
  BY SentParts DEF AreOctets
<1>2. IsName(Name) /\ Name \in Seq(Label) /\ z \in 1 .. 255 /\ L \in Nat /\ L + 1 <= z
  BY HeaderAssumption, NameParts
<1>3. c \in Seq(Octet) /\ x \in 1 .. 255
  BY CompressedParts
<1>4. p + x <= k /\ z + 4 <= p /\ \A j \in 1 .. x : m[p + j] = c[j]
  BY <1>1
<1>5. PICK f : IsGet(f)
  BY <1>1, GetNameDef
<1>. HIDE DEF k, L, z, c, x
<1>6. p + 1 \in 1 .. k + 1 /\ z <= k /\ 0 + z <= k /\ L + 3 <= k /\ k + 1 \in Nat /\ \A j \in 1 .. z : j <= k
  BY <1>1, <1>2, <1>3, <1>4
<1>12. L + 1 \in Nat /\ 0 < L + 1 /\ L + 2 \in 1 .. k + 1 /\ L + 3 \in 1 .. k + 1 /\ L + 1 + 1 = L + 2 /\ L + 2 + 1 = L + 3
  <2>1. L \in Nat /\ L + 3 <= k /\ k \in Nat
    BY <1>1, <1>2, <1>6
  <2>. QED  BY <2>1
<1>7. Reads(f, 1, L + 1, Name)
  <2>1. \A j \in 1 .. z : m[0 + j] = Put(Name)[j]
    BY <1>1, <1>2, <1>6
  <2>2. 0 + Len(Put(Name)) <= Len(m) /\ \A j \in 1 .. Len(Put(Name)) : m[0 + j] = Put(Name)[j] /\ 0 \in Nat
    BY <1>6, <2>1 DEF z, k
  <2>3. Reads(f, 0 + 1, Len(Name) + 1, Name)
    BY <1>1, <1>2, <1>5, <2>2, ReadPut
  <2>. QED  BY <2>3 DEF L
<1>8. SUFFICES \E n \in 1 .. k + 1 : Reads(f, p + 1, n, host)
  <2>1. ASSUME NEW n \in 1 .. k + 1, Reads(f, p + 1, n, host) PROVE GetName(p + 1) = NameOf(host)
    <3>1. k + 1 \in n .. k + 1 /\ p + 1 \in Places
      BY <1>1, <1>6 DEF Places, k
    <3>2. f[k + 1][p + 1] = NameOf(host)
      BY <2>1, <3>1 DEF Reads, k
    <3>. QED  BY <1>5, <3>1, <3>2 DEF IsGet, k
  <2>. QED  BY <2>1
<1>9. CASE host = Name
  <2>1. c = Repeat
    BY <1>9, CompressedForms DEF c
  <2>2. x = 2 /\ c[1] = 192 /\ c[2] = 12
    BY <2>1, RepeatParts DEF x
  <2>3. m[p + 1] = 192 /\ m[p + 1 + 1] = 12 /\ p + 1 + 1 <= k
    <3>1. m[p + 1] = c[1] /\ m[p + 2] = c[2] /\ p + 2 <= k /\ p + 2 = p + 1 + 1
      BY <1>4, <2>2
    <3>. QED  BY <2>2, <3>1
  <2>. DEFINE i == p + 1
              n == L + 1
  <2>4. i \in Nat /\ 0 < i /\ n \in Nat /\ 0 < n
    BY <1>2
  <2>5. m[i] = 192 /\ m[i + 1] = 12 /\ i + 1 <= Len(m) /\ Reads(f, 1, n, Name)
    BY <1>7, <2>3 DEF k
  <2>. HIDE DEF i, n
  <2>6. Reads(f, i, n + 1, Name)
    BY <1>1, <1>5, <2>4, <2>5, ReadMark
  <2>7. n + 1 \in 1 .. k + 1
    BY <1>12 DEF n
  <2>. QED  BY <1>9, <2>6, <2>7 DEF i
<1>10. CASE IsRest(host)
  <2>. DEFINE l == host[1]
              w == Len(l)
              q == Part(l)
              i == p + 1
              i2 == i + w + 1
              n == L + 1
              n2 == n + 1
  <2>1. c = q \o Repeat /\ l \in Label /\ host = Join(<<l>>, Name)
    BY <1>10, CompressedForms DEF c, Join
  <2>2. /\ q \in Seq(Octet) /\ Len(q) = w + 1 /\ w \in 1 .. 63 /\ q[1] = w
        /\ \A j \in 1 .. w : q[j + 1] = l[j]
    BY <2>1, PartParts
  <2>. HIDE DEF q, l
  <2>3. /\ Len(c) = Len(q) + Len(Repeat)
        /\ \A j \in 1 .. Len(q) : c[j] = q[j]
        /\ \A j \in 1 .. Len(Repeat) : c[Len(q) + j] = Repeat[j]
    <3>1. q \in Seq(Octet) /\ Repeat \in Seq(Octet)
      BY <2>2, RepeatParts
    <3>2. /\ Len(q \o Repeat) = Len(q) + Len(Repeat)
          /\ \A j \in 1 .. Len(q) : (q \o Repeat)[j] = q[j]
          /\ \A j \in 1 .. Len(Repeat) : (q \o Repeat)[Len(q) + j] = Repeat[j]
      BY <3>1, Concat
    <3>. QED  BY <2>1, <3>2
  <2>. HIDE DEF w
  <2>4. x = w + 3 /\ c[1] = w /\ c[w + 2] = 192 /\ c[w + 3] = 12 /\ \A j \in 1 .. w : c[j + 1] = l[j]
    <3>1. Len(Repeat) = 2 /\ Repeat[1] = 192 /\ Repeat[2] = 12
      BY RepeatParts
    <3>2. x = w + 3 /\ 1 \in 1 .. Len(q) /\ \A j \in 1 .. w : j + 1 \in 1 .. Len(q)
      BY <2>2, <2>3, <3>1 DEF x
    <3>3. Len(q) + 1 = w + 2 /\ Len(q) + 2 = w + 3
      BY <2>2
    <3>4. c[Len(q) + 1] = Repeat[1] /\ c[Len(q) + 2] = Repeat[2]
      BY <2>3, <3>1
    <3>. QED  BY <2>2, <2>3, <3>1, <3>2, <3>3, <3>4
  <2>5. /\ p + 1 = i /\ i \in Nat /\ 0 < i /\ i2 \in Nat /\ 0 < i2 /\ p + (w + 2) = i2 /\ p + (w + 3) = i2 + 1
        /\ i + w <= k /\ i2 + 1 <= k /\ 1 \in 1 .. x /\ w + 2 \in 1 .. x /\ w + 3 \in 1 .. x
        /\ \A j \in 1 .. w : p + (j + 1) = i + j /\ j + 1 \in 1 .. x
    BY <1>1, <1>4, <2>2, <2>4
  <2>6. m[i] = w /\ m[i2] = 192 /\ m[i2 + 1] = 12
    <3>1. m[p + 1] = c[1] /\ m[p + (w + 2)] = c[w + 2] /\ m[p + (w + 3)] = c[w + 3]
      BY <1>4, <2>5
    <3>. HIDE DEF i, i2
    <3>. QED  BY <2>4, <2>5, <3>1
  <2>7. \A j \in 1 .. w : m[i + j] = l[j]
    BY <1>4, <2>4, <2>5
  <2>8. n \in Nat /\ 0 < n /\ n2 \in Nat /\ 0 < n2 /\ n2 + 1 \in 1 .. k + 1
    BY <1>12
  <2>9. Reads(f, 1, n, Name)
    BY <1>7
  <2>10. i2 = i + Len(l) + 1 /\ i + Len(l) <= Len(m) /\ i2 + 1 <= Len(m) /\ m[i] = Len(l)
         /\ \A j \in 1 .. Len(l) : m[i + j] = l[j]
    BY <2>5, <2>6, <2>7 DEF k, w
  <2>. HIDE DEF i, n, i2
  <2>11. Reads(f, i2, n + 1, Name)
    BY <1>1, <1>5, <2>5, <2>6, <2>8, <2>9, <2>10, ReadMark
  <2>. DEFINE v == n + 1
  <2>12. Reads(f, i + Len(l) + 1, v, Name) /\ v \in Nat /\ 0 < v
    BY <2>8, <2>10, <2>11
  <2>. HIDE DEF v
  <2>13. Reads(f, i, v + 1, Join(<<l>>, Name))
    BY <1>1, <1>5, <2>1, <2>5, <2>10, <2>12, ReadLabel
  <2>. QED  BY <2>1, <2>8, <2>13 DEF i, v
<1>11. CASE host # Name /\ ~IsRest(host)
  <2>1. c = Put(host) /\ host \in Seq(Label) /\ Len(host) \in Nat /\ Len(host) + 1 <= Len(Put(host))
    BY <1>11, CompressedForms, NameParts DEF c
  <2>2. p + Len(Put(host)) <= Len(m) /\ \A j \in 1 .. Len(Put(host)) : m[p + j] = Put(host)[j]
    BY <1>4, <2>1 DEF x, k
  <2>3. Reads(f, p + 1, Len(host) + 1, host)
    BY <1>1, <1>5, <2>1, <2>2, ReadPut
  <2>4. Len(host) + 1 \in 1 .. k + 1
    <3>. DEFINE n == Len(host)
    <3>1. n \in Nat /\ n + 1 <= x
      BY <2>1 DEF x
    <3>. HIDE DEF n
    <3>2. n + 1 \in 1 .. k + 1
      BY <1>1, <1>3, <1>4, <3>1
    <3>. QED  BY <3>2 DEF n
  <2>. QED  BY <2>3, <2>4
<1>. QED  BY <1>9, <1>10, <1>11

-----------------------------------------------------------------------------
\* The records of a type, up to each.
Match(r, type) == r.type = type /\ r.class = CLASS_IN
KeptRow(s, n, type) ==
    IF n = 0 THEN <<>>
    ELSE IF zone[n].type = type /\ zone[n].class = CLASS_IN THEN Append(s, zone[n]) ELSE s

\* The recursive function Kept does what it says.
LEMMA KeptDef ==
    ASSUME NEW type, Len(zone) \in Nat
    PROVE  \A n \in 0 .. Len(zone) : Kept(type)[n] = KeptRow(Kept(type)[n - 1], n, type)
<1>. DEFINE Is(f, n) == f = [k \in 0 .. n |-> KeptRow(f[k - 1], k, type)]
            T == {n \in Nat : \E f : Is(f, n)}
<1>1. 0 \in T
  <2>. DEFINE f == [k \in 0 .. 0 |-> KeptRow(k, 0, type)]
  <2>1. \A g, h : KeptRow(g, 0, type) = KeptRow(h, 0, type)
    BY DEF KeptRow
  <2>2. Is(f, 0)
    BY <2>1
  <2>. HIDE DEF Is, f
  <2>3. \E g : Is(g, 0)
    BY <2>2, Zenon
  <2>. QED  BY <2>3
<1>2. ASSUME NEW n \in Nat, n \in T PROVE n + 1 \in T
  <2>1. PICK f : Is(f, n)
    BY <1>2
  <2>. DEFINE g == [k \in 0 .. n + 1 |-> IF k = n + 1 THEN KeptRow(f[k - 1], k, type) ELSE f[k]]
  <2>2. \A k \in 0 .. n : f[k] = KeptRow(f[k - 1], k, type)
    BY <2>1
  <2>3. \A k \in 0 .. n : g[k] = f[k]
    OBVIOUS
  <2>4. ASSUME NEW k \in 0 .. n + 1 PROVE g[k] = KeptRow(g[k - 1], k, type)
    <3>1. CASE k = n + 1
      <4>1. g[k] = KeptRow(f[k - 1], k, type) /\ k - 1 \in 0 .. n
        BY <3>1
      <4>2. g[k - 1] = f[k - 1]
        BY <2>3, <4>1
      <4>. QED  BY <4>1, <4>2
    <3>2. CASE k # n + 1
      <4>1. k \in 0 .. n
        BY <3>2
      <4>2. g[k] = KeptRow(f[k - 1], k, type)
        BY <2>2, <2>3, <4>1
      <4>3. CASE k = 0
        <5>1. \A u, v : KeptRow(u, 0, type) = KeptRow(v, 0, type)
          BY DEF KeptRow
        <5>. HIDE DEF g
        <5>2. KeptRow(f[k - 1], k, type) = KeptRow(g[k - 1], k, type)
          BY <4>3, <5>1
        <5>. QED  BY <4>2, <5>2
      <4>4. CASE k # 0
        <5>1. k - 1 \in 0 .. n
          BY <4>1, <4>4
        <5>2. g[k - 1] = f[k - 1]
          BY <2>3, <5>1
        <5>. QED  BY <4>2, <5>2
      <4>. QED  BY <4>3, <4>4
    <3>. QED  BY <3>1, <3>2
  <2>5. g = [k \in 0 .. n + 1 |-> g[k]]
    OBVIOUS
  <2>. HIDE DEF g
  <2>6. Is(g, n + 1)
    BY <2>4, <2>5
  <2>. HIDE DEF Is
  <2>7. \E h : Is(h, n + 1)
    BY <2>6, Zenon
  <2>. QED  BY <2>7
<1>. HIDE DEF Is
<1>3. Nat \subseteq T
  BY <1>1, <1>2, Induction
<1>4. \E f : Is(f, Len(zone))
  BY <1>3
<1>. DEFINE c == CHOOSE f : Is(f, Len(zone))
<1>5. Is(c, Len(zone))
  BY <1>4, Zenon
<1>6. Kept(type) = c
  BY DEF Kept, Is, KeptRow
<1>. HIDE DEF c
<1>7. \A n \in 0 .. Len(zone) : c[n] = KeptRow(c[n - 1], n, type)
  BY <1>5 DEF Is
<1>. QED  BY <1>6, <1>7

KeptNext(type, n) ==
    Kept(type)[n + 1] = IF Match(zone[n + 1], type) THEN Append(Kept(type)[n], zone[n + 1]) ELSE Kept(type)[n]

\* They are taken one by one, and stay in their places.
LEMMA KeptParts ==
    ASSUME NEW type, AreRecords(zone)
    PROVE  /\ Kept(type)[0] = <<>>
           /\ \A n \in 0 .. Len(zone) - 1 : KeptNext(type, n)
           /\ \A n \in 0 .. Len(zone) : Kept(type)[n] \in Seq(ToSet(zone))
           /\ \A q \in 0 .. Len(zone) : \A n \in 0 .. q :
                 /\ Len(Kept(type)[n]) <= Len(Kept(type)[q])
                 /\ \A j \in 1 .. Len(Kept(type)[n]) : Kept(type)[q][j] = Kept(type)[n][j]
<1>. DEFINE L == Len(zone)
            S == ToSet(zone)
            b == Kept(type)
            p == [n \in 0 .. L - 1 |-> IF Match(zone[n + 1], type) THEN <<zone[n + 1]>> ELSE <<>>]
<1>1. L \in Nat /\ zone \in Seq(S)
  BY DEF AreRecords
<1>2. \A n \in 0 .. L : b[n] = KeptRow(b[n - 1], n, type)
  BY <1>1, KeptDef
<1>3. \A n \in 0 .. L - 1 : zone[n + 1] \in S
  <2>1. \A j \in 1 .. L : zone[j] \in S
    BY <1>1, ElementOfSeq
  <2>2. \A n \in 0 .. L - 1 : n + 1 \in 1 .. L
    BY <1>1
  <2>. QED  BY <2>1, <2>2
<1>4. \A n \in 0 .. L - 1 : p[n] = IF Match(zone[n + 1], type) THEN <<zone[n + 1]>> ELSE <<>>
  OBVIOUS
<1>. HIDE DEF b, p, L, S
<1>5. b[0] = <<>>
  <2>1. 0 \in 0 .. L
    BY <1>1
  <2>. QED  BY <1>2, <2>1 DEF KeptRow
<1>6. ASSUME NEW n \in 0 .. L - 1
      PROVE  b[n + 1] = IF Match(zone[n + 1], type) THEN Append(b[n], zone[n + 1]) ELSE b[n]
  <2>1. n + 1 \in 0 .. L /\ n + 1 # 0 /\ n + 1 - 1 = n
    BY <1>1
  <2>2. b[n + 1] = KeptRow(b[n + 1 - 1], n + 1, type)
    BY <1>2, <2>1
  <2>. QED  BY <2>1, <2>2 DEF KeptRow, Match
<1>7. \A n \in 0 .. L : b[n] \in Seq(S)
  <2>. DEFINE T == {n \in Nat : n <= L => b[n] \in Seq(S)}
  <2>1. 0 \in T
    BY <1>5, EmptySeq
  <2>2. ASSUME NEW n \in Nat, n \in T PROVE n + 1 \in T
    <3>. SUFFICES ASSUME n + 1 <= L PROVE b[n + 1] \in Seq(S)
      OBVIOUS
    <3>1. n \in 0 .. L - 1 /\ n <= L
      BY <1>1
    <3>2. b[n] \in Seq(S) /\ zone[n + 1] \in S
      BY <1>3, <2>2, <3>1
    <3>3. Append(b[n], zone[n + 1]) \in Seq(S)
      BY <3>2, AppendProperties
    <3>. QED  BY <1>6, <3>1, <3>2, <3>3
  <2>. HIDE DEF T
  <2>3. Nat \subseteq T
    BY <2>1, <2>2, Induction
  <2>. QED  BY <2>3 DEF T
<1>8. ASSUME NEW n \in 0 .. L - 1 PROVE p[n] \in Seq(S) /\ b[n + 1] = Join(b[n], p[n])
  <2>. DEFINE x == zone[n + 1]
              s == b[n]
  <2>1. n \in 0 .. L
    BY <1>1
  <2>2. s \in Seq(S) /\ x \in S
    BY <1>3, <1>7, <2>1
  <2>3. CASE Match(x, type)
    <3>1. p[n] = <<x>> /\ b[n + 1] = Append(s, x)
      BY <1>4, <1>6, <2>3
    <3>. HIDE DEF x, s
    <3>2. <<x>> \in Seq(S)
      BY <2>2
    <3>3. Append(s, x) = s \o <<x>>
      BY <2>2, AppendIsConcat
    <3>. QED  BY <3>1, <3>2, <3>3 DEF Join, s
  <2>4. CASE ~Match(x, type)
    <3>1. p[n] = <<>> /\ b[n + 1] = s
      BY <1>4, <1>6, <2>4
    <3>2. <<>> \in Seq(S)
      BY EmptySeq
    <3>. HIDE DEF x, s
    <3>3. s \o <<>> = s
      BY <2>2, ConcatEmptySeq
    <3>. QED  BY <3>1, <3>2, <3>3 DEF Join, s
  <2>. QED  BY <2>3, <2>4
<1>9. Grown(L, b, p)
  <2>1. Grows(S, L, b, p)
    BY <1>1, <1>7, <1>8 DEF Grows
  <2>. QED  BY <2>1, Growing
<1>10. \A q \in 0 .. L : \A n \in 0 .. q :
          Len(b[n]) <= Len(b[q]) /\ \A j \in 1 .. Len(b[n]) : b[q][j] = b[n][j]
  BY <1>9 DEF Grown
<1>11. \A n \in 0 .. L - 1 : KeptNext(type, n)
  BY <1>6 DEF KeptNext, b
<1>. QED  BY <1>5, <1>7, <1>10, <1>11 DEF b, L, S

\* The greatest of some numbers.
LEMMA Greatest ==
    ASSUME NEW L \in Nat, NEW W \in SUBSET (0 .. L), W # {}
    PROVE  Max(W) \in W /\ \A y \in W : y <= Max(W)
<1>. DEFINE Has1(V) == \E x \in V : \A y \in V : x >= y
            T == {n \in Nat : \A V \in SUBSET (0 .. n) : V # {} => Has1(V)}
<1>1. 0 \in T
  <2>1. ASSUME NEW V \in SUBSET (0 .. 0), V # {} PROVE Has1(V)
    <3>1. \A y \in V : y \in 0 .. 0
      OBVIOUS
    <3>2. \A y \in V : y = 0
      BY <3>1
    <3>3. PICK x \in V : TRUE
      BY <2>1
    <3>4. \A y \in V : x >= y
      BY <3>2
    <3>. QED  BY <3>4
  <2>. QED  BY <2>1
<1>2. ASSUME NEW n \in Nat, n \in T PROVE n + 1 \in T
  <2>. SUFFICES ASSUME NEW V \in SUBSET (0 .. n + 1), V # {} PROVE Has1(V)
    OBVIOUS
  <2>1. CASE n + 1 \in V
    <3>1. \A y \in V : n + 1 >= y
      OBVIOUS
    <3>. QED  BY <2>1, <3>1
  <2>2. CASE n + 1 \notin V
    <3>1. V \in SUBSET (0 .. n)
      BY <2>2
    <3>. QED  BY <1>2, <3>1
  <2>. QED  BY <2>1, <2>2
<1>3. Nat \subseteq T
  <2>. HIDE DEF T
  <2>. QED  BY <1>1, <1>2, Induction
<1>4. Has1(W)
  BY <1>3
<1>5. Max(W) \in W /\ \A y \in W : Max(W) >= y
  <2>1. Max(W) = CHOOSE x \in W : \A y \in W : x >= y
    BY DEF Max
  <2>. QED  BY <1>4, <2>1, Zenon
<1>6. \A y \in W : y \in Int
  <2>1. \A y \in W : y \in 0 .. L
    OBVIOUS
  <2>. QED  BY <2>1
<1>. HIDE DEF Has1, T
<1>7. Max(W) \in Int
  BY <1>5, <1>6
<1>8. ASSUME NEW y \in W PROVE y <= Max(W)
  BY <1>5, <1>6, <1>7
<1>. QED  BY <1>5, <1>8

\* How many records arrived whole.
LEMMA ArrivedParts ==
    ASSUME Sent
    PROVE  /\ Arrived \in 0 .. Len(zone)
           /\ \A n \in 0 .. Len(zone) : End(n) <= Len(m) => n <= Arrived
           /\ Arrived = 0 \/ End(Arrived) <= Len(m)
<1>. DEFINE L == Len(zone)
            W == {n \in 0 .. L : End(n) <= Len(m)}
<1>1. L \in Nat
  BY SentParts DEF AreRecords
<1>2. Arrived = IF W = {} THEN 0 ELSE Max(W)
  BY DEF Arrived
<1>3. CASE W = {}
  BY <1>1, <1>2, <1>3
<1>4. CASE W # {}
  <2>1. W \in SUBSET (0 .. L) /\ Arrived = Max(W)
    BY <1>2, <1>4
  <2>. HIDE DEF W
  <2>2. Max(W) \in W /\ \A y \in W : y <= Max(W)
    BY <1>1, <1>4, <2>1, Greatest
  <2>. QED  BY <2>1, <2>2 DEF W
<1>. QED  BY <1>3, <1>4

\* The loop ends with as many records as arrived whole.
LEMMA ArrivedAt ==
    ASSUME Sent, NEW n \in 0 .. Len(zone), End(n) <= Len(m),
           n = Len(zone) \/ ~(End(n + 1) <= Len(m))
    PROVE  Arrived = n
<1>. DEFINE L == Len(zone)
            a == Arrived
            k == Len(m)
<1>1. L \in Nat /\ k \in Nat /\ \A q \in 0 .. L : \A j \in 0 .. q : End(j) <= End(q)
  BY SentParts DEF AreRecords
<1>2. \A q \in 0 .. L : End(q) \in Nat
  BY SentParts
<1>3. a \in 0 .. L /\ n <= a /\ (a = 0 \/ End(a) <= k)
  BY ArrivedParts
<1>. HIDE DEF L, a, k
<1>4. SUFFICES ASSUME n < a PROVE FALSE
  BY <1>1, <1>3 DEF L, a
<1>5. n + 1 \in 0 .. a /\ n + 1 \in 0 .. L /\ a # 0 /\ n # L
  BY <1>1, <1>3, <1>4 DEF L
<1>6. End(n + 1) <= End(a) /\ End(a) <= k /\ End(n + 1) \in Nat /\ End(a) \in Nat
  BY <1>1, <1>2, <1>3, <1>5
<1>7. End(n + 1) <= k
  BY <1>1, <1>6
<1>. QED  BY <1>5, <1>7 DEF L, k

\* Of a question that was cut off, no record arrived.
LEMMA ArrivedNone ==
    ASSUME Sent, Len(m) < End(0)
    PROVE  Arrived = 0
<1>. DEFINE L == Len(zone)
            a == Arrived
            k == Len(m)
<1>1. L \in Nat /\ k \in Nat /\ k < End(0) /\ \A q \in 0 .. L : \A j \in 0 .. q : End(j) <= End(q)
  BY SentParts DEF AreRecords
<1>2. \A q \in 0 .. L : End(q) \in Nat
  BY SentParts
<1>3. a \in 0 .. L /\ (a = 0 \/ End(a) <= k)
  BY ArrivedParts
<1>. HIDE DEF L, a, k
<1>4. 0 \in 0 .. a /\ 0 \in 0 .. L
  BY <1>1, <1>3
<1>5. End(0) <= End(a) /\ End(0) \in Nat /\ End(a) \in Nat
  BY <1>1, <1>2, <1>3, <1>4
<1>6. ~(End(a) <= k)
  BY <1>1, <1>5
<1>. QED  BY <1>3, <1>6 DEF a

-----------------------------------------------------------------------------
\* No step changes the message.
LEMMA Same ==
    ASSUME UNCHANGED message
    PROVE  /\ asked' = asked /\ zone' = zone /\ m' = m /\ rcode' = rcode
           /\ Sent' <=> Sent
           /\ \A n : End(n)' = End(n)
           /\ Arrived' = Arrived
           /\ \A type : Kept(type)' = Kept(type)
           /\ \A n : Addrs(n)' = Addrs(n)
<1>1. asked' = asked /\ zone' = zone /\ m' = m /\ rcode' = rcode
  BY DEF message
<1>2. Sent' <=> Sent
  BY <1>1 DEF Sent
<1>3. \A n : End(n)' = End(n)
  BY <1>1 DEF End
<1>4. Arrived' = Arrived
  BY <1>1 DEF Arrived, End
<1>5. \A type : Kept(type)' = Kept(type)
  BY <1>1 DEF Kept
<1>6. \A n : Addrs(n)' = Addrs(n)
  BY <1>1, <1>5 DEF Addrs
<1>. QED  BY <1>1, <1>2, <1>3, <1>4, <1>5, <1>6

\* Before the first record nothing is found, and nothing is to be found.
LEMMA NoneYet ==
    ASSUME AreRecords(zone), count = 0
    PROVE  /\ Result = <<>> /\ Result = Addrs(0)
           /\ Roots(Kept(TYPE_SRV)[0]) = {} /\ Kept(TYPE_SRV)[0] = <<>>
           /\ Result = [i \in DOMAIN Kept(TYPE_SRV)[0] |-> ServerOf(Kept(TYPE_SRV)[0][i])]
<1>1. Kept(TYPE_A)[0] = <<>> /\ Kept(TYPE_SRV)[0] = <<>>
  BY KeptParts
<1>2. Room \in Nat
  BY HeaderAssumption
<1>3. Result = <<>>
  BY DEF Result
<1>4. Lesser(Room, Len(<<>>)) = 0
  BY <1>2 DEF Lesser
<1>5. Addrs(0) = <<>>
  BY <1>1, <1>4 DEF Addrs
<1>6. Roots(<<>>) = {} /\ [i \in DOMAIN <<>> |-> ServerOf(<<>>[i])] = <<>>
  BY DEF Roots
<1>. QED  BY <1>1, <1>3, <1>5, <1>6

\* What one more makes of what was found.
LEMMA FoundParts ==
    ASSUME count \in Nat, DOMAIN slots = 0 .. count - 1, NEW x, Found(count, x)
    PROVE  /\ count' = count + 1 /\ DOMAIN slots' = 0 .. count' - 1
           /\ Result' = [i \in 1 .. count + 1 |-> IF i = count + 1 THEN x ELSE Result[i]]
<1>1. count' = count + 1 /\ slots' = [i \in (0 .. count - 1) \cup {count} |-> IF i = count THEN x ELSE slots[i]]
  BY DEF Found
<1>2. (0 .. count - 1) \cup {count} = 0 .. count /\ 0 .. count' - 1 = 0 .. count
  BY <1>1
<1>3. DOMAIN slots' = 0 .. count' - 1 /\ \A i \in 0 .. count : slots'[i] = IF i = count THEN x ELSE slots[i]
  BY <1>1, <1>2
<1>4. Result' = [i \in 1 .. count + 1 |-> slots'[i - 1]]
  BY <1>1 DEF Result
<1>5. ASSUME NEW i \in 1 .. count + 1 PROVE slots'[i - 1] = IF i = count + 1 THEN x ELSE Result[i]
  <2>1. i - 1 \in 0 .. count /\ (i - 1 = count <=> i = count + 1)
    OBVIOUS
  <2>2. slots'[i - 1] = IF i = count + 1 THEN x ELSE slots[i - 1]
    BY <1>3, <2>1
  <2>3. CASE i # count + 1
    <3>1. i \in 1 .. count
      BY <2>3
    <3>2. Result[i] = slots[i - 1]
      BY <3>1 DEF Result
    <3>. QED  BY <2>2, <2>3, <3>2
  <2>4. CASE i = count + 1
    BY <2>2, <2>4
  <2>. QED  BY <2>3, <2>4
<1>. QED  BY <1>1, <1>3, <1>4, <1>5

\* At a record that is there, as it was sent.
AtRecord ==
    /\ AreOctets /\ AreRecords(zone) /\ idx \in 0 .. Len(zone) - 1 /\ idx + 1 \in 1 .. Len(zone)
    /\ End(idx) \in Nat /\ End(idx) <= Len(m) /\ at = End(idx) + 1
    /\ End(0) <= End(idx)
    /\ End(idx + 1) \in Nat /\ End(idx + 1) <= Len(m)
    /\ End(idx + 1) = End(idx) + 12 + Len(Data(zone[idx + 1]))
    /\ Fields(at).type = zone[idx + 1].type /\ Fields(at).class = zone[idx + 1].class
    /\ Fields(at).length = Len(Data(zone[idx + 1])) /\ Len(Data(zone[idx + 1])) \in Nat
    /\ Fields(at).at = End(idx) + 13
    /\ Fields(at).at + Fields(at).length = End(idx + 1) + 1
    /\ IsRecord(zone[idx + 1])
    /\ \A j \in 1 .. Len(Data(zone[idx + 1])) :
          m[End(idx) + 12 + j] = Data(zone[idx + 1])[j]

\* The loop goes on only at a record that is there.
LEMMA RecordIs ==
    ASSUME TypeOK, Sent, InPlace, More, asked = "hosts" => idx = 0
    PROVE  AtRecord
<1>. DEFINE L == Len(zone)
            k == Len(m)
            e == End(idx)
            r == zone[idx + 1]
            d == Len(Data(r))
            e2 == End(idx + 1)
<1>1. AreOctets /\ AreRecords(zone) /\ k \in Nat
  BY SentParts DEF AreOctets
<1>2. L \in Nat /\ idx \in 0 .. L - 1 /\ idx + 1 \in 1 .. L /\ idx \in 0 .. L /\ idx + 1 \in 0 .. L /\ 0 \in 0 .. idx
  <2>1. L \in Nat /\ idx \in 0 .. L /\ idx < L
    BY <1>1 DEF AreRecords, TypeOK, More
  <2>. HIDE DEF L
  <2>. QED  BY <2>1
<1>3. IF k < End(0) THEN idx = 0 /\ at = k + 1 ELSE e <= k /\ at = e + 1
  BY DEF InPlace, More
<1>4. ~(k < End(0))
  <2>1. Fields(at).ok
    BY DEF More
  <2>. QED  BY <1>1, <1>3, <2>1, FieldsEnd
<1>5. e <= k /\ at = e + 1
  BY <1>3, <1>4
<1>6. e \in Nat /\ e2 \in Nat /\ End(0) <= e /\ e2 = e + 12 + d
  BY <1>2, SentParts
<1>7. /\ Fields(e + 1).ok <=> e2 <= k
      /\ e2 <= k => /\ Fields(e + 1).type = r.type /\ Fields(e + 1).class = r.class
                    /\ Fields(e + 1).length = d /\ Fields(e + 1).at = e + 13
  BY <1>2, <1>5, FieldsAt
<1>8. e2 <= k
  BY <1>5, <1>7 DEF More
<1>9. IsRecord(r)
  BY <1>1, <1>2 DEF AreRecords
<1>10. d \in Nat
  BY <1>9, DataParts, LenProperties
<1>11. Fields(at).at + Fields(at).length = e2 + 1
  <2>1. Fields(at).at = e + 13 /\ Fields(at).length = d
    BY <1>5, <1>7, <1>8
  <2>. HIDE DEF e, e2, d
  <2>. QED  BY <1>6, <1>10, <2>1
<1>12. ASSUME NEW j \in 1 .. d PROVE m[e + 12 + j] = Data(r)[j]
  <2>1. e + (12 + j) <= k /\ 12 + j \in 1 .. 12 + d /\ e + (12 + j) = e + 12 + j
    <3>. HIDE DEF e, e2, d, k
    <3>. QED  BY <1>1, <1>6, <1>8, <1>10
  <2>2. m[e + (12 + j)] = Record(r)[12 + j]
    BY <1>2, <2>1, SentParts
  <2>3. Record(r)[12 + j] = Data(r)[j]
    <3>. HIDE DEF r
    <3>1. \A i \in 1 .. Len(Data(r)) : Record(r)[12 + i] = Data(r)[i]
      BY <1>9, RecordParts
    <3>. QED  BY <3>1
  <2>. QED  BY <2>1, <2>2, <2>3
<1>. QED  BY <1>1, <1>2, <1>5, <1>6, <1>7, <1>8, <1>9, <1>10, <1>11, <1>12 DEF AtRecord

-----------------------------------------------------------------------------
\* The invariant at the start, and after each step.
LEMMA InitHolds == Init => IInv
<1>. SUFFICES ASSUME Init PROVE IInv
  OBVIOUS
<1>1. /\ asked \in Questions /\ zone \in Zones[asked] /\ rcode \in {0, 3}
      /\ at = 1 /\ idx = 0 /\ slots = <<>> /\ count = 0 /\ rc = "success" /\ stale = FALSE /\ pc = "echo"
  BY DEF Init
<1>2. AreRecords(zone)
  BY <1>1, Constants DEF AreRecords
<1>3. Message(zone) \in Seq(Octet)
  <2>1. Len(zone) \in 0 .. Len(zone)
    BY <1>2 DEF AreRecords
  <2>2. Message(Upto(zone, Len(zone))) \in Seq(Octet) /\ Upto(zone, Len(zone)) = zone
    BY <1>2, <2>1, MessageParts
  <2>. QED  BY <2>2
<1>4. PICK n \in 0 .. Len(Message(zone)) : m = Upto(Message(zone), n)
  BY DEF Init, Upto
<1>5. Len(m) = n /\ Len(Message(zone)) \in Nat
  BY <1>3, <1>4, UptoParts, LenProperties
<1>6. Sent
  BY <1>1, <1>4, <1>5 DEF Sent, Upto
<1>7. Len(m) \in Nat /\ Len(zone) \in Nat
  BY <1>2, <1>4, <1>5 DEF AreRecords
<1>8. TypeOK
  <2>. DEFINE k == Len(m)
              L == Len(zone)
  <2>1. k \in Nat /\ L \in Nat
    BY <1>7
  <2>. HIDE DEF k, L
  <2>2. 1 \in 1 .. k + 1 /\ 0 \in 0 .. L
    BY <2>1
  <2>3. at \in 1 .. k + 1 /\ idx \in 0 .. L
    BY <1>1, <2>2
  <2>4. count \in 0 .. idx
    BY <1>1
  <2>5. rc \in {"success", "unavailable"} /\ stale \in BOOLEAN /\ pc \in {"echo", "records", "done"}
    BY <1>1, Zenon
  <2>. QED  BY <2>3, <2>4, <2>5 DEF TypeOK, k, L
<1>9. Begun /\ InPlace /\ Gathered
  BY <1>1 DEF Begun, InPlace, Gathered
<1>10. AnswerRead
  BY <1>1 DEF AnswerRead, AddrsRead, SrvRead, HostsRead
<1>. QED  BY <1>6, <1>8, <1>9, <1>10 DEF IInv

\* An answer that is not looked at.
LEMMA RefusedStep ==
    ASSUME IInv, Refused
    PROVE  IInv'
<1>1. TypeOK /\ Sent /\ Begun
  BY DEF IInv
<1>2. /\ pc = "echo" /\ asked # "srv" /\ (zone = <<>> \/ rcode # 0) /\ pc' = "done"
      /\ UNCHANGED message /\ UNCHANGED <<at, idx, slots, count, rc, stale>>
  BY DEF Refused, Stop
<1>3. at = 1 /\ idx = 0 /\ slots = <<>> /\ count = 0 /\ rc = "success" /\ ~stale
  BY <1>1, <1>2 DEF Begun
<1>4. asked' = asked /\ zone' = zone /\ m' = m /\ rcode' = rcode /\ Sent' /\ Arrived' = Arrived /\ Addrs(0)' = Addrs(0)
  BY <1>1, <1>2, Same
<1>5. TypeOK'
  BY <1>1, <1>2, <1>4 DEF TypeOK
<1>6. Begun' /\ InPlace' /\ Gathered'
  BY <1>2 DEF Begun, InPlace, Gathered
<1>7. AreRecords(zone) /\ Arrived \in 0 .. Len(zone)
  BY <1>1, SentParts, ArrivedParts
<1>8. Result' = <<>> /\ Addrs(0) = <<>>
  <2>1. Result = <<>> /\ Result = Addrs(0)
    BY <1>3, <1>7, NoneYet
  <2>2. Result' = Result
    BY <1>2 DEF Result
  <2>. QED  BY <2>1, <2>2
<1>9. rcode = 0 => Arrived = 0
  <2>1. zone = <<>> => Len(zone) = 0
    OBVIOUS
  <2>. QED  BY <1>2, <1>7, <2>1
<1>10. AddrsRead'
  <2>1. CASE rcode = 0
    <3>1. Arrived' = 0 /\ rcode' = 0
      BY <1>4, <1>9, <2>1
    <3>2. Addrs(Arrived)' = Addrs(0)'
      BY <3>1 DEF Addrs
    <3>. QED  BY <1>4, <1>8, <3>1, <3>2 DEF AddrsRead
  <2>2. CASE rcode # 0
    BY <1>4, <1>8, <2>2 DEF AddrsRead
  <2>. QED  BY <2>1, <2>2
<1>11. SrvRead'
  BY <1>2, <1>4 DEF SrvRead
<1>12. HostsRead'
  BY <1>4, <1>9 DEF HostsRead
<1>. QED  BY <1>4, <1>5, <1>6, <1>10, <1>11, <1>12 DEF IInv, AnswerRead

\* Behind the question, or at the end of what arrived of it.
LEMMA SkipEchoStep ==
    ASSUME IInv, SkipEcho
    PROVE  IInv'
<1>. DEFINE s == SkipName(1)
            k == Len(m)
<1>1. TypeOK /\ Sent /\ Begun
  BY DEF IInv
<1>2. /\ pc = "echo" /\ (asked = "srv" \/ (zone # <<>> /\ rcode = 0))
      /\ UNCHANGED message /\ UNCHANGED <<idx, slots, count, rc, stale>>
  BY DEF SkipEcho
<1>3. at = 1 /\ idx = 0 /\ slots = <<>> /\ count = 0 /\ rc = "success" /\ ~stale
  BY <1>1, <1>2 DEF Begun
<1>4. /\ asked' = asked /\ zone' = zone /\ m' = m /\ rcode' = rcode /\ Sent' /\ Arrived' = Arrived
      /\ \A n : Addrs(n)' = Addrs(n) /\ End(n)' = End(n)
      /\ \A type : Kept(type)' = Kept(type)
  BY <1>1, <1>2, Same
<1>5. AreRecords(zone) /\ AreOctets /\ k \in Nat /\ End(0) \in Nat /\ 1 \in Places
  BY <1>1, SentParts, QuestionSkipped DEF AreOctets, Places
<1>6. s.ok \in BOOLEAN /\ s.at \in 1 .. k + 1
  BY <1>5, SkipNameParts
<1>7. /\ Result = <<>> /\ Result = Addrs(0)
      /\ Roots(Kept(TYPE_SRV)[0]) = {} /\ Kept(TYPE_SRV)[0] = <<>>
      /\ Result = [i \in DOMAIN Kept(TYPE_SRV)[0] |-> ServerOf(Kept(TYPE_SRV)[0][i])]
  BY <1>3, <1>5, NoneYet
<1>8. Result' = Result
  BY <1>2 DEF Result
<1>9. CASE s.ok /\ ~Has(s.at, 4)
  <2>1. pc' = "done" /\ at' = s.at
    BY <1>3, <1>9 DEF SkipEcho, Stop
  <2>2. k < End(0)
    <3>1. ~(Len(Put(Name)) + 4 <= k) /\ End(0) = Len(Put(Name)) + 4
      BY <1>1, <1>9, QuestionSkipped
    <3>. HIDE DEF k
    <3>. QED  BY <1>5, <3>1
  <2>3. Arrived = 0
    BY <1>1, <2>2, ArrivedNone
  <2>4. TypeOK'
    BY <1>1, <1>2, <1>4, <1>6, <2>1 DEF TypeOK
  <2>5. Begun' /\ InPlace' /\ Gathered'
    BY <2>1 DEF Begun, InPlace, Gathered
  <2>6. AddrsRead'
    <3>. SUFFICES ASSUME asked = "addrs" PROVE Result' = IF rcode' # 0 THEN <<>> ELSE Addrs(Arrived)'
      BY <1>4 DEF AddrsRead
    <3>1. rcode' = 0
      BY <1>2, <1>4
    <3>2. Addrs(Arrived)' = Addrs(0)
      BY <1>4, <2>3 DEF Addrs
    <3>. QED  BY <1>7, <1>8, <3>1, <3>2
  <2>7. SrvRead'
    <3>. DEFINE all == Kept(TYPE_SRV)[0]
                r == Result
    <3>1. Kept(TYPE_SRV)'[Arrived'] = all
      BY <1>4, <2>3
    <3>2. Roots(all) = {} /\ Len(all) = 0 /\ DOMAIN all = {}
      BY <1>7 DEF Roots
    <3>3. r = <<>> /\ [i \in 1 .. 0 |-> ServerOf(all[i])] = <<>> /\ rc' = "success"
      BY <1>2, <1>3, <1>7
    <3>. HIDE DEF all, r
    <3>4. Result' = [i \in 1 .. 0 |-> ServerOf(all[i])]
      BY <1>8, <3>3 DEF r
    <3>. QED  BY <3>1, <3>2, <3>3, <3>4 DEF SrvRead, Roots
  <2>8. HostsRead'
    BY <1>4, <2>3 DEF HostsRead
  <2>. QED  BY <1>4, <2>4, <2>5, <2>6, <2>7, <2>8 DEF IInv, AnswerRead
<1>10. CASE ~(s.ok /\ ~Has(s.at, 4))
  <2>1. pc' = "records" /\ at' = IF s.ok THEN s.at + 4 ELSE s.at
    BY <1>3, <1>10 DEF SkipEcho
  <2>2. IF k < End(0) THEN at' = k + 1 ELSE End(0) <= k /\ at' = End(0) + 1
    <3>1. /\ End(0) <= k => s.ok /\ s.at + 4 = End(0) + 1
          /\ k < End(0) => ~s.ok /\ s.at = k + 1
      BY <1>1, <1>10, QuestionSkipped
    <3>2. k < End(0) \/ (End(0) <= k /\ ~(k < End(0)))
      <4>. HIDE DEF k
      <4>. QED  BY <1>5
    <3>. QED  BY <2>1, <3>1, <3>2
  <2>3. TypeOK'
    <3>1. at' \in 1 .. k + 1
      <4>. HIDE DEF k
      <4>. QED  BY <1>5, <2>2
    <3>. QED  BY <1>1, <1>2, <1>4, <2>1, <3>1 DEF TypeOK
  <2>4. InPlace'
    <3>1. End(idx)' = End(0) /\ End(0)' = End(0) /\ idx' = 0
      BY <1>2, <1>3, <1>4
    <3>. QED  BY <1>4, <2>2, <3>1 DEF InPlace
  <2>5. Gathered'
    <3>1. idx' = 0 /\ count' = 0 /\ slots' = <<>> /\ rc' = "success" /\ DOMAIN slots' = 0 .. count' - 1
      BY <1>2, <1>3
    <3>2. Kept(TYPE_SRV)'[idx'] = Kept(TYPE_SRV)[0] /\ Addrs(idx)' = Addrs(0)
      BY <1>4, <3>1 DEF Addrs
    <3>3. Roots(Kept(TYPE_SRV)[idx])' = Roots(Kept(TYPE_SRV)[0])
      BY <3>2 DEF Roots
    <3>. QED  BY <1>2, <1>4, <1>7, <1>8, <3>1, <3>2, <3>3 DEF Gathered, ServerOf
  <2>6. Begun' /\ AnswerRead'
    BY <2>1 DEF Begun, AnswerRead, AddrsRead, SrvRead, HostsRead
  <2>. QED  BY <1>4, <2>3, <2>4, <2>5, <2>6 DEF IInv
<1>. QED  BY <1>9, <1>10

-----------------------------------------------------------------------------
\* The loop ends behind the last record that arrived whole.
LEMMA EndsHere ==
    ASSUME TypeOK, Sent, InPlace, Over, asked = "hosts" => idx = 0
    PROVE  Arrived = idx
<1>1. Len(m) \in Nat /\ Len(zone) \in Nat
  BY SentParts DEF AreRecords
<1>2. pc = "records" /\ (idx = Len(zone) \/ ~Fields(at).ok) /\ idx \in 0 .. Len(zone)
  BY DEF Over, TypeOK
<1>3. CASE Len(m) < End(0)
  <2>1. idx = 0
    BY <1>2, <1>3 DEF InPlace
  <2>. QED  BY <1>3, <2>1, ArrivedNone
<1>4. CASE ~(Len(m) < End(0))
  <2>1. End(idx) <= Len(m) /\ at = End(idx) + 1
    BY <1>2, <1>4 DEF InPlace
  <2>2. CASE idx = Len(zone)
    BY <1>2, <2>1, <2>2, ArrivedAt
  <2>3. CASE idx # Len(zone)
    <3>1. idx \in 0 .. Len(zone) - 1
      BY <1>1, <1>2, <2>3
    <3>2. ~(End(idx + 1) <= Len(m))
      BY <1>2, <2>1, <2>3, <3>1, FieldsAt
    <3>. QED  BY <1>2, <2>1, <3>2, ArrivedAt
  <2>. QED  BY <2>2, <2>3
<1>. QED  BY <1>3, <1>4

\* What was found is all that arrived.
LEMMA OverStep ==
    ASSUME IInv, Over
    PROVE  IInv'
<1>1. TypeOK /\ Sent /\ InPlace /\ Gathered
  BY DEF IInv
<1>2. /\ pc = "records" /\ pc' = "done"
      /\ UNCHANGED message /\ UNCHANGED <<at, idx, slots, count, rc, stale>>
  BY DEF Over, Stop
<1>3. /\ asked' = asked /\ zone' = zone /\ m' = m /\ rcode' = rcode /\ Sent' /\ Arrived' = Arrived
      /\ \A n : Addrs(n)' = Addrs(n)
      /\ \A type : Kept(type)' = Kept(type)
  BY <1>1, <1>2, Same
<1>4. TypeOK'
  BY <1>1, <1>2, <1>3 DEF TypeOK
<1>5. Begun' /\ InPlace' /\ Gathered'
  BY <1>2 DEF Begun, InPlace, Gathered
<1>6. Result' = Result
  BY <1>2 DEF Result
<1>7. ASSUME asked = "hosts" => idx = 0 PROVE Arrived = idx
  BY <1>1, <1>7, EndsHere
<1>8. AddrsRead'
  <2>. SUFFICES ASSUME asked = "addrs" PROVE Result' = IF rcode' # 0 THEN <<>> ELSE Addrs(Arrived)'
    BY <1>3 DEF AddrsRead
  <2>1. rcode = 0 /\ Result = Addrs(idx) /\ Arrived = idx
    BY <1>1, <1>2, <1>7 DEF Gathered
  <2>2. Addrs(Arrived)' = Addrs(idx)
    BY <1>3, <2>1 DEF Addrs
  <2>. QED  BY <1>3, <1>6, <2>1, <2>2
<1>9. SrvRead'
  <2>. SUFFICES ASSUME asked = "srv", ~stale PROVE SrvRead'
    BY <1>2, <1>3 DEF SrvRead
  <2>. DEFINE all == Kept(TYPE_SRV)[idx]
              r == Result
  <2>1. Roots(all) = {} /\ rc = "success" /\ r = [i \in DOMAIN all |-> ServerOf(all[i])] /\ Arrived = idx
    BY <1>1, <1>2, <1>7 DEF Gathered
  <2>2. all \in Seq(ToSet(zone))
    <3>1. idx \in 0 .. Len(zone) /\ AreRecords(zone)
      BY <1>1, SentParts DEF TypeOK
    <3>. QED  BY <3>1, KeptParts
  <2>3. Kept(TYPE_SRV)'[Arrived'] = all /\ rc' = "success" /\ Result' = r
    BY <1>2, <1>3, <1>6, <2>1
  <2>. HIDE DEF all, r
  <2>4. DOMAIN all = 1 .. Len(all)
    BY <2>2, LenProperties
  <2>5. Result' = [i \in 1 .. Len(all) |-> ServerOf(all[i])]
    BY <2>1, <2>3, <2>4
  <2>. QED  BY <2>1, <2>3, <2>5 DEF SrvRead, Roots, ServerOf
<1>10. HostsRead'
  <2>. SUFFICES ASSUME asked = "hosts", rcode = 0, ~stale, Arrived > 0 PROVE FirstHost'
    BY <1>2, <1>3 DEF HostsRead
  <2>1. idx # 0
    BY <1>7
  <2>2. FirstHost
    BY <1>1, <1>2, <2>1 DEF Gathered
  <2>. QED  BY <1>2, <1>3, <2>2 DEF FirstHost
<1>. QED  BY <1>3, <1>4, <1>5, <1>8, <1>9, <1>10 DEF IInv, AnswerRead

-----------------------------------------------------------------------------
\* Behind a record that is there is the place of the next one.
LEMMA MovedOn ==
    ASSUME Sent, AtRecord, UNCHANGED message, idx' = idx + 1,
           at' = Fields(at).at + Fields(at).length
    PROVE  at' \in 1 .. Len(m)' + 1 /\ idx' \in 0 .. Len(zone)' /\ InPlace'
<1>. DEFINE k == Len(m)
            L == Len(zone)
            e == End(idx + 1)
<1>1. m' = m /\ zone' = zone
  BY Same
<1>2. k \in Nat /\ L \in Nat /\ idx \in 0 .. L - 1 /\ e \in Nat /\ e <= k
  BY DEF AtRecord, AreOctets, AreRecords
<1>3. at' = e + 1
  BY DEF AtRecord
<1>4. End(idx)' = e /\ End(0)' = End(0)
  BY <1>1 DEF End
<1>5. End(0) <= e /\ End(0) \in Nat
  <2>1. End(0) <= End(idx) /\ End(idx) \in Nat /\ e = End(idx) + 12 + Len(Data(zone[idx + 1]))
        /\ Len(Data(zone[idx + 1])) \in Nat
    BY DEF AtRecord
  <2>2. End(0) \in Nat
    BY QuestionSkipped
  <2>. HIDE DEF e
  <2>. QED  BY <2>1, <2>2
<1>6. at' \in 1 .. k + 1 /\ idx' \in 0 .. L /\ ~(k < End(0))
  <2>. HIDE DEF k, L, e
  <2>. QED  BY <1>2, <1>3, <1>5
<1>. QED  BY <1>1, <1>2, <1>3, <1>4, <1>6 DEF InPlace

\* Two rows of places are the same.
LEMMA SameLength ==
    ASSUME NEW a \in Nat, NEW b \in Nat, 1 .. a = 1 .. b
    PROVE  a = b
<1>1. a > 0 => a \in 1 .. b
  BY SMT
<1>2. b > 0 => b \in 1 .. a
  BY SMT
<1>. QED  BY <1>1, <1>2

\* The four octets of an address.
LEMMA AddressAt ==
    ASSUME AtRecord, Match(zone[idx + 1], TYPE_A)
    PROVE  Fields(at).length = 4 /\ Octets(Fields(at).at, 4) = zone[idx + 1].addr
<1>. DEFINE r == zone[idx + 1]
            e == End(idx)
            k == Len(m)
            a == r.addr
            i == Fields(at).at
<1>1. IsRecord(r) /\ r.type = TYPE_A /\ r.class = CLASS_IN
  BY DEF AtRecord, Match
<1>2. Data(r) = a /\ Len(a) = 4 /\ a \in Seq(Octet)
  <2>. HIDE DEF r
  <2>1. Data(r) \in Seq(Octet)
    BY <1>1, DataParts
  <2>2. r.type = TYPE_A => Data(r) = r.addr /\ (r.class = CLASS_IN => Len(r.addr) = 4)
    BY <1>1, DataParts
  <2>. QED  BY <1>1, <2>1, <2>2
<1>3. /\ k \in Nat /\ m \in Seq(Octet) /\ e \in Nat /\ i = e + 13 /\ End(idx + 1) <= k
      /\ End(idx + 1) = e + 12 + 4 /\ Fields(at).length = 4
      /\ \A j \in 1 .. 4 : m[e + 12 + j] = a[j]
  BY <1>2 DEF AtRecord, AreOctets
<1>4. i + 4 - 1 = e + 16 /\ e + 16 <= k /\ Lesser(e + 16, k) = e + 16
  <2>. HIDE DEF e, k, i
  <2>. QED  BY <1>3 DEF Lesser
<1>5. Octets(i, 4) = SubSeq(m, e + 13, e + 16)
  BY <1>3, <1>4 DEF Octets
<1>. HIDE DEF a, i, e, k, r
<1>6. SubSeq(m, e + 13, e + 16) \in Seq(Octet) /\ Len(SubSeq(m, e + 13, e + 16)) = 4
      /\ \A j \in 1 .. 4 : SubSeq(m, e + 13, e + 16)[j] = m[e + 12 + j]
  <2>1. e + 16 \in 1 .. k /\ e + 13 \in Int /\ e + 16 \in Int /\ e + 16 - (e + 13) + 1 = 4
    BY <1>3, <1>4
  <2>2. \A j \in e + 13 .. e + 16 : m[j] \in Octet
    <3>1. \A j \in e + 13 .. e + 16 : j \in 1 .. Len(m)
      BY <1>3, <1>4 DEF k
    <3>. QED  BY <1>3, <3>1, ElementOfSeq
  <2>3. SubSeq(m, e + 13, e + 16) \in Seq(Octet)
    BY <2>1, <2>2, SubSeqProperties
  <2>4. Len(SubSeq(m, e + 13, e + 16)) = e + 16 - (e + 13) + 1
    BY <1>3, <2>1, <2>2, SubSeqProperties
  <2>5. \A j \in 1 .. (e + 16) - (e + 13) + 1 : SubSeq(m, e + 13, e + 16)[j] = m[e + 13 + j - 1]
    BY <2>1, <2>2, SubSeqProperties
  <2>6. \A j \in 1 .. 4 : e + 13 + j - 1 = e + 12 + j
    BY <1>3
  <2>. QED  BY <2>1, <2>3, <2>4, <2>5, <2>6
<1>7. SubSeq(m, e + 13, e + 16) = a
  BY <1>2, <1>3, <1>6, SeqEqual
<1>. QED  BY <1>3, <1>5, <1>7 DEF i, a, r

\* One record of an answer with addresses.
LEMMA AddrRecordStep ==
    ASSUME IInv, AddrRecord
    PROVE  IInv'
<1>. DEFINE f == Fields(at)
            r == zone[idx + 1]
            all == Kept(TYPE_A)[idx]
            all2 == Kept(TYPE_A)[idx + 1]
<1>1. TypeOK /\ Sent /\ InPlace /\ Gathered
  BY DEF IInv
<1>2. /\ asked = "addrs" /\ More /\ pc = "records"
      /\ UNCHANGED message /\ UNCHANGED <<rc, stale, pc>>
      /\ idx' = idx + 1 /\ at' = f.at + f.length
  BY DEF AddrRecord, Loop, More
<1>3. /\ asked' = asked /\ zone' = zone /\ m' = m /\ rcode' = rcode /\ Sent'
      /\ \A n : Addrs(n)' = Addrs(n)
      /\ \A type : Kept(type)' = Kept(type)
  BY <1>1, <1>2, Same
<1>4. AtRecord
  BY <1>1, <1>2, RecordIs
<1>5. at' \in 1 .. Len(m)' + 1 /\ idx' \in 0 .. Len(zone)' /\ InPlace'
  BY <1>1, <1>2, <1>4, MovedOn
<1>6. rcode = 0 /\ DOMAIN slots = 0 .. count - 1 /\ Result = Addrs(idx)
  BY <1>1, <1>2 DEF Gathered
<1>7. count \in 0 .. idx /\ idx \in Nat /\ count \in Nat /\ Room \in Nat
  <2>1. count \in 0 .. idx /\ idx \in 0 .. Len(zone) - 1
    BY <1>1, <1>4 DEF TypeOK, AtRecord
  <2>2. Room \in Nat
    BY Constants
  <2>. QED  BY <2>1, <2>2
<1>8. /\ all \in Seq(ToSet(zone)) /\ r \in ToSet(zone) /\ Len(all) \in Nat
      /\ all2 = IF Match(r, TYPE_A) THEN Append(all, r) ELSE all
  <2>1. AreRecords(zone) /\ idx \in 0 .. Len(zone) - 1 /\ idx \in 0 .. Len(zone) /\ idx + 1 \in 1 .. Len(zone)
    BY <1>4 DEF AtRecord
  <2>2. all \in Seq(ToSet(zone))
    BY <2>1, KeptParts
  <2>3. KeptNext(TYPE_A, idx)
    BY <2>1, KeptParts
  <2>4. r \in ToSet(zone)
    BY <2>1, ElementOfSeq DEF AreRecords
  <2>. QED  BY <2>2, <2>3, <2>4, LenProperties DEF KeptNext
<1>9. count = Lesser(Room, Len(all))
  <2>. DEFINE l == Lesser(Room, Len(all))
  <2>1. l \in Nat
    BY <1>7, <1>8 DEF Lesser
  <2>2. DOMAIN Result = 1 .. count
    BY DEF Result
  <2>3. DOMAIN Addrs(idx) = 1 .. l
    BY DEF Addrs
  <2>4. 1 .. count = 1 .. l
    BY <1>6, <2>2, <2>3
  <2>. HIDE DEF l
  <2>5. count = l
    BY <1>7, <2>1, <2>4, SameLength
  <2>. QED  BY <2>5 DEF l
<1>10. \A i \in 1 .. count : Result[i] = all[i].addr
  BY <1>6, <1>9 DEF Addrs
<1>11. Result = [i \in 1 .. count |-> Result[i]]
  BY DEF Result
<1>12. \/ Match(r, TYPE_A) /\ count < Room /\ Found(count, Octets(f.at, 4))
       \/ ~(Match(r, TYPE_A) /\ count < Room) /\ UNCHANGED <<slots, count>>
  <2>1. f.type = r.type /\ f.class = r.class
    BY <1>4 DEF AtRecord
  <2>2. Match(r, TYPE_A) => f.length = 4
    BY <1>4, AddressAt
  <2>3. IF f.type = TYPE_A /\ f.class = CLASS_IN /\ f.length = 4 /\ count < Room
        THEN Found(count, Octets(f.at, 4)) ELSE UNCHANGED <<slots, count>>
    BY DEF AddrRecord
  <2>. QED  BY <2>1, <2>2, <2>3 DEF Match
<1>13. DOMAIN slots' = 0 .. count' - 1 /\ count' \in 0 .. idx' /\ Result' = Addrs(idx + 1)
  <2>. HIDE DEF all, all2, r, f
  <2>1. CASE Match(r, TYPE_A) /\ count < Room
    <3>1. Found(count, Octets(f.at, 4)) /\ Octets(f.at, 4) = r.addr
      BY <1>4, <1>12, <2>1, AddressAt DEF f, r
    <3>2. Found(count, r.addr)
      BY <3>1
    <3>3. /\ count' = count + 1 /\ DOMAIN slots' = 0 .. count' - 1
          /\ Result' = [i \in 1 .. count + 1 |-> IF i = count + 1 THEN r.addr ELSE Result[i]]
      BY <1>6, <1>7, <3>2, FoundParts
    <3>4. count = Len(all) /\ count + 1 <= Room
      BY <1>7, <1>8, <1>9, <2>1 DEF Lesser
    <3>5. /\ all2 = Append(all, r) /\ Len(all2) = count + 1 /\ all2[count + 1] = r
          /\ \A i \in 1 .. count : all2[i] = all[i]
      BY <1>8, <2>1, <3>4, AppendProperties
    <3>6. Lesser(Room, Len(all2)) = count + 1
      BY <1>7, <3>4, <3>5 DEF Lesser
    <3>7. Addrs(idx + 1) = [i \in 1 .. count + 1 |-> all2[i].addr]
      BY <3>6 DEF Addrs, all2
    <3>8. ASSUME NEW i \in 1 .. count + 1
          PROVE  (IF i = count + 1 THEN r.addr ELSE Result[i]) = all2[i].addr
      <4>1. CASE i = count + 1
        BY <3>5, <4>1
      <4>2. CASE i # count + 1
        <5>1. i \in 1 .. count
          BY <1>7, <4>2
        <5>. QED  BY <1>10, <3>5, <4>2, <5>1
      <4>. QED  BY <4>1, <4>2
    <3>9. count' \in 0 .. idx'
      BY <1>2, <1>7, <3>3
    <3>. QED  BY <3>3, <3>7, <3>8, <3>9
  <2>2. CASE ~(Match(r, TYPE_A) /\ count < Room)
    <3>1. slots' = slots /\ count' = count
      BY <1>12, <2>2
    <3>2. Result' = Result
      BY <3>1 DEF Result
    <3>3. Lesser(Room, Len(all2)) = count /\ \A i \in 1 .. count : all2[i] = all[i]
      <4>1. CASE ~Match(r, TYPE_A)
        BY <1>8, <1>9, <4>1
      <4>2. CASE Match(r, TYPE_A)
        <5>1. count = Room /\ Room <= Len(all)
          BY <1>7, <1>8, <1>9, <2>2, <4>2 DEF Lesser
        <5>2. Len(all2) = Len(all) + 1 /\ \A i \in 1 .. Len(all) : all2[i] = all[i]
          BY <1>8, <4>2, AppendProperties
        <5>3. Lesser(Room, Len(all2)) = count
          BY <1>7, <1>8, <5>1, <5>2 DEF Lesser
        <5>4. \A i \in 1 .. count : i \in 1 .. Len(all)
          BY <1>7, <1>8, <5>1
        <5>. QED  BY <5>2, <5>3, <5>4
      <4>. QED  BY <4>1, <4>2
    <3>4. Addrs(idx + 1) = [i \in 1 .. count |-> all2[i].addr]
      BY <3>3 DEF Addrs, all2
    <3>5. \A i \in 1 .. count : Result[i] = all2[i].addr
      BY <1>10, <3>3
    <3>6. Result = Addrs(idx + 1)
      BY <1>11, <3>4, <3>5
    <3>7. count' \in 0 .. idx'
      BY <1>2, <1>7, <3>1
    <3>. QED  BY <1>6, <3>1, <3>2, <3>6, <3>7
  <2>. QED  BY <2>1, <2>2
<1>14. TypeOK'
  BY <1>1, <1>2, <1>5, <1>13 DEF TypeOK
<1>15. Gathered'
  <2>1. asked' = "addrs" /\ rcode' = 0
    BY <1>2, <1>3, <1>6
  <2>2. Addrs(idx)' = Addrs(idx + 1)
    BY <1>2, <1>3 DEF Addrs
  <2>. QED  BY <1>13, <2>1, <2>2 DEF Gathered
<1>16. Begun' /\ AnswerRead'
  BY <1>2 DEF Begun, AnswerRead, AddrsRead, SrvRead, HostsRead
<1>. QED  BY <1>3, <1>5, <1>14, <1>15, <1>16 DEF IInv

-----------------------------------------------------------------------------
\* What is read of a record that holds a name, and of one that names a server.
LEMMA NameAt ==
    ASSUME Sent, AtRecord, zone[idx + 1].type # TYPE_A, zone[idx + 1].type # TYPE_SRV
    PROVE  GetName(Fields(at).at) = NameOf(zone[idx + 1].host)
<1>. DEFINE r == zone[idx + 1]
            h == r.host
            c == Compressed(h)
            p == End(idx) + 12
<1>1. IsRecord(r) /\ r.type # TYPE_A /\ r.type # TYPE_SRV
  BY DEF AtRecord
<1>2. IsName(h) /\ Data(r) = c
  <2>. HIDE DEF r
  <2>1. r.type # TYPE_A => IsName(r.host)
    BY <1>1, DataParts
  <2>2. r.type # TYPE_A /\ r.type # TYPE_SRV => Data(r) = Compressed(r.host)
    BY <1>1, DataParts
  <2>. QED  BY <1>1, <2>1, <2>2
<1>3. Len(c) \in 1 .. 255
  BY <1>2, CompressedParts
<1>4. /\ End(idx) \in Nat /\ End(0) \in Nat /\ End(0) <= End(idx) /\ Len(m) \in Nat
      /\ End(idx + 1) <= Len(m) /\ End(idx + 1) = End(idx) + 12 + Len(c)
      /\ Fields(at).at = End(idx) + 13
      /\ \A j \in 1 .. Len(c) : m[p + j] = c[j]
  BY <1>2, QuestionSkipped DEF AtRecord, AreOctets
<1>5. p \in Nat /\ End(0) <= p /\ p + Len(c) <= Len(m) /\ Fields(at).at = p + 1
  <2>. DEFINE e == End(idx)
              e2 == End(idx + 1)
              l == Len(c)
              k == Len(m)
              z == End(0)
              i == Fields(at).at
  <2>. HIDE DEF e, e2, l, k, z, i, c
  <2>1. e \in Nat /\ z \in Nat /\ z <= e /\ k \in Nat /\ e2 <= k /\ e2 = e + 12 + l /\ i = e + 13 /\ l \in 1 .. 255
    BY <1>3, <1>4 DEF e, e2, l, k, z, i
  <2>2. e + 12 \in Nat /\ z <= e + 12 /\ e + 12 + l <= k /\ i = e + 12 + 1
    BY <2>1
  <2>. QED  BY <2>2 DEF e, l, k, z, i
<1>. HIDE DEF p, h, r
<1>6. GetName(p + 1) = NameOf(h)
  BY <1>2, <1>4, <1>5, HostAt
<1>. QED  BY <1>5, <1>6 DEF h, r

\* The fields and the host of a server.
LEMMA ServerAt ==
    ASSUME Sent, AtRecord, zone[idx + 1].type = TYPE_SRV
    PROVE  /\ Has(Fields(at).at, 6)
           /\ Value(Fields(at).at) = zone[idx + 1].priority
           /\ Value(Fields(at).at + 2) = zone[idx + 1].weight
           /\ Value(Fields(at).at + 4) = zone[idx + 1].port
           /\ GetName(Fields(at).at + 6) = NameOf(zone[idx + 1].host)
<1>. DEFINE r == zone[idx + 1]
            h == r.host
            c == Compressed(h)
            d == Data(r)
            e == End(idx)
            i == Fields(at).at
            k == Len(m)
            p == e + 18
<1>1. IsRecord(r) /\ r.type = TYPE_SRV /\ TYPE_SRV # TYPE_A
  BY DEF AtRecord, TYPE_SRV, TYPE_A
<1>2. /\ IsName(h) /\ Len(d) = 6 + Len(c)
      /\ d[1] * 256 + d[2] = r.priority /\ d[3] * 256 + d[4] = r.weight /\ d[5] * 256 + d[6] = r.port
      /\ \A j \in 1 .. Len(c) : d[6 + j] = c[j]
  <2>. HIDE DEF r
  <2>1. r.type # TYPE_A => IsName(r.host)
    BY <1>1, DataParts
  <2>2. r.type = TYPE_SRV =>
                 /\ Len(Data(r)) = 6 + Len(Compressed(r.host))
                 /\ Data(r)[1] * 256 + Data(r)[2] = r.priority
                 /\ Data(r)[3] * 256 + Data(r)[4] = r.weight
                 /\ Data(r)[5] * 256 + Data(r)[6] = r.port
                 /\ \A j \in 1 .. Len(Compressed(r.host)) : Data(r)[6 + j] = Compressed(r.host)[j]
    BY <1>1, DataParts
  <2>. QED  BY <1>1, <2>1, <2>2
<1>3. Len(c) \in 1 .. 255
  BY <1>2, CompressedParts
<1>4. /\ e \in Nat /\ End(0) \in Nat /\ End(0) <= e /\ k \in Nat
      /\ End(idx + 1) <= k /\ End(idx + 1) = e + 12 + Len(d) /\ i = e + 13
      /\ \A j \in 1 .. Len(d) : m[e + 12 + j] = d[j]
  BY QuestionSkipped DEF AtRecord, AreOctets
<1>. HIDE DEF e, i, k, d, c
<1>5. e + 18 + Len(c) <= k /\ e + 18 \in Nat /\ End(0) <= e + 18 /\ i + 6 = e + 18 + 1 /\ i + 6 <= k + 1
  <2>. DEFINE e2 == End(idx + 1)
              z == End(0)
              l == Len(c)
              n == Len(d)
  <2>. HIDE DEF e2, z, l, n
  <2>1. e \in Nat /\ z \in Nat /\ z <= e /\ k \in Nat /\ e2 <= k /\ e2 = e + 12 + n /\ i = e + 13 /\ l \in 1 .. 255
        /\ n = 6 + l
    BY <1>2, <1>3, <1>4 DEF e2, l, z, n
  <2>2. e + 18 + l <= k /\ e + 18 \in Nat /\ z <= e + 18 /\ i + 6 = e + 18 + 1 /\ i + 6 <= k + 1
    BY <2>1
  <2>. QED  BY <2>2 DEF l, z
<1>6. \A j \in 1 .. Len(c) : m[p + j] = c[j]
  <2>. SUFFICES ASSUME NEW j \in 1 .. Len(c) PROVE m[e + 18 + j] = c[j]
    OBVIOUS
  <2>1. 6 + j \in 1 .. Len(d) /\ e + 12 + (6 + j) = e + 18 + j
    <3>. DEFINE l == Len(c)
                n == Len(d)
    <3>1. l \in 1 .. 255 /\ n = 6 + l /\ e \in Nat /\ j \in 1 .. l
      BY <1>2, <1>3, <1>4
    <3>. HIDE DEF l, n
    <3>2. 6 + j \in 1 .. n /\ e + 12 + (6 + j) = e + 18 + j
      BY <3>1
    <3>. QED  BY <3>2 DEF n
  <2>2. m[e + 12 + (6 + j)] = d[6 + j]
    BY <1>4, <2>1
  <2>. QED  BY <1>2, <2>1, <2>2
<1>7. /\ m[i] = d[1] /\ m[i + 1] = d[2] /\ m[i + 2] = d[3] /\ m[i + 2 + 1] = d[4]
      /\ m[i + 4] = d[5] /\ m[i + 4 + 1] = d[6]
  <2>1. \A j \in 1 .. 6 : j \in 1 .. Len(d)
    BY <1>2, <1>3
  <2>2. /\ i = e + 12 + 1 /\ i + 1 = e + 12 + 2 /\ i + 2 = e + 12 + 3 /\ i + 2 + 1 = e + 12 + 4
        /\ i + 4 = e + 12 + 5 /\ i + 4 + 1 = e + 12 + 6
    BY <1>4
  <2>3. \A j \in 1 .. 6 : m[e + 12 + j] = d[j]
    BY <1>4, <2>1
  <2>4. /\ m[e + 12 + 1] = d[1] /\ m[e + 12 + 2] = d[2] /\ m[e + 12 + 3] = d[3] /\ m[e + 12 + 4] = d[4]
        /\ m[e + 12 + 5] = d[5] /\ m[e + 12 + 6] = d[6]
    BY <2>3
  <2>. QED  BY <2>2, <2>4
<1>8. Value(i) = r.priority /\ Value(i + 2) = r.weight /\ Value(i + 4) = r.port
  BY <1>2, <1>7 DEF Value
<1>9. Has(i, 6)
  BY <1>5 DEF Has, k
<1>10. GetName(p + 1) = NameOf(h)
  <2>. HIDE DEF p, h, r
  <2>1. p \in Nat /\ End(0) <= p /\ p + Len(Compressed(h)) <= Len(m)
        /\ \A j \in 1 .. Len(Compressed(h)) : m[p + j] = Compressed(h)[j]
    BY <1>5, <1>6 DEF p, c, k
  <2>. QED  BY <1>2, <2>1, HostAt
<1>11. GetName(i + 6) = NameOf(h)
  BY <1>5, <1>10
<1>. QED  BY <1>8, <1>9, <1>11 DEF i

\* The first of the names, once its record is passed.
LEMMA FirstPassed ==
    ASSUME TypeOK, Sent, AtRecord, Gathered, pc = "records", asked = "hosts", idx = 0, HostRecord,
           GetName(Fields(at).at).ok \/ ~Match(zone[1], TYPE_PTR) \/ ~(count < Room)
    PROVE  /\ stale' \/ FirstHost'
           /\ count' \in 0 .. 1 /\ idx' = 1 /\ at' = at + Fields(at).length /\ pc' = pc
<1>. DEFINE f == Fields(at)
            n == GetName(f.at)
            r == zone[1]
            h == r.host
            all == Kept(TYPE_PTR)[1]
<1>1. UNCHANGED message /\ zone' = zone /\ Kept(TYPE_PTR)' = Kept(TYPE_PTR)
  BY Same DEF HostRecord
<1>2. count = 0 /\ slots = <<>>
  BY DEF Gathered
<1>3. Room \in Nat /\ r.type = f.type /\ r.class = f.class
  <2>1. idx + 1 = 1
    OBVIOUS
  <2>2. Fields(at).type = zone[idx + 1].type /\ Fields(at).class = zone[idx + 1].class
    BY DEF AtRecord
  <2>. QED  BY Constants, <2>1, <2>2
<1>4. all = IF Match(r, TYPE_PTR) THEN <<r>> ELSE <<>>
  <2>1. AreRecords(zone) /\ 0 \in 0 .. Len(zone) - 1
    BY DEF AtRecord
  <2>2. KeptNext(TYPE_PTR, 0) /\ Kept(TYPE_PTR)[0] = <<>>
    BY <2>1, KeptParts
  <2>3. 0 + 1 = 1 /\ Append(<<>>, r) = <<r>>
    OBVIOUS
  <2>. QED  BY <2>2, <2>3 DEF KeptNext
<1>5. all' = all /\ r' = r
  BY <1>1
<1>6. CASE Match(r, TYPE_PTR) /\ count < Room
  <2>1. n.ok
    BY <1>6
  <2>2. PICK dst : /\ stale' = (stale \/ dst # n.name)
                   /\ Found(idx, dst) /\ Loop(at + f.length)
    BY <1>3, <1>6, <2>1 DEF HostRecord, Match
  <2>3. n = NameOf(h)
    <3>1. r.type # TYPE_A /\ r.type # TYPE_SRV
      BY <1>6 DEF Match, TYPE_A, TYPE_SRV, TYPE_PTR
    <3>2. zone[idx + 1] = r
      OBVIOUS
    <3>3. GetName(Fields(at).at) = NameOf(zone[idx + 1].host)
      BY <3>1, <3>2, NameAt
    <3>. QED  BY <3>2, <3>3
  <2>4. n.name = h
    BY <2>3 DEF NameOf
  <2>5. count' = 1 /\ slots' = [i \in {0} |-> dst]
    <3>1. DOMAIN slots \cup {idx} = {0} /\ idx = 0 /\ count + 1 = 1
      BY <1>2
    <3>2. slots' = [i \in DOMAIN slots \cup {idx} |-> IF i = idx THEN dst ELSE slots[i]] /\ count' = count + 1
      BY <2>2 DEF Found
    <3>3. \A i \in {0} : i = idx
      OBVIOUS
    <3>4. slots' = [i \in {0} |-> IF i = idx THEN dst ELSE slots[i]]
      BY <3>1, <3>2
    <3>. QED  BY <3>1, <3>2, <3>3, <3>4
  <2>6. idx' = 1 /\ at' = at + f.length /\ pc' = pc
    BY <2>2 DEF Loop
  <2>7. CASE dst = h
    <3>1. count' > 0 /\ 0 \in DOMAIN slots' /\ slots'[0] = h
      BY <2>5, <2>7
    <3>2. Lesser(Room, Len(<<r>>)) = 1
      BY <1>2, <1>3, <1>6 DEF Lesser
    <3>3. all' = <<r>> /\ h' = h
      BY <1>4, <1>5, <1>6
    <3>4. FirstHost'
      BY <1>1, <2>5, <3>1, <3>2, <3>3 DEF FirstHost, Lesser
    <3>. QED  BY <2>5, <2>6, <3>4
  <2>8. CASE dst # h
    <3>1. stale'
      BY <2>2, <2>4, <2>8, Zenon
    <3>. QED  BY <2>5, <2>6, <3>1
  <2>. QED  BY <2>7, <2>8
<1>7. CASE ~(Match(r, TYPE_PTR) /\ count < Room)
  <2>1. Loop(at + f.length) /\ UNCHANGED <<slots, count>>
    BY <1>3, <1>7 DEF HostRecord, Match
  <2>2. count' = 0 /\ idx' = 1 /\ at' = at + f.length /\ pc' = pc
    BY <1>2, <2>1 DEF Loop
  <2>3. Lesser(Room, Len(all)) = 0 /\ ~(all # <<>> /\ Room > 0)
    <3>1. CASE Match(r, TYPE_PTR)
      <4>1. Room = 0
        BY <1>2, <1>3, <1>7, <3>1
      <4>2. Len(all) = 1
        BY <1>4, <3>1
      <4>. QED  BY <4>1, <4>2 DEF Lesser
    <3>2. CASE ~Match(r, TYPE_PTR)
      <4>1. all = <<>> /\ Len(<<>>) = 0
        BY <1>4, <3>2
      <4>. QED  BY <1>3, <4>1 DEF Lesser
    <3>. QED  BY <3>1, <3>2
  <2>4. FirstHost'
    BY <1>1, <1>5, <2>2, <2>3 DEF FirstHost, Lesser
  <2>. QED  BY <2>2, <2>4
<1>. QED  BY <1>6, <1>7

\* One record of an answer with names.
LEMMA HostRecordStep ==
    ASSUME IInv, HostRecord
    PROVE  IInv'
<1>. DEFINE f == Fields(at)
            n == GetName(f.at)
            k == Len(m)
            L == Len(zone)
            room == f.type = TYPE_PTR /\ f.class = CLASS_IN /\ count < Room
<1>1. TypeOK /\ Sent /\ InPlace /\ Gathered
  BY DEF IInv
<1>2. asked = "hosts" /\ More /\ pc = "records" /\ UNCHANGED message /\ rc' = rc
  BY DEF HostRecord, More
<1>3. /\ asked' = asked /\ zone' = zone /\ m' = m /\ rcode' = rcode /\ Sent'
      /\ \A type : Kept(type)' = Kept(type)
  BY <1>1, <1>2, Same
<1>4. /\ AreOctets /\ k \in Nat /\ L \in Nat /\ at \in 1 .. k + 1 /\ idx \in 0 .. L - 1
      /\ count \in 0 .. idx /\ Room \in Nat
  <2>1. AreOctets /\ k \in Nat /\ L \in Nat
    BY <1>1, SentParts DEF AreOctets, AreRecords
  <2>2. at \in 1 .. k + 1 /\ idx \in 0 .. L /\ idx < L /\ count \in 0 .. idx
    BY <1>1, <1>2 DEF TypeOK, More
  <2>3. Room \in Nat
    BY Constants
  <2>. HIDE DEF k, L
  <2>4. idx \in 0 .. L - 1
    BY <2>1, <2>2
  <2>. QED  BY <2>1, <2>2, <2>3, <2>4
<1>5. at + f.length \in 1 .. k + 1
  <2>1. at \in Places
    BY <1>4 DEF Places
  <2>2. f.ok
    BY <1>2 DEF More
  <2>3. f.length \in Nat /\ f.at \in at .. k + 1 /\ f.at + f.length <= k + 1
    BY <1>4, <2>1, <2>2, FieldsParts
  <2>. DEFINE i == f.at
              l == f.length
  <2>4. k \in Nat /\ at \in 1 .. k + 1 /\ l \in Nat /\ i \in at .. k + 1 /\ i + l <= k + 1
    BY <1>4, <2>3
  <2>. HIDE DEF i, l, k
  <2>5. at + l \in 1 .. k + 1
    BY <2>4
  <2>. QED  BY <2>5 DEF l
<1>6. rcode = 0 /\ (idx = 0 => count = 0 /\ slots = <<>>) /\ (idx # 0 => stale \/ FirstHost)
  BY <1>1, <1>2 DEF Gathered
<1>7. idx = 0 => AtRecord
  BY <1>1, <1>2, RecordIs
<1>8. stale' \in BOOLEAN /\ (stale => stale')
  <2>1. stale \in BOOLEAN
    BY <1>1 DEF TypeOK
  <2>2. CASE room
    <3>1. PICK dst : stale' = (stale \/ dst # n.name)
      BY <2>2 DEF HostRecord
    <3>. QED  BY <2>1, <3>1, Zenon
  <2>3. CASE ~room
    <3>1. stale' = stale
      BY <2>3 DEF HostRecord
    <3>. QED  BY <2>1, <3>1
  <2>. QED  BY <2>2, <2>3
<1>9. \/ /\ idx' = idx + 1 /\ at' = at + f.length /\ pc' = "records"
         /\ \/ \E dst : Found(idx, dst)
            \/ UNCHANGED <<slots, count>>
      \/ pc' = "done" /\ UNCHANGED <<at, idx, slots, count>> /\ room /\ ~n.ok
  <2>1. CASE room
    <3>1. PICK dst : IF n.ok THEN Found(idx, dst) /\ Loop(at + f.length)
                     ELSE Stop /\ UNCHANGED <<at, idx, slots, count>>
      BY <2>1 DEF HostRecord
    <3>. QED  BY <1>2, <2>1, <3>1 DEF Loop, Stop
  <2>2. CASE ~room
    <3>1. Loop(at + f.length) /\ UNCHANGED <<slots, count>>
      BY <2>2 DEF HostRecord
    <3>. QED  BY <1>2, <3>1 DEF Loop
  <2>. QED  BY <2>1, <2>2
<1>10. TypeOK'
  <2>1. at' \in 1 .. k + 1 /\ idx' \in 0 .. L /\ count' \in 0 .. idx'
    <3>. HIDE DEF f, k, L, n, room
    <3>1. count' = count \/ count' = count + 1
      BY <1>9 DEF Found
    <3>. QED  BY <1>4, <1>5, <1>9, <3>1
  <2>2. pc' \in {"echo", "records", "done"}
    BY <1>9
  <2>3. rc' \in {"success", "unavailable"}
    BY <1>1, <1>2 DEF TypeOK
  <2>. QED  BY <1>3, <1>8, <2>1, <2>2, <2>3 DEF TypeOK
<1>11. CASE idx = 0
  <2>1. Match(zone[1], TYPE_PTR) => n.ok
    <3>. SUFFICES ASSUME Match(zone[1], TYPE_PTR) PROVE n.ok
      OBVIOUS
    <3>1. zone[idx + 1] = zone[1]
      BY <1>11
    <3>2. zone[idx + 1].type # TYPE_A /\ zone[idx + 1].type # TYPE_SRV
      BY <3>1 DEF Match, TYPE_A, TYPE_SRV, TYPE_PTR
    <3>3. n = NameOf(zone[idx + 1].host)
      BY <1>1, <1>7, <1>11, <3>2, NameAt
    <3>. QED  BY <3>3 DEF NameOf
  <2>2. (stale' \/ FirstHost') /\ idx' = 1 /\ pc' = "records"
    BY <1>1, <1>2, <1>7, <1>11, <2>1, FirstPassed
  <2>3. InPlace' /\ Gathered' /\ Begun' /\ AnswerRead'
    BY <1>2, <1>3, <1>6, <2>2 DEF InPlace, Gathered, Begun, AnswerRead, AddrsRead, SrvRead, HostsRead
  <2>. QED  BY <1>3, <1>10, <2>3 DEF IInv
<1>12. CASE idx # 0
  <2>1. stale' \/ FirstHost'
    <3>1. CASE stale
      BY <1>8, <3>1
    <3>2. CASE ~stale
      <4>1. FirstHost /\ L # 1
        <5>. HIDE DEF L
        <5>. QED  BY <1>4, <1>6, <1>12, <3>2
      <4>2. (UNCHANGED <<slots, count>>) \/ \E dst : Found(idx, dst)
        BY <1>9
      <4>3. CASE UNCHANGED <<slots, count>>
        BY <1>3, <4>1, <4>3 DEF FirstHost, Lesser
      <4>4. CASE \E dst : Found(idx, dst)
        <5>1. PICK dst : Found(idx, dst)
          BY <4>4
        <5>2. /\ slots' = [i \in DOMAIN slots \cup {idx} |-> IF i = idx THEN dst ELSE slots[i]]
              /\ count' = count + 1
          BY <5>1 DEF Found
        <5>3. 0 \in DOMAIN slots => 0 \in DOMAIN slots' /\ slots'[0] = slots[0]
          BY <1>12, <5>2
        <5>4. count' > 0
          BY <1>4, <5>2
        <5>. QED  BY <1>3, <4>1, <5>3, <5>4 DEF FirstHost
      <4>. QED  BY <4>2, <4>3, <4>4
    <3>. QED  BY <3>1, <3>2
  <2>2. idx' # 0
    BY <1>4, <1>9, <1>12
  <2>3. pc' # "echo" /\ asked' = "hosts" /\ rcode' = 0
    BY <1>2, <1>3, <1>6, <1>9
  <2>4. InPlace' /\ Gathered' /\ Begun' /\ AnswerRead'
    BY <2>1, <2>2, <2>3 DEF InPlace, Gathered, Begun, AnswerRead, AddrsRead, SrvRead, HostsRead
  <2>. QED  BY <1>3, <1>10, <2>4 DEF IInv
<1>. QED  BY <1>11, <1>12

-----------------------------------------------------------------------------
\* The least of some numbers.
LEMMA Least ==
    ASSUME NEW L \in Nat, NEW W \in SUBSET (1 .. L), NEW x \in W, \A y \in W : x <= y
    PROVE  Min(W) = x
<1>. DEFINE P(u) == \A y \in W : u =< y
<1>1. \A y \in W : y \in Int
  <2>1. \A y \in W : y \in 1 .. L
    OBVIOUS
  <2>. QED  BY <2>1
<1>2. \A u \in W : P(u) => u = x
  BY <1>1
<1>3. Min(W) = CHOOSE u \in W : P(u)
  BY DEF Min
<1>4. P(x)
  OBVIOUS
<1>. HIDE DEF P
<1>. QED  BY <1>2, <1>3, <1>4, Zenon

\* The first server whose host is the root makes the service unavailable.
LEMMA RootFound ==
    ASSUME TypeOK, Sent, AtRecord, pc = "records", Match(zone[idx + 1], TYPE_SRV), zone[idx + 1].host = <<>>,
           Roots(Kept(TYPE_SRV)[idx]) = {}
    PROVE  /\ Roots(Kept(TYPE_SRV)[Arrived]) # {}
           /\ Min(Roots(Kept(TYPE_SRV)[Arrived])) = Len(Kept(TYPE_SRV)[idx]) + 1
           /\ \A i \in 1 .. Len(Kept(TYPE_SRV)[idx]) : Kept(TYPE_SRV)[Arrived][i] = Kept(TYPE_SRV)[idx][i]
<1>. DEFINE b == Kept(TYPE_SRV)
            r == zone[idx + 1]
            a == b[Arrived]
            all == b[idx]
            n == Len(b[idx])
            L == Len(b[Arrived])
<1>1. AreRecords(zone) /\ idx \in 0 .. Len(zone) - 1 /\ idx + 1 \in 1 .. Len(zone) /\ Len(zone) \in Nat
  BY DEF AtRecord, AreRecords
<1>2. Arrived \in 0 .. Len(zone) /\ idx + 1 <= Arrived
  <2>1. idx + 1 \in 0 .. Len(zone) /\ End(idx + 1) <= Len(m)
    BY <1>1 DEF AtRecord
  <2>. QED  BY <2>1, ArrivedParts
<1>3. idx \in 0 .. Len(zone) /\ idx \in 0 .. Arrived /\ idx + 1 \in 0 .. Arrived
  <2>. DEFINE w == Arrived
              l == Len(zone)
  <2>. HIDE DEF w, l
  <2>1. idx \in 0 .. l - 1 /\ l \in Nat /\ w \in 0 .. l /\ idx + 1 <= w
    BY <1>1, <1>2 DEF w, l
  <2>2. idx \in 0 .. l /\ idx \in 0 .. w /\ idx + 1 \in 0 .. w
    BY <2>1
  <2>. QED  BY <2>2 DEF w, l
<1>4. /\ all \in Seq(ToSet(zone)) /\ a \in Seq(ToSet(zone)) /\ r \in ToSet(zone)
      /\ b[idx + 1] = Append(all, r)
  <2>1. all \in Seq(ToSet(zone)) /\ a \in Seq(ToSet(zone))
    BY <1>1, <1>2, <1>3, KeptParts
  <2>2. r \in ToSet(zone)
    BY <1>1, ElementOfSeq DEF AreRecords
  <2>3. KeptNext(TYPE_SRV, idx)
    BY <1>1, KeptParts
  <2>. QED  BY <2>1, <2>2, <2>3 DEF KeptNext
<1>5. /\ \A j \in 1 .. n : a[j] = all[j]
      /\ \A j \in 1 .. Len(b[idx + 1]) : a[j] = b[idx + 1][j]
      /\ Len(b[idx + 1]) <= L
  BY <1>1, <1>2, <1>3, KeptParts
<1>. HIDE DEF b, r
<1>6. /\ n \in Nat /\ L \in Nat /\ DOMAIN a = 1 .. L /\ DOMAIN all = 1 .. n
      /\ Len(b[idx + 1]) = n + 1 /\ b[idx + 1][n + 1] = r
  BY <1>4, LenProperties, AppendProperties
<1>. HIDE DEF a, all, n, L
<1>7. n + 1 \in 1 .. L /\ a[n + 1] = r
  <2>1. n + 1 \in 1 .. Len(b[idx + 1])
    BY <1>6
  <2>2. a[n + 1] = b[idx + 1][n + 1]
    BY <1>5, <2>1
  <2>3. n + 1 <= L
    BY <1>5, <1>6
  <2>. QED  BY <1>6, <2>2, <2>3
<1>8. n + 1 \in Roots(a)
  BY <1>6, <1>7 DEF Roots, r
<1>9. ASSUME NEW y \in Roots(a) PROVE n + 1 <= y
  <2>1. y \in 1 .. L /\ a[y].host = <<>>
    BY <1>6 DEF Roots
  <2>. SUFFICES ASSUME y \in 1 .. n PROVE FALSE
    BY <1>6, <2>1
  <2>2. all[y].host = <<>>
    BY <1>5, <2>1
  <2>3. y \in Roots(all)
    BY <1>6, <2>2 DEF Roots
  <2>. QED  BY <2>3 DEF all, b
<1>10. Roots(a) \in SUBSET (1 .. L)
  BY <1>6 DEF Roots
<1>11. Min(Roots(a)) = n + 1
  BY <1>6, <1>8, <1>9, <1>10, Least
<1>. QED  BY <1>5, <1>8, <1>11 DEF a, all, b, n

\* What one more server makes of those that were found.
LEMMA ServerFound ==
    ASSUME NEW all, NEW r, NEW S, all \in Seq(S), r \in S, count \in Nat, DOMAIN slots = 0 .. count - 1,
           Result = [i \in DOMAIN all |-> ServerOf(all[i])], Roots(all) = {}, r.host # <<>>,
           Found(count, ServerOf(r))
    PROVE  /\ DOMAIN slots' = 0 .. count' - 1
           /\ Roots(Append(all, r)) = {}
           /\ Result' = [i \in DOMAIN Append(all, r) |-> ServerOf(Append(all, r)[i])]
<1>. DEFINE all2 == Append(all, r)
            n == Len(all)
            x == ServerOf(r)
            res == Result
<1>1. /\ n \in Nat /\ DOMAIN all = 1 .. n
      /\ all2 \in Seq(S) /\ Len(all2) = n + 1 /\ all2[n + 1] = r
      /\ \A i \in 1 .. n : all2[i] = all[i]
  BY LenProperties, AppendProperties
<1>2. DOMAIN all2 = 1 .. n + 1
  BY <1>1, LenProperties
<1>3. count = n
  <2>1. DOMAIN Result = 1 .. count
    BY DEF Result
  <2>2. 1 .. count = 1 .. n
    BY <1>1, <2>1
  <2>. HIDE DEF n
  <2>. QED  BY <1>1, <2>2, SameLength
<1>4. /\ count' = count + 1 /\ DOMAIN slots' = 0 .. count' - 1
      /\ Result' = [i \in 1 .. count + 1 |-> IF i = count + 1 THEN x ELSE res[i]]
  BY FoundParts
<1>5. \A i \in 1 .. n : res[i] = ServerOf(all[i])
  BY <1>1
<1>. HIDE DEF all2, n, x, res
<1>6. Roots(all2) = {}
  <2>. SUFFICES ASSUME NEW i \in 1 .. n + 1, all2[i].host = <<>> PROVE FALSE
    BY <1>2 DEF Roots
  <2>1. i # n + 1
    BY <1>1
  <2>2. i \in 1 .. n
    BY <1>1, <2>1
  <2>3. i \in Roots(all)
    BY <1>1, <2>2 DEF Roots
  <2>. QED  BY <2>3
<1>7. ASSUME NEW i \in 1 .. n + 1
      PROVE  (IF i = count + 1 THEN x ELSE res[i]) = ServerOf(all2[i])
  <2>1. CASE i = n + 1
    BY <1>1, <1>3, <2>1 DEF x
  <2>2. CASE i # n + 1
    <3>1. i \in 1 .. n
      BY <1>1, <2>2
    <3>. QED  BY <1>1, <1>3, <1>5, <2>2, <3>1
  <2>. QED  BY <2>1, <2>2
<1>8. Result' = [i \in DOMAIN all2 |-> ServerOf(all2[i])]
  BY <1>2, <1>3, <1>4, <1>7
<1>. QED  BY <1>4, <1>6, <1>8 DEF all2

\* One record of an answer with servers.
LEMMA SrvRecordStep ==
    ASSUME IInv, SrvRecord
    PROVE  IInv'
<1>. DEFINE f == Fields(at)
            n == GetName(f.at + 6)
            r == zone[idx + 1]
            all == Kept(TYPE_SRV)[idx]
            all2 == Kept(TYPE_SRV)[idx + 1]
<1>1. TypeOK /\ Sent /\ InPlace /\ Gathered
  BY DEF IInv
<1>2. asked = "srv" /\ More /\ pc = "records" /\ UNCHANGED message
  BY DEF SrvRecord, More
<1>3. /\ asked' = asked /\ zone' = zone /\ m' = m /\ rcode' = rcode /\ Sent' /\ Arrived' = Arrived
      /\ \A type : Kept(type)' = Kept(type)
  BY <1>1, <1>2, Same
<1>4. AtRecord
  BY <1>1, <1>2, RecordIs
<1>5. /\ at \in 1 .. Len(m) + 1 /\ idx \in 0 .. Len(zone) /\ count \in 0 .. idx
      /\ rc \in {"success", "unavailable"} /\ stale \in BOOLEAN /\ idx \in Nat /\ count \in Nat
  <2>1. idx \in 0 .. Len(zone) - 1
    BY <1>4 DEF AtRecord
  <2>. QED  BY <1>1, <2>1 DEF TypeOK
<1>6. ~stale => /\ DOMAIN slots = 0 .. count - 1 /\ Roots(all) = {} /\ rc = "success"
                /\ Result = [i \in DOMAIN all |-> ServerOf(all[i])]
  BY <1>1, <1>2 DEF Gathered
<1>7. /\ all \in Seq(ToSet(zone)) /\ r \in ToSet(zone)
      /\ all2 = IF Match(r, TYPE_SRV) THEN Append(all, r) ELSE all
  <2>1. AreRecords(zone) /\ idx \in 0 .. Len(zone) - 1 /\ idx \in 0 .. Len(zone) /\ idx + 1 \in 1 .. Len(zone)
    BY <1>4 DEF AtRecord
  <2>2. all \in Seq(ToSet(zone))
    BY <2>1, KeptParts
  <2>3. KeptNext(TYPE_SRV, idx)
    BY <2>1, KeptParts
  <2>4. r \in ToSet(zone)
    BY <2>1, ElementOfSeq DEF AreRecords
  <2>. QED  BY <2>2, <2>3, <2>4 DEF KeptNext
<1>8. f.type = r.type /\ f.class = r.class
  BY <1>4 DEF AtRecord
<1>9. ASSUME idx' = idx + 1, at' = f.at + f.length, pc' = pc, count' \in {count, count + 1},
             rc' = rc, stale' \in BOOLEAN,
             ~stale' => /\ ~stale /\ DOMAIN slots' = 0 .. count' - 1 /\ Roots(all2) = {}
                        /\ Result' = [i \in DOMAIN all2 |-> ServerOf(all2[i])]
      PROVE  IInv'
  <2>1. at' \in 1 .. Len(m)' + 1 /\ idx' \in 0 .. Len(zone)' /\ InPlace'
    BY <1>1, <1>2, <1>4, <1>9, MovedOn
  <2>2. count' \in 0 .. idx'
    BY <1>5, <1>9
  <2>3. TypeOK'
    BY <1>2, <1>5, <1>9, <2>1, <2>2 DEF TypeOK
  <2>4. Gathered'
    <3>1. asked' = "srv"
      BY <1>2, <1>3
    <3>2. Kept(TYPE_SRV)'[idx'] = all2
      BY <1>3, <1>9
    <3>. HIDE DEF all2
    <3>3. ~stale' => /\ DOMAIN slots' = 0 .. count' - 1 /\ Roots(all2) = {} /\ rc' = "success"
                     /\ Result' = [i \in DOMAIN all2 |-> ServerOf(all2[i])]
      BY <1>6, <1>9
    <3>. QED  BY <3>1, <3>2, <3>3 DEF Gathered, Roots, ServerOf
  <2>5. Begun' /\ AnswerRead'
    BY <1>2, <1>9 DEF Begun, AnswerRead, AddrsRead, SrvRead, HostsRead
  <2>. QED  BY <1>3, <2>1, <2>3, <2>4, <2>5 DEF IInv
<1>10. CASE ~Match(r, TYPE_SRV)
  <2>1. Loop(f.at + f.length) /\ UNCHANGED <<slots, count, rc, stale>>
    BY <1>8, <1>10 DEF SrvRecord, Match
  <2>2. Result' = Result
    BY <2>1 DEF Result
  <2>3. all2 = all
    BY <1>7, <1>10
  <2>. HIDE DEF all, all2, f
  <2>4. idx' = idx + 1 /\ at' = f.at + f.length /\ pc' = pc /\ count' = count /\ slots' = slots /\ rc' = rc /\ stale' = stale
    BY <2>1 DEF Loop
  <2>5. stale' \in BOOLEAN /\ (~stale' => ~stale)
    BY <1>5, <2>4
  <2>. QED  BY <1>6, <1>9, <2>2, <2>3, <2>4, <2>5
<1>11. CASE Match(r, TYPE_SRV)
  <2>1. /\ Has(f.at, 6) /\ Value(f.at) = r.priority /\ Value(f.at + 2) = r.weight
        /\ Value(f.at + 4) = r.port /\ n = NameOf(r.host)
    <3>1. zone[idx + 1].type = TYPE_SRV
      BY <1>11 DEF Match
    <3>. QED  BY <1>1, <1>4, <3>1, ServerAt
  <2>2. n.ok /\ n.name = r.host
    BY <2>1 DEF NameOf
  <2>3. PICK dst :
           /\ stale' = (stale \/ dst # n.name)
           /\ IF dst = <<>>
              THEN rc' = "unavailable" /\ Stop /\ UNCHANGED <<at, idx, slots, count>>
              ELSE /\ Found(count, [priority |-> Value(f.at), weight |-> Value(f.at + 2),
                                    port |-> Value(f.at + 4), host |-> Stored(dst)])
                   /\ Loop(f.at + f.length)
                   /\ UNCHANGED rc
    BY <1>8, <1>11, <2>1, <2>2 DEF SrvRecord, Match
  <2>4. stale' \in BOOLEAN /\ (~stale' => ~stale /\ dst = r.host)
    <3>1. stale' = (stale \/ dst # r.host)
      BY <2>2, <2>3
    <3>. QED  BY <1>5, <3>1, Zenon
  <2>5. CASE dst = <<>>
    <3>1. rc' = "unavailable" /\ pc' = "done" /\ UNCHANGED <<at, idx, slots, count>>
      BY <2>3, <2>5 DEF Stop
    <3>2. TypeOK'
      BY <1>3, <1>5, <2>4, <3>1 DEF TypeOK
    <3>3. Begun' /\ InPlace' /\ Gathered' /\ AddrsRead' /\ HostsRead'
      BY <1>2, <1>3, <3>1 DEF Begun, InPlace, Gathered, AddrsRead, HostsRead
    <3>4. SrvRead'
      <4>. SUFFICES ASSUME ~stale' PROVE SrvRead'
        BY DEF SrvRead
      <4>. DEFINE a == Kept(TYPE_SRV)[Arrived]
                  l == Len(all)
                  res == Result
      <4>1. ~stale /\ r.host = <<>>
        BY <2>4, <2>5
      <4>2. Roots(all) = {} /\ res = [i \in DOMAIN all |-> ServerOf(all[i])]
        BY <1>6, <4>1
      <4>3. Roots(a) # {} /\ Min(Roots(a)) = l + 1 /\ \A i \in 1 .. l : a[i] = all[i]
        BY <1>1, <1>2, <1>4, <1>11, <4>1, <4>2, RootFound
      <4>4. l \in Nat /\ DOMAIN all = 1 .. l
        BY <1>7, LenProperties
      <4>5. Kept(TYPE_SRV)'[Arrived'] = a /\ Result' = res
        BY <1>3, <3>1 DEF Result
      <4>. HIDE DEF a, l, res, all
      <4>6. Min(Roots(a)) - 1 = l
        BY <4>3, <4>4
      <4>7. Result' = [i \in 1 .. l |-> ServerOf(a[i])]
        BY <4>2, <4>3, <4>4, <4>5
      <4>. QED  BY <3>1, <4>3, <4>5, <4>6, <4>7 DEF SrvRead, Roots, ServerOf
    <3>. QED  BY <1>3, <3>2, <3>3, <3>4 DEF IInv, AnswerRead
  <2>6. CASE dst # <<>>
    <3>. DEFINE x == [priority |-> Value(f.at), weight |-> Value(f.at + 2), port |-> Value(f.at + 4), host |-> Stored(dst)]
    <3>1. Found(count, x) /\ Loop(f.at + f.length) /\ rc' = rc
      BY <2>3, <2>6
    <3>2. ~stale' => x = ServerOf(r)
      BY <2>1, <2>4 DEF ServerOf
    <3>. HIDE DEF x
    <3>3. idx' = idx + 1 /\ at' = f.at + f.length /\ pc' = pc /\ count' = count + 1
      BY <3>1 DEF Loop, Found
    <3>4. all2 = Append(all, r)
      BY <1>7, <1>11
    <3>5. ASSUME ~stale'
          PROVE  /\ ~stale /\ DOMAIN slots' = 0 .. count' - 1 /\ Roots(all2) = {}
                 /\ Result' = [i \in DOMAIN all2 |-> ServerOf(all2[i])]
      <4>1. ~stale /\ r.host # <<>> /\ Found(count, ServerOf(r))
        BY <2>4, <2>6, <3>1, <3>2, <3>5
      <4>. HIDE DEF all, all2, r
      <4>2. /\ DOMAIN slots' = 0 .. count' - 1 /\ Roots(Append(all, r)) = {}
            /\ Result' = [i \in DOMAIN Append(all, r) |-> ServerOf(Append(all, r)[i])]
        BY <1>5, <1>6, <1>7, <4>1, ServerFound
      <4>. QED  BY <3>4, <4>1, <4>2
    <3>. HIDE DEF all2, f
    <3>. QED  BY <1>9, <2>4, <3>1, <3>3, <3>5
  <2>. QED  BY <2>5, <2>6
<1>. QED  BY <1>10, <1>11

-----------------------------------------------------------------------------
\* Every step.
LEMMA NextHolds == IInv /\ [Next]_vars => IInv'
<1>. SUFFICES ASSUME IInv, [Next]_vars PROVE IInv'
  OBVIOUS
<1>1. CASE Refused
  BY <1>1, RefusedStep
<1>2. CASE SkipEcho
  BY <1>2, SkipEchoStep
<1>3. CASE Over
  BY <1>3, OverStep
<1>4. CASE AddrRecord
  BY <1>4, AddrRecordStep
<1>5. CASE HostRecord
  BY <1>5, HostRecordStep
<1>6. CASE SrvRecord
  BY <1>6, SrvRecordStep
<1>7. CASE UNCHANGED vars
  <2>1. UNCHANGED <<asked, zone, m, rcode, at, idx, slots, count, rc, stale, pc>>
    BY <1>7 DEF vars
  <2>2. TypeOK'
    BY <2>1 DEF TypeOK, IInv
  <2>3. Sent' /\ Begun'
    BY <2>1 DEF Sent, Begun, IInv
  <2>4. InPlace'
    BY <2>1 DEF InPlace, End, IInv
  <2>5. /\ asked' = asked /\ zone' = zone /\ rcode' = rcode /\ Arrived' = Arrived
        /\ \A n : Addrs(n)' = Addrs(n)
        /\ \A type : Kept(type)' = Kept(type)
    BY <2>1, Same DEF message
  <2>6. Result' = Result /\ (FirstHost' <=> FirstHost)
    BY <2>1, <2>5 DEF Result, FirstHost, Lesser
  <2>7. Addrs(idx)' = Addrs(idx) /\ Addrs(Arrived)' = Addrs(Arrived)
    BY <2>1, <2>5 DEF Addrs
  <2>8. Gathered'
    <3>1. Gathered
      BY DEF IInv
    <3>. QED  BY <2>1, <2>5, <2>6, <2>7, <3>1 DEF Gathered, Roots, ServerOf
  <2>9. AddrsRead' /\ HostsRead'
    <3>1. AddrsRead /\ HostsRead
      BY DEF IInv, AnswerRead
    <3>. QED  BY <2>1, <2>5, <2>6, <2>7, <3>1 DEF AddrsRead, HostsRead
  <2>10. SrvRead'
    <3>1. SrvRead
      BY DEF IInv, AnswerRead
    <3>. QED  BY <2>1, <2>5, <2>6, <3>1 DEF SrvRead, Roots, ServerOf
  <2>. QED  BY <2>2, <2>3, <2>4, <2>8, <2>9, <2>10 DEF IInv, AnswerRead
<1>. QED  BY <1>1, <1>2, <1>3, <1>4, <1>5, <1>6, <1>7 DEF Next

\* Whatever the octets of a message are, skip_name goes forward and stays in it,
\* and the fields of a record are found only with the data they announce
\* (header.cc:67-97, 206-220): a length that leads behind the end is refused.
THEOREM ReadingStaysInside ==
    ASSUME m \in Seq(Octet), NEW i \in 1 .. Len(m) + 1
    PROVE  /\ SkipName(i).at \in i .. Len(m) + 1
           /\ Fields(i).ok => /\ Fields(i).at \in i .. Len(m) + 1
                              /\ Fields(i).at + Fields(i).length <= Len(m) + 1
<1>1. AreOctets /\ i \in Places
  BY LenProperties DEF AreOctets, Places
<1>. QED  BY <1>1, SkipNameParts, FieldsParts

\* A name that a name server put behind the question, as it is, through a mark
\* for the question's name, or as a label before one, is what get makes of it
\* (header.cc:283-337).
THEOREM NamesAreRead ==
    ASSUME Sent, NEW name, IsName(name), NEW p \in Nat, End(0) <= p,
           p + Len(Compressed(name)) <= Len(m),
           \A j \in 1 .. Len(Compressed(name)) : m[p + j] = Compressed(name)[j]
    PROVE  GetName(p + 1) = [ok |-> TRUE, name |-> name]
  BY HostAt DEF NameOf

\* A message is read from its beginning on, record by record, and what was
\* found is what the records before hold (header.cc:175-280,
\* rascal_getsrv.cc:97-179).
THEOREM Invariance == Spec => []IInv
  BY InitHolds, NextHolds, PTL DEF Spec

\* The place of the next octet stays within what arrived or right behind it, and
\* no more is found than records were seen, wherever the message was cut off
\* (skip_name, skip_echo and the loops, header.cc:67-97, 175-280).
THEOREM Typing == Spec => []TypeOK
<1>1. IInv => TypeOK
  BY DEF IInv
<1>. QED  BY <1>1, Invariance, PTL

\* What get_addrs and getsrv find of a message is what arrived of the records
\* of the type, in order, and what get_hosts finds of the first record is its
\* name, through the marks that stand for what was in the question
\* (header.cc:194-280, rascal_getsrv.cc:97-179).
THEOREM AnswersAreRead == Spec => []AnswerRead
<1>1. IInv => AnswerRead
  BY DEF IInv
<1>. QED  BY <1>1, Invariance, PTL
=============================================================================

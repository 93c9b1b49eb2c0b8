-------------------------- MODULE OverlappedProofs --------------------------
(***************************************************************************)
(* The safety of Overlapped, for any number of workers, bytes, reads and   *)
(* cancellations.  IInv (see Overlapped) is shown to hold at first and to  *)
(* be kept by every action; the invariants of the run follow from it.      *)
(***************************************************************************)
EXTENDS Overlapped, FiniteSetTheorems, SequenceTheorems, TLAPS

-----------------------------------------------------------------------------
\* What an operation is.
LEMMA Kinds ==
    ASSUME NEW op \in Operations
    PROVE  /\ op # None /\ op.kind \in {"connect", "read", "write"}
           /\ op.kind # "write" => op.data = <<>>
           /\ op.kind = "write" => op.data \in Seq(Nat)
  BY OverlappedAssumption DEF Operations, Op

LEMMA Reader ==
    /\ Op("read", <<>>) \in Operations /\ Op("read", <<>>) # None
    /\ Op("read", <<>>).kind = "read" /\ Op("read", <<>>).data = <<>>
  BY OverlappedAssumption DEF Operations, Op

LEMMA Writer ==
    ASSUME NEW list \in Seq(Nat)
    PROVE  /\ Op("write", list) \in Operations /\ Op("write", list) # None
           /\ Op("write", list).kind = "write" /\ Op("write", list).data = list
<1>1. Op("write", list) \in Operations
  BY DEF Operations, Op
<1>2. Op("write", list).kind = "write" /\ Op("write", list).data = list
  BY DEF Op
<1>. QED  BY <1>1, <1>2, OverlappedAssumption

\* An operation more, an operation less.
LEMMA Added ==
    ASSUME NEW S, NEW x, IsFiniteSet(S), x \notin S
    PROVE  /\ IsFiniteSet(S \cup {x}) /\ Cardinality(S) \in Nat
           /\ Cardinality(S \cup {x}) = Cardinality(S) + 1
  BY FS_AddElement, FS_CardinalityType

LEMMA Removed ==
    ASSUME NEW S, NEW x, IsFiniteSet(S), x \in S
    PROVE  /\ IsFiniteSet(S \ {x}) /\ Cardinality(S) \in Nat /\ Cardinality(S \ {x}) \in Nat
           /\ Cardinality(S \ {x}) = Cardinality(S) - 1
  BY FS_RemoveElement, FS_CardinalityType

\* The caller counts unless it is idle.
LEMMA CallingCounts ==
    ASSUME NEW p
    PROVE  Cardinality({Caller} \ {t \in Threads : p[t] = "idle"})
           = IF p[Caller] = "idle" THEN 0 ELSE 1
<1>1. CASE p[Caller] = "idle"
  <2>1. {Caller} \ {t \in Threads : p[t] = "idle"} = {}
    BY <1>1 DEF Threads
  <2>. QED  BY <1>1, <2>1, FS_EmptySet
<1>2. CASE p[Caller] # "idle"
  <2>1. {Caller} \ {t \in Threads : p[t] = "idle"} = {Caller}
    BY <1>2
  <2>. QED  BY <1>2, <2>1, FS_Singleton
<1>. QED  BY <1>1, <1>2

\* References are counted as before if they are.
LEMMA SameCount ==
    ASSUME Counted, UNCHANGED <<flight, port, ev, nu, refc>>,
           (pc'[Caller] = "idle") <=> (pc[Caller] = "idle")
    PROVE  Counted'
<1>1. Handled' = Handled /\ Refused' = Refused
  BY DEF Handled, Refused
<1>2. Cardinality(Calling') = Cardinality(Calling)
  BY CallingCounts DEF Calling
<1>. QED  BY <1>1, <1>2 DEF Counted, References

\* What the parts of the sum are.
LEMMA Natural ==
    ASSUME Counted
    PROVE  /\ Cardinality(flight) \in Nat /\ Cardinality(port) \in Nat
           /\ Cardinality(Handled) \in Nat /\ Cardinality(Refused) \in Nat
           /\ Cardinality(Calling) \in 0..1
           /\ Cardinality(Calling) = IF pc[Caller] = "idle" THEN 0 ELSE 1
  BY FS_CardinalityType, CallingCounts DEF Counted, Calling

LEMMA NaturalNext ==
    ASSUME Counted'
    PROVE  /\ Cardinality(flight') \in Nat /\ Cardinality(port') \in Nat
           /\ Cardinality(Handled') \in Nat /\ Cardinality(Refused') \in Nat
           /\ Cardinality(Calling') \in 0..1 /\ refc' \in Nat
           /\ Cardinality(Calling') = IF pc'[Caller] = "idle" THEN 0 ELSE 1
  BY FS_CardinalityType, CallingCounts DEF Counted, Calling, References

\* The last reference is given back: nobody is left, but those whom nothing
\* holds.
LEMMA LastIsGone ==
    ASSUME Counted', refc' = 0
    PROVE  /\ flight' = {} /\ port' = {} /\ pc'[Caller] = "idle"
           /\ \A t \in Threads : ev'[t] = None /\ nu'[t] = None
<1>1. /\ Cardinality(flight') = 0 /\ Cardinality(port') = 0 /\ Cardinality(Handled') = 0
      /\ Cardinality(Refused') = 0 /\ pc'[Caller] = "idle"
  BY NaturalNext DEF Counted, References
<1>2. flight' = {} /\ port' = {} /\ Handled' = {} /\ Refused' = {}
  BY <1>1, FS_EmptySet DEF Counted
<1>. QED  BY <1>1, <1>2 DEF Handled, Refused

-----------------------------------------------------------------------------
\* What First and Rest make of bytes that follow others.
LEMMA Taking ==
    ASSUME NEW n \in Nat, NEW list \in Seq(Nat)
    PROVE  /\ First(n, list) \in Seq(Nat) /\ Rest(n, list) \in Seq(Nat)
           /\ Len(First(n, list)) + Len(Rest(n, list)) = Len(list)
           /\ \A m \in Nat : Follow(m, list) =>
                /\ Follow(m, First(n, list))
                /\ Follow(m + Len(First(n, list)), Rest(n, list))
<1>. DEFINE k == IF n < Len(list) THEN n ELSE Len(list)
<1>1. k \in 0..Len(list) /\ Len(list) \in Nat /\ (n < Len(list) => k = n)
  OBVIOUS
<1>2. \A i \in 1..Len(list) : list[i] \in Nat
  OBVIOUS
<1>3. First(n, list) = SubSeq(list, 1, k) /\ Rest(n, list) = SubSeq(list, n + 1, Len(list))
  BY DEF First, Rest
<1>. HIDE DEF k
<1>4. /\ SubSeq(list, 1, k) \in Seq(Nat) /\ Len(SubSeq(list, 1, k)) = k
      /\ \A i \in 1..k : SubSeq(list, 1, k)[i] = list[i]
  <2>1. \A i \in 1..k : list[i] \in Nat
    BY <1>1, <1>2
  <2>2. /\ SubSeq(list, 1, k) \in Seq(Nat)
        /\ Len(SubSeq(list, 1, k)) = IF 1 <= k THEN k - 1 + 1 ELSE 0
        /\ \A i \in 1..k - 1 + 1 : SubSeq(list, 1, k)[i] = list[1 + i - 1]
    BY <2>1, <1>1, SubSeqProperties
  <2>. QED  BY <2>2, <1>1
<1>5. /\ SubSeq(list, n + 1, Len(list)) \in Seq(Nat)
      /\ Len(SubSeq(list, n + 1, Len(list))) = Len(list) - k
      /\ \A i \in 1..Len(list) - k : SubSeq(list, n + 1, Len(list))[i] = list[n + i]
  <2>1. \A i \in n + 1..Len(list) : list[i] \in Nat
    BY <1>1, <1>2
  <2>2. /\ SubSeq(list, n + 1, Len(list)) \in Seq(Nat)
        /\ Len(SubSeq(list, n + 1, Len(list)))
           = IF n + 1 <= Len(list) THEN Len(list) - (n + 1) + 1 ELSE 0
        /\ \A i \in 1..Len(list) - (n + 1) + 1 :
             SubSeq(list, n + 1, Len(list))[i] = list[n + 1 + i - 1]
    BY <2>1, <1>1, SubSeqProperties
  <2>3. CASE n < Len(list)
    <3>1. k = n /\ n + 1 <= Len(list)
      BY <2>3, <1>1
    <3>. HIDE DEF k
    <3>2. \A i \in 1..Len(list) - k : i \in 1..Len(list) - (n + 1) + 1 /\ n + 1 + i - 1 = n + i
      BY <3>1, <1>1
    <3>. QED  BY <2>2, <3>1, <3>2, <1>1
  <2>4. CASE ~(n < Len(list))
    <3>1. k = Len(list) /\ ~(n + 1 <= Len(list))
      BY <2>4, <1>1 DEF k
    <3>. QED  BY <2>2, <3>1, <1>1
  <2>. QED  BY <2>3, <2>4
<1>6. ASSUME NEW m \in Nat, Follow(m, list)
      PROVE  Follow(m, SubSeq(list, 1, k)) /\ Follow(m + k, SubSeq(list, n + 1, Len(list)))
  <2>1. \A i \in 1..Len(list) : list[i] = m + i
    BY <1>6 DEF Follow
  <2>2. \A i \in 1..k : SubSeq(list, 1, k)[i] = m + i
    BY <2>1, <1>1, <1>4
  <2>3. \A i \in 1..Len(list) - k : SubSeq(list, n + 1, Len(list))[i] = m + k + i
    <3>1. CASE n < Len(list)
      BY <3>1, <2>1, <1>1, <1>5
    <3>2. CASE ~(n < Len(list))
      BY <3>2, <1>1 DEF k
    <3>. QED  BY <3>1, <3>2
  <2>4. /\ DOMAIN SubSeq(list, 1, k) = 1..k
        /\ DOMAIN SubSeq(list, n + 1, Len(list)) = 1..Len(list) - k
    BY <1>4, <1>5, LenProperties
  <2>. QED  BY <2>2, <2>3, <2>4 DEF Follow
<1>. DEFINE front == First(n, list)
            back == Rest(n, list)
<1>7. /\ front \in Seq(Nat) /\ back \in Seq(Nat)
      /\ Len(front) = k /\ Len(back) = Len(list) - k
      /\ \A m \in Nat : Follow(m, list) => Follow(m, front) /\ Follow(m + k, back)
  BY <1>3, <1>4, <1>5, <1>6
<1>. HIDE DEF front, back
<1>8. Len(front) + Len(back) = Len(list)
  BY <1>1, <1>7
<1>. QED  BY <1>7, <1>8 DEF front, back

\* A byte that follows the last.
LEMMA Appending ==
    ASSUME NEW list \in Seq(Nat), NEW m \in Nat, NEW b \in Nat
    PROVE  /\ Append(list, b) \in Seq(Nat) /\ Len(Append(list, b)) = Len(list) + 1
           /\ Follow(m, list) /\ b = m + Len(list) + 1 => Follow(m, Append(list, b))
  BY AppendProperties DEF Follow

\* Bytes that follow others, one list after the other.
LEMMA Joining ==
    ASSUME NEW x \in Seq(Nat), NEW y \in Seq(Nat)
    PROVE  /\ x \o y \in Seq(Nat) /\ Len(x \o y) = Len(x) + Len(y)
           /\ Follow(0, x) /\ Follow(Len(x), y) => Follow(0, x \o y)
  BY ConcatProperties DEF Follow

-----------------------------------------------------------------------------
\* A connection is deleted by whoever takes the last reference, or under a
\* thread that has none.
LEMMA GoneAtLast ==
    ASSUME IInv, Decref, Counted', TypeOK', NEW t \in Threads,
           \A u \in Threads \ {t} : pc'[u] = pc[u] /\ ev'[u] = ev[u],
           t = Caller \/ pc'[t] = "idle" \/ ev'[t] # None \/ Unheld(t)
    PROVE  Gone'
<1>. SUFFICES ASSUME life' = "gone", "early" \notin happened', NEW u \in Threads
              PROVE  refc' = 0 /\ cancelled' /\ pc'[u] = "idle"
  BY NaturalNext DEF IInv, Gone, Decref, TypeOK
<1>1. refc # 0
  BY NaturalNext DEF Decref, IInv, TypeOK
<1>2. refc = 1 /\ cancelled /\ cancelled' = cancelled /\ refc' = 0
  BY <1>1 DEF Decref, IInv, Gone
<1>3. pc'[Caller] = "idle" /\ \A w \in Threads : ev'[w] = None
  BY <1>2, LastIsGone
<1>4. \A w \in Threads : ~Unheld(w)
  BY <1>2 DEF Decref
<1>5. CASE u = t
  BY <1>2, <1>3, <1>4, <1>5
<1>6. CASE u # t
  <2>1. pc'[u] = pc[u] /\ ev[u] = None
    BY <1>3, <1>6
  <2>. QED  BY <2>1, <1>2, <1>3, <1>4 DEF Unheld, Threads
<1>. QED  BY <1>2, <1>5, <1>6

\* Nothing is left to be done to a connection that was deleted.
LEMMA NothingLeft ==
    ASSUME IInv, life = "gone", "early" \notin happened
    PROVE  flight = {} /\ port = {} /\ \A t \in Threads : pc[t] = "idle"
<1>1. refc = 0 /\ \A t \in Threads : pc[t] = "idle"
  BY DEF IInv, Gone
<1>2. Cardinality(flight) = 0 /\ Cardinality(port) = 0
  BY <1>1, Natural DEF IInv, Counted, References
<1>. QED  BY <1>1, <1>2, FS_EmptySet DEF IInv, Counted

\* A turn ends, is begun, or goes on.
LEMMA FewerTurns ==
    ASSUME NEW kinds, NEW places, OneTurn(kinds, places),
           flight' \subseteq flight, port' \subseteq port,
           \A t \in Threads : pc'[t] \in places => pc[t] \in places
    PROVE  OneTurn(kinds, places)'
  BY DEF OneTurn

LEMMA TurnBegins ==
    ASSUME NEW kinds, NEW places, OneTurn(kinds, places), NEW op, NEW t \in Threads,
           pc[t] \in places, port' = port, flight' = flight \cup {op},
           \A u \in Threads : pc'[u] \in places => pc[u] \in places /\ u # t
    PROVE  OneTurn(kinds, places)'
  BY DEF OneTurn

LEMMA TurnGoesOn ==
    ASSUME NEW kinds, NEW places, OneTurn(kinds, places), NEW e \in port, NEW t \in Threads,
           e.op.kind \in kinds, port' = port \ {e}, flight' = flight,
           \A u \in Threads : pc'[u] \in places => pc[u] \in places \/ u = t
    PROVE  OneTurn(kinds, places)'
  BY DEF OneTurn

\* Another operation begins.
LEMMA OtherBegins ==
    ASSUME NEW kinds, NEW places, OneTurn(kinds, places), NEW op, op.kind \notin kinds,
           port' = port, flight' = flight \cup {op},
           \A u \in Threads : pc'[u] \in places => pc[u] \in places
    PROVE  OneTurn(kinds, places)'
  BY DEF OneTurn

\* Bytes stay in order where they do not move.
LEMMA SameOrder ==
    ASSUME InOrder, UNCHANGED <<sent, wrb, written, is_writing>>, cancelled => cancelled',
           \A u \in Threads : Filled(u)' <=> Filled(u),
           \A u \in Threads : Filled(u) => nu'[u] = nu[u],
           Writing' => Writing
    PROVE  InOrder'
<1>1. Writing' => is_writing'
  BY DEF InOrder
<1>2. Follow(0, sent')
  BY DEF InOrder
<1>3. ASSUME NEW t \in Threads, Filled(t)'
      PROVE  /\ is_writing' /\ ~Writing' /\ \A u \in Threads : Filled(u)' => u = t
             /\ Follow(Len(sent'), nu'[t].data)
             /\ Follow(Len(sent') + Len(nu'[t].data), wrb')
             /\ Len(sent') + Len(nu'[t].data) + Len(wrb') = written'
  BY <1>3 DEF InOrder
<1>4. ASSUME \A t \in Threads : ~(Filled(t)')
      PROVE  \/ Follow(Len(sent'), wrb') /\ Len(sent') + Len(wrb') = written'
             \/ cancelled' /\ is_writing' /\ ~Writing'
  BY <1>4 DEF InOrder
<1>. QED  BY <1>1, <1>2, <1>3, <1>4 DEF InOrder

-----------------------------------------------------------------------------

\* The invariant is kept when the system completes an operation.
LEMMA KeepsComplete ==
    ASSUME NEW op \in flight, NEW failed \in BOOLEAN, IInv, Complete(op, failed)
    PROVE  IInv'
<1>1. Counted'
  <2>1. /\ op \in Operations /\ op \in flight
        /\ flight' = flight \ {op} /\ port' = port \cup {[op |-> op, failed |-> failed]}
        /\ UNCHANGED <<refc, ev, nu, pc>>
    BY OverlappedAssumption DEF IInv, TypeOK, Data, Places, Threads,
         Complete, fields, local
  <2>2. [op |-> op, failed |-> failed] \notin port
    <3>. SUFFICES ASSUME NEW e \in port, e.op = op PROVE FALSE
      BY DEF Data, IInv
    <3>1. op.kind \in {"connect", "read", "write"}
      BY <2>1, Kinds
    <3>. QED  BY <2>1, <3>1 DEF IInv, OneReads, OneWrites, OneTurn
  <2>3. /\ Handled' = Handled
        /\ Refused' = Refused
    BY <2>1, <2>2, OverlappedAssumption DEF IInv, Data, Places, Handled,
         Refused, Threads
  <2>4. IsFiniteSet(flight') /\ Cardinality(flight') = Cardinality(flight) - 1
    BY <2>1, <2>2, <2>3, Removed DEF IInv, Counted
  <2>5. IsFiniteSet(port') /\ Cardinality(port') = Cardinality(port) + 1
    BY <2>1, <2>2, <2>3, Added DEF IInv, Counted
  <2>6. Cardinality(Calling') = Cardinality(Calling)
    BY <2>1, CallingCounts DEF Calling
  <2>. QED  BY <2>1, <2>3, <2>4, <2>5, <2>6, Natural DEF IInv, Counted,
         References
<1>2. TypeOK'
  BY OverlappedAssumption DEF Threads, IInv, TypeOK, Complete, fields,
       buffer, ops, local, past
<1>3. Data'
  BY OverlappedAssumption DEF Threads, IInv, Data, Complete, fields,
       buffer, ops, local, past
<1>4. Places'
  BY OverlappedAssumption DEF Threads, IInv, Places, TypeOK, Data,
       Complete, fields, buffer, ops, local, past
<1>5. OneReads'
  BY OverlappedAssumption DEF Threads, IInv, OneReads, OneTurn, Places,
       TypeOK, Data, Complete, fields, buffer, ops, local, past
<1>6. OneWrites'
  BY OverlappedAssumption DEF Threads, IInv, OneWrites, OneTurn, Places,
       InOrder, Writing, Filled, TypeOK, Data, Complete, fields, buffer,
       ops, local, past
<1>7. InOrder'
  BY OverlappedAssumption DEF Threads, IInv, InOrder, Writing, Filled,
       OneWrites, OneTurn, Places, Marked, TypeOK, Data, Complete, fields,
       buffer, ops, local, past
<1>8. Marked'
  BY OverlappedAssumption DEF Threads, IInv, Marked, TypeOK, Data,
       Complete, fields, buffer, ops, local, past
<1>9. StaysRead'
  <2>1. pc' = pc /\ [op |-> op, failed |-> failed] \in port' /\ cancelled' = cancelled
    BY DEF Complete, local, fields
  <2>2. op \in {e.op : e \in port'}
    BY <2>1
  <2>3. CASE op.kind # "write"
    BY <2>2, <2>3 DEF StaysRead
  <2>4. CASE op.kind = "write"
    <3>1. s' = s
      BY <2>4 DEF Complete
    <3>2. \A d \in flight \cup {e.op : e \in port} : d \in flight' \cup {e.op : e \in port'}
      BY <2>2 DEF Complete
    <3>3. StaysRead
      BY DEF IInv
    <3>. QED  BY <2>1, <3>1, <3>2, <3>3 DEF StaysRead
  <2>. QED  BY <2>3, <2>4
<1>10. Gone'
  BY OverlappedAssumption DEF Threads, IInv, Gone, TypeOK, Data, Complete,
       fields, buffer, ops, local, past
<1>. QED  BY <1>1, <1>2, <1>3, <1>4, <1>5, <1>6, <1>7, <1>8, <1>9, <1>10 DEF IInv

\* The invariant is kept when an attempt is dropped.
LEMMA KeepsConnectDropped == ASSUME IInv, ConnectDropped PROVE IInv'
<1>1. Counted'
  <2>1. /\ Op("connect", <<>>) \in flight
        /\ flight' = flight \ {Op("connect", <<>>)}
        /\ UNCHANGED <<port, ev, nu, pc>> /\ refc' = refc - 1
    BY OverlappedAssumption DEF IInv, TypeOK, Data, Places, Threads,
         ConnectDropped, Decref, local
  <2>2. /\ Handled' = Handled
        /\ Refused' = Refused
    BY <2>1, OverlappedAssumption DEF IInv, Data, Places, Handled,
         Refused, Threads
  <2>3. IsFiniteSet(flight') /\ Cardinality(flight') = Cardinality(flight) - 1
    BY <2>1, <2>2, Removed DEF IInv, Counted
  <2>4. Cardinality(Calling') = Cardinality(Calling)
    BY <2>1, CallingCounts DEF Calling
  <2>. QED  BY <2>1, <2>2, <2>3, <2>4, Natural DEF IInv, Counted, References
<1>2. TypeOK'
  BY OverlappedAssumption, <1>1, NaturalNext DEF Threads, IInv, TypeOK,
       ConnectDropped, Decref, Unheld, Places, fields, buffer, ops, local,
       past
<1>3. Data'
  BY OverlappedAssumption DEF Threads, IInv, Data, ConnectDropped, Decref,
       Unheld, fields, buffer, ops, local, past
<1>4. Places'
  BY OverlappedAssumption DEF Threads, IInv, Places, TypeOK, Data,
       ConnectDropped, Decref, Unheld, fields, buffer, ops, local, past
<1>5. OneReads'
  BY OverlappedAssumption DEF Threads, IInv, OneReads, OneTurn, Places,
       TypeOK, Data, ConnectDropped, Decref, Unheld, fields, buffer, ops,
       local, past
<1>6. OneWrites'
  BY OverlappedAssumption DEF Threads, IInv, OneWrites, OneTurn, Places,
       InOrder, Writing, Filled, TypeOK, Data, ConnectDropped, Decref,
       Unheld, fields, buffer, ops, local, past
<1>7. InOrder'
  BY OverlappedAssumption DEF Threads, IInv, InOrder, Writing, Filled,
       OneWrites, OneTurn, Places, Marked, TypeOK, Data, ConnectDropped,
       Decref, Unheld, fields, buffer, ops, local, past
<1>8. Marked'
  BY OverlappedAssumption DEF Threads, IInv, Marked, TypeOK, Data,
       ConnectDropped, Decref, Unheld, fields, buffer, ops, local, past
<1>9. StaysRead'
  BY OverlappedAssumption DEF Threads, IInv, StaysRead, Marked, TypeOK,
       Data, Places, ConnectDropped, Decref, Unheld, fields, buffer, ops,
       local, past
<1>10. Gone'
  <2>1. Decref /\ Caller \in Threads /\ \A u \in Threads \ {Caller} : pc'[u] = pc[u] /\ ev'[u] = ev[u]
    BY OverlappedAssumption DEF IInv, TypeOK, Data, Places, Threads,
         ConnectDropped, local
  <2>2. Caller = Caller \/ pc'[Caller] = "idle" \/ ev'[Caller] # None \/ Unheld(Caller)
    BY OverlappedAssumption DEF IInv, TypeOK, Data, Places, Threads,
         Unheld, ConnectDropped, local
  <2>. QED  BY <2>1, <2>2, <1>1, <1>2, GoneAtLast
<1>. QED  BY <1>1, <1>2, <1>3, <1>4, <1>5, <1>6, <1>7, <1>8, <1>9, <1>10 DEF IInv

\* The invariant is kept when a worker takes a completion.
LEMMA KeepsDequeue ==
    ASSUME NEW t \in Workers, NEW e \in port, IInv, Dequeue(t, e)
    PROVE  IInv'
<1>. DEFINE next == IF e.failed THEN "cancel" ELSE e.op.kind
<1>a. /\ t \in Threads /\ t # Caller /\ pc[t] = "idle" /\ ev[t] = None /\ nu[t] = None
      /\ e.op \in Operations /\ e.op # None /\ next \in {"connect", "read", "write", "cancel"}
      /\ next = "cancel" \/ next = e.op.kind
      /\ pc' = [pc EXCEPT ![t] = next] /\ ev' = [ev EXCEPT ![t] = e.op]
      /\ pc'[t] = next /\ ev'[t] = e.op /\ \A u \in Threads \ {t} : pc'[u] = pc[u] /\ ev'[u] = ev[u]
      /\ port' = port \ {e} /\ UNCHANGED <<origin, fields, s, buffer, mx, flight, nu, past, happened>>
  BY OverlappedAssumption, Kinds DEF IInv, TypeOK, Data, Places, Threads, Dequeue, Goto
<1>. HIDE DEF next
<1>1. Counted'
  <2>1. /\ t \in Threads /\ e \in port /\ e.op \in Operations /\ ev[t] = None /\ t # Caller
        /\ port' = port \ {e} /\ ev' = [ev EXCEPT ![t] = e.op]
        /\ UNCHANGED <<flight, nu, refc>>
        /\ pc'[Caller] = pc[Caller]
    BY OverlappedAssumption DEF IInv, TypeOK, Data, Places, Threads,
         Dequeue, Goto, fields
  <2>2. e.op # None
    BY <2>1, Kinds
  <2>3. /\ Handled' = Handled \cup {t} /\ t \notin Handled
        /\ Refused' = Refused
    BY <2>1, <2>2, OverlappedAssumption DEF IInv, Data, Places, Handled,
         Refused, Threads
  <2>4. IsFiniteSet(port') /\ Cardinality(port') = Cardinality(port) - 1
    BY <2>1, <2>2, <2>3, Removed DEF IInv, Counted
  <2>5. IsFiniteSet(Handled') /\ Cardinality(Handled') = Cardinality(Handled) + 1
    BY <2>1, <2>2, <2>3, Added DEF IInv, Counted
  <2>6. Cardinality(Calling') = Cardinality(Calling)
    BY <2>1, CallingCounts DEF Calling
  <2>. QED  BY <2>1, <2>3, <2>4, <2>5, <2>6, Natural DEF IInv, Counted,
         References
<1>2. TypeOK'
  BY <1>a DEF IInv, TypeOK, fields, buffer
<1>3. Data'
  BY OverlappedAssumption DEF Threads, IInv, Data, Dequeue, Goto, fields,
       buffer, ops, local, past
<1>4. Places'
  BY <1>a, OverlappedAssumption DEF IInv, Places, TypeOK, Data, Threads
<1>5. OneReads'
  <2>. DEFINE places == {"connect", "accepted", "read", "reader"}
  <2>1. CASE e.op.kind \in {"connect", "read"}
    <3>1. \A u \in Threads : pc'[u] \in places => pc[u] \in places \/ u = t
      BY <1>a
    <3>. QED  BY <1>a, <2>1, <3>1, TurnGoesOn DEF IInv, OneReads
  <2>2. CASE e.op.kind \notin {"connect", "read"}
    <3>1. \A u \in Threads : pc'[u] \in places => pc[u] \in places
      BY <1>a, <2>2
    <3>. QED  BY <1>a, <3>1, FewerTurns DEF IInv, OneReads
  <2>. QED  BY <2>1, <2>2
<1>6. OneWrites'
  BY OverlappedAssumption DEF Threads, IInv, OneWrites, OneTurn, Places,
       InOrder, Writing, Filled, TypeOK, Data, Dequeue, Goto, fields,
       buffer, ops, local, past
<1>7. InOrder'
  BY OverlappedAssumption DEF Threads, IInv, InOrder, Writing, Filled,
       OneWrites, OneTurn, Places, Marked, TypeOK, Data, Dequeue, Goto,
       fields, buffer, ops, local, past
<1>8. Marked'
  <2>1. \A u \in Threads : pc'[u] \in {"close", "drop"} => pc[u] \in {"close", "drop"}
    BY <1>a
  <2>2. \A u \in Threads : pc[u] = "mark" => pc'[u] = "mark"
    BY <1>a
  <2>. QED  BY <1>a, <2>1, <2>2 DEF IInv, Marked, fields, past
<1>9. StaysRead'
  <2>. SUFFICES ASSUME ~cancelled, s # "lost" PROVE StaysRead'
    BY <1>a DEF StaysRead, fields
  <2>. DEFINE places == {"connect", "accepted", "read", "reader", "cancel", "mark"}
  <2>1. CASE \E op \in flight \cup {d.op : d \in port \ {e}} : op.kind # "write"
    BY <2>1, <1>a DEF StaysRead
  <2>2. CASE \E u \in Threads : pc[u] \in places
    <3>1. PICK u \in Threads : pc[u] \in places
      BY <2>2
    <3>2. pc'[u] \in places
      BY <3>1, <1>a
    <3>. QED  BY <3>2 DEF StaysRead
  <2>3. CASE e.op.kind # "write"
    <3>1. pc'[t] \in places
      BY <2>3, <1>a, Kinds
    <3>. QED  BY <3>1, <1>a DEF StaysRead
  <2>. QED  BY <2>1, <2>2, <2>3 DEF IInv, StaysRead
<1>10. Gone'
  BY NothingLeft DEF Dequeue, IInv, Gone, fields
<1>. QED  BY <1>1, <1>2, <1>3, <1>4, <1>5, <1>6, <1>7, <1>8, <1>9, <1>10 DEF IInv

\* The invariant is kept when an operation is deleted.
LEMMA KeepsDelete == ASSUME NEW t \in Threads, IInv, Delete(t) PROVE IInv'
<1>1. Counted'
  <2>1. /\ t \in Threads /\ t # Caller /\ ev[t] # None
        /\ ev' = [ev EXCEPT ![t] = None] /\ refc' = refc - 1
        /\ UNCHANGED <<flight, port, nu>>
        /\ pc'[Caller] = pc[Caller]
    BY OverlappedAssumption DEF IInv, TypeOK, Data, Places, Threads,
         Delete, Goto, Decref, ops
  <2>2. /\ Handled' = Handled \ {t} /\ t \in Handled
        /\ Refused' = Refused
    BY <2>1, OverlappedAssumption DEF IInv, Data, Places, Handled,
         Refused, Threads
  <2>3. IsFiniteSet(Handled') /\ Cardinality(Handled') = Cardinality(Handled) - 1
    BY <2>1, <2>2, Removed DEF IInv, Counted
  <2>4. Cardinality(Calling') = Cardinality(Calling)
    BY <2>1, CallingCounts DEF Calling
  <2>. QED  BY <2>1, <2>2, <2>3, <2>4, Natural DEF IInv, Counted, References
<1>2. TypeOK'
  BY OverlappedAssumption, <1>1, NaturalNext DEF Threads, IInv, TypeOK,
       Delete, Goto, Decref, Unheld, Places, fields, buffer, ops, local,
       past
<1>3. Data'
  BY OverlappedAssumption DEF Threads, IInv, Data, Delete, Goto, Decref,
       Unheld, fields, buffer, ops, local, past
<1>4. Places'
  BY OverlappedAssumption DEF Threads, IInv, Places, TypeOK, Data, Delete,
       Goto, Decref, Unheld, fields, buffer, ops, local, past
<1>5. OneReads'
  BY OverlappedAssumption DEF Threads, IInv, OneReads, OneTurn, Places,
       TypeOK, Data, Delete, Goto, Decref, Unheld, fields, buffer, ops,
       local, past
<1>6. OneWrites'
  BY OverlappedAssumption DEF Threads, IInv, OneWrites, OneTurn, Places,
       InOrder, Writing, Filled, TypeOK, Data, Delete, Goto, Decref,
       Unheld, fields, buffer, ops, local, past
<1>7. InOrder'
  BY OverlappedAssumption DEF Threads, IInv, InOrder, Writing, Filled,
       OneWrites, OneTurn, Places, Marked, TypeOK, Data, Delete, Goto,
       Decref, Unheld, fields, buffer, ops, local, past
<1>8. Marked'
  BY OverlappedAssumption DEF Threads, IInv, Marked, TypeOK, Data, Delete,
       Goto, Decref, Unheld, fields, buffer, ops, local, past
<1>9. StaysRead'
  BY OverlappedAssumption DEF Threads, IInv, StaysRead, Marked, TypeOK,
       Data, Places, Delete, Goto, Decref, Unheld, fields, buffer, ops,
       local, past
<1>10. Gone'
  <2>1. Decref /\ t \in Threads /\ \A u \in Threads \ {t} : pc'[u] = pc[u] /\ ev'[u] = ev[u]
    BY OverlappedAssumption DEF IInv, TypeOK, Data, Places, Threads,
         Delete, Goto
  <2>2. t = Caller \/ pc'[t] = "idle" \/ ev'[t] # None \/ Unheld(t)
    BY OverlappedAssumption DEF IInv, TypeOK, Data, Places, Threads,
         Unheld, Delete, Goto
  <2>. QED  BY <2>1, <2>2, <1>1, <1>2, GoneAtLast
<1>. QED  BY <1>1, <1>2, <1>3, <1>4, <1>5, <1>6, <1>7, <1>8, <1>9, <1>10 DEF IInv

\* The invariant is kept when the connection is introduced.
LEMMA KeepsIntroduce ==
    ASSUME NEW t \in Threads, IInv, Introduce(t)
    PROVE  IInv'
<1>1. Counted'
  <2>1. UNCHANGED <<flight, port, ev, nu, refc>> /\ ((pc'[Caller] = "idle") <=> (pc[Caller] = "idle"))
    BY OverlappedAssumption DEF IInv, TypeOK, Places, Threads,
         Introduce, Goto, fields, ops
  <2>. QED  BY <2>1, SameCount DEF IInv
<1>2. TypeOK'
  BY OverlappedAssumption DEF Threads, IInv, TypeOK, Introduce, Goto,
       fields, buffer, ops, local, past
<1>3. Data'
  BY OverlappedAssumption DEF Threads, IInv, Data, Introduce, Goto,
       fields, buffer, ops, local, past
<1>4. Places'
  BY ZenonT(30), OverlappedAssumption DEF Threads, IInv, Places, TypeOK, Data,
       Introduce, Goto, fields, buffer, ops, local, past
<1>5. OneReads'
  <2>1. flight' = flight /\ port' = port
    BY DEF Introduce, ops
  <2>2. \A u \in Threads : pc'[u] \in {"connect", "accepted", "read", "reader"}
                          => pc[u] \in {"connect", "accepted", "read", "reader"}
    BY DEF Introduce, Goto, IInv, TypeOK
  <2>. QED  BY <2>1, <2>2, FewerTurns DEF IInv, OneReads
<1>6. OneWrites'
  BY OverlappedAssumption DEF Threads, IInv, OneWrites, OneTurn, Places,
       InOrder, Writing, Filled, TypeOK, Data, Introduce, Goto, fields,
       buffer, ops, local, past
<1>7. InOrder'
  BY OverlappedAssumption DEF Threads, IInv, InOrder, Writing, Filled,
       OneWrites, OneTurn, Places, Marked, TypeOK, Data, Introduce, Goto,
       fields, buffer, ops, local, past
<1>8. Marked'
  BY OverlappedAssumption DEF Threads, IInv, Marked, TypeOK, Data,
       Introduce, Goto, fields, buffer, ops, local, past
<1>9. StaysRead'
  BY OverlappedAssumption DEF Threads, IInv, StaysRead, Marked, TypeOK,
       Data, Places, Introduce, Goto, fields, buffer, ops, local, past
<1>10. Gone'
  BY OverlappedAssumption DEF Threads, IInv, Gone, TypeOK, Data,
       Introduce, Goto, fields, buffer, ops, local, past
<1>. QED  BY <1>1, <1>2, <1>3, <1>4, <1>5, <1>6, <1>7, <1>8, <1>9, <1>10 DEF IInv

\* The invariant is kept when data arrives.
LEMMA KeepsArrive == ASSUME NEW t \in Threads, IInv, Arrive(t) PROVE IInv'
<1>1. Counted'
  BY OverlappedAssumption DEF Threads, IInv, Counted, References, Handled,
       Refused, Calling, Places, TypeOK, Data, Arrive, Goto, fields,
       buffer, ops, local, past
<1>2. TypeOK'
  BY OverlappedAssumption DEF Threads, IInv, TypeOK, Arrive, Goto, fields,
       buffer, ops, local, past
<1>3. Data'
  BY OverlappedAssumption DEF Threads, IInv, Data, Arrive, Goto, fields,
       buffer, ops, local, past
<1>4. Places'
  BY OverlappedAssumption DEF Threads, IInv, Places, TypeOK, Data, Arrive,
       Goto, fields, buffer, ops, local, past
<1>5. OneReads'
  BY OverlappedAssumption DEF Threads, IInv, OneReads, OneTurn, Places,
       TypeOK, Data, Arrive, Goto, fields, buffer, ops, local, past
<1>6. OneWrites'
  BY OverlappedAssumption DEF Threads, IInv, OneWrites, OneTurn, Places,
       InOrder, Writing, Filled, TypeOK, Data, Arrive, Goto, fields,
       buffer, ops, local, past
<1>7. InOrder'
  BY OverlappedAssumption DEF Threads, IInv, InOrder, Writing, Filled,
       OneWrites, OneTurn, Places, Marked, TypeOK, Data, Arrive, Goto,
       fields, buffer, ops, local, past
<1>8. Marked'
  BY OverlappedAssumption DEF Threads, IInv, Marked, TypeOK, Data, Arrive,
       Goto, fields, buffer, ops, local, past
<1>9. StaysRead'
  BY OverlappedAssumption DEF Threads, IInv, StaysRead, Marked, TypeOK,
       Data, Places, Arrive, Goto, fields, buffer, ops, local, past
<1>10. Gone'
  BY OverlappedAssumption DEF Threads, IInv, Gone, TypeOK, Data, Arrive,
       Goto, fields, buffer, ops, local, past
<1>. QED  BY <1>1, <1>2, <1>3, <1>4, <1>5, <1>6, <1>7, <1>8, <1>9, <1>10 DEF IInv

\* The invariant is kept when a reader is spawned.
LEMMA KeepsSpawnReader ==
    ASSUME NEW t \in Threads, IInv, SpawnReader(t), "early" \notin happened
    PROVE  IInv'
<1>. DEFINE op == Op("read", <<>>)
<1>r. op \in Operations /\ op # None /\ op.kind = "read" /\ op.data = <<>>
  BY Reader
<1>n. nu[t] = None /\ pc[t] = "reader" /\ t # Caller
  BY OverlappedAssumption DEF IInv, Places, SpawnReader, Threads
<1>u. /\ \A u \in Threads \ {t} : pc'[u] = pc[u]
      /\ UNCHANGED <<origin, s, buffer, mx, port, ev, past, happened, cancelled>>
  BY DEF SpawnReader, Goto, Incref, IInv, TypeOK
<1>c. \/ flight' = flight \cup {op} /\ pc'[t] \in {"unlock", "idle", "delete"} /\ nu' = nu
      \/ flight' = flight /\ pc'[t] = "cancel" /\ nu' = [nu EXCEPT ![t] = op]
  BY <1>n, OverlappedAssumption DEF SpawnReader, Goto, Back, IInv, TypeOK
<1>. HIDE DEF op
<1>1. Counted'
  <2>a. CASE s = "up" /\ flight' = flight \cup {Op("read", <<>>)} /\ Goto(t, Back(t)) /\ UNCHANGED nu
    <3>1. /\ flight' = flight \cup {Op("read", <<>>)} /\ refc' = refc + 1
          /\ UNCHANGED <<port, ev, nu>>
          /\ ((pc'[Caller] = "idle") <=> (pc[Caller] = "idle"))
      BY OverlappedAssumption, <2>a DEF IInv, TypeOK, Data, Places,
           Threads, SpawnReader, Goto, Back, Incref
    <3>2. Op("read", <<>>) \notin flight
      BY <3>1, Reader DEF IInv, OneReads, OneTurn, SpawnReader
    <3>3. /\ Handled' = Handled
          /\ Refused' = Refused
      BY <3>1, <3>2, OverlappedAssumption DEF IInv, Data, Places,
           Handled, Refused, Threads
    <3>4. IsFiniteSet(flight') /\ Cardinality(flight') = Cardinality(flight) + 1
      BY <3>1, <3>2, <3>3, Added DEF IInv, Counted
    <3>5. Cardinality(Calling') = Cardinality(Calling)
      BY <3>1, CallingCounts DEF Calling
    <3>. QED  BY <3>1, <3>3, <3>4, <3>5, Natural DEF IInv, Counted, References
  <2>b. CASE nu' = [nu EXCEPT ![t] = Op("read", <<>>)] /\ Goto(t, "cancel") /\ UNCHANGED flight
    <3>1. /\ nu' = [nu EXCEPT ![t] = Op("read", <<>>)] /\ refc' = refc + 1
          /\ UNCHANGED <<flight, port, ev>>
          /\ t # Caller /\ pc'[Caller] = pc[Caller] /\ nu[t] = None
      BY OverlappedAssumption, <2>b DEF IInv, TypeOK, Data, Places,
           Threads, SpawnReader, Goto, Incref
    <3>2. Op("read", <<>>) # None
      BY <3>1, Reader
    <3>3. /\ Handled' = Handled
          /\ Refused' = Refused \cup {t} /\ t \notin Refused
      BY <3>1, <3>2, OverlappedAssumption DEF IInv, Data, Places,
           Handled, Refused, Threads
    <3>4. IsFiniteSet(Refused') /\ Cardinality(Refused') = Cardinality(Refused) + 1
      BY <3>1, <3>2, <3>3, Added DEF IInv, Counted
    <3>5. Cardinality(Calling') = Cardinality(Calling)
      BY <3>1, CallingCounts DEF Calling
    <3>. QED  BY <3>1, <3>3, <3>4, <3>5, Natural DEF IInv, Counted, References
  <2>. QED  BY <2>a, <2>b DEF SpawnReader
<1>2. TypeOK'
  BY OverlappedAssumption DEF Threads, IInv, TypeOK, SpawnReader, Goto,
       Incref, Back, fields, buffer, ops, local, past
<1>3. Data'
  BY <1>r, <1>u, <1>c DEF IInv, Data, buffer, past
<1>4. Places'
  <2>1. t \in Workers /\ (ev[t] # None => pc'[t] \in {"delete", "cancel"})
        /\ pc'[t] \in {"idle", "delete", "cancel"} /\ (pc'[t] = "idle" => ev[t] = None)
    BY <1>n, OverlappedAssumption DEF SpawnReader, Goto, Back, IInv, TypeOK, Places, Threads
  <2>2. pc'[t] = "delete" => ev[t] # None
    BY <1>n, OverlappedAssumption DEF SpawnReader, Goto, Back, IInv, TypeOK
  <2>3. \A u \in Threads \ {t} : nu'[u] = nu[u]
    BY <1>c DEF IInv, Data
  <2>4. nu'[t] # None => pc'[t] = "cancel"
    BY <1>n, <1>r, <1>c DEF IInv, Data
  <2>5. mx' \in {Caller, None} /\ ev'[Caller] = None /\ pc'[Caller] = pc[Caller]
    BY <1>n, <1>u DEF IInv, Places, Threads
  <2>6. \A w \in Workers :
          /\ pc'[w] \notin {"append", "unlock", "release"}
          /\ pc'[w] = "idle" => ev'[w] = None
          /\ pc'[w] \in {"connect", "read", "write", "writer", "send", "delete"} => ev'[w] # None
    BY <1>u, <2>1, <2>2 DEF IInv, Places, Threads
  <2>7. \A u \in Threads :
          /\ nu'[u] # None => pc'[u] \in {"send", "cancel", "mark", "close", "drop"}
          /\ pc'[u] \in {"send", "drop"} => nu'[u] # None
          /\ pc'[u] = "send" => nu'[u].kind = "write"
    BY <1>u, <2>1, <2>3, <2>4 DEF IInv, Places
  <2>. QED  BY <2>5, <2>6, <2>7 DEF IInv, Places
<1>5. OneReads'
  <2>. DEFINE places == {"connect", "accepted", "read", "reader"}
  <2>1. \A u \in Threads : pc'[u] \in places => pc[u] \in places /\ u # t
    BY <1>u, <1>c
  <2>2. CASE flight' = flight \cup {op}
    BY <1>n, <1>u, <2>1, <2>2, TurnBegins DEF IInv, OneReads
  <2>3. CASE flight' = flight
    BY <1>u, <2>1, <2>3, FewerTurns DEF IInv, OneReads
  <2>. QED  BY <1>c, <2>2, <2>3
<1>6. OneWrites'
  <2>1. \A u \in Threads : pc'[u] \in {"write"} => pc[u] \in {"write"}
    BY <1>u, <1>c
  <2>2. CASE flight' = flight \cup {op}
    BY <1>r, <1>u, <2>1, <2>2, OtherBegins DEF IInv, OneWrites
  <2>3. CASE flight' = flight
    BY <1>u, <2>1, <2>3, FewerTurns DEF IInv, OneWrites
  <2>. QED  BY <1>c, <2>2, <2>3
<1>7. InOrder'
  <2>1. UNCHANGED <<sent, wrb, written, is_writing, cancelled>>
    BY <1>u DEF buffer, past
  <2>2. \A u \in Threads \ {t} : nu'[u] = nu[u]
    BY <1>c DEF IInv, Data
  <2>3. ~Filled(t) /\ ~(Filled(t)')
    BY <1>n, <1>r, <1>c DEF Filled, IInv, Data
  <2>4. \A u \in Threads : Filled(u)' <=> Filled(u)
    BY <2>2, <2>3 DEF Filled
  <2>5. \A u \in Threads : Filled(u) => nu'[u] = nu[u]
    BY <2>2, <2>3
  <2>6. Writing' => Writing
    <3>1. \A u \in Threads : pc'[u] = "write" => pc[u] = "write"
      BY <1>u, <1>c
    <3>2. \A o \in flight' \cup {e.op : e \in port'} :
            o.kind = "write" => o \in flight \cup {e.op : e \in port}
      BY <1>r, <1>u, <1>c
    <3>. QED  BY <3>1, <3>2 DEF Writing
  <2>. QED  BY <2>1, <2>4, <2>5, <2>6, SameOrder DEF IInv
<1>8. Marked'
  BY OverlappedAssumption DEF Threads, IInv, Marked, TypeOK, Data,
       SpawnReader, Goto, Incref, Back, fields, buffer, ops, local, past
<1>9. StaysRead'
  <2>. SUFFICES ASSUME ~cancelled PROVE StaysRead'
    BY <1>u DEF StaysRead
  <2>1. CASE flight' = flight \cup {op}
    BY <1>r, <2>1 DEF StaysRead
  <2>2. CASE pc'[t] = "cancel"
    BY <2>2 DEF StaysRead
  <2>. QED  BY <1>c, <2>1, <2>2
<1>10. Gone'
  BY NothingLeft DEF SpawnReader, Incref, IInv, Gone
<1>. QED  BY <1>1, <1>2, <1>3, <1>4, <1>5, <1>6, <1>7, <1>8, <1>9, <1>10 DEF IInv

\* The invariant is kept when the handler hears of written data.
LEMMA KeepsWrote == ASSUME NEW t \in Threads, IInv, Wrote(t) PROVE IInv'
<1>1. Counted'
  BY ZenonT(30), OverlappedAssumption DEF Threads, IInv, Counted, References, Handled,
       Refused, Calling, Places, TypeOK, Data, Wrote, Goto, fields,
       buffer, ops, local, past
<1>2. TypeOK'
  BY OverlappedAssumption DEF Threads, IInv, TypeOK, Wrote, Goto, fields,
       buffer, ops, local, past
<1>3. Data'
  BY OverlappedAssumption DEF Threads, IInv, Data, Wrote, Goto, fields,
       buffer, ops, local, past
<1>4. Places'
  BY OverlappedAssumption DEF Threads, IInv, Places, TypeOK, Data, Wrote,
       Goto, fields, buffer, ops, local, past
<1>5. OneReads'
  BY OverlappedAssumption DEF Threads, IInv, OneReads, OneTurn, Places,
       TypeOK, Data, Wrote, Goto, fields, buffer, ops, local, past
<1>6. OneWrites'
  BY OverlappedAssumption DEF Threads, IInv, OneWrites, OneTurn, Places,
       InOrder, Writing, Filled, TypeOK, Data, Wrote, Goto, fields,
       buffer, ops, local, past
<1>7. InOrder'
  BY OverlappedAssumption DEF Threads, IInv, InOrder, Writing, Filled,
       OneWrites, OneTurn, Places, Marked, TypeOK, Data, Wrote, Goto,
       fields, buffer, ops, local, past
<1>8. Marked'
  BY OverlappedAssumption DEF Threads, IInv, Marked, TypeOK, Data, Wrote,
       Goto, fields, buffer, ops, local, past
<1>9. StaysRead'
  BY OverlappedAssumption DEF Threads, IInv, StaysRead, Marked, TypeOK,
       Data, Places, Wrote, Goto, fields, buffer, ops, local, past
<1>10. Gone'
  BY OverlappedAssumption DEF Threads, IInv, Gone, TypeOK, Data, Wrote,
       Goto, fields, buffer, ops, local, past
<1>. QED  BY <1>1, <1>2, <1>3, <1>4, <1>5, <1>6, <1>7, <1>8, <1>9, <1>10 DEF IInv

\* A step of one thread keeps Places if it does at that thread.
LEMMA OnesPlace ==
    ASSUME NEW t \in Threads, IInv, UNCHANGED <<mx, ev>>,
           \A u \in Threads \ {t} : pc'[u] = pc[u] /\ nu'[u] = nu[u],
           t = Caller => pc'[t] \notin {"connect", "accepted", "read", "write", "reader", "delete"},
           t \in Workers => /\ pc'[t] \notin {"append", "unlock", "release", "idle"}
                            /\ ev[t] # None,
           nu'[t] # None => pc'[t] \in {"send", "cancel", "mark", "close", "drop"},
           pc'[t] \in {"send", "drop"} => nu'[t] # None,
           pc'[t] = "send" => nu'[t].kind = "write"
    PROVE  Places'
<1>1. mx' \in {Caller, None} /\ ev'[Caller] = None
  BY DEF IInv, Places
<1>2. pc'[Caller] \notin {"connect", "accepted", "read", "write", "reader", "delete"}
  BY OverlappedAssumption DEF IInv, Places, Threads
<1>3. ASSUME NEW u \in Workers
      PROVE  /\ pc'[u] \notin {"append", "unlock", "release"}
             /\ pc'[u] = "idle" => ev'[u] = None
             /\ pc'[u] \in {"connect", "read", "write", "writer", "send", "delete"} => ev'[u] # None
  <2>1. CASE u = t
    BY <2>1
  <2>2. CASE u # t
    BY <2>2 DEF IInv, Places, Threads
  <2>. QED  BY <2>1, <2>2
<1>4. ASSUME NEW u \in Threads
      PROVE  /\ nu'[u] # None => pc'[u] \in {"send", "cancel", "mark", "close", "drop"}
             /\ pc'[u] \in {"send", "drop"} => nu'[u] # None
             /\ pc'[u] = "send" => nu'[u].kind = "write"
  <2>1. CASE u = t
    BY <2>1
  <2>2. CASE u # t
    BY <2>2 DEF IInv, Places
  <2>. QED  BY <2>1, <2>2
<1>. QED  BY <1>1, <1>2, <1>3, <1>4 DEF Places

\* The invariant is kept when a writer is spawned.
LEMMA KeepsSpawnWriter ==
    ASSUME NEW t \in Threads, IInv, SpawnWriter(t), "early" \notin happened
    PROVE  IInv'
<1>. DEFINE front == First(Chunk, wrb)
            back == Rest(Chunk, wrb)
            op == Op("write", front)
<1>r. /\ wrb \in Seq(Nat) /\ front \in Seq(Nat) /\ back \in Seq(Nat)
      /\ op \in Operations /\ op # None /\ op.kind = "write" /\ op.data = front
  BY OverlappedAssumption, Taking, Writer DEF IInv, Data
<1>n. nu[t] = None /\ pc[t] = "writer" /\ (t \in Workers => ev[t] # None)
  BY DEF IInv, Places, SpawnWriter
<1>u. /\ \A u \in Threads \ {t} : pc'[u] = pc[u]
      /\ UNCHANGED <<origin, s, mx, ops, ev, past, happened, life, cancelled>>
  BY DEF SpawnWriter, Goto, Incref, IInv, TypeOK, fields
<1>c. \/ /\ UNCHANGED <<is_writing, wrb, nu>>
         /\ pc'[t] \in {"unlock", "release", "delete"} /\ (t \in Workers => pc'[t] = "delete")
         /\ t = Caller => pc'[t] # "delete"
      \/ /\ ~is_writing /\ is_writing' = TRUE /\ wrb' = back
         /\ nu' = [nu EXCEPT ![t] = op] /\ pc'[t] = "send"
  <2>1. CASE is_writing \/ wrb = <<>>
    <3>1. UNCHANGED <<is_writing, wrb, nu>> /\ pc'[t] = Back(t)
      BY <2>1 DEF SpawnWriter, Goto, IInv, TypeOK, buffer
    <3>2. Back(t) \in {"unlock", "release", "delete"} /\ (t \in Workers => Back(t) = "delete")
          /\ (t = Caller => Back(t) # "delete")
      BY <1>n, OverlappedAssumption DEF Back, IInv, Places, Threads
    <3>. QED  BY <3>1, <3>2
  <2>2. CASE ~(is_writing \/ wrb = <<>>)
    BY <2>2 DEF SpawnWriter, Goto, IInv, TypeOK
  <2>. QED  BY <2>1, <2>2
<1>p. pc' \in [Threads -> {"idle", "connect", "accepted", "read", "write", "reader", "writer",
                           "send", "cancel", "mark", "close", "drop", "delete",
                           "append", "unlock", "release"}]
  <2>1. pc' = [pc EXCEPT ![t] = pc'[t]]
    BY DEF SpawnWriter, Goto, IInv, TypeOK
  <2>. QED  BY <2>1, <1>c DEF IInv, TypeOK
<1>. HIDE DEF front, back, op
<1>1. Counted'
  <2>a. CASE is_writing \/ wrb = <<>>
    <3>1. UNCHANGED <<flight, port, ev, nu, refc>> /\ ((pc'[Caller] = "idle") <=> (pc[Caller] = "idle"))
      BY <2>a, OverlappedAssumption DEF IInv, TypeOK, Places, Threads, SpawnWriter, Goto, Back, fields, ops
    <3>. QED  BY <3>1, SameCount DEF IInv
  <2>b. CASE ~(is_writing \/ wrb = <<>>)
    <3>1. /\ nu' = [nu EXCEPT ![t] = Op("write", First(Chunk, wrb))] /\ refc' = refc + 1
          /\ UNCHANGED <<flight, port, ev>>
          /\ ((pc'[Caller] = "idle") <=> (pc[Caller] = "idle")) /\ nu[t] = None
      BY OverlappedAssumption, <2>b DEF IInv, TypeOK, Data, Places,
           Threads, SpawnWriter, Goto, Incref, ops
    <3>2. Op("write", First(Chunk, wrb)) # None
      BY <3>1, OverlappedAssumption, Taking, Writer DEF IInv, Data
    <3>3. /\ Handled' = Handled
          /\ Refused' = Refused \cup {t} /\ t \notin Refused
      BY <3>1, <3>2, OverlappedAssumption DEF IInv, Data, Places,
           Handled, Refused, Threads
    <3>4. IsFiniteSet(Refused') /\ Cardinality(Refused') = Cardinality(Refused) + 1
      BY <3>1, <3>2, <3>3, Added DEF IInv, Counted
    <3>5. Cardinality(Calling') = Cardinality(Calling)
      BY <3>1, CallingCounts DEF Calling
    <3>. QED  BY <3>1, <3>3, <3>4, <3>5, Natural DEF IInv, Counted, References
  <2>. QED  BY <2>a, <2>b
<1>2. TypeOK'
  <2>1. refc' \in Nat
    BY <1>1, NaturalNext
  <2>2. is_writing' \in BOOLEAN
    BY <1>c DEF IInv, TypeOK
  <2>. QED  BY <1>u, <1>p, <2>1, <2>2 DEF IInv, TypeOK, past
<1>3. Data'
  BY <1>r, <1>u, <1>c DEF IInv, Data, ops, past
<1>4. Places'
  <2>1. \A u \in Threads \ {t} : nu'[u] = nu[u]
    BY <1>c DEF IInv, Data
  <2>2. CASE UNCHANGED nu /\ pc'[t] \in {"unlock", "release", "delete"}
             /\ (t \in Workers => pc'[t] = "delete") /\ (t = Caller => pc'[t] # "delete")
    BY <1>n, <1>u, <2>2, OverlappedAssumption DEF IInv, Places, Threads
  <2>3. CASE nu' = [nu EXCEPT ![t] = op] /\ pc'[t] = "send"
    <3>1. nu'[t] = op
      BY <2>3 DEF IInv, Data
    <3>. QED  BY <1>n, <1>r, <1>u, <2>1, <2>3, <3>1, OnesPlace
  <2>. QED  BY <1>c, <2>2, <2>3
<1>5. OneReads'
  BY SMTT(60), OverlappedAssumption DEF Threads, IInv, OneReads, OneTurn, Places,
       TypeOK, Data, SpawnWriter, Goto, Incref, Back, fields, buffer, ops,
       local, past
<1>6. OneWrites'
  BY SMTT(60), OverlappedAssumption DEF Threads, IInv, OneWrites, OneTurn, Places,
       InOrder, Writing, Filled, TypeOK, Data, SpawnWriter, Goto, Incref,
       Back, fields, buffer, ops, local, past
<1>7. InOrder'
  <2>1. UNCHANGED <<sent, written, cancelled>>
    BY <1>u DEF past
  <2>2. Writing' <=> Writing
    <3>1. \A u \in Threads : pc'[u] = "write" <=> pc[u] = "write"
      BY <1>n, <1>u, <1>c
    <3>. QED  BY <3>1, <1>u DEF Writing, ops
  <2>3. CASE UNCHANGED <<is_writing, wrb, nu>>
    BY <2>1, <2>2, <2>3, SameOrder DEF IInv, Filled
  <2>4. CASE /\ ~is_writing /\ is_writing' = TRUE /\ wrb' = back
             /\ nu' = [nu EXCEPT ![t] = op]
    <3>1. ~Writing /\ \A u \in Threads : ~Filled(u)
      BY <2>4 DEF IInv, InOrder
    <3>2. Follow(0, sent) /\ Follow(Len(sent), wrb) /\ Len(sent) + Len(wrb) = written
      BY <2>4, <3>1 DEF IInv, InOrder
    <3>3. nu'[t] = op /\ \A u \in Threads \ {t} : nu'[u] = nu[u]
      BY <2>4 DEF IInv, Data
    <3>4. \A u \in Threads : Filled(u)' => u = t
      BY <3>1, <3>3 DEF Filled
    <3>5. Filled(t)'
      BY <3>3, <1>r DEF Filled
    <3>6. Len(sent) \in Nat /\ Len(front) \in Nat /\ Len(back) \in Nat /\ Len(wrb) \in Nat
      BY <1>r DEF IInv, Data
    <3>7. /\ Len(front) + Len(back) = Len(wrb)
          /\ Follow(Len(sent), front) /\ Follow(Len(sent) + Len(front), back)
      BY <1>r, <3>2, <3>6, OverlappedAssumption, Taking DEF front, back
    <3>8. Len(sent) + Len(front) + Len(back) = written
      BY <3>2, <3>6, <3>7
    <3>9. ASSUME NEW u \in Threads, Filled(u)'
          PROVE  /\ is_writing' /\ ~(Writing') /\ \A v \in Threads : Filled(v)' => v = u
                 /\ Follow(Len(sent'), nu'[u].data)
                 /\ Follow(Len(sent') + Len(nu'[u].data), wrb')
                 /\ Len(sent') + Len(nu'[u].data) + Len(wrb') = written'
      <4>1. u = t /\ nu'[u].data = front
        BY <3>3, <3>4, <3>9, <1>r
      <4>. QED  BY <2>1, <2>2, <2>4, <3>1, <3>4, <3>7, <3>8, <4>1
    <3>. QED  BY <2>1, <2>2, <2>4, <3>1, <3>2, <3>5, <3>9 DEF InOrder
  <2>. QED  BY <1>c, <2>3, <2>4
<1>8. Marked'
  BY OverlappedAssumption DEF Threads, IInv, Marked, TypeOK, Data,
       SpawnWriter, Goto, Incref, Back, fields, buffer, ops, local, past
<1>9. StaysRead'
  BY OverlappedAssumption DEF Threads, IInv, StaysRead, Marked, TypeOK,
       Data, Places, SpawnWriter, Goto, Incref, Back, fields, buffer, ops,
       local, past
<1>10. Gone'
  BY NothingLeft DEF SpawnWriter, Incref, IInv, Gone, fields, past
<1>. QED  BY <1>1, <1>2, <1>3, <1>4, <1>5, <1>6, <1>7, <1>8, <1>9, <1>10 DEF IInv

\* The invariant is kept when a writer hands over its bytes.
LEMMA KeepsSend == ASSUME NEW t \in Threads, IInv, Send(t) PROVE IInv'
<1>n. /\ pc[t] = "send" /\ nu[t] # None /\ nu[t].kind = "write" /\ Filled(t)
      /\ nu[t] \in Operations /\ nu[t].data \in Seq(Nat)
  BY Kinds DEF IInv, Data, Places, Send, Filled
<1>u. UNCHANGED <<origin, fields, s, buffer, mx, port, ev, written, closes, happened>>
  BY DEF Send
<1>c. \/ /\ flight' = flight \cup {nu[t]} /\ sent' = sent \o nu[t].data
         /\ nu' = [nu EXCEPT ![t] = None]
      \/ UNCHANGED <<flight, sent, nu>>
  BY DEF Send
<1>p. pc'[t] # "write" /\ \A u \in Threads \ {t} : pc'[u] = pc[u]
  BY DEF Send, Goto, Back, IInv, TypeOK
<1>1. Counted'
  <2>a. CASE Goto(t, "cancel") /\ UNCHANGED <<flight, sent, nu>>
    <3>1. UNCHANGED <<flight, port, ev, nu, refc>> /\ ((pc'[Caller] = "idle") <=> (pc[Caller] = "idle"))
      BY <2>a, OverlappedAssumption DEF IInv, TypeOK, Places, Threads, Send, Goto, fields
    <3>. QED  BY <3>1, SameCount DEF IInv
  <2>b. CASE flight' = flight \cup {nu[t]} /\ nu' = [nu EXCEPT ![t] = None] /\ Goto(t, Back(t))
    <3>1. /\ flight' = flight \cup {nu[t]} /\ nu' = [nu EXCEPT ![t] = None]
          /\ UNCHANGED <<port, ev, refc>>
          /\ ((pc'[Caller] = "idle") <=> (pc[Caller] = "idle"))
          /\ Filled(t) /\ nu[t] # None
      BY OverlappedAssumption, <2>b DEF IInv, TypeOK, Data, Places,
           Threads, Send, Goto, Back, Filled, fields
    <3>2. nu[t] \notin flight
      BY <3>1 DEF IInv, InOrder, Filled, Writing
    <3>3. /\ Handled' = Handled
          /\ Refused' = Refused \ {t} /\ t \in Refused
      BY <3>1, <3>2, OverlappedAssumption DEF IInv, Data, Places,
           Handled, Refused, Threads
    <3>4. IsFiniteSet(flight') /\ Cardinality(flight') = Cardinality(flight) + 1
      BY <3>1, <3>2, <3>3, Added DEF IInv, Counted
    <3>5. IsFiniteSet(Refused') /\ Cardinality(Refused') = Cardinality(Refused) - 1
      BY <3>1, <3>2, <3>3, Removed DEF IInv, Counted
    <3>6. Cardinality(Calling') = Cardinality(Calling)
      BY <3>1, CallingCounts DEF Calling
    <3>. QED  BY <3>1, <3>3, <3>4, <3>5, <3>6, Natural DEF IInv, Counted,
           References
  <2>. QED  BY <2>a, <2>b DEF Send
<1>2. TypeOK'
  BY OverlappedAssumption DEF Threads, IInv, TypeOK, Send, Goto, Back,
       fields, buffer, ops, local, past
<1>3. Data'
  <2>1. sent' \in Seq(Nat)
    BY <1>n, <1>c, Joining DEF IInv, Data
  <2>2. flight' \subseteq Operations /\ nu' \in [Threads -> Operations \cup {None}]
    BY <1>n, <1>c DEF IInv, Data
  <2>. QED  BY <1>u, <2>1, <2>2 DEF IInv, Data, buffer
<1>4. Places'
  <2>1. (t \in Workers => ev[t] # None) /\ (t = Caller => t \notin Workers)
    BY <1>n, OverlappedAssumption DEF IInv, Places, Threads
  <2>2. \A u \in Threads \ {t} : nu'[u] = nu[u]
    BY <1>c DEF IInv, Data
  <2>3. CASE Goto(t, "cancel") /\ UNCHANGED nu
    <3>1. pc'[t] = "cancel"
      BY <2>3 DEF Goto, IInv, TypeOK
    <3>. QED  BY <1>u, <1>p, <2>1, <2>2, <3>1, OnesPlace
  <2>4. CASE nu' = [nu EXCEPT ![t] = None] /\ Goto(t, Back(t))
    <3>1. nu'[t] = None /\ pc'[t] = Back(t)
      BY <2>4 DEF Goto, IInv, TypeOK, Data
    <3>2. Back(t) \in {"unlock", "release", "delete"} /\ (t \in Workers => Back(t) = "delete")
          /\ (t = Caller => Back(t) # "delete")
      BY <2>1, OverlappedAssumption DEF Back, IInv, Places, Threads
    <3>. QED  BY <1>u, <1>p, <2>1, <2>2, <3>1, <3>2, OnesPlace
  <2>. QED  BY <2>3, <2>4 DEF Send
<1>5. OneReads'
  BY SMTT(60), OverlappedAssumption DEF Threads, IInv, OneReads, OneTurn, Places,
       TypeOK, Data, Send, Goto, Back, fields, buffer, ops, local, past
<1>6. OneWrites'
  BY OverlappedAssumption DEF Threads, IInv, OneWrites, OneTurn, Places,
       InOrder, Writing, Filled, TypeOK, Data, Send, Goto, Back, fields,
       buffer, ops, local, past
<1>7. InOrder'
  <2>1. is_writing /\ ~Writing /\ (\A u \in Threads : Filled(u) => u = t)
        /\ Follow(0, sent) /\ Follow(Len(sent), nu[t].data)
        /\ Follow(Len(sent) + Len(nu[t].data), wrb)
        /\ Len(sent) + Len(nu[t].data) + Len(wrb) = written
    BY <1>n DEF IInv, InOrder
  <2>2. UNCHANGED <<is_writing, wrb, written, cancelled>>
    BY <1>u DEF fields, buffer
  <2>3. CASE UNCHANGED <<flight, sent, nu>>
    <3>1. Writing' => Writing
      BY <1>u, <1>p, <2>3 DEF Writing
    <3>. QED  BY <2>2, <2>3, <3>1, SameOrder DEF IInv, Filled
  <2>4. CASE /\ flight' = flight \cup {nu[t]} /\ sent' = sent \o nu[t].data
             /\ nu' = [nu EXCEPT ![t] = None]
    <3>1. \A u \in Threads : ~(Filled(u)')
      BY <2>1, <2>4 DEF Filled, IInv, Data
    <3>2. Follow(0, sent') /\ Len(sent') = Len(sent) + Len(nu[t].data)
      BY <1>n, <2>1, <2>4, Joining DEF IInv, Data
    <3>3. Follow(Len(sent'), wrb') /\ Len(sent') + Len(wrb') = written'
      BY <2>1, <2>2, <3>2
    <3>. QED  BY <2>1, <2>2, <3>1, <3>2, <3>3 DEF InOrder
  <2>. QED  BY <1>c, <2>3, <2>4
<1>8. Marked'
  BY OverlappedAssumption DEF Threads, IInv, Marked, TypeOK, Data, Send,
       Goto, Back, fields, buffer, ops, local, past
<1>9. StaysRead'
  BY OverlappedAssumption DEF Threads, IInv, StaysRead, Marked, TypeOK,
       Data, Places, Send, Goto, Back, fields, buffer, ops, local, past
<1>10. Gone'
  BY OverlappedAssumption DEF Threads, IInv, Gone, TypeOK, Data, Send,
       Goto, Back, fields, buffer, ops, local, past
<1>. QED  BY <1>1, <1>2, <1>3, <1>4, <1>5, <1>6, <1>7, <1>8, <1>9, <1>10 DEF IInv

\* The invariant is kept when a cancelled connection is cancelled.
LEMMA KeepsCancelNot ==
    ASSUME NEW t \in Threads, IInv, CancelNot(t)
    PROVE  IInv'
<1>1. Counted'
  <2>1. UNCHANGED <<flight, port, ev, nu, refc>> /\ ((pc'[Caller] = "idle") <=> (pc[Caller] = "idle"))
    BY OverlappedAssumption DEF IInv, TypeOK, Places, Threads,
         CancelNot, Goto, Back, fields, ops
  <2>. QED  BY <2>1, SameCount DEF IInv
<1>2. TypeOK'
  BY OverlappedAssumption DEF Threads, IInv, TypeOK, CancelNot, Goto,
       Back, fields, buffer, ops, local, past
<1>3. Data'
  BY OverlappedAssumption DEF Threads, IInv, Data, CancelNot, Goto, Back,
       fields, buffer, ops, local, past
<1>4. Places'
  BY OverlappedAssumption DEF Threads, IInv, Places, TypeOK, Data,
       CancelNot, Goto, Back, fields, buffer, ops, local, past
<1>5. OneReads'
  BY OverlappedAssumption DEF Threads, IInv, OneReads, OneTurn, Places,
       TypeOK, Data, CancelNot, Goto, Back, fields, buffer, ops, local,
       past
<1>6. OneWrites'
  BY OverlappedAssumption DEF Threads, IInv, OneWrites, OneTurn, Places,
       InOrder, Writing, Filled, TypeOK, Data, CancelNot, Goto, Back,
       fields, buffer, ops, local, past
<1>7. InOrder'
  BY OverlappedAssumption DEF Threads, IInv, InOrder, Writing, Filled,
       OneWrites, OneTurn, Places, Marked, TypeOK, Data, CancelNot, Goto,
       Back, fields, buffer, ops, local, past
<1>8. Marked'
  BY OverlappedAssumption DEF Threads, IInv, Marked, TypeOK, Data,
       CancelNot, Goto, Back, fields, buffer, ops, local, past
<1>9. StaysRead'
  BY OverlappedAssumption DEF Threads, IInv, StaysRead, Marked, TypeOK,
       Data, Places, CancelNot, Goto, Back, fields, buffer, ops, local,
       past
<1>10. Gone'
  BY OverlappedAssumption DEF Threads, IInv, Gone, TypeOK, Data,
       CancelNot, Goto, Back, fields, buffer, ops, local, past
<1>. QED  BY <1>1, <1>2, <1>3, <1>4, <1>5, <1>6, <1>7, <1>8, <1>9, <1>10 DEF IInv

\* The invariant is kept when rop_close is told.
LEMMA KeepsCancel == ASSUME NEW t \in Threads, IInv, Cancel(t) PROVE IInv'
<1>1. Counted'
  BY OverlappedAssumption DEF Threads, IInv, Counted, References, Handled,
       Refused, Calling, Places, TypeOK, Data, Cancel, Goto, fields,
       buffer, ops, local, past
<1>2. TypeOK'
  BY OverlappedAssumption DEF Threads, IInv, TypeOK, Cancel, Goto, fields,
       buffer, ops, local, past
<1>3. Data'
  BY OverlappedAssumption DEF Threads, IInv, Data, Cancel, Goto, fields,
       buffer, ops, local, past
<1>4. Places'
  BY OverlappedAssumption DEF Threads, IInv, Places, TypeOK, Data, Cancel,
       Goto, fields, buffer, ops, local, past
<1>5. OneReads'
  BY OverlappedAssumption DEF Threads, IInv, OneReads, OneTurn, Places,
       TypeOK, Data, Cancel, Goto, fields, buffer, ops, local, past
<1>6. OneWrites'
  BY OverlappedAssumption DEF Threads, IInv, OneWrites, OneTurn, Places,
       InOrder, Writing, Filled, TypeOK, Data, Cancel, Goto, fields,
       buffer, ops, local, past
<1>7. InOrder'
  BY OverlappedAssumption DEF Threads, IInv, InOrder, Writing, Filled,
       OneWrites, OneTurn, Places, Marked, TypeOK, Data, Cancel, Goto,
       fields, buffer, ops, local, past
<1>8. Marked'
  BY OverlappedAssumption DEF Threads, IInv, Marked, TypeOK, Data, Cancel,
       Goto, fields, buffer, ops, local, past
<1>9. StaysRead'
  BY OverlappedAssumption DEF Threads, IInv, StaysRead, Marked, TypeOK,
       Data, Places, Cancel, Goto, fields, buffer, ops, local, past
<1>10. Gone'
  BY OverlappedAssumption DEF Threads, IInv, Gone, TypeOK, Data, Cancel,
       Goto, fields, buffer, ops, local, past
<1>. QED  BY <1>1, <1>2, <1>3, <1>4, <1>5, <1>6, <1>7, <1>8, <1>9, <1>10 DEF IInv

\* The invariant is kept when the connection is marked.
LEMMA KeepsMark == ASSUME NEW t \in Threads, IInv, Mark(t) PROVE IInv'
<1>1. Counted'
  BY OverlappedAssumption DEF Threads, IInv, Counted, References, Handled,
       Refused, Calling, Places, TypeOK, Data, Mark, Goto, fields, buffer,
       ops, local, past
<1>2. TypeOK'
  BY OverlappedAssumption DEF Threads, IInv, TypeOK, Mark, Goto, fields,
       buffer, ops, local, past
<1>3. Data'
  BY OverlappedAssumption DEF Threads, IInv, Data, Mark, Goto, fields,
       buffer, ops, local, past
<1>4. Places'
  BY OverlappedAssumption DEF Threads, IInv, Places, TypeOK, Data, Mark,
       Goto, fields, buffer, ops, local, past
<1>5. OneReads'
  BY OverlappedAssumption DEF Threads, IInv, OneReads, OneTurn, Places,
       TypeOK, Data, Mark, Goto, fields, buffer, ops, local, past
<1>6. OneWrites'
  BY OverlappedAssumption DEF Threads, IInv, OneWrites, OneTurn, Places,
       InOrder, Writing, Filled, TypeOK, Data, Mark, Goto, fields, buffer,
       ops, local, past
<1>7. InOrder'
  BY OverlappedAssumption DEF Threads, IInv, InOrder, Writing, Filled,
       OneWrites, OneTurn, Places, Marked, TypeOK, Data, Mark, Goto,
       fields, buffer, ops, local, past
<1>8. Marked'
  BY OverlappedAssumption DEF Threads, IInv, Marked, TypeOK, Data, Mark,
       Goto, fields, buffer, ops, local, past
<1>9. StaysRead'
  BY OverlappedAssumption DEF Threads, IInv, StaysRead, Marked, TypeOK,
       Data, Places, Mark, Goto, fields, buffer, ops, local, past
<1>10. Gone'
  BY OverlappedAssumption DEF Threads, IInv, Gone, TypeOK, Data, Mark,
       Goto, fields, buffer, ops, local, past
<1>. QED  BY <1>1, <1>2, <1>3, <1>4, <1>5, <1>6, <1>7, <1>8, <1>9, <1>10 DEF IInv

\* The invariant is kept when the socket is closed.
LEMMA KeepsClose == ASSUME NEW t \in Threads, IInv, Close(t) PROVE IInv'
<1>1. Counted'
  <2>1. UNCHANGED <<flight, port, ev, nu, refc>> /\ ((pc'[Caller] = "idle") <=> (pc[Caller] = "idle"))
    BY OverlappedAssumption DEF IInv, TypeOK, Places, Threads, Close,
         Goto, Back, fields, ops
  <2>. QED  BY <2>1, SameCount DEF IInv
<1>2. TypeOK'
  BY OverlappedAssumption DEF Threads, IInv, TypeOK, Close, Goto, Back,
       fields, buffer, ops, local, past
<1>3. Data'
  BY OverlappedAssumption DEF Threads, IInv, Data, Close, Goto, Back,
       fields, buffer, ops, local, past
<1>4. Places'
  BY OverlappedAssumption DEF Threads, IInv, Places, TypeOK, Data, Close,
       Goto, Back, fields, buffer, ops, local, past
<1>5. OneReads'
  BY OverlappedAssumption DEF Threads, IInv, OneReads, OneTurn, Places,
       TypeOK, Data, Close, Goto, Back, fields, buffer, ops, local, past
<1>6. OneWrites'
  BY OverlappedAssumption DEF Threads, IInv, OneWrites, OneTurn, Places,
       InOrder, Writing, Filled, TypeOK, Data, Close, Goto, Back, fields,
       buffer, ops, local, past
<1>7. InOrder'
  BY OverlappedAssumption DEF Threads, IInv, InOrder, Writing, Filled,
       OneWrites, OneTurn, Places, Marked, TypeOK, Data, Close, Goto,
       Back, fields, buffer, ops, local, past
<1>8. Marked'
  BY OverlappedAssumption DEF Threads, IInv, Marked, TypeOK, Data, Close,
       Goto, Back, fields, buffer, ops, local, past
<1>9. StaysRead'
  BY OverlappedAssumption DEF Threads, IInv, StaysRead, Marked, TypeOK,
       Data, Places, Close, Goto, Back, fields, buffer, ops, local, past
<1>10. Gone'
  BY OverlappedAssumption DEF Threads, IInv, Gone, TypeOK, Data, Close,
       Goto, Back, fields, buffer, ops, local, past
<1>. QED  BY <1>1, <1>2, <1>3, <1>4, <1>5, <1>6, <1>7, <1>8, <1>9, <1>10 DEF IInv

\* The invariant is kept when an operation that was refused is deleted.
LEMMA KeepsDrop == ASSUME NEW t \in Threads, IInv, Drop(t) PROVE IInv'
<1>1. Counted'
  <2>1. /\ nu[t] # None /\ nu' = [nu EXCEPT ![t] = None] /\ refc' = refc - 1
        /\ UNCHANGED <<flight, port, ev>>
        /\ ((pc'[Caller] = "idle") <=> (pc[Caller] = "idle"))
    BY OverlappedAssumption DEF IInv, TypeOK, Data, Places, Threads,
         Drop, Goto, Back, Decref, ops
  <2>2. /\ Handled' = Handled
        /\ Refused' = Refused \ {t} /\ t \in Refused
    BY <2>1, OverlappedAssumption DEF IInv, Data, Places, Handled,
         Refused, Threads
  <2>3. IsFiniteSet(Refused') /\ Cardinality(Refused') = Cardinality(Refused) - 1
    BY <2>1, <2>2, Removed DEF IInv, Counted
  <2>4. Cardinality(Calling') = Cardinality(Calling)
    BY <2>1, CallingCounts DEF Calling
  <2>. QED  BY <2>1, <2>2, <2>3, <2>4, Natural DEF IInv, Counted, References
<1>2. TypeOK'
  BY OverlappedAssumption, <1>1, NaturalNext DEF Threads, IInv, TypeOK,
       Drop, Goto, Back, Decref, Unheld, Places, fields, buffer, ops,
       local, past
<1>3. Data'
  BY OverlappedAssumption DEF Threads, IInv, Data, Drop, Goto, Back,
       Decref, Unheld, fields, buffer, ops, local, past
<1>4. Places'
  BY OverlappedAssumption DEF Threads, IInv, Places, TypeOK, Data, Drop,
       Goto, Back, Decref, Unheld, fields, buffer, ops, local, past
<1>5. OneReads'
  BY OverlappedAssumption DEF Threads, IInv, OneReads, OneTurn, Places,
       TypeOK, Data, Drop, Goto, Back, Decref, Unheld, fields, buffer,
       ops, local, past
<1>6. OneWrites'
  BY OverlappedAssumption DEF Threads, IInv, OneWrites, OneTurn, Places,
       InOrder, Writing, Filled, TypeOK, Data, Drop, Goto, Back, Decref,
       Unheld, fields, buffer, ops, local, past
<1>7. InOrder'
  BY OverlappedAssumption DEF Threads, IInv, InOrder, Writing, Filled,
       OneWrites, OneTurn, Places, Marked, TypeOK, Data, Drop, Goto, Back,
       Decref, Unheld, fields, buffer, ops, local, past
<1>8. Marked'
  BY OverlappedAssumption DEF Threads, IInv, Marked, TypeOK, Data, Drop,
       Goto, Back, Decref, Unheld, fields, buffer, ops, local, past
<1>9. StaysRead'
  BY OverlappedAssumption DEF Threads, IInv, StaysRead, Marked, TypeOK,
       Data, Places, Drop, Goto, Back, Decref, Unheld, fields, buffer,
       ops, local, past
<1>10. Gone'
  <2>1. Decref /\ t \in Threads /\ \A u \in Threads \ {t} : pc'[u] = pc[u] /\ ev'[u] = ev[u]
    BY OverlappedAssumption DEF IInv, TypeOK, Data, Places, Threads,
         Drop, Goto
  <2>2. t = Caller \/ pc'[t] = "idle" \/ ev'[t] # None \/ Unheld(t)
    BY OverlappedAssumption DEF IInv, TypeOK, Data, Places, Threads,
         Unheld, Drop, Goto
  <2>. QED  BY <2>1, <2>2, <1>1, <1>2, GoneAtLast
<1>. QED  BY <1>1, <1>2, <1>3, <1>4, <1>5, <1>6, <1>7, <1>8, <1>9, <1>10 DEF IInv

\* The invariant is kept when the buffer is unlocked.
LEMMA KeepsUnlock == ASSUME NEW t \in Threads, IInv, Unlock(t) PROVE IInv'
<1>1. Counted'
  BY OverlappedAssumption DEF Threads, IInv, Counted, References, Handled,
       Refused, Calling, Places, TypeOK, Data, Unlock, Goto, fields,
       buffer, ops, local, past
<1>2. TypeOK'
  BY OverlappedAssumption DEF Threads, IInv, TypeOK, Unlock, Goto, fields,
       buffer, ops, local, past
<1>3. Data'
  BY OverlappedAssumption DEF Threads, IInv, Data, Unlock, Goto, fields,
       buffer, ops, local, past
<1>4. Places'
  BY OverlappedAssumption DEF Threads, IInv, Places, TypeOK, Data, Unlock,
       Goto, fields, buffer, ops, local, past
<1>5. OneReads'
  BY OverlappedAssumption DEF Threads, IInv, OneReads, OneTurn, Places,
       TypeOK, Data, Unlock, Goto, fields, buffer, ops, local, past
<1>6. OneWrites'
  BY OverlappedAssumption DEF Threads, IInv, OneWrites, OneTurn, Places,
       InOrder, Writing, Filled, TypeOK, Data, Unlock, Goto, fields,
       buffer, ops, local, past
<1>7. InOrder'
  BY SMTT(30), OverlappedAssumption DEF Threads, IInv, InOrder, Writing, Filled,
       OneWrites, OneTurn, Places, Marked, TypeOK, Data, Unlock, Goto,
       fields, buffer, ops, local, past
<1>8. Marked'
  BY OverlappedAssumption DEF Threads, IInv, Marked, TypeOK, Data, Unlock,
       Goto, fields, buffer, ops, local, past
<1>9. StaysRead'
  BY OverlappedAssumption DEF Threads, IInv, StaysRead, Marked, TypeOK,
       Data, Places, Unlock, Goto, fields, buffer, ops, local, past
<1>10. Gone'
  BY OverlappedAssumption DEF Threads, IInv, Gone, TypeOK, Data, Unlock,
       Goto, fields, buffer, ops, local, past
<1>. QED  BY <1>1, <1>2, <1>3, <1>4, <1>5, <1>6, <1>7, <1>8, <1>9, <1>10 DEF IInv

\* The invariant is kept when rascal_write is called.
LEMMA KeepsCallWrite == ASSUME IInv, CallWrite PROVE IInv'
<1>1. Counted'
  <2>1. /\ UNCHANGED <<flight, port, ev, nu>> /\ refc' = refc + 1
        /\ pc[Caller] = "idle" /\ pc'[Caller] # "idle"
    BY OverlappedAssumption DEF IInv, TypeOK, Data, Places, Threads,
         CallWrite, Goto, Incref, ops
  <2>2. /\ Handled' = Handled
        /\ Refused' = Refused
    BY <2>1, OverlappedAssumption DEF IInv, Data, Places, Handled,
         Refused, Threads
  <2>3. Cardinality(Calling') = Cardinality(Calling) + 1
    BY <2>1, CallingCounts DEF Calling
  <2>. QED  BY <2>1, <2>2, <2>3, Natural DEF IInv, Counted, References
<1>2. TypeOK'
  BY OverlappedAssumption DEF Threads, IInv, TypeOK, CallWrite, Goto,
       Incref, fields, buffer, ops, local, past
<1>3. Data'
  BY OverlappedAssumption DEF Threads, IInv, Data, CallWrite, Goto,
       Incref, fields, buffer, ops, local, past
<1>4. Places'
  BY OverlappedAssumption DEF Threads, IInv, Places, TypeOK, Data,
       CallWrite, Goto, Incref, fields, buffer, ops, local, past
<1>5. OneReads'
  BY OverlappedAssumption DEF Threads, IInv, OneReads, OneTurn, Places,
       TypeOK, Data, CallWrite, Goto, Incref, fields, buffer, ops, local,
       past
<1>6. OneWrites'
  BY OverlappedAssumption DEF Threads, IInv, OneWrites, OneTurn, Places,
       InOrder, Writing, Filled, TypeOK, Data, CallWrite, Goto, Incref,
       fields, buffer, ops, local, past
<1>7. InOrder'
  BY SMTT(30), OverlappedAssumption DEF Threads, IInv, InOrder, Writing, Filled,
       OneWrites, OneTurn, Places, Marked, TypeOK, Data, CallWrite, Goto,
       Incref, fields, buffer, ops, local, past
<1>8. Marked'
  BY OverlappedAssumption DEF Threads, IInv, Marked, TypeOK, Data,
       CallWrite, Goto, Incref, fields, buffer, ops, local, past
<1>9. StaysRead'
  BY OverlappedAssumption DEF Threads, IInv, StaysRead, Marked, TypeOK,
       Data, Places, CallWrite, Goto, Incref, fields, buffer, ops, local,
       past
<1>10. Gone'
  BY OverlappedAssumption DEF Threads, IInv, Gone, TypeOK, Data,
       CallWrite, Goto, Incref, fields, buffer, ops, local, past
<1>. QED  BY <1>1, <1>2, <1>3, <1>4, <1>5, <1>6, <1>7, <1>8, <1>9, <1>10 DEF IInv

\* The invariant is kept when rascal_cancel is called.
LEMMA KeepsCallCancel == ASSUME IInv, CallCancel PROVE IInv'
<1>1. Counted'
  <2>1. /\ UNCHANGED <<flight, port, ev, nu>> /\ refc' = refc + 1
        /\ pc[Caller] = "idle" /\ pc'[Caller] # "idle"
    BY OverlappedAssumption DEF IInv, TypeOK, Data, Places, Threads,
         CallCancel, Goto, Incref, ops
  <2>2. /\ Handled' = Handled
        /\ Refused' = Refused
    BY <2>1, OverlappedAssumption DEF IInv, Data, Places, Handled,
         Refused, Threads
  <2>3. Cardinality(Calling') = Cardinality(Calling) + 1
    BY <2>1, CallingCounts DEF Calling
  <2>. QED  BY <2>1, <2>2, <2>3, Natural DEF IInv, Counted, References
<1>2. TypeOK'
  BY OverlappedAssumption DEF Threads, IInv, TypeOK, CallCancel, Goto,
       Incref, fields, buffer, ops, local, past
<1>3. Data'
  BY OverlappedAssumption DEF Threads, IInv, Data, CallCancel, Goto,
       Incref, fields, buffer, ops, local, past
<1>4. Places'
  BY OverlappedAssumption DEF Threads, IInv, Places, TypeOK, Data,
       CallCancel, Goto, Incref, fields, buffer, ops, local, past
<1>5. OneReads'
  BY SMTT(30), OverlappedAssumption DEF Threads, IInv, OneReads, OneTurn, Places,
       TypeOK, Data, CallCancel, Goto, Incref, fields, buffer, ops, local,
       past
<1>6. OneWrites'
  BY OverlappedAssumption DEF Threads, IInv, OneWrites, OneTurn, Places,
       InOrder, Writing, Filled, TypeOK, Data, CallCancel, Goto, Incref,
       fields, buffer, ops, local, past
<1>7. InOrder'
  BY OverlappedAssumption DEF Threads, IInv, InOrder, Writing, Filled,
       OneWrites, OneTurn, Places, Marked, TypeOK, Data, CallCancel, Goto,
       Incref, fields, buffer, ops, local, past
<1>8. Marked'
  BY OverlappedAssumption DEF Threads, IInv, Marked, TypeOK, Data,
       CallCancel, Goto, Incref, fields, buffer, ops, local, past
<1>9. StaysRead'
  BY OverlappedAssumption DEF Threads, IInv, StaysRead, Marked, TypeOK,
       Data, Places, CallCancel, Goto, Incref, fields, buffer, ops, local,
       past
<1>10. Gone'
  BY OverlappedAssumption DEF Threads, IInv, Gone, TypeOK, Data,
       CallCancel, Goto, Incref, fields, buffer, ops, local, past
<1>. QED  BY <1>1, <1>2, <1>3, <1>4, <1>5, <1>6, <1>7, <1>8, <1>9, <1>10 DEF IInv

\* The invariant is kept when a byte is appended.
LEMMA KeepsAppendByte == ASSUME IInv, AppendByte PROVE IInv'
<1>1. Counted'
  BY ZenonT(30), OverlappedAssumption DEF Threads, IInv, Counted, References, Handled,
       Refused, Calling, Places, TypeOK, Data, AppendByte, Goto, fields,
       buffer, ops, local, past
<1>2. TypeOK'
  BY OverlappedAssumption DEF Threads, IInv, TypeOK, AppendByte, Goto,
       fields, buffer, ops, local, past
<1>3. Data'
  BY OverlappedAssumption DEF Threads, IInv, Data, AppendByte, Goto,
       fields, buffer, ops, local, past
<1>4. Places'
  BY OverlappedAssumption DEF Threads, IInv, Places, TypeOK, Data,
       AppendByte, Goto, fields, buffer, ops, local, past
<1>5. OneReads'
  BY OverlappedAssumption DEF Threads, IInv, OneReads, OneTurn, Places,
       TypeOK, Data, AppendByte, Goto, fields, buffer, ops, local, past
<1>6. OneWrites'
  BY OverlappedAssumption DEF Threads, IInv, OneWrites, OneTurn, Places,
       InOrder, Writing, Filled, TypeOK, Data, AppendByte, Goto, fields,
       buffer, ops, local, past
<1>7. InOrder'
  <2>1. /\ UNCHANGED <<is_writing, sent, nu, cancelled, flight, port>>
        /\ written' = written + 1 /\ wrb' = Append(wrb, written + 1)
        /\ pc'[Caller] # "write" /\ \A u \in Threads \ {Caller} : pc'[u] = pc[u]
    BY DEF AppendByte, Goto, IInv, TypeOK, Threads, fields, ops
  <2>2. (Writing' => Writing) /\ \A u \in Threads : Filled(u)' <=> Filled(u)
    BY <2>1 DEF Writing, Filled
  <2>3. written \in Nat /\ wrb \in Seq(Nat) /\ Len(wrb) \in Nat /\ Len(sent) \in Nat
    BY DEF IInv, Data
  <2>4. wrb' \in Seq(Nat) /\ Len(wrb') = Len(wrb) + 1
    BY <2>1, <2>3, Appending
  <2>5. \A m \in Nat : Follow(m, wrb) /\ m + Len(wrb) = written => Follow(m, wrb')
    <3>. SUFFICES ASSUME NEW m \in Nat, Follow(m, wrb), m + Len(wrb) = written
                  PROVE  Follow(m, wrb')
      OBVIOUS
    <3>1. written + 1 = m + Len(wrb) + 1 /\ written + 1 \in Nat
      BY <2>3
    <3>. QED  BY <2>1, <2>3, <3>1, Appending
  <2>6. ASSUME NEW t \in Threads, Filled(t)'
        PROVE  /\ is_writing' /\ ~(Writing') /\ \A u \in Threads : Filled(u)' => u = t
               /\ Follow(Len(sent'), nu'[t].data)
               /\ Follow(Len(sent') + Len(nu'[t].data), wrb')
               /\ Len(sent') + Len(nu'[t].data) + Len(wrb') = written'
    <3>1. /\ is_writing /\ ~Writing /\ (\A u \in Threads : Filled(u) => u = t)
          /\ Follow(Len(sent), nu[t].data) /\ Follow(Len(sent) + Len(nu[t].data), wrb)
          /\ Len(sent) + Len(nu[t].data) + Len(wrb) = written
      BY <2>2, <2>6 DEF IInv, InOrder
    <3>2. Len(nu[t].data) \in Nat
      <4>1. nu[t].data \in Seq(Nat)
        BY <2>2, <2>6, Kinds DEF Filled, IInv, Data
      <4>. QED  BY <4>1
    <3>3. Len(sent) + Len(nu[t].data) \in Nat
      BY <2>3, <3>2
    <3>4. Follow(Len(sent) + Len(nu[t].data), wrb')
      BY <2>5, <3>1, <3>3
    <3>5. Len(sent) + Len(nu[t].data) + Len(wrb') = written'
      <4>1. Len(sent') = Len(sent) /\ nu'[t].data = nu[t].data
        BY <2>1
      <4>2. Len(sent) + Len(nu[t].data) + (Len(wrb) + 1) = written + 1
        <5>. DEFINE a == Len(sent)
                    b == Len(nu[t].data)
                    c == Len(wrb)
        <5>1. a \in Nat /\ b \in Nat /\ c \in Nat /\ written \in Nat
          BY <2>3, <3>2
        <5>2. a + b + c = written
          BY <3>1
        <5>. HIDE DEF a, b, c
        <5>3. a + b + (c + 1) = written + 1
          BY <5>1, <5>2
        <5>. QED  BY <5>3 DEF a, b, c
      <4>3. Len(wrb') = Len(wrb) + 1 /\ written' = written + 1
        BY <2>1, <2>4
      <4>. QED  BY <4>1, <4>2, <4>3
    <3>. QED  BY <2>1, <2>2, <3>1, <3>4, <3>5
  <2>7. ASSUME \A t \in Threads : ~(Filled(t)')
        PROVE  \/ Follow(Len(sent'), wrb') /\ Len(sent') + Len(wrb') = written'
               \/ cancelled' /\ is_writing' /\ ~(Writing')
    <3>1. CASE Follow(Len(sent), wrb) /\ Len(sent) + Len(wrb) = written
      BY <2>1, <2>3, <2>4, <2>5, <3>1
    <3>2. CASE cancelled /\ is_writing /\ ~Writing
      BY <2>1, <2>2, <3>2
    <3>. QED  BY <2>2, <2>7, <3>1, <3>2 DEF IInv, InOrder
  <2>. QED  BY <2>1, <2>2, <2>6, <2>7 DEF IInv, InOrder
<1>8. Marked'
  BY OverlappedAssumption DEF Threads, IInv, Marked, TypeOK, Data,
       AppendByte, Goto, fields, buffer, ops, local, past
<1>9. StaysRead'
  BY OverlappedAssumption DEF Threads, IInv, StaysRead, Marked, TypeOK,
       Data, Places, AppendByte, Goto, fields, buffer, ops, local, past
<1>10. Gone'
  BY OverlappedAssumption DEF Threads, IInv, Gone, TypeOK, Data,
       AppendByte, Goto, fields, buffer, ops, local, past
<1>. QED  BY <1>1, <1>2, <1>3, <1>4, <1>5, <1>6, <1>7, <1>8, <1>9, <1>10 DEF IInv

\* The invariant is kept when the application's reference is given back.
LEMMA KeepsRelease == ASSUME IInv, Release PROVE IInv'
<1>1. Counted'
  <2>1. /\ UNCHANGED <<flight, port, ev, nu>> /\ refc' = refc - 1
        /\ pc[Caller] # "idle" /\ pc'[Caller] = "idle"
    BY OverlappedAssumption DEF IInv, TypeOK, Data, Places, Threads,
         Release, Goto, Decref, ops
  <2>2. /\ Handled' = Handled
        /\ Refused' = Refused
    BY <2>1, OverlappedAssumption DEF IInv, Data, Places, Handled,
         Refused, Threads
  <2>3. Cardinality(Calling') = Cardinality(Calling) - 1
    BY <2>1, CallingCounts DEF Calling
  <2>. QED  BY <2>1, <2>2, <2>3, Natural DEF IInv, Counted, References
<1>2. TypeOK'
  BY OverlappedAssumption, <1>1, NaturalNext DEF Threads, IInv, TypeOK,
       Release, Goto, Decref, Unheld, Places, fields, buffer, ops, local,
       past
<1>3. Data'
  BY OverlappedAssumption DEF Threads, IInv, Data, Release, Goto, Decref,
       Unheld, fields, buffer, ops, local, past
<1>4. Places'
  BY OverlappedAssumption DEF Threads, IInv, Places, TypeOK, Data,
       Release, Goto, Decref, Unheld, fields, buffer, ops, local, past
<1>5. OneReads'
  BY OverlappedAssumption DEF Threads, IInv, OneReads, OneTurn, Places,
       TypeOK, Data, Release, Goto, Decref, Unheld, fields, buffer, ops,
       local, past
<1>6. OneWrites'
  BY OverlappedAssumption DEF Threads, IInv, OneWrites, OneTurn, Places,
       InOrder, Writing, Filled, TypeOK, Data, Release, Goto, Decref,
       Unheld, fields, buffer, ops, local, past
<1>7. InOrder'
  BY SMTT(30), OverlappedAssumption DEF Threads, IInv, InOrder, Writing, Filled,
       OneWrites, OneTurn, Places, Marked, TypeOK, Data, Release, Goto,
       Decref, Unheld, fields, buffer, ops, local, past
<1>8. Marked'
  BY OverlappedAssumption DEF Threads, IInv, Marked, TypeOK, Data,
       Release, Goto, Decref, Unheld, fields, buffer, ops, local, past
<1>9. StaysRead'
  BY OverlappedAssumption DEF Threads, IInv, StaysRead, Marked, TypeOK,
       Data, Places, Release, Goto, Decref, Unheld, fields, buffer, ops,
       local, past
<1>10. Gone'
  <2>1. Decref /\ Caller \in Threads /\ \A u \in Threads \ {Caller} : pc'[u] = pc[u] /\ ev'[u] = ev[u]
    BY OverlappedAssumption DEF IInv, TypeOK, Data, Places, Threads,
         Release, Goto
  <2>2. Caller = Caller \/ pc'[Caller] = "idle" \/ ev'[Caller] # None \/ Unheld(Caller)
    BY OverlappedAssumption DEF IInv, TypeOK, Data, Places, Threads,
         Unheld, Release, Goto
  <2>. QED  BY <2>1, <2>2, <1>1, <1>2, GoneAtLast
<1>. QED  BY <1>1, <1>2, <1>3, <1>4, <1>5, <1>6, <1>7, <1>8, <1>9, <1>10 DEF IInv

-----------------------------------------------------------------------------
\* The invariant holds at first.
LEMMA Starts == ASSUME Init PROVE IInv
<1>1. /\ Handled = {} /\ Refused = {} /\ pc[Caller] = "idle" /\ port = {}
      /\ \/ flight = {} /\ refc = 0
         \/ flight = {Op("connect", <<>>)} /\ refc = 1
  BY OverlappedAssumption DEF Init, Handled, Refused, Threads
<1>2. Counted
  <2>1. Cardinality(Calling) = 0
    BY <1>1, CallingCounts DEF Calling
  <2>2. /\ Cardinality(Handled) = 0 /\ Cardinality(Refused) = 0 /\ Cardinality(port) = 0
        /\ IsFiniteSet(Handled) /\ IsFiniteSet(Refused) /\ IsFiniteSet(port)
    BY <1>1, FS_EmptySet
  <2>3. IsFiniteSet(flight) /\ Cardinality(flight) = refc /\ refc \in Nat
    <3>1. CASE flight = {} /\ refc = 0
      BY <3>1, FS_EmptySet
    <3>2. CASE flight = {Op("connect", <<>>)} /\ refc = 1
      <4>. DEFINE op == Op("connect", <<>>)
      <4>1. IsFiniteSet({op}) /\ Cardinality({op}) = 1
        BY FS_Singleton
      <4>. QED  BY <3>2, <4>1
    <3>. QED  BY <1>1, <3>1, <3>2
  <2>. QED  BY <2>1, <2>2, <2>3 DEF Counted, References
<1>3. TypeOK
  <2>1. /\ origin \in {"connected", "accepted"} /\ life = "live" /\ cancelled = FALSE
        /\ is_writing = FALSE /\ mx = None /\ happened = {}
        /\ s \in {"trying", "up"} /\ refc \in Nat
    BY DEF Init
  <2>2. \/ pc = [t \in Threads |-> "idle"]
        \/ \E w \in Workers : pc = [t \in Threads |-> IF t = w THEN "accepted" ELSE "idle"]
    BY DEF Init
  <2>. QED  BY <2>1, <2>2 DEF TypeOK
<1>4. Data
  BY DEF Init, Data, Operations
<1>5. Places
  BY OverlappedAssumption DEF Init, Places, Threads
<1>6. OneReads /\ OneWrites
  BY OverlappedAssumption DEF Init, OneReads, OneWrites, OneTurn, Threads, Op
<1>7. InOrder
  <2>1. /\ sent = <<>> /\ wrb = <<>> /\ written = 0 /\ nu = [t \in Threads |-> None]
        /\ port = {} /\ \A t \in Threads : pc[t] # "write"
        /\ flight \subseteq {Op("connect", <<>>)}
    BY DEF Init
  <2>2. ~Writing /\ \A t \in Threads : ~Filled(t)
    BY <2>1 DEF Writing, Filled, Op
  <2>3. Follow(0, <<>>)
    BY DEF Follow
  <2>. QED  BY <2>1, <2>2, <2>3 DEF InOrder
<1>8. Marked
  BY DEF Init, Marked
<1>9. StaysRead
  <2>1. CASE flight = {Op("connect", <<>>)}
    <3>1. Op("connect", <<>>) \in flight /\ Op("connect", <<>>).kind = "connect"
      BY <2>1 DEF Op
    <3>. QED  BY <3>1 DEF StaysRead
  <2>2. CASE \E w \in Workers : pc = [t \in Threads |-> IF t = w THEN "accepted" ELSE "idle"]
    BY <2>2 DEF StaysRead, Threads
  <2>. QED  BY <2>1, <2>2 DEF Init
<1>10. Gone
  BY DEF Init, Gone
<1>. QED  BY <1>2, <1>3, <1>4, <1>5, <1>6, <1>7, <1>8, <1>9, <1>10 DEF IInv

\* ... and is kept by every step.
LEMMA Steps == ASSUME IInv, [Next]_vars PROVE IInv'
<1>1. CASE UNCHANGED vars
  BY <1>1 DEF vars, fields, buffer, ops, local, past, IInv, TypeOK, Data, Places,
       Counted, References, Handled, Refused, Calling, OneReads, OneWrites, OneTurn,
       InOrder, Writing, Filled, Marked, StaysRead, Gone
<1>2. CASE Next
  <2>1. "early" \notin happened
    BY <1>2 DEF Next
  <2>2. ASSUME NEW t \in Threads, Proceed(t) PROVE IInv'
    BY <2>1, <2>2, KeepsIntroduce, KeepsArrive, KeepsSpawnReader, KeepsWrote,
         KeepsSpawnWriter, KeepsSend, KeepsCancelNot, KeepsCancel, KeepsMark,
         KeepsClose, KeepsDrop, KeepsDelete, KeepsUnlock DEF Proceed
  <2>3. CASE Call \/ Return
    BY <2>3, KeepsCallWrite, KeepsCallCancel, KeepsAppendByte, KeepsRelease
       DEF Call, Return
  <2>4. CASE \E op \in flight, failed \in BOOLEAN : Complete(op, failed)
    BY <2>4, KeepsComplete
  <2>5. CASE ConnectDropped
    BY <2>5, KeepsConnectDropped
  <2>6. CASE \E t \in Workers, e \in port : Dequeue(t, e)
    BY <2>6, KeepsDequeue
  <2>. QED  BY <1>2, <2>2, <2>3, <2>4, <2>5, <2>6 DEF Next
<1>. QED  BY <1>1, <1>2

\* The inductive invariant holds in every state.
THEOREM Invariance == Spec => []IInv
<1>. QED  BY Starts, Steps, PTL DEF Spec

\* HoldsExact: every reference to the connection is one of an operation that
\* is under way or of a call, and it is deleted when the last is given back
\* (nt/overlapped.cc:11-29, nt/iocp.cc:143-155).
THEOREM ReferencesAreExact == Spec => []HoldsExact
<1>1. IInv => HoldsExact
  BY DEF IInv, HoldsExact, Counted, Gone
<1>. QED  BY <1>1, Invariance, PTL

\* SentInOrder: bytes leave in the order in which they were written, each once
\* (nt/connection.cc:51-62, 92-100; nt/owriter.cc:14-49).
THEOREM BytesLeaveInOrder == Spec => []SentInOrder
<1>1. ASSUME IInv PROVE SentInOrder
  <2>. DEFINE holders == {u \in Threads : nu[u] # None}
              taken == UNION {ToSet(nu[t].data) : t \in holders}
  <2>1. \A i \in DOMAIN sent : sent[i] = i
    <3>1. \A i \in DOMAIN sent : i \in Nat /\ 0 + i = i
      BY <1>1, LenProperties DEF IInv, Data
    <3>. QED  BY <1>1, <3>1 DEF IInv, InOrder, Follow
  <2>2. \A t \in holders : ~Filled(t) => ToSet(nu[t].data) = {}
    <3>. SUFFICES ASSUME NEW t \in holders, ~Filled(t) PROVE ToSet(nu[t].data) = {}
      OBVIOUS
    <3>1. nu[t].data = <<>>
      BY <1>1, Kinds DEF IInv, Data, Filled
    <3>. QED  BY <3>1 DEF ToSet
  <2>3. CASE \A t \in Threads : ~Filled(t)
    <3>1. taken = {}
      BY <2>2, <2>3
    <3>2. Cardinality(taken) = 0
      BY <3>1, FS_EmptySet
    <3>3. ~cancelled => Len(sent) + Len(wrb) = written
      BY <1>1, <2>3 DEF IInv, InOrder
    <3>4. Len(sent) \in Nat /\ Len(wrb) \in Nat
      BY <1>1 DEF IInv, Data
    <3>5. ~cancelled => Len(sent) + Cardinality(taken) + Len(wrb) = written
      BY <3>2, <3>3, <3>4
    <3>. QED  BY <2>1, <3>5 DEF SentInOrder
  <2>4. CASE \E t \in Threads : Filled(t)
    <3>1. PICK t \in Threads : Filled(t)
      BY <2>4
    <3>. DEFINE list == nu[t].data
    <3>2. t \in holders /\ list \in Seq(Nat)
      BY <1>1, <3>1, Kinds DEF IInv, Data, Filled
    <3>3. /\ \A u \in Threads : Filled(u) => u = t
          /\ Follow(Len(sent), list) /\ Len(sent) + Len(list) + Len(wrb) = written
      BY <1>1, <3>1 DEF IInv, InOrder
    <3>4. taken = ToSet(list)
      BY <2>2, <3>2, <3>3
    <3>. HIDE DEF list
    <3>5. Len(sent) \in Nat /\ Len(list) \in Nat /\ Len(wrb) \in Nat /\ DOMAIN list = 1..Len(list)
      BY <1>1, <3>2, LenProperties DEF IInv, Data
    <3>6. ToSet(list) = Len(sent) + 1..Len(sent) + Len(list)
      <4>1. \A i \in 1..Len(list) : list[i] = Len(sent) + i
        BY <3>3, <3>5 DEF Follow
      <4>2. \A x \in Len(sent) + 1..Len(sent) + Len(list) :
              x - Len(sent) \in 1..Len(list) /\ x = Len(sent) + (x - Len(sent))
        BY <3>5
      <4>3. \A i \in 1..Len(list) : Len(sent) + i \in Len(sent) + 1..Len(sent) + Len(list)
        BY <3>5
      <4>4. ToSet(list) = {list[i] : i \in 1..Len(list)}
        BY <3>5 DEF ToSet
      <4>5. \A i \in 1..Len(list) : list[i] \in Len(sent) + 1..Len(sent) + Len(list)
        BY <4>1, <4>3
      <4>6. \A x \in Len(sent) + 1..Len(sent) + Len(list) : list[x - Len(sent)] = x
        BY <4>1, <4>2
      <4>7. ToSet(list) \subseteq Len(sent) + 1..Len(sent) + Len(list)
        BY <4>4, <4>5
      <4>8. Len(sent) + 1..Len(sent) + Len(list) \subseteq ToSet(list)
        BY <4>2, <4>4, <4>6
      <4>. QED  BY <4>7, <4>8
    <3>7. Cardinality(ToSet(list)) = Len(list)
      <4>. DEFINE a == Len(sent) + 1
                  b == Len(sent) + Len(list)
      <4>1. a \in Int /\ b \in Int /\ (a > b => Len(list) = 0) /\ b - a + 1 = Len(list)
        BY <3>5
      <4>. HIDE DEF a, b
      <4>2. Cardinality(a..b) = IF a > b THEN 0 ELSE b - a + 1
        BY <4>1, FS_Interval
      <4>3. Cardinality(a..b) = Len(list)
        BY <4>1, <4>2
      <4>. QED  BY <3>6, <4>3 DEF a, b
    <3>. QED  BY <2>1, <3>3, <3>4, <3>7 DEF SentInOrder
  <2>. QED  BY <2>3, <2>4
<1>. QED  BY <1>1, Invariance, PTL

\* ClosedOnce: rop_close is told once, unless two threads find the connection
\* not yet cancelled (nt/connection.cc:37-48).
THEOREM CloseIsToldOnce == Spec => []ClosedOnce
<1>1. IInv => ClosedOnce
  BY DEF IInv, ClosedOnce, Marked
<1>. QED  BY <1>1, Invariance, PTL

\* StaysRead: a connection that is not cancelled is read from, or about to be
\* (nt/connection.cc:80-86, 103-129; nt/oreader.cc:15-44).
THEOREM ConnectionStaysRead == Spec => []StaysRead
<1>1. IInv => StaysRead
  BY DEF IInv
<1>. QED  BY <1>1, Invariance, PTL
=============================================================================

---------------------------- MODULE GetSrvProofs ----------------------------
(***************************************************************************)
(* Of GetSrv, for any answers, addresses, servers and cancellations: the   *)
(* handler of a service is told once, and a request is deleted under fewer *)
(* holders than it had ends (IInv, see GetSrv); an address is used with    *)
(* the records it was asked for, servers are tried by priority, and every  *)
(* one that has a weight may be the first of its priority (OrderInv).      *)
(*                                                                         *)
(* What is defined by recursion over a list (Sums, Sorting, WithAddresses) *)
(* is reasoned about by Induction: the set of the lengths for which there  *)
(* is such a function, or for which it has a property, is all of Nat.      *)
(***************************************************************************)
EXTENDS GetSrv, SequenceTheorems, FiniteSetTheorems, WellFoundedInduction, TLAPS

-----------------------------------------------------------------------------
\* The threads are three.
LEMMA Three ==
    /\ Threads = {Worker, Monitor, Caller}
    /\ Worker # Monitor /\ Worker # Caller /\ Monitor # Caller
  BY GetSrvAssumption DEF Threads

\* What a handler may be told.
Words == {"connected", "unavailable", "not found"}

\* How much has been told: nothing, or that there is a connection.
LEMMA Lengths ==
    ASSUME NEW s \in Seq(Words)
    PROVE  /\ Len(s) \in Nat
           /\ s = <<>> <=> Len(s) = 0
           /\ s = <<"connected">> => Len(s) = 1
  OBVIOUS

\* What telling one thing more makes of it.
LEMMA Said ==
    ASSUME NEW s \in Seq(Words), NEW w \in Words
    PROVE  /\ Append(s, w) \in Seq(Words)
           /\ Len(Append(s, w)) = Len(s) + 1
           /\ Len(s) \in Nat
           /\ Append(s, w) # <<>>
           /\ s = <<>> => Append(s, w) = <<w>>
<1>1. Append(s, w) = s \o <<w>>
  BY AppendIsConcat
<1>2. s = <<>> => s \o <<w>> = <<w>>
  BY ConcatEmptySeq
<1>. QED  BY <1>1, <1>2, AppendProperties, LenProperties

\* The same of what this handler was told.
LEMMA ToldLength ==
    ASSUME Steps
    PROVE  /\ Len(told) \in Nat
           /\ told = <<>> <=> Len(told) = 0
           /\ told = <<"connected">> => Len(told) = 1
  BY Lengths DEF Steps, Words

\* What a thread owes as a number.
LEMMA OwedValue ==
    ASSUME Steps
    PROVE  \A t \in Threads : /\ Holds(t) \in {0, 1} /\ (Holds(t) = 0 <=> ~held[t])
                              /\ Pending(t) \in {0, 1} /\ Owed(t) \in 0 .. 2
<1>1. ASSUME NEW t \in Threads
      PROVE  Holds(t) \in {0, 1} /\ (Holds(t) = 0 <=> ~held[t])
  <2>1. CASE held[t]
    BY <2>1 DEF Holds
  <2>2. CASE ~held[t]
    BY <2>2 DEF Holds
  <2>. QED  BY <2>1, <2>2
<1>2. ASSUME NEW t \in Threads PROVE Pending(t) \in {0, 1}
  BY DEF Pending
<1>. QED  BY <1>1, <1>2 DEF Owed

\* Ends as a number.
LEMMA Endings ==
    ASSUME Steps
    PROVE  /\ Len(told) \in Nat /\ cancels \in Nat /\ Ends \in Nat
           /\ expired => Ends = cancels + Len(told) + 1
           /\ ~expired => Ends = cancels + Len(told)
<1>1. Len(told) \in Nat /\ cancels \in Nat
  BY Lengths DEF Steps, Words
<1>2. CASE expired
  BY <1>1, <1>2 DEF Ends
<1>3. CASE ~expired
  BY <1>1, <1>3 DEF Ends
<1>. QED  BY <1>1, <1>2, <1>3

\* The telling of one thing more: before it, if it is the only end, was none.
LEMMA Telling ==
    ASSUME Steps, NEW w \in Words, Tell(w), UNCHANGED <<cancels, expired>>
    PROVE  /\ told' \in Seq({"connected", "unavailable", "not found"})
           /\ told' # <<>>
           /\ told = <<>> => Len(told') = 1 /\ told' = <<w>>
           /\ told # <<>> => Len(told') >= 2
           /\ Ends' = Ends + 1
<1>1. /\ told' \in Seq(Words) /\ told' # <<>> /\ Len(told) \in Nat /\ Len(told') = Len(told) + 1
      /\ told = <<>> => told' = <<w>>
      /\ told = <<>> <=> Len(told) = 0
  BY Said, Lengths DEF Steps, Words, Tell
<1>2. Ends' = Ends + 1
  <2>1. CASE expired
    BY <1>1, <2>1, Endings DEF Ends
  <2>2. CASE ~expired
    BY <1>1, <2>2, Endings DEF Ends
  <2>. QED  BY <2>1, <2>2
<1>4. (told = <<>> => Len(told') = 1) /\ (told # <<>> => Len(told') >= 2)
  BY <1>1
<1>. QED  BY <1>1, <1>2, <1>4 DEF Words

\* What there is to take from is as much more as what one thread owes.
LEMMA Balance ==
    ASSUME IInv, NEW t \in Threads, NEW n \in Int,
           \A u \in Threads \ {t} : Owed(u)' = Owed(u),
           Owed(t)' = Owed(t) + n, refc' + Ends' >= refc + Ends + n,
           refc' + Ends' \in Int
    PROVE  References'
<1>1. refc + Ends >= 1 + Owed(Worker) + Owed(Monitor) + Owed(Caller)
  BY DEF IInv, References
<1>2. /\ refc + Ends \in Int
      /\ Owed(Worker) \in 0 .. 2 /\ Owed(Monitor) \in 0 .. 2 /\ Owed(Caller) \in 0 .. 2
  <2>1. refc \in Int /\ Ends \in Nat
    BY Endings DEF IInv, Steps
  <2>2. Owed(Worker) \in 0 .. 2 /\ Owed(Monitor) \in 0 .. 2 /\ Owed(Caller) \in 0 .. 2
    BY OwedValue, Three DEF IInv
  <2>. QED  BY <2>1, <2>2
<1>3. CASE t = Worker
  <2>1. Owed(Monitor)' = Owed(Monitor) /\ Owed(Caller)' = Owed(Caller) /\ Owed(Worker)' = Owed(Worker) + n
    BY <1>3, Three
  <2>. QED  BY <1>1, <1>2, <2>1 DEF References
<1>4. CASE t = Monitor
  <2>1. Owed(Worker)' = Owed(Worker) /\ Owed(Caller)' = Owed(Caller) /\ Owed(Monitor)' = Owed(Monitor) + n
    BY <1>4, Three
  <2>. QED  BY <1>1, <1>2, <2>1 DEF References
<1>5. CASE t = Caller
  <2>1. Owed(Worker)' = Owed(Worker) /\ Owed(Monitor)' = Owed(Monitor) /\ Owed(Caller)' = Owed(Caller) + n
    BY <1>5, Three
  <2>. QED  BY <1>1, <1>2, <2>1 DEF References
<1>. QED  BY <1>3, <1>4, <1>5, Three

\* A step that neither ends nor counts.
LEMMA QuietReferences ==
    ASSUME IInv, UNCHANGED <<refc, held, told, cancels, expired>>,
           \A u \in Threads : pc'[u] \in {"cancel", "delete"} <=> pc[u] \in {"cancel", "delete"}
    PROVE  References'
<1>1. Ends' = Ends
  BY DEF Ends
<1>2. \A u \in Threads : Holds(u)' = Holds(u) /\ Pending(u)' = Pending(u)
  BY DEF Holds, Pending
<1>3. \A u \in Threads : Owed(u)' = Owed(u)
  BY <1>2 DEF Owed
<1>. QED  BY <1>1, <1>3, Three DEF IInv, References

\* A thread that tells the handler ends the request next.
LEMMA ToldReferences ==
    ASSUME IInv, NEW w \in Words, Tell(w), UNCHANGED <<object, held, cancels, expired>>,
           NEW t \in Threads, NEW l \in {"cancel", "delete"}, Goto(t, l),
           pc[t] \notin {"cancel", "delete"}
    PROVE  References'
<1>1. Ends' = Ends + 1 /\ refc' = refc
  BY Telling DEF IInv, object
<1>2. \A u \in Threads \ {t} : Owed(u)' = Owed(u)
  BY DEF IInv, Steps, Goto, Owed, Holds, Pending
<1>3. Owed(t)' = Owed(t) + 1
  <2>1. Holds(t)' = Holds(t) /\ Holds(t) \in {0, 1}
    BY OwedValue DEF IInv, Holds
  <2>2. Pending(t) = 0 /\ Pending(t)' = 1
    BY DEF IInv, Steps, Goto, Pending
  <2>. QED  BY <2>1, <2>2 DEF Owed
<1>4. refc \in Int /\ Ends \in Nat
  BY Endings DEF IInv, Steps
<1>5. refc' + Ends' >= refc + Ends + 1 /\ refc' + Ends' \in Int
  BY <1>1, <1>4
<1>. QED  BY <1>2, <1>3, <1>5, Balance

\* It was alone with the request, and then has told it the one thing.
LEMMA ToldAlone ==
    ASSUME IInv, NEW w \in Words, Tell(w), UNCHANGED <<cancels, expired>>,
           NEW t \in Threads, NEW l \in {"cancel", "delete"}, Goto(t, l),
           ~raced' => told = <<>> /\ \A u \in Threads : pc[u] # "idle" => u = t
    PROVE  Alone'
<1>1. SUFFICES ASSUME ~raced' PROVE Alone'
  BY DEF Alone
<1>2. Len(told') = 1
  BY <1>1, Telling DEF IInv
<1>3. \A u \in Threads : u # t => pc'[u] = "idle"
  BY Zenon, <1>1 DEF IInv, Steps, Goto
<1>4. pc'[t] = l
  BY Zenon DEF IInv, Steps, Goto
<1>. QED  BY <1>2, <1>3, <1>4 DEF Alone

\* An answer finds the request in the queue ...
LEMMA AnswerStep ==
    ASSUME IInv, Answer
    PROVE  IInv'
<1>. USE Three DEF Answer, Enter, Goto, Touch, object, local, past
<1>1. Steps'
  BY DEF IInv, Steps
<1>2. Alone'
  BY DEF IInv, Steps, Alone
<1>3. Reasons'
  BY DEF IInv, Steps, Reasons
<1>4. References'
  <2>1. \A u \in Threads : pc'[u] \in {"cancel", "delete"} <=> pc[u] \in {"cancel", "delete"}
    BY DEF IInv, Steps
  <2>. QED  BY <2>1, QuietReferences
<1>. QED  BY <1>1, <1>2, <1>3, <1>4 DEF IInv

\* ... and takes a reference, even to what is gone.
LEMMA PickedStep ==
    ASSUME IInv, NEW a, Picked(a)
    PROVE  IInv'
<1>. USE Three DEF Picked, Goto
<1>1. Steps'
  <2>1. refc \in Int /\ refc' = refc + 1
    BY DEF IInv, Steps
  <2>2. refc' \in Int
    BY <2>1
  <2>3. /\ life' \in {"live", "gone"} /\ {cancelled', listed', raced', expired'} \subseteq BOOLEAN
        /\ told' \in Seq({"connected", "unavailable", "not found"}) /\ cancels' \in Nat
        /\ rc' \in {"success", "unavailable"}
    BY Zenon DEF IInv, Steps
  <2>. QED  BY <2>2, <2>3 DEF IInv, Steps
<1>2. Alone'
  BY DEF IInv, Steps, Alone
<1>3. Reasons'
  BY DEF IInv, Steps, Reasons
<1>4. References'
  <2>1. \A u \in Threads \ {Worker} : Owed(u)' = Owed(u)
    BY DEF IInv, Steps, Owed, Holds, Pending
  <2>2. Owed(Worker)' = Owed(Worker) + 1
    <3>1. Holds(Worker) = 0 /\ Holds(Worker)' = 1 /\ Pending(Worker) = 0 /\ Pending(Worker)' = 0
      BY DEF IInv, Steps, Holds, Pending
    <3>. QED  BY <3>1 DEF Owed
  <2>3. refc' = refc + 1 /\ Ends' = Ends
    BY DEF Ends
  <2>. HIDE DEF Picked, Goto
  <2>4. refc \in Int /\ Ends \in Nat
    BY Endings DEF IInv, Steps
  <2>5. refc' + Ends' >= refc + Ends + 1 /\ refc' + Ends' \in Int
    BY <2>3, <2>4
  <2>. QED  BY <2>1, <2>2, <2>5, Balance
<1>. QED  BY <1>1, <1>2, <1>3, <1>4 DEF IInv

\* The records of an answer are read by a thread that holds the request.
LEMMA NowhereStep ==
    ASSUME IInv, RecordNowhere
    PROVE  IInv'
<1>. USE Three DEF RecordNowhere, Goto, object, past
<1>1. Steps'
  BY DEF IInv, Steps
<1>2. Alone'
  BY DEF IInv, Steps, Alone
<1>3. Reasons'
  BY DEF IInv, Steps, Reasons
<1>4. References'
  <2>1. \A u \in Threads : pc'[u] \in {"cancel", "delete"} <=> pc[u] \in {"cancel", "delete"}
    BY DEF IInv, Steps
  <2>. QED  BY <2>1, QuietReferences
<1>. QED  BY <1>1, <1>2, <1>3, <1>4 DEF IInv

LEMMA RecordStep ==
    ASSUME IInv, NEW ask, Record(ask)
    PROVE  IInv'
<1>. USE Three DEF Record, object, past
<1>1. Steps'
  BY DEF IInv, Steps
<1>2. Alone'
  BY DEF IInv, Steps, Alone
<1>3. Reasons'
  BY DEF IInv, Steps, Reasons
<1>4. References'
  <2>1. \A u \in Threads : pc'[u] \in {"cancel", "delete"} <=> pc[u] \in {"cancel", "delete"}
    BY DEF IInv, Steps
  <2>. QED  BY <2>1, QuietReferences
<1>. QED  BY <1>1, <1>2, <1>3, <1>4 DEF IInv

LEMMA RecordsEndStep ==
    ASSUME IInv, RecordsEnd
    PROVE  IInv'
<1>. USE Three DEF RecordsEnd, Goto, object, local, past
<1>1. Steps'
  BY DEF IInv, Steps
<1>2. Alone'
  BY DEF IInv, Steps, Alone
<1>3. Reasons'
  BY DEF IInv, Steps, Reasons
<1>4. References'
  <2>1. \A u \in Threads : pc'[u] \in {"cancel", "delete"} <=> pc[u] \in {"cancel", "delete"}
    BY DEF IInv, Steps
  <2>. QED  BY <2>1, QuietReferences
<1>. QED  BY <1>1, <1>2, <1>3, <1>4 DEF IInv

\* No server: the handler is told, and the request ended.
LEMMA NothingFoundStep ==
    ASSUME IInv, NothingFound
    PROVE  IInv'
<1>. DEFINE w == IF rc = "success" THEN "not found" ELSE "unavailable"
<1>1. w \in Words /\ Tell(w) /\ UNCHANGED <<object, held, cancels, expired>>
  BY Zenon DEF NothingFound, Words, past
<1>2. Goto(Worker, "cancel")
  BY DEF NothingFound
<1>. HIDE DEF w
<1>3. Steps'
  BY <1>1, <1>2, Telling, Three DEF IInv, Steps, Goto, object, NothingFound, local
<1>4. Alone'
  <2>1. ~raced' => told = <<>> /\ \A u \in Threads : pc[u] # "idle" => u = Worker
    BY Zenon, Three DEF IInv, Alone, NothingFound
  <2>. QED  BY <1>1, <1>2, <2>1, ToldAlone, Three
<1>5. Reasons'
  BY <1>1, <1>2, Telling, Three DEF IInv, Steps, Reasons, Goto, object
<1>6. References'
  <2>1. pc[Worker] \notin {"cancel", "delete"} /\ Worker \in Threads
    BY Three DEF NothingFound
  <2>. QED  BY <1>1, <1>2, <2>1, ToldReferences
<1>. QED  BY <1>3, <1>4, <1>5, <1>6 DEF IInv

LEMMA SomeFoundStep ==
    ASSUME IInv, SomeFound
    PROVE  IInv'
<1>. USE Three DEF SomeFound, Goto, object, local, past
<1>1. Steps'
  BY DEF IInv, Steps
<1>2. Alone'
  BY DEF IInv, Steps, Alone
<1>3. Reasons'
  BY DEF IInv, Steps, Reasons
<1>4. References'
  <2>1. \A u \in Threads : pc'[u] \in {"cancel", "delete"} <=> pc[u] \in {"cancel", "delete"}
    BY DEF IInv, Steps
  <2>. QED  BY <2>1, QuietReferences
<1>. QED  BY <1>1, <1>2, <1>3, <1>4 DEF IInv

\* A thread that resolves a host has the request to itself, or meets another.
LEMMA ResolvedStep ==
    ASSUME IInv, NEW t, NEW q, NEW n, Resolved(t, q, n)
    PROVE  IInv'
<1>1. /\ t \in Threads /\ pc[t] = "idle" /\ t \in {Worker, Monitor}
      /\ \/ listed /\ Touch(t) /\ (Goto(t, "next") \/ pc' = pc)
         \/ UNCHANGED <<pc, raced>>
      /\ UNCHANGED <<object, held, local, told, past>>
  BY Zenon, Three DEF Resolved, local, object, past
<1>. USE Three DEF Goto, Touch, object, local, past
<1>2. Steps'
  BY <1>1 DEF IInv, Steps
<1>3. Alone'
  <2>1. CASE UNCHANGED <<pc, raced>>
    BY Zenon, <1>1, <2>1 DEF IInv, Alone
  <2>2. CASE listed /\ Touch(t) /\ (Goto(t, "next") \/ pc' = pc)
    <3>1. SUFFICES ASSUME ~raced' PROVE Alone'
      BY DEF Alone
    <3>2. ~raced /\ \A u \in Threads : pc[u] = "idle"
      BY Zenon, <1>1, <2>2, <3>1
    <3>3. told = <<>> /\ told' = told /\ Len(told) = 0
      BY <1>1, <2>2, <3>2, ToldLength DEF IInv, Alone
    <3>4. \A u \in Threads : u # t => pc'[u] = "idle"
      BY Zenon, <1>1, <2>2, <3>2 DEF IInv, Steps
    <3>. QED  BY <3>3, <3>4 DEF Alone
  <2>. QED  BY <1>1, <2>1, <2>2
<1>4. Reasons'
  BY <1>1 DEF IInv, Steps, Reasons
<1>5. References'
  <2>1. \A u \in Threads : pc'[u] \in {"cancel", "delete"} <=> pc[u] \in {"cancel", "delete"}
    BY <1>1 DEF IInv, Steps
  <2>. QED  BY <1>1, <2>1, QuietReferences
<1>. QED  BY <1>2, <1>3, <1>4, <1>5 DEF IInv

\* No server is left: the handler is told, and the request ended.
LEMMA NoServerLeftStep ==
    ASSUME IInv, NEW t \in Threads, NoServerLeft(t)
    PROVE  IInv'
<1>. DEFINE w == "unavailable"
<1>1. w \in Words /\ Tell(w) /\ UNCHANGED <<object, held, cancels, expired>>
  BY Zenon DEF NoServerLeft, Words, past
<1>2. Goto(t, "cancel")
  BY DEF NoServerLeft
<1>. HIDE DEF w
<1>3. pc[t] = "next" /\ t \in {Worker, Monitor}
  BY Three DEF IInv, Steps, NoServerLeft
<1>4. Steps'
  <2>1. CASE t = Worker
    BY ZenonT(30), <2>1, <1>1, <1>2, Telling, Three DEF IInv, Steps, Goto, object, NoServerLeft, local
  <2>2. CASE t = Monitor
    BY ZenonT(30), <2>2, <1>1, <1>2, Telling, Three DEF IInv, Steps, Goto, object, NoServerLeft, local
  <2>. QED  BY <1>3, <2>1, <2>2
<1>5. Alone'
  <2>1. ~raced' => told = <<>> /\ \A u \in Threads : pc[u] # "idle" => u = t
    BY Zenon, Three DEF IInv, Alone, NoServerLeft
  <2>. QED  BY <1>1, <1>2, <2>1, ToldAlone, Three
<1>6. Reasons'
  <2>1. pc'[Worker] = "delete" => pc[Worker] = "delete"
    BY <1>2, <1>3, Three DEF IInv, Steps, Goto
  <2>2. pc'[Worker] = "delete" => told # <<>>
    BY <2>1, ToldLength DEF IInv, Reasons
  <2>3. held'[Caller] => cancels' > 0
    BY Zenon, <1>1 DEF IInv, Reasons
  <2>4. expired' /\ listed' => pc'[Monitor] = "cancel"
    BY Zenon, <1>1, <1>2, <1>3, Three DEF IInv, Steps, Reasons, Goto, object
  <2>5. told' # <<>>
    BY <1>1, Telling DEF IInv
  <2>. QED  BY <2>3, <2>4, <2>5 DEF Reasons
<1>7. References'
  <2>. QED  BY <1>1, <1>2, <1>3, ToldReferences
<1>. QED  BY <1>4, <1>5, <1>6, <1>7 DEF IInv

\* Servers are passed over or tried by a thread that has told nobody.
LEMMA PassStep ==
    ASSUME IInv, NEW t \in Threads, Pass(t)
    PROVE  IInv'
<1>. USE Three DEF Pass, object, local, past
<1>1. Steps'
  BY DEF IInv, Steps
<1>2. Alone'
  BY DEF IInv, Steps, Alone
<1>3. Reasons'
  BY DEF IInv, Steps, Reasons
<1>4. References'
  <2>1. \A u \in Threads : pc'[u] \in {"cancel", "delete"} <=> pc[u] \in {"cancel", "delete"}
    BY DEF IInv, Steps
  <2>. QED  BY <2>1, QuietReferences
<1>. QED  BY <1>1, <1>2, <1>3, <1>4 DEF IInv

LEMMA TryStep ==
    ASSUME IInv, NEW t \in Threads, Try(t)
    PROVE  IInv'
<1>. USE Three DEF Try, Goto, object, local, past
<1>1. Steps'
  BY DEF IInv, Steps
<1>2. Alone'
  BY DEF IInv, Steps, Alone
<1>3. Reasons'
  BY DEF IInv, Steps, Reasons
<1>4. References'
  <2>1. \A u \in Threads : pc'[u] \in {"cancel", "delete"} <=> pc[u] \in {"cancel", "delete"}
    BY DEF IInv, Steps
  <2>. QED  BY <2>1, QuietReferences
<1>. QED  BY <1>1, <1>2, <1>3, <1>4 DEF IInv

\* The connection is up: the handler is told, and the request deleted next.
LEMMA ConnectedStep ==
    ASSUME IInv, NEW c, Connected(c)
    PROVE  IInv'
<1>1. CASE listed
  <2>. DEFINE w == "connected"
  <2>1. w \in Words /\ Tell(w) /\ UNCHANGED <<object, held, cancels, expired>>
    BY Zenon, <1>1 DEF Connected, Enter, Words, past
  <2>2. Goto(Worker, "delete")
    BY <1>1 DEF Connected, Enter
  <2>3. Steps'
    <3>1. raced' \in BOOLEAN /\ pc[Worker] = "idle" /\ rc' = rc
      BY Zenon, <1>1 DEF IInv, Steps, Connected, Enter, Touch, local
    <3>. HIDE DEF w
    <3>. QED  BY <2>1, <2>2, <3>1, Telling, Three DEF IInv, Steps, Goto, object
  <2>4. Alone'
    <3>1. ~raced' => told = <<>> /\ \A u \in Threads : pc[u] # "idle" => u = Worker
      BY Zenon, <1>1, Three DEF IInv, Alone, Connected, Enter, Touch
    <3>. QED  BY <2>1, <2>2, <3>1, ToldAlone, Three
  <2>5. Reasons'
    <3>1. held'[Caller] => cancels' > 0
      BY Zenon, <2>1 DEF IInv, Reasons
    <3>2. told' # <<>>
      BY <2>1, Telling DEF IInv
    <3>3. expired' /\ listed' => pc'[Monitor] = "cancel"
      BY Zenon, <2>1, <2>2, Three DEF IInv, Steps, Reasons, Goto, object
    <3>. QED  BY <3>1, <3>2, <3>3 DEF Reasons
  <2>6. References'
    <3>1. pc[Worker] \notin {"cancel", "delete"} /\ Worker \in Threads
      BY Three DEF Connected
    <3>. QED  BY <2>1, <2>2, <3>1, ToldReferences
  <2>. QED  BY <2>3, <2>4, <2>5, <2>6 DEF IInv
<1>2. CASE ~listed
  <2>. USE <1>2 DEF Connected, object, local, past
  <2>1. Steps'
    BY DEF IInv, Steps
  <2>2. Alone'
    BY DEF IInv, Alone
  <2>3. Reasons'
    BY DEF IInv, Reasons
  <2>4. References'
    BY QuietReferences
  <2>. QED  BY <2>1, <2>2, <2>3, <2>4 DEF IInv
<1>. QED  BY <1>1, <1>2

\* The deletion after a connection, which was told, pays what it owes with that.
LEMMA DeleteStep ==
    ASSUME IInv, Delete
    PROVE  IInv'
<1>. USE Three DEF Delete, Goto, local, past
<1>1. Steps'
  BY DEF IInv, Steps
<1>2. Alone'
  BY DEF IInv, Steps, Alone
<1>3. Reasons'
  BY DEF IInv, Steps, Reasons
<1>4. References'
  <2>1. \A u \in Threads \ {Worker} : Owed(u)' = Owed(u)
    BY DEF IInv, Steps, Owed, Holds, Pending
  <2>2. Owed(Worker)' = Owed(Worker) + (-1)
    <3>1. Holds(Worker)' = Holds(Worker) /\ Pending(Worker) = 1 /\ Pending(Worker)' = 0
      BY DEF IInv, Steps, Holds, Pending
    <3>2. Holds(Worker) \in {0, 1}
      BY OwedValue DEF IInv
    <3>. QED  BY <3>1, <3>2 DEF Owed
  <2>3. refc' = refc /\ Ends' = Ends
    BY DEF Ends
  <2>. HIDE DEF Delete, Goto
  <2>4. refc \in Int /\ Ends \in Nat
    BY Endings DEF IInv, Steps
  <2>5. refc' + Ends' >= refc + Ends + (-1) /\ refc' + Ends' \in Int
    BY <2>3, <2>4
  <2>. QED  BY <2>1, <2>2, <2>5, Balance
<1>. QED  BY <1>1, <1>2, <1>3, <1>4 DEF IInv

\* A connection that failed leads to the next server, or to nothing.
LEMMA RefusedStep ==
    ASSUME IInv, NEW c, Refused(c)
    PROVE  IInv'
<1>. USE Three DEF Refused, Enter, Goto, Touch, object, local, past
<1>1. Steps'
  BY DEF IInv, Steps
<1>2. Alone'
  <2>1. CASE listed
    <3>1. pc[Worker] = "idle" /\ told' = told /\ listed' = listed /\ pc \in [Threads -> {"idle", "picked", "record", "over", "next", "cancel", "release", "delete"}]
      BY <2>1, Zenon DEF IInv, Steps
    <3>2. pc'[Worker] = "next" /\ \A u \in Threads \ {Worker} : pc'[u] = pc[u]
      BY <2>1, <3>1
    <3>3. ~raced' => ~raced /\ \A u \in Threads \ {Worker} : pc[u] = "idle"
      BY <2>1, Zenon
    <3>. HIDE DEF Refused, Enter, Goto, Touch, object, local, past
    <3>4. ~raced' => told = <<>>
      BY <2>1, <3>1, <3>3 DEF IInv, Alone
    <3>. QED  BY <3>1, <3>2, <3>3, <3>4, Lengths DEF IInv, Alone
  <2>2. CASE ~listed
    <3>1. UNCHANGED <<pc, told, listed, raced>>
      BY <2>2, Zenon
    <3>. HIDE DEF Refused, Enter, Goto, Touch, object, local, past
    <3>. QED  BY <3>1 DEF IInv, Alone
  <2>. QED  BY <2>1, <2>2
<1>3. Reasons'
  <2>1. \A u \in Threads : pc'[u] = pc[u] \/ pc'[u] = "next"
    BY DEF IInv, Steps
  <2>2. pc'[Monitor] = pc[Monitor]
    BY DEF IInv, Steps
  <2>5. UNCHANGED <<told, expired, cancels, cancelled, life, listed, held>>
    BY Zenon
  <2>. HIDE DEF Refused, Enter, Goto, Touch, object, local, past
  <2>3. \A u \in Threads : pc'[u] = "cancel" => pc[u] = "cancel"
    BY <2>1
  <2>4. pc'[Worker] = "delete" => pc[Worker] = "delete"
    BY <2>1, Three
  <2>. QED  BY Zenon, <2>2, <2>3, <2>4, <2>5, Three DEF IInv, Reasons
<1>4. References'
  <2>1. \A u \in Threads : pc'[u] \in {"cancel", "delete"} <=> pc[u] \in {"cancel", "delete"}
    BY DEF IInv, Steps
  <2>. QED  BY <2>1, QuietReferences
<1>. QED  BY <1>1, <1>2, <1>3, <1>4 DEF IInv

LEMMA ClosedStep ==
    ASSUME IInv, NEW c, Closed(c)
    PROVE  IInv'
<1>. USE Three DEF Closed, object, local, past
<1>1. Steps'
  BY DEF IInv, Steps
<1>2. Alone'
  BY DEF IInv, Steps, Alone
<1>3. Reasons'
  BY DEF IInv, Steps, Reasons
<1>4. References'
  <2>1. \A u \in Threads : pc'[u] \in {"cancel", "delete"} <=> pc[u] \in {"cancel", "delete"}
    BY DEF IInv, Steps
  <2>. QED  BY <2>1, QuietReferences
<1>. QED  BY <1>1, <1>2, <1>3, <1>4 DEF IInv

\* Who ends a request drops the reference that the request has to itself.
LEMMA CancelStep ==
    ASSUME IInv, NEW t \in Threads, Cancel(t)
    PROVE  IInv'
<1>. USE Three DEF Cancel, Decref, Goto, local, past
<1>1. Steps'
  <2>1. refc \in Int /\ refc' = refc - 1
    BY DEF IInv, Steps
  <2>2. refc' \in Int
    BY <2>1
  <2>3. /\ life' \in {"live", "gone"} /\ {cancelled', listed', raced', expired'} \subseteq BOOLEAN
        /\ told' \in Seq({"connected", "unavailable", "not found"}) /\ cancels' \in Nat
        /\ rc' \in {"success", "unavailable"}
    BY Zenon DEF IInv, Steps
  <2>. QED  BY <2>2, <2>3 DEF IInv, Steps
<1>2. Alone'
  BY DEF IInv, Steps, Alone
<1>3. Reasons'
  BY DEF IInv, Steps, Reasons
<1>4. References'
  <2>1. \A u \in Threads \ {t} : Owed(u)' = Owed(u)
    BY DEF IInv, Steps, Owed, Holds, Pending
  <2>2. Owed(t)' = Owed(t) + (-1)
    <3>1. Holds(t)' = Holds(t) /\ Pending(t) = 1 /\ Pending(t)' = 0
      BY DEF IInv, Steps, Holds, Pending
    <3>2. Holds(t) \in {0, 1}
      BY OwedValue DEF IInv
    <3>. QED  BY <3>1, <3>2 DEF Owed
  <2>3. refc' = refc - 1 /\ Ends' = Ends
    BY DEF Ends
  <2>. HIDE DEF Cancel, Decref, Goto
  <2>4. refc \in Int /\ Ends \in Nat
    BY Endings DEF IInv, Steps
  <2>5. refc' + Ends' >= refc + Ends + (-1) /\ refc' + Ends' \in Int
    BY <2>3, <2>4
  <2>. QED  BY <2>1, <2>2, <2>5, Balance
<1>. QED  BY <1>1, <1>2, <1>3, <1>4 DEF IInv

\* A thread gives its own reference back.
LEMMA ReleaseStep ==
    ASSUME IInv, NEW t \in Threads, Release(t)
    PROVE  IInv'
<1>. USE Three DEF Release, Decref, Goto, local, past
<1>1. Steps'
  <2>1. refc \in Int /\ refc' = refc - 1
    BY DEF IInv, Steps
  <2>2. refc' \in Int
    BY <2>1
  <2>3. /\ life' \in {"live", "gone"} /\ {cancelled', listed', raced', expired'} \subseteq BOOLEAN
        /\ told' \in Seq({"connected", "unavailable", "not found"}) /\ cancels' \in Nat
        /\ rc' \in {"success", "unavailable"}
    BY Zenon DEF IInv, Steps
  <2>. QED  BY <2>2, <2>3 DEF IInv, Steps
<1>2. Alone'
  BY DEF IInv, Steps, Alone
<1>3. Reasons'
  BY DEF IInv, Steps, Reasons
<1>4. References'
  <2>1. \A u \in Threads \ {t} : Owed(u)' = Owed(u)
    BY DEF IInv, Steps, Owed, Holds, Pending
  <2>2. Owed(t)' = Owed(t) + (-1)
    <3>1. held[t] /\ ~held'[t] /\ pc'[t] = "idle" /\ pc[t] = "release"
      BY DEF IInv, Steps
    <3>2. Holds(t) = 1 /\ Holds(t)' = 0 /\ Pending(t) = 0 /\ Pending(t)' = 0
      BY <3>1 DEF Holds, Pending
    <3>. QED  BY <3>2 DEF Owed
  <2>3. refc' = refc - 1 /\ Ends' = Ends
    BY DEF Ends
  <2>. HIDE DEF Release, Decref, Goto
  <2>4. refc \in Int /\ Ends \in Nat
    BY Endings DEF IInv, Steps
  <2>5. refc' + Ends' >= refc + Ends + (-1) /\ refc' + Ends' \in Int
    BY <2>3, <2>4
  <2>. QED  BY <2>1, <2>2, <2>5, Balance
<1>. QED  BY <1>1, <1>2, <1>3, <1>4 DEF IInv

\* The monitor gives up a request that is in the queue, which it has not before.
LEMMA ExpireStep ==
    ASSUME IInv, Expire
    PROVE  IInv'
<1>. USE Three DEF Expire, Enter, Goto, Touch, object, local
<1>1. Steps'
  BY DEF IInv, Steps
<1>2. Alone'
  BY DEF IInv, Steps, Alone
<1>3. Reasons'
  BY DEF IInv, Steps, Reasons
<1>4. References'
  <2>1. \A u \in Threads \ {Monitor} : Owed(u)' = Owed(u)
    BY DEF IInv, Steps, Owed, Holds, Pending
  <2>2. Owed(Monitor)' = Owed(Monitor) + 1
    <3>1. Holds(Monitor)' = 0 /\ Holds(Monitor) = 0 /\ Pending(Monitor) = 0 /\ Pending(Monitor)' = 1
      BY DEF IInv, Steps, Holds, Pending
    <3>. QED  BY <3>1 DEF Owed
  <2>3. ~expired /\ expired' /\ UNCHANGED <<told, cancels, refc>>
    BY DEF IInv, Steps, Reasons
  <2>. HIDE DEF Expire, object, Enter, Goto, Touch
  <2>4. refc \in Int /\ Ends \in Nat /\ Ends' = Ends + 1
    BY <2>3, Endings DEF IInv, Steps, Ends
  <2>5. refc' + Ends' >= refc + Ends + 1 /\ refc' + Ends' \in Int
    BY <2>3, <2>4
  <2>. QED  BY <2>1, <2>2, <2>5, Balance
<1>. QED  BY <1>1, <1>2, <1>3, <1>4 DEF IInv

\* The caller takes a reference of its own before it ends the request.
LEMMA UserCancelStep ==
    ASSUME IInv, UserCancel
    PROVE  IInv'
<1>. USE Three DEF UserCancel, Enter, Goto, Touch, local
<1>1. Steps'
  <2>1. refc \in Int /\ refc' = refc + 1
    BY DEF IInv, Steps
  <2>2. refc' \in Int
    BY <2>1
  <2>3. /\ life' \in {"live", "gone"} /\ {cancelled', listed', raced', expired'} \subseteq BOOLEAN
        /\ told' \in Seq({"connected", "unavailable", "not found"})
        /\ rc' \in {"success", "unavailable"}
    BY Zenon DEF IInv, Steps
  <2>4. cancels' \in Nat
    <3>1. cancels \in Nat /\ cancels' = cancels + 1
      BY Zenon DEF IInv, Steps
    <3>. QED  BY <3>1
  <2>. QED  BY <2>4, <2>2, <2>3 DEF IInv, Steps
<1>2. Alone'
  BY DEF IInv, Steps, Alone
<1>3. Reasons'
  <2>1. cancels' > 0
    <3>1. cancels \in Nat /\ cancels' = cancels + 1
      BY Zenon DEF IInv, Steps
    <3>. QED  BY <3>1
  <2>2. pc'[Worker] = pc[Worker] /\ pc'[Monitor] = pc[Monitor]
    BY DEF IInv, Steps
  <2>. QED  BY <2>1, <2>2 DEF IInv, Reasons
<1>4. References'
  <2>1. \A u \in Threads \ {Caller} : Owed(u)' = Owed(u)
    BY DEF IInv, Steps, Owed, Holds, Pending
  <2>2. Owed(Caller)' = Owed(Caller) + 2
    <3>1. /\ Holds(Caller) = 0 /\ Holds(Caller)' = 1
          /\ Pending(Caller) = 0 /\ Pending(Caller)' = 1
      BY DEF IInv, Steps, Holds, Pending
    <3>. QED  BY <3>1 DEF Owed
  <2>3. refc' = refc + 1 /\ cancels' = cancels + 1 /\ UNCHANGED <<told, expired>>
    OBVIOUS
  <2>. HIDE DEF UserCancel, Enter, Goto, Touch
  <2>4. refc \in Int /\ cancels \in Nat /\ Len(told) \in Nat /\ Ends \in Nat
    BY Endings DEF IInv, Steps
  <2>5. Ends' = Ends + 1
    BY <2>3, <2>4 DEF Ends
  <2>6. refc' + Ends' >= refc + Ends + 2 /\ refc' + Ends' \in Int
    BY <2>3, <2>4, <2>5
  <2>. QED  BY <2>1, <2>2, <2>6, Balance
<1>. QED  BY <1>1, <1>2, <1>3, <1>4 DEF IInv

-----------------------------------------------------------------------------
\* The inductive invariant holds: references pay for what is owed, and one
\* thread tells.
THEOREM Invariance == Spec => []IInv
<1>1. Init => IInv
  <2>. SUFFICES ASSUME Init PROVE IInv
    OBVIOUS
  <2>. USE Three DEF Init
  <2>1. Steps
    <3>1. told \in Seq({"connected", "unavailable", "not found"}) /\ refc \in Int /\ cancels \in Nat
      OBVIOUS
    <3>2. {cancelled, listed, raced, expired} \subseteq BOOLEAN
      BY Zenon
    <3>3. pc[Worker] = "idle" /\ pc[Monitor] = "idle" /\ pc[Caller] = "idle"
      BY Zenon
    <3>4. ~held[Worker] /\ ~held[Monitor] /\ ~held[Caller]
      BY Zenon
    <3>5. /\ pc \in [Threads -> {"idle", "picked", "record", "over", "next", "cancel", "release", "delete"}]
          /\ held \in [Threads -> BOOLEAN]
          /\ life \in {"live", "gone"} /\ rc \in {"success", "unavailable"}
      BY Zenon
    <3>. QED  BY <3>1, <3>2, <3>3, <3>4, <3>5 DEF Steps
  <2>2. Alone
    BY DEF Alone
  <2>3. Reasons
    BY DEF Reasons
  <2>4. References
    BY DEF References, Owed, Holds, Pending, Ends
  <2>. QED  BY <2>1, <2>2, <2>3, <2>4 DEF IInv
<1>2. IInv /\ [Next]_vars => IInv'
  <2>1. CASE UNCHANGED vars
    <3>. USE <2>1 DEF vars, object, found, local, past
    <3>1. Steps => Steps'
      BY Zenon DEF Steps
    <3>2. Alone => Alone'
      BY DEF Alone
    <3>3. Reasons => Reasons'
      BY DEF Reasons
    <3>4. References => References'
      BY Three DEF References, Owed, Holds, Pending, Ends
    <3>. QED  BY <3>1, <3>2, <3>3, <3>4 DEF IInv
  <2>2. ASSUME IInv, Next PROVE IInv'
    <3>. USE <2>2
    <3>1. CASE Answer
      BY <3>1, AnswerStep
    <3>2. CASE OnEvent
      BY <3>2, PickedStep, NowhereStep, RecordStep, RecordsEndStep, NothingFoundStep, SomeFoundStep DEF OnEvent
    <3>3. ASSUME NEW t, NEW q, NEW n, Resolved(t, q, n) PROVE IInv'
      BY <3>3, ResolvedStep
    <3>4. CASE Events
      BY <3>4, ConnectedStep, RefusedStep, ClosedStep DEF Events
    <3>5. CASE Delete
      BY <3>5, DeleteStep
    <3>6. ASSUME NEW t \in Threads, Finish(t) PROVE IInv'
      BY <3>6, NoServerLeftStep, PassStep, TryStep, CancelStep, ReleaseStep DEF Finish
    <3>7. CASE Expire
      BY <3>7, ExpireStep
    <3>8. CASE UserCancel
      BY <3>8, UserCancelStep
    <3>. QED  BY <3>1, <3>2, <3>3, <3>4, <3>5, <3>6, <3>7, <3>8 DEF Next
  <2>. QED  BY <2>1, <2>2
<1>. QED  BY <1>1, <1>2, PTL DEF Spec

\* ToldOnce: the handler of a service is told once, no server is offered to
\* the filter afterwards, and a request that ends without a word was given up
\* or cancelled (rascal_getsrv.cc:175-187, 211-216, 281-293).
THEOREM HandlerIsToldOnce == Spec => []ToldOnce
<1>1. IInv => ToldOnce
  BY Zenon DEF IInv, Alone, Reasons, ToldOnce
<1>. QED  BY <1>1, Invariance, PTL

\* How many threads hold it.
LEMMA HeldBy ==
    ASSUME NEW h \in [Threads -> BOOLEAN], ~h[Monitor]
    PROVE  Cardinality({t \in Threads : h[t]})
             = (IF h[Worker] THEN 1 ELSE 0) + (IF h[Caller] THEN 1 ELSE 0)
<1>. DEFINE H == {t \in Threads : h[t]}
<1>1. /\ IsFiniteSet({}) /\ Cardinality({}) = 0
      /\ IsFiniteSet({Worker}) /\ Cardinality({Worker}) = 1
      /\ IsFiniteSet({Caller}) /\ Cardinality({Caller}) = 1
  BY FS_EmptySet, FS_Singleton
<1>2. Cardinality({Worker} \cup {Caller}) = 2
  <2>1. Caller \notin {Worker}
    BY Three
  <2>2. Cardinality({Worker} \cup {Caller}) = Cardinality({Worker}) + 1
    BY <1>1, <2>1, FS_AddElement
  <2>. QED  BY <1>1, <2>2
<1>3. CASE h[Worker] /\ h[Caller]
  <2>1. H = {Worker} \cup {Caller}
    BY <1>3, Three
  <2>. QED  BY <1>2, <1>3, <2>1
<1>4. CASE h[Worker] /\ ~h[Caller]
  <2>1. H = {Worker}
    BY <1>4, Three
  <2>. QED  BY <1>1, <1>4, <2>1
<1>5. CASE ~h[Worker] /\ h[Caller]
  <2>1. H = {Caller}
    BY <1>5, Three
  <2>. QED  BY <1>1, <1>5, <2>1
<1>6. CASE ~h[Worker] /\ ~h[Caller]
  <2>1. H = {}
    BY <1>6, Three
  <2>. QED  BY <1>1, <1>6, <2>1
<1>. QED  BY <1>3, <1>4, <1>5, <1>6

\* A request is deleted by who takes the last of its count, or after its
\* connection.
LEMMA DeletedBy ==
    ASSUME IInv, [Next]_vars, life = "live", life' = "gone"
    PROVE  Delete \/ refc' <= 0
<1>1. ASSUME NEW t \in Threads, Cancel(t) \/ Release(t) PROVE refc' <= 0
  BY <1>1 DEF Cancel, Release, Decref
<1>. QED
  BY <1>1 DEF Next, vars, object, Answer, OnEvent, Picked, RecordNowhere, RecordsEnd, NothingFound, SomeFound,
              Record, Resolved, Events, Connected, Refused, Closed, Finish, NoServerLeft, Pass, Try, Expire,
              UserCancel

\* EndedUnheld: a request is deleted under fewer threads that hold it than it
\* had ends (request.cc:144-147, 172-178, rascal_getsrv.cc:208-215).
THEOREM EndedUnderNobody == Spec => EndedUnheld
<1>1. ASSUME IInv, IInv', [Next]_vars, life = "live", life' = "gone"
      PROVE  Cardinality({t \in Threads : held'[t]}) < Ends'
  <2>. USE <1>1
  <2>1. held' \in [Threads -> BOOLEAN] /\ ~held'[Monitor]
    BY DEF IInv, Steps
  <2>2. Cardinality({t \in Threads : held'[t]}) = Holds(Worker)' + Holds(Caller)'
    BY <2>1, HeldBy DEF Holds
  <2>3. /\ Holds(Worker)' \in {0, 1} /\ Holds(Caller)' \in {0, 1}
        /\ Pending(Worker)' \in {0, 1} /\ Pending(Caller)' \in {0, 1}
        /\ Holds(Monitor)' \in {0, 1} /\ Pending(Monitor)' \in {0, 1}
    BY <2>1, Three DEF Holds, Pending
  <2>4. CASE refc' <= 0
    <3>1. refc' + Ends' >= 1 + Owed(Worker)' + Owed(Monitor)' + Owed(Caller)'
      BY DEF IInv, References
    <3>2. refc' \in Int /\ Ends' \in Int
      <4>1. told' \in Seq(Words) /\ cancels' \in Nat /\ refc' \in Int
        BY DEF IInv, Steps, Words
      <4>2. Len(told') \in Nat
        BY <4>1, Lengths
      <4>. QED  BY <4>1, <4>2 DEF Ends
    <3>. QED  BY <2>2, <2>3, <2>4, <3>1, <3>2 DEF Owed
  <2>5. CASE Delete
    <3>1. Holds(Worker)' = 0 /\ (Holds(Caller)' = 1 => cancels > 0)
      <4>1. ~held[Worker] /\ held' = held /\ (held[Caller] => cancels > 0)
        BY Zenon, <2>5 DEF IInv, Steps, Reasons, Delete
      <4>. QED  BY <4>1 DEF Holds
    <3>2. Len(told) > 0 /\ Ends' = Ends
      BY <2>5, ToldLength DEF IInv, Reasons, Delete, Ends, past
    <3>3. Ends >= cancels + Len(told) /\ cancels \in Nat /\ Len(told) \in Nat /\ Ends \in Nat
      BY Endings DEF IInv
    <3>. QED  BY <2>2, <2>3, <3>1, <3>2, <3>3
  <2>. QED  BY <2>4, <2>5, DeletedBy
<1>2. IInv /\ IInv' /\ [Next]_vars
      => [life = "live" /\ life' = "gone" => Cardinality({t \in Threads : held'[t]}) < Ends']_vars
  BY <1>1
<1>. QED  BY <1>2, Invariance, PTL DEF Spec, EndedUnheld

-----------------------------------------------------------------------------
\* A set of naturals that is not empty has a least one.
LEMMA Least ==
    ASSUME NEW T \in SUBSET Nat, T # {}
    PROVE  \E m \in T : \A k \in T : m <= k
<1>. DEFINE R == OpToRel(<, Nat)
<1>1. IsWellFoundedOn(R, Nat)
  BY NatLessThanWellFounded
<1>2. R = {ss \in Nat \X Nat : ss[1] < ss[2]}
  BY DEF OpToRel
<1>3. \A x, y \in Nat : <<x, y>> \in R <=> x < y
  BY <1>2
<1>. HIDE DEF R
<1>4. \E m \in T : \A k \in T : ~(<<k, m>> \in R)
  BY <1>1, WFMin
<1>5. PICK m \in T : \A k \in T : ~(<<k, m>> \in R)
  BY <1>4
<1>6. ASSUME NEW k \in T PROVE m <= k
  <2>1. m \in Nat /\ k \in Nat /\ ~(<<k, m>> \in R)
    BY <1>5
  <2>2. ~(k < m)
    BY <1>3, <2>1
  <2>. QED  BY <2>1, <2>2
<1>. QED  BY <1>6

\* Induction: a set that has zero, and the successor of each natural it has,
\* has all naturals.
LEMMA Induction ==
    ASSUME NEW T, 0 \in T, \A n \in Nat : n \in T => n + 1 \in T
    PROVE  Nat \subseteq T
<1>. SUFFICES ASSUME Nat \ T # {} PROVE FALSE
  OBVIOUS
<1>1. PICK m \in Nat \ T : \A k \in Nat \ T : m <= k
  BY Least
<1>2. m - 1 \in Nat /\ m - 1 \notin Nat \ T /\ m - 1 + 1 = m
  BY <1>1
<1>. QED  BY <1>2

-----------------------------------------------------------------------------
\* The sums of the weights are what their definition says: there is such a
\* function, by induction on the length of the list.
LEMMA SumsDef ==
    ASSUME NEW list \in Seq(Servers)
    PROVE  Sums(list) = [i \in 1 .. Len(list) + 1 |->
                            IF i = 1 THEN 0 ELSE Sums(list)[i - 1] + list[i - 1].weight]
<1>. DEFINE IsSum(f, n) == f = [i \in 1 .. n + 1 |-> IF i = 1 THEN 0 ELSE f[i - 1] + list[i - 1].weight]
            T == {n \in Nat : \E f : IsSum(f, n)}
<1>1. 0 \in T
  <2>1. IsSum([i \in 1 .. 1 |-> 0], 0)
    OBVIOUS
  <2>. QED  BY <2>1
<1>2. ASSUME NEW n \in Nat, n \in T
      PROVE  n + 1 \in T
  <2>1. PICK f : IsSum(f, n)
    BY <1>2
  <2>. DEFINE g == [i \in 1 .. n + 2 |-> IF i = n + 2 THEN f[i - 1] + list[i - 1].weight ELSE f[i]]
  <2>2. IsSum(g, n + 1)
    BY <2>1
  <2>. HIDE DEF IsSum, g
  <2>3. \E h : IsSum(h, n + 1)
    BY <2>2, Zenon
  <2>. QED  BY <2>3
<1>. HIDE DEF IsSum
<1>3. Nat \subseteq T
  BY <1>1, <1>2, Induction
<1>4. \E f : IsSum(f, Len(list))
  BY <1>3, LenProperties
<1>5. IsSum(CHOOSE f : IsSum(f, Len(list)), Len(list))
  BY <1>4, Zenon
<1>6. Sums(list) = CHOOSE f : IsSum(f, Len(list))
  BY DEF Sums, IsSum
<1>. QED  BY <1>5, <1>6 DEF IsSum

\* What a list of servers is.
LEMMA ServersOf ==
    ASSUME NEW list \in Seq(Servers)
    PROVE  /\ Len(list) \in Nat /\ DOMAIN list = 1 .. Len(list)
           /\ \A i \in DOMAIN list : list[i] \in Servers /\ list[i].priority \in Nat /\ list[i].weight \in Nat
<1>1. Len(list) \in Nat /\ DOMAIN list = 1 .. Len(list) /\ \A i \in DOMAIN list : list[i] \in Servers
  BY LenProperties, ElementOfSeq
<1>2. \A s \in Servers : s.priority \in Nat /\ s.weight \in Nat
  BY DEF Servers
<1>. QED  BY <1>1, <1>2

\* What comes before the first server is nothing, what comes before each next
\* one is one weight more.
LEMMA SumParts ==
    ASSUME NEW list \in Seq(Servers)
    PROVE  /\ Before(list, 1) = 0
           /\ \A i \in DOMAIN list : Before(list, i + 1) = Before(list, i) + list[i].weight
           /\ \A i \in 1 .. Len(list) + 1 : Before(list, i) \in Nat
<1>. DEFINE T == {n \in Nat : n <= Len(list) => Before(list, n + 1) \in Nat}
<1>1. Len(list) \in Nat /\ DOMAIN list = 1 .. Len(list)
  BY LenProperties
<1>2. Before(list, 1) = 0
  BY <1>1, SumsDef DEF Before
<1>3. \A i \in DOMAIN list : Before(list, i + 1) = Before(list, i) + list[i].weight
  BY SMTT(30), <1>1, SumsDef DEF Before
<1>4. \A i \in DOMAIN list : list[i].weight \in Nat
  BY ServersOf
<1>5. 0 \in T
  BY <1>2
<1>6. ASSUME NEW n \in Nat, n \in T PROVE n + 1 \in T
  BY <1>1, <1>3, <1>4, <1>6
<1>7. Nat \subseteq T
  BY <1>5, <1>6, Induction
<1>8. ASSUME NEW i \in 1 .. Len(list) + 1 PROVE Before(list, i) \in Nat
  <2>1. i - 1 \in Nat /\ i - 1 <= Len(list) /\ i - 1 + 1 = i
    BY <1>1
  <2>2. i - 1 \in T
    BY <1>7, <2>1
  <2>. QED  BY <2>1, <2>2
<1>. QED  BY <1>2, <1>3, <1>8

\* What comes before a server comes before the later ones, and its own weight.
LEMMA SumGrows ==
    ASSUME NEW list \in Seq(Servers), NEW i \in DOMAIN list, NEW j \in i + 1 .. Len(list) + 1
    PROVE  Before(list, i) + list[i].weight <= Before(list, j)
<1>. DEFINE T == {n \in Nat : i + 1 + n <= Len(list) + 1 =>
                                 Before(list, i) + list[i].weight <= Before(list, i + 1 + n)}
<1>1. Len(list) \in Nat /\ DOMAIN list = 1 .. Len(list) /\ \A k \in DOMAIN list : list[k].weight \in Nat
  BY ServersOf
<1>2. 0 \in T
  <2>1. i \in 1 .. Len(list) + 1 /\ i + 1 + 0 = i + 1
    BY <1>1
  <2>2. Before(list, i + 1) = Before(list, i) + list[i].weight
    BY SumParts
  <2>3. Before(list, i) \in Nat /\ list[i].weight \in Nat
    <3>1. Before(list, i) \in Nat
      BY <2>1, SumParts
    <3>. QED  BY <1>1, <3>1
  <2>4. Before(list, i) + list[i].weight <= Before(list, i + 1)
    BY <2>2, <2>3
  <2>. QED  BY <2>1, <2>4
<1>3. ASSUME NEW n \in Nat, n \in T PROVE n + 1 \in T
  <2>1. SUFFICES ASSUME i + 1 + (n + 1) <= Len(list) + 1
                 PROVE  Before(list, i) + list[i].weight <= Before(list, i + 1 + (n + 1))
    OBVIOUS
  <2>. DEFINE k == i + 1 + n
  <2>2. k \in DOMAIN list /\ k \in 1 .. Len(list) + 1 /\ i \in 1 .. Len(list) + 1 /\ i + 1 + (n + 1) = k + 1
    BY <1>1, <2>1
  <2>3. Before(list, i) + list[i].weight <= Before(list, k)
    BY <1>1, <1>3, <2>1
  <2>4. Before(list, k + 1) = Before(list, k) + list[k].weight /\ Before(list, k) \in Nat /\ list[k].weight \in Nat
        /\ Before(list, i) \in Nat /\ list[i].weight \in Nat
    BY <1>1, <2>2, SumParts
  <2>5. Before(list, i) + list[i].weight <= Before(list, k + 1)
    <3>. HIDE DEF k, T
    <3>. QED  BY SMTT(30), <2>3, <2>4
  <2>. QED  BY <2>2, <2>5
<1>4. Nat \subseteq T
  BY <1>2, <1>3, Induction
<1>5. j - (i + 1) \in Nat /\ i + 1 + (j - (i + 1)) = j /\ j <= Len(list) + 1
  BY <1>1
<1>6. j - (i + 1) \in T
  BY <1>4, <1>5
<1>. QED  BY <1>5, <1>6


-----------------------------------------------------------------------------
\* The servers of the best priority are the first ones, up to a last one.
LEMMA GroupParts ==
    ASSUME NEW list \in Seq(Servers)
    PROVE  /\ Group(list) \subseteq DOMAIN list
           /\ list # <<>> => 1 \in Group(list) /\ 1 \in DOMAIN list
           /\ \A i \in Group(list) : \A j \in 1 .. i : j \in Group(list)
           /\ \E n \in 0 .. Len(list) : Group(list) = 1 .. n /\ Total(list) = Before(list, n + 1)
<1>1. Len(list) \in Nat /\ DOMAIN list = 1 .. Len(list) /\ (list # <<>> => Len(list) # 0)
  BY ServersOf
<1>2. Group(list) = {i \in 1 .. Len(list) : \A j \in 1 .. i : list[j].priority = list[1].priority}
  BY <1>1 DEF Group
<1>3. ASSUME NEW i \in Group(list), NEW j \in 1 .. i PROVE j \in Group(list)
  BY <1>1, <1>2
<1>4. list # <<>> => 1 \in Group(list) /\ 1 \in DOMAIN list
  BY <1>1, <1>2
<1>5. PICK n \in 0 .. Len(list) : Group(list) = 1 .. n
  <2>. DEFINE Others == {n \in Nat : n + 1 \notin Group(list)}
  <2>1. Others \in SUBSET Nat /\ Len(list) \in Others
    BY <1>1, <1>2
  <2>2. PICK n \in Others : \A k \in Others : n <= k
    BY <2>1, Least
  <2>3. n \in 0 .. Len(list)
    BY <1>1, <2>1, <2>2
  <2>4. ASSUME NEW i \in 1 .. n PROVE i \in Group(list)
    <3>1. i - 1 \in Nat /\ ~(n <= i - 1) /\ i - 1 + 1 = i
      BY <2>3
    <3>. QED  BY <2>2, <3>1
  <2>5. ASSUME NEW i \in Group(list) PROVE i \in 1 .. n
    <3>1. i \in Nat /\ 1 <= i
      BY <1>1, <1>2
    <3>2. n + 1 \notin 1 .. i
      BY <1>3, <2>2
    <3>. QED  BY <2>3, <3>1, <3>2
  <2>. QED  BY <2>3, <2>4, <2>5
<1>6. Cardinality(Group(list)) = n
  <2>1. 1 <= n => Cardinality(1 .. n) = n - 1 + 1
    BY FS_Interval
  <2>2. n = 0 => 1 .. n = {}
    OBVIOUS
  <2>. QED  BY <1>5, <2>1, <2>2, FS_EmptySet
<1>7. Total(list) = Before(list, n + 1)
  BY <1>6 DEF Total
<1>. QED  BY <1>1, <1>2, <1>3, <1>4, <1>5, <1>7

\* What may be drawn by a number is a server of the best priority, and if any
\* fits the first of those that do.
LEMMA DrawnParts ==
    ASSUME NEW list \in Seq(Servers), list # <<>>, NEW rnd
    PROVE  /\ Drawn(list, rnd) \in Group(list)
           /\ LET left(i) == rnd - Before(list, i)
                  fits == {i \in Group(list) : left(i) = 0 \/ left(i) < list[i].weight}
              IN  fits # {} => Drawn(list, rnd) \in fits /\ \A j \in fits : Drawn(list, rnd) <= j
<1>. DEFINE left(i) == rnd - Before(list, i)
            fits == {i \in Group(list) : left(i) = 0 \/ left(i) < list[i].weight}
<1>1. CASE fits = {}
  <2>1. Drawn(list, rnd) = 1
    BY <1>1 DEF Drawn
  <2>. QED  BY <1>1, <2>1, GroupParts
<1>2. CASE fits # {}
  <2>1. Drawn(list, rnd) = CHOOSE i \in fits : \A j \in fits : i <= j
    BY <1>2 DEF Drawn
  <2>2. fits \in SUBSET Nat /\ fits \subseteq Group(list)
    BY GroupParts, ServersOf
  <2>. HIDE DEF fits
  <2>3. \E i \in fits : \A j \in fits : i <= j
    BY <1>2, <2>2, Least
  <2>4. Drawn(list, rnd) \in fits /\ \A j \in fits : Drawn(list, rnd) <= j
    BY <2>1, <2>3
  <2>. QED  BY <2>2, <2>4 DEF fits
<1>. QED  BY <1>1, <1>2

\* A server that has a weight, and no weightless one before it in its group, is
\* drawn by what comes before it, which is one of the numbers there may be.
LEMMA MayLead ==
    ASSUME NEW list \in Seq(Servers), ~Arc4, NEW i \in Group(list),
           \A j \in 1 .. i : list[j].weight > 0
    PROVE  \E rnd \in Draws(Total(list)) : Drawn(list, rnd) = i
<1>. DEFINE rnd == Before(list, i)
            left(j) == rnd - Before(list, j)
            fits == {j \in Group(list) : left(j) = 0 \/ left(j) < list[j].weight}
<1>1. PICK n \in 0 .. Len(list) : Group(list) = 1 .. n /\ Total(list) = Before(list, n + 1)
  BY GroupParts
<1>2. /\ Len(list) \in Nat /\ DOMAIN list = 1 .. Len(list) /\ i \in 1 .. n /\ i \in DOMAIN list
      /\ n + 1 \in i + 1 .. Len(list) + 1 /\ n + 1 \in 1 .. Len(list) + 1 /\ i \in 1 .. Len(list) + 1
      /\ i \in 1 .. i
  BY <1>1, ServersOf
<1>3. Before(list, i) \in Nat /\ Total(list) \in Nat /\ list[i].weight \in Nat /\ list[i].weight > 0
  BY <1>1, <1>2, SumParts, ServersOf
<1>4. Before(list, i) + list[i].weight <= Total(list)
  BY <1>1, <1>2, SumGrows
<1>5. rnd \in 0 .. Total(list) - 1 /\ Total(list) # 0
  BY <1>3, <1>4
<1>6. rnd \in Draws(Total(list))
  BY <1>5 DEF Draws
<1>7. i \in fits
  BY <1>3
<1>8. ASSUME NEW j \in fits PROVE i <= j
  <2>1. j \in 1 .. n
    BY <1>1
  <2>2. SUFFICES ASSUME j < i PROVE FALSE
    BY <1>2, <2>1
  <2>3. j \in DOMAIN list /\ i \in j + 1 .. Len(list) + 1 /\ j \in 1 .. i /\ j \in 1 .. Len(list) + 1
    BY <1>2, <2>1, <2>2
  <2>4. Before(list, j) + list[j].weight <= Before(list, i)
    BY <2>3, SumGrows
  <2>5. Before(list, j) \in Nat /\ list[j].weight \in Nat /\ list[j].weight > 0
    BY <2>3, SumParts, ServersOf
  <2>6. left(j) = 0 \/ left(j) < list[j].weight
    OBVIOUS
  <2>. HIDE DEF fits
  <2>. QED  BY <1>3, <2>4, <2>5, <2>6
<1>9. Drawn(list, rnd) \in fits /\ Drawn(list, rnd) <= i
  <2>1. list # <<>>
    BY <1>2
  <2>2. fits # {} => Drawn(list, rnd) \in fits /\ \A j \in fits : Drawn(list, rnd) <= j
    BY <2>1, DrawnParts
  <2>. HIDE DEF fits
  <2>. QED  BY <1>7, <2>2
<1>10. Drawn(list, rnd) = i
  <2>1. i <= Drawn(list, rnd) /\ Drawn(list, rnd) \in Group(list)
    BY <1>8, <1>9
  <2>2. Drawn(list, rnd) \in Nat /\ i \in Nat
    BY <1>1, <2>1
  <2>. QED  BY <1>9, <2>1, <2>2
<1>. QED  BY <1>6, <1>10


-----------------------------------------------------------------------------
\* What is in a list.
LEMMA Members ==
    ASSUME NEW S, NEW s \in Seq(S)
    PROVE  ToSet(s) \subseteq S
  BY LenProperties, ElementOfSeq DEF ToSet

\* A list without one of its members.
LEMMA WithoutOne ==
    ASSUME NEW S, NEW s \in Seq(S), NEW i \in DOMAIN s
    PROVE  /\ RemoveAt(s, i) \in Seq(S)
           /\ Len(RemoveAt(s, i)) = Len(s) - 1
           /\ \A j \in 1 .. Len(s) - 1 : RemoveAt(s, i)[j] = IF j < i THEN s[j] ELSE s[j + 1]
           /\ ToSet(RemoveAt(s, i)) \subseteq ToSet(s) /\ ToSet(s) = ToSet(RemoveAt(s, i)) \cup {s[i]}
<1>. DEFINE u == SubSeq(s, 1, i - 1)
            v == SubSeq(s, i + 1, Len(s))
            w == RemoveAt(s, i)
<1>1. Len(s) \in Nat /\ DOMAIN s = 1 .. Len(s) /\ i \in 1 .. Len(s) /\ \A j \in 1 .. Len(s) : s[j] \in S
  BY LenProperties, ElementOfSeq
<1>2. u \in Seq(S) /\ Len(u) = i - 1 /\ \A j \in 1 .. i - 1 : u[j] = s[j]
  <2>1. \A j \in 1 .. i - 1 : s[j] \in S
    BY <1>1
  <2>2. /\ u \in Seq(S) /\ Len(u) = IF 1 <= i - 1 THEN i - 1 - 1 + 1 ELSE 0
        /\ \A j \in 1 .. i - 1 - 1 + 1 : u[j] = s[1 + j - 1]
    BY <1>1, <2>1, SubSeqProperties
  <2>. QED  BY <1>1, <2>2
<1>3. v \in Seq(S) /\ Len(v) = Len(s) - i /\ \A j \in 1 .. Len(s) - i : v[j] = s[i + j]
  <2>1. \A j \in i + 1 .. Len(s) : s[j] \in S
    BY <1>1
  <2>2. /\ v \in Seq(S) /\ Len(v) = IF i + 1 <= Len(s) THEN Len(s) - (i + 1) + 1 ELSE 0
        /\ \A j \in 1 .. Len(s) - (i + 1) + 1 : v[j] = s[i + 1 + j - 1]
    BY <1>1, <2>1, SubSeqProperties
  <2>3. Len(v) = Len(s) - i
    BY <1>1, <2>2
  <2>4. ASSUME NEW j \in 1 .. Len(s) - i PROVE v[j] = s[i + j]
    <3>1. j \in 1 .. Len(s) - (i + 1) + 1 /\ i + 1 + j - 1 = i + j
      BY <1>1
    <3>. QED  BY <2>2, <3>1
  <2>. QED  BY <2>2, <2>3, <2>4
<1>4. w = u \o v
  BY DEF RemoveAt
<1>. HIDE DEF u, v, w
<1>5. /\ w \in Seq(S) /\ Len(w) = Len(s) - 1
      /\ \A j \in 1 .. Len(s) - 1 : w[j] = IF j <= Len(u) THEN u[j] ELSE v[j - Len(u)]
  <2>1. /\ u \o v \in Seq(S) /\ Len(u \o v) = Len(u) + Len(v)
        /\ \A j \in 1 .. Len(u) + Len(v) : (u \o v)[j] = IF j <= Len(u) THEN u[j] ELSE v[j - Len(u)]
    BY <1>2, <1>3, ConcatProperties
  <2>2. Len(u) + Len(v) = Len(s) - 1
    BY <1>1, <1>2, <1>3
  <2>. QED  BY <1>4, <2>1, <2>2
<1>6. \A j \in 1 .. Len(s) - 1 : w[j] = IF j < i THEN s[j] ELSE s[j + 1]
  <2>. SUFFICES ASSUME NEW j \in 1 .. Len(s) - 1 PROVE w[j] = IF j < i THEN s[j] ELSE s[j + 1]
    OBVIOUS
  <2>1. w[j] = IF j <= Len(u) THEN u[j] ELSE v[j - Len(u)]
    BY <1>5
  <2>2. CASE j < i
    BY <1>1, <1>2, <2>1, <2>2
  <2>3. CASE ~(j < i)
    <3>1. j - (i - 1) \in 1 .. Len(s) - i /\ i + (j - (i - 1)) = j + 1 /\ ~(j <= i - 1)
      BY <1>1, <2>3
    <3>2. w[j] = v[j - (i - 1)]
      BY <1>2, <2>1, <3>1
    <3>3. v[j - (i - 1)] = s[j + 1]
      BY <1>3, <3>1
    <3>. QED  BY <2>3, <3>2, <3>3
  <2>. QED  BY <2>2, <2>3
<1>7. DOMAIN w = 1 .. Len(s) - 1
  BY <1>5, LenProperties
<1>8. ToSet(w) \subseteq ToSet(s)
  <2>. SUFFICES ASSUME NEW j \in 1 .. Len(s) - 1 PROVE w[j] \in ToSet(s)
    BY <1>7 DEF ToSet
  <2>1. j \in 1 .. Len(s) /\ j + 1 \in 1 .. Len(s)
    BY <1>1
  <2>. QED  BY <1>1, <1>6, <2>1 DEF ToSet
<1>9. ToSet(s) = ToSet(w) \cup {s[i]}
  <2>1. ASSUME NEW j \in 1 .. Len(s), j # i PROVE s[j] \in ToSet(w)
    <3>1. CASE j < i
      <4>1. j \in 1 .. Len(s) - 1 /\ w[j] = s[j]
        BY <1>1, <1>6, <3>1
      <4>. QED  BY <1>7, <4>1 DEF ToSet
    <3>2. CASE ~(j < i)
      <4>1. j - 1 \in 1 .. Len(s) - 1 /\ ~(j - 1 < i) /\ j - 1 + 1 = j
        BY <1>1, <2>1, <3>2
      <4>2. w[j - 1] = s[j]
        BY <1>6, <4>1
      <4>. QED  BY <1>7, <4>1, <4>2 DEF ToSet
    <3>. QED  BY <3>1, <3>2
  <2>. QED  BY <1>1, <1>8, <2>1 DEF ToSet
<1>. QED  BY <1>5, <1>6, <1>8, <1>9 DEF w

\* A list and one more.
LEMMA WithOne ==
    ASSUME NEW S, NEW s \in Seq(S), NEW e \in S
    PROVE  /\ Append(s, e) \in Seq(S) /\ Len(Append(s, e)) = Len(s) + 1
           /\ ToSet(Append(s, e)) = ToSet(s) \cup {e}
           /\ \A j \in 1 .. Len(s) + 1 : Append(s, e)[j] = IF j <= Len(s) THEN s[j] ELSE e
<1>. DEFINE w == Append(s, e)
<1>1. Len(s) \in Nat /\ DOMAIN s = 1 .. Len(s)
  BY LenProperties
<1>2. w \in Seq(S) /\ Len(w) = Len(s) + 1 /\ (\A j \in 1 .. Len(s) : w[j] = s[j]) /\ w[Len(s) + 1] = e
  BY AppendProperties
<1>. HIDE DEF w
<1>3. DOMAIN w = 1 .. Len(s) + 1
  BY <1>2, LenProperties
<1>4. \A j \in 1 .. Len(s) + 1 : w[j] = IF j <= Len(s) THEN s[j] ELSE e
  BY <1>1, <1>2
<1>5. ToSet(w) = ToSet(s) \cup {e}
  <2>1. Len(s) + 1 \in DOMAIN w /\ \A j \in DOMAIN s : j \in DOMAIN w
    BY <1>1, <1>3
  <2>2. \A j \in DOMAIN w : j \in DOMAIN s \/ j = Len(s) + 1
    BY <1>1, <1>3
  <2>. QED  BY <1>1, <1>2, <2>1, <2>2 DEF ToSet
<1>. QED  BY <1>2, <1>4, <1>5 DEF w

-----------------------------------------------------------------------------
\* What is between two turns of sort: the servers are in one of the lists, the
\* new one before the old one, by priority.
Between(servers, lists, k) ==
    /\ lists \in [new : Seq(Servers), old : Seq(Servers)]
    /\ Len(lists.new) = k /\ Len(lists.old) = Len(servers) - k
    /\ ToSet(lists.new) \cup ToSet(lists.old) = ToSet(servers)
    /\ Sorted(lists.new) /\ Sorted(lists.old)
    /\ \A i \in DOMAIN lists.new, j \in DOMAIN lists.old :
         lists.new[i].priority <= lists.old[j].priority

\* A turn that moves a server of the best priority keeps it so.
LEMMA MoveBetween ==
    ASSUME NEW servers \in Seq(Servers), NEW lists, NEW k \in Nat, Between(servers, lists, k),
           NEW i \in Group(lists.old)
    PROVE  Between(servers, Move(lists, i), k + 1)
<1>. DEFINE new == lists.new
            old == lists.old
            s == old[i]
            add == Append(new, s)
            cut == RemoveAt(old, i)
<1>1. /\ new \in Seq(Servers) /\ old \in Seq(Servers) /\ lists \in [new : Seq(Servers), old : Seq(Servers)]
      /\ Len(new) = k /\ Len(old) = Len(servers) - k
      /\ ToSet(new) \cup ToSet(old) = ToSet(servers)
      /\ Sorted(new) /\ Sorted(old)
      /\ \A a \in DOMAIN new, b \in DOMAIN old : new[a].priority <= old[b].priority
  BY DEF Between
<1>. HIDE DEF new, old
<1>2. i \in DOMAIN old /\ old # <<>>
  <2>1. i \in DOMAIN old
    BY <1>1, GroupParts DEF old
  <2>. QED  BY <1>1, <2>1, ServersOf
<1>3. /\ DOMAIN old = 1 .. Len(old) /\ Len(old) \in Nat /\ DOMAIN new = 1 .. k /\ s \in Servers
      /\ \A b \in DOMAIN old : old[b].priority \in Nat
      /\ \A a \in DOMAIN new : new[a].priority \in Nat
  BY <1>1, <1>2, ServersOf
<1>4. \A b \in DOMAIN old : s.priority <= old[b].priority
  <2>1. s.priority = old[1].priority
    BY <1>2, <1>3 DEF Group, old
  <2>2. 1 \in DOMAIN old /\ \A b \in DOMAIN old : 1 <= b
    BY <1>2, <1>3
  <2>. QED  BY <1>1, <2>1, <2>2 DEF Sorted
<1>5. /\ add \in Seq(Servers) /\ Len(add) = k + 1 /\ ToSet(add) = ToSet(new) \cup {s}
      /\ \A j \in 1 .. k + 1 : add[j] = IF j <= k THEN new[j] ELSE s
  BY <1>1, <1>3, WithOne
<1>6. /\ cut \in Seq(Servers) /\ Len(cut) = Len(old) - 1 /\ ToSet(old) = ToSet(cut) \cup {s}
      /\ ToSet(cut) \subseteq ToSet(old)
      /\ \A j \in 1 .. Len(old) - 1 : cut[j] = IF j < i THEN old[j] ELSE old[j + 1]
  <2>1. old \in Seq(Servers) /\ i \in DOMAIN old
    BY <1>1, <1>2
  <2>. QED  BY ONLY <2>1, WithoutOne
<1>7. Move(lists, i) = [new |-> add, old |-> cut]
  BY DEF Move, new, old
<1>. HIDE DEF add, cut, s
<1>8. DOMAIN add = 1 .. k + 1 /\ DOMAIN cut = 1 .. Len(old) - 1
  BY <1>5, <1>6, ServersOf
<1>9. Sorted(add)
  <2>. SUFFICES ASSUME NEW a \in 1 .. k + 1, NEW b \in 1 .. k + 1, a <= b
                PROVE  add[a].priority <= add[b].priority
    BY <1>8 DEF Sorted
  <2>1. CASE b <= k
    <3>1. a \in DOMAIN new /\ b \in DOMAIN new /\ add[a] = new[a] /\ add[b] = new[b]
      BY <1>3, <1>5, <2>1
    <3>. QED  BY <1>1, <3>1 DEF Sorted
  <2>2. CASE b = k + 1 /\ a <= k
    <3>1. a \in DOMAIN new /\ add[a] = new[a] /\ add[b] = s
      BY <1>3, <1>5, <2>2
    <3>2. new[a].priority <= s.priority
      BY <1>1, <1>2, <3>1 DEF s
    <3>. QED  BY <3>1, <3>2
  <2>3. CASE a = k + 1 /\ b = k + 1
    <3>1. add[a] = s /\ add[b] = s /\ s.priority \in Nat
      BY <1>2, <1>3, <1>5, <2>3 DEF s
    <3>. QED  BY <3>1
  <2>. QED  BY <2>1, <2>2, <2>3
<1>10. Sorted(cut)
  <2>. SUFFICES ASSUME NEW a \in 1 .. Len(old) - 1, NEW b \in 1 .. Len(old) - 1, a <= b
                PROVE  cut[a].priority <= cut[b].priority
    BY <1>8 DEF Sorted
  <2>. DEFINE at(j) == IF j < i THEN j ELSE j + 1
  <2>1. at(a) \in DOMAIN old /\ at(b) \in DOMAIN old /\ at(a) <= at(b)
    BY <1>2, <1>3
  <2>2. cut[a] = old[at(a)] /\ cut[b] = old[at(b)]
    BY <1>6
  <2>. HIDE DEF at
  <2>. QED  BY <1>1, <2>1, <2>2 DEF Sorted
<1>11. ASSUME NEW a \in DOMAIN add, NEW b \in DOMAIN cut
       PROVE  add[a].priority <= cut[b].priority
  <2>1. PICK j \in DOMAIN old : cut[b] = old[j]
    <3>1. b \in DOMAIN old /\ b + 1 \in DOMAIN old
      BY <1>3, <1>8
    <3>. QED  BY <1>6, <1>8, <3>1
  <2>2. CASE a <= k
    <3>1. a \in DOMAIN new /\ add[a] = new[a]
      BY <1>3, <1>5, <1>8, <2>2
    <3>. QED  BY <1>1, <2>1, <3>1
  <2>3. CASE ~(a <= k)
    <3>1. add[a] = s
      BY <1>5, <1>8, <2>3
    <3>. QED  BY <1>4, <2>1, <3>1
  <2>. QED  BY <2>2, <2>3
<1>12. Len(cut) = Len(servers) - (k + 1)
  BY <1>1, <1>3, <1>6, LenProperties
<1>13. ToSet(add) \cup ToSet(cut) = ToSet(servers)
  BY <1>1, <1>5, <1>6
<1>. QED  BY <1>5, <1>6, <1>7, <1>9, <1>10, <1>11, <1>12, <1>13 DEF Between

\* The lists after each number of turns are what their definition says.
LEMMA SortingDef ==
    ASSUME NEW servers \in Seq(Servers)
    PROVE  Sorting(servers) = [k \in 0 .. Len(servers) |->
                IF k = 0 THEN {[new |-> <<>>, old |-> servers]}
                ELSE UNION {Turns(lists) : lists \in Sorting(servers)[k - 1]}]
<1>. DEFINE IsAfter(f, n) ==
                f = [k \in 0 .. n |-> IF k = 0 THEN {[new |-> <<>>, old |-> servers]}
                                      ELSE UNION {Turns(lists) : lists \in f[k - 1]}]
            T == {n \in Nat : \E f : IsAfter(f, n)}
<1>1. 0 \in T
  <2>1. IsAfter([k \in 0 .. 0 |-> {[new |-> <<>>, old |-> servers]}], 0)
    OBVIOUS
  <2>. QED  BY <2>1
<1>2. ASSUME NEW n \in Nat, n \in T
      PROVE  n + 1 \in T
  <2>1. PICK f : IsAfter(f, n)
    BY <1>2
  <2>. DEFINE g == [k \in 0 .. n + 1 |-> IF k = n + 1 THEN UNION {Turns(lists) : lists \in f[k - 1]} ELSE f[k]]
  <2>2. IsAfter(g, n + 1)
    BY <2>1
  <2>. HIDE DEF IsAfter, g
  <2>3. \E h : IsAfter(h, n + 1)
    BY <2>2, Zenon
  <2>. QED  BY <2>3
<1>. HIDE DEF IsAfter
<1>3. Nat \subseteq T
  BY <1>1, <1>2, Induction
<1>4. \E f : IsAfter(f, Len(servers))
  BY <1>3, LenProperties
<1>5. IsAfter(CHOOSE f : IsAfter(f, Len(servers)), Len(servers))
  BY <1>4, Zenon
<1>6. Sorting(servers) = CHOOSE f : IsAfter(f, Len(servers))
  BY DEF Sorting, IsAfter
<1>. QED  BY <1>5, <1>6 DEF IsAfter

\* So it is after each turn.
LEMMA SortingBetween ==
    ASSUME NEW servers \in Seq(Servers), Sorted(servers)
    PROVE  \A k \in 0 .. Len(servers) : \A lists \in Sorting(servers)[k] : Between(servers, lists, k)
<1>. DEFINE T == {n \in Nat : n <= Len(servers) => \A lists \in Sorting(servers)[n] : Between(servers, lists, n)}
<1>1. Len(servers) \in Nat
  BY LenProperties
<1>2. 0 \in T
  <2>1. Sorting(servers)[0] = {[new |-> <<>>, old |-> servers]}
    BY <1>1, SortingDef
  <2>2. Between(servers, [new |-> <<>>, old |-> servers], 0)
    BY <1>1 DEF Between, Sorted, ToSet
  <2>. QED  BY <2>1, <2>2
<1>3. ASSUME NEW n \in Nat, n \in T PROVE n + 1 \in T
  <2>. SUFFICES ASSUME n + 1 <= Len(servers), NEW lists \in Sorting(servers)[n + 1]
                PROVE  Between(servers, lists, n + 1)
    OBVIOUS
  <2>1. n + 1 \in 0 .. Len(servers) /\ n + 1 # 0 /\ n + 1 - 1 = n /\ n <= Len(servers) /\ n < Len(servers)
    BY <1>1
  <2>2. Sorting(servers)[n + 1] = UNION {Turns(l) : l \in Sorting(servers)[n]}
    BY <2>1, SortingDef
  <2>3. PICK before \in Sorting(servers)[n] : lists \in Turns(before)
    BY <2>2
  <2>4. Between(servers, before, n)
    BY <1>3, <2>1
  <2>5. before.old \in Seq(Servers) /\ before.old # <<>>
    <3>1. before.old \in Seq(Servers) /\ Len(before.old) = Len(servers) - n
      BY <2>4 DEF Between
    <3>2. Len(before.old) # 0
      BY <1>1, <2>1, <3>1
    <3>. QED  BY <3>1, <3>2, EmptySeq
  <2>6. PICK rnd : lists = Move(before, Drawn(before.old, rnd))
    BY <2>3 DEF Turns
  <2>7. Drawn(before.old, rnd) \in Group(before.old)
    BY <2>5, DrawnParts
  <2>. QED  BY <2>4, <2>6, <2>7, MoveBetween
<1>4. Nat \subseteq T
  BY <1>2, <1>3, Induction
<1>5. ASSUME NEW k \in 0 .. Len(servers), NEW lists \in Sorting(servers)[k]
      PROVE  Between(servers, lists, k)
  <2>1. k \in T /\ k <= Len(servers)
    BY <1>1, <1>4
  <2>. QED  BY <2>1
<1>. QED  BY <1>5

\* What sort makes of a list that is sorted by priority: the same servers, as
\* many of them, sorted by priority.
THEOREM OrdersSorted ==
    ASSUME NEW servers \in Seq(Servers), Sorted(servers), NEW order \in Orders(servers)
    PROVE  /\ order \in Seq(Servers) /\ Len(order) = Len(servers)
           /\ ToSet(order) = ToSet(servers) /\ Sorted(order)
<1>1. Len(servers) \in Nat /\ Len(servers) \in 0 .. Len(servers)
  BY LenProperties
<1>2. PICK lists \in Sorting(servers)[Len(servers)] : order = lists.new
  BY DEF Orders
<1>3. Between(servers, lists, Len(servers))
  BY <1>1, SortingBetween
<1>4. lists.old \in Seq(Servers) /\ Len(lists.old) = 0
  BY <1>1, <1>3 DEF Between
<1>5. lists.old = <<>>
  BY <1>4
<1>6. ToSet(lists.old) = {}
  BY <1>5 DEF ToSet
<1>. QED  BY <1>2, <1>3, <1>6 DEF Between


-----------------------------------------------------------------------------
\* How many servers come before a priority: there is such a number.
LEMMA BetterParts ==
    ASSUME NEW list \in Seq(Servers), NEW p \in Nat
    PROVE  /\ Better(list, p) \in 0 .. Len(list)
           /\ \A i \in 1 .. Better(list, p) : list[i].priority < p
           /\ Better(list, p) < Len(list) => list[Better(list, p) + 1].priority >= p
<1>. DEFINE Fits(b) == /\ \A i \in 1 .. b : list[i].priority < p
                       /\ b < Len(list) => list[b + 1].priority >= p
            T == {b \in 0 .. Len(list) : b < Len(list) => list[b + 1].priority >= p}
<1>1. Len(list) \in Nat /\ \A i \in 1 .. Len(list) : list[i].priority \in Nat
  BY ServersOf
<1>2. T \in SUBSET Nat /\ Len(list) \in T
  BY <1>1
<1>3. PICK b \in T : \A c \in T : b <= c
  BY <1>2, Least
<1>4. ASSUME NEW i \in 1 .. b PROVE list[i].priority < p
  <2>1. i - 1 \in 0 .. Len(list) /\ ~(b <= i - 1) /\ i - 1 < Len(list) /\ i - 1 + 1 = i /\ i \in 1 .. Len(list)
    BY <1>1, <1>2, <1>3
  <2>2. i - 1 \notin T
    BY <1>3, <2>1
  <2>3. ~(list[i].priority >= p)
    BY <2>1, <2>2
  <2>. QED  BY <1>1, <2>1, <2>3
<1>5. Fits(b) /\ b \in 0 .. Len(list)
  BY <1>3, <1>4
<1>6. Better(list, p) = CHOOSE c \in 0 .. Len(list) : Fits(c)
  BY DEF Better
<1>. HIDE DEF Fits
<1>7. Fits(Better(list, p)) /\ Better(list, p) \in 0 .. Len(list)
  BY <1>5, <1>6, Zenon
<1>. QED  BY <1>7 DEF Fits

\* A list with n times the same in it behind its first b.
LEMMA InsertedParts ==
    ASSUME NEW S, NEW list \in Seq(S), NEW b \in 0 .. Len(list), NEW s \in S, NEW n \in Nat
    PROVE  /\ Inserted(list, b, s, n) \in Seq(S)
           /\ DOMAIN Inserted(list, b, s, n) = 1 .. Len(list) + n
           /\ \A j \in 1 .. b : Inserted(list, b, s, n)[j] = list[j]
           /\ \A j \in b + 1 .. b + n : Inserted(list, b, s, n)[j] = s
           /\ \A j \in b + n + 1 .. Len(list) + n : Inserted(list, b, s, n)[j] = list[j - n]
           /\ ToSet(Inserted(list, b, s, n)) \subseteq ToSet(list) \cup {s}
<1>. DEFINE u == SubSeq(list, 1, b)
            v == [i \in 1 .. n |-> s]
            w == SubSeq(list, b + 1, Len(list))
            x == Inserted(list, b, s, n)
<1>1. Len(list) \in Nat /\ DOMAIN list = 1 .. Len(list) /\ \A i \in 1 .. Len(list) : list[i] \in S
  BY LenProperties, ElementOfSeq
<1>2. u \in Seq(S) /\ Len(u) = b /\ \A j \in 1 .. b : u[j] = list[j]
  <2>1. \A j \in 1 .. b : list[j] \in S
    BY <1>1
  <2>2. u \in Seq(S) /\ Len(u) = (IF 1 <= b THEN b - 1 + 1 ELSE 0) /\ \A j \in 1 .. b - 1 + 1 : u[j] = list[1 + j - 1]
    BY <1>1, <2>1, SubSeqProperties
  <2>. QED  BY <1>1, <2>2
<1>3. v \in Seq(S) /\ Len(v) = n /\ \A j \in 1 .. n : v[j] = s
  <2>1. v \in [1 .. n -> S]
    OBVIOUS
  <2>2. v \in Seq(S)
    BY <2>1, SeqDef
  <2>. QED  BY <2>2, LenProperties
<1>4. w \in Seq(S) /\ Len(w) = Len(list) - b /\ \A j \in 1 .. Len(list) - b : w[j] = list[b + j]
  <2>1. \A j \in b + 1 .. Len(list) : list[j] \in S
    BY <1>1
  <2>2. /\ w \in Seq(S) /\ Len(w) = IF b + 1 <= Len(list) THEN Len(list) - (b + 1) + 1 ELSE 0
        /\ \A j \in 1 .. Len(list) - (b + 1) + 1 : w[j] = list[b + 1 + j - 1]
    BY <1>1, <2>1, SubSeqProperties
  <2>3. Len(w) = Len(list) - b
    <3>. HIDE DEF w
    <3>1. CASE b + 1 <= Len(list)
      BY <1>1, <2>2, <3>1
    <3>2. CASE ~(b + 1 <= Len(list))
      <4>1. Len(w) = 0
        BY <2>2, <3>2
      <4>2. Len(list) \in Nat /\ b \in Nat /\ b <= Len(list)
        BY LenProperties
      <4>3. Len(list) - b = 0
        BY ONLY <3>2, <4>2
      <4>. QED  BY <4>1, <4>3
    <3>. QED  BY <3>1, <3>2
  <2>4. ASSUME NEW j \in 1 .. Len(list) - b PROVE w[j] = list[b + j]
    <3>1. j \in 1 .. Len(list) - (b + 1) + 1 /\ b + 1 + j - 1 = b + j
      BY <1>1
    <3>. QED  BY <2>2, <3>1
  <2>. QED  BY <2>2, <2>3, <2>4
<1>5. x = (u \o v) \o w
  BY DEF Inserted
<1>. HIDE DEF u, v, w, x
<1>6. /\ u \o v \in Seq(S) /\ Len(u \o v) = b + n
      /\ \A j \in 1 .. b + n : (u \o v)[j] = IF j <= b THEN u[j] ELSE v[j - b]
  BY ZenonT(30), <1>2, <1>3, ConcatProperties
<1>7. /\ x \in Seq(S) /\ Len(x) = b + n + (Len(list) - b)
      /\ \A j \in 1 .. b + n + (Len(list) - b) : x[j] = IF j <= b + n THEN (u \o v)[j] ELSE w[j - (b + n)]
  <2>. DEFINE y == u \o v
  <2>1. y \in Seq(S) /\ Len(y) = b + n
    BY <1>6
  <2>. HIDE DEF y
  <2>2. /\ y \o w \in Seq(S) /\ Len(y \o w) = Len(y) + Len(w)
        /\ \A j \in 1 .. Len(y) + Len(w) : (y \o w)[j] = IF j <= Len(y) THEN y[j] ELSE w[j - Len(y)]
    BY <1>4, <2>1, ConcatProperties
  <2>3. x = y \o w
    BY <1>5 DEF y
  <2>. QED  BY <1>4, <2>1, <2>2, <2>3 DEF y
<1>8. Len(x) = Len(list) + n /\ b + n + (Len(list) - b) = Len(list) + n
  BY <1>1, <1>7
<1>9. ASSUME NEW j \in 1 .. Len(list) + n
      PROVE  x[j] = IF j <= b THEN list[j] ELSE IF j <= b + n THEN s ELSE list[j - n]
  <2>1. CASE j <= b
    <3>1. j \in 1 .. b /\ j \in 1 .. b + n /\ j <= b + n
      BY <2>1
    <3>. QED  BY <1>2, <1>6, <1>7, <1>8, <2>1, <3>1
  <2>2. CASE ~(j <= b) /\ j <= b + n
    <3>1. j - b \in 1 .. n /\ j \in 1 .. b + n
      BY <2>2
    <3>. QED  BY <1>3, <1>6, <1>7, <1>8, <2>2, <3>1
  <2>3. CASE ~(j <= b + n)
    <3>1. j - (b + n) \in 1 .. Len(list) - b /\ b + (j - (b + n)) = j - n /\ ~(j <= b)
      BY <1>1, <2>3
    <3>2. x[j] = w[j - (b + n)]
      BY <1>7, <1>8, <2>3
    <3>3. w[j - (b + n)] = list[j - n]
      BY <1>4, <3>1
    <3>. QED  BY <2>3, <3>1, <3>2, <3>3
  <2>. QED  BY <2>1, <2>2, <2>3
<1>10. DOMAIN x = 1 .. Len(list) + n
  BY <1>7, <1>8, LenProperties
<1>11. ToSet(x) \subseteq ToSet(list) \cup {s}
  <2>1. DOMAIN x = 1 .. Len(list) + n
    BY <1>10
  <2>2. ASSUME NEW j \in 1 .. Len(list) + n PROVE x[j] \in ToSet(list) \cup {s}
    <3>1. CASE j <= b
      <4>1. j \in 1 .. Len(list) /\ x[j] = list[j]
        BY <1>1, <1>9, <3>1
      <4>. QED  BY <1>1, <4>1 DEF ToSet
    <3>2. CASE ~(j <= b) /\ j <= b + n
      BY <1>9, <3>2
    <3>3. CASE ~(j <= b + n)
      <4>1. j - n \in 1 .. Len(list) /\ ~(j <= b)
        BY <1>1, <3>3
      <4>2. x[j] = list[j - n]
        BY <1>9, <3>3, <4>1
      <4>. QED  BY <1>1, <4>1, <4>2 DEF ToSet
    <3>. QED  BY <3>1, <3>2, <3>3
  <2>. QED  BY <2>1, <2>2 DEF ToSet
<1>12. \A j \in 1 .. b : j \in 1 .. Len(list) + n
  BY <1>1
<1>13. \A j \in b + 1 .. b + n : j \in 1 .. Len(list) + n /\ ~(j <= b) /\ j <= b + n
  BY <1>1
<1>14. \A j \in b + n + 1 .. Len(list) + n : j \in 1 .. Len(list) + n /\ ~(j <= b) /\ ~(j <= b + n)
  BY <1>1
<1>15. \A j \in 1 .. b : j <= b
  OBVIOUS
<1>. QED  BY <1>7, <1>8, <1>9, <1>11, <1>12, <1>13, <1>14, <1>15, <1>10 DEF x

\* Where a server is placed the list stays sorted by priority.
LEMMA PlacedParts ==
    ASSUME NEW list \in Seq(Servers), Sorted(list), NEW s \in Servers, NEW n \in Nat
    PROVE  /\ Placed(list, s, n) \in Seq(Servers) /\ Sorted(Placed(list, s, n))
           /\ ToSet(Placed(list, s, n)) \subseteq ToSet(list) \cup {s}
<1>. DEFINE b == Better(list, s.priority)
            x == Placed(list, s, n)
<1>1. s.priority \in Nat
  BY DEF Servers
<1>2. /\ b \in 0 .. Len(list) /\ (\A i \in 1 .. b : list[i].priority < s.priority)
      /\ b < Len(list) => list[b + 1].priority >= s.priority
  BY <1>1, BetterParts
<1>3. x = Inserted(list, b, s, n)
  BY DEF Placed
<1>4. Len(list) \in Nat /\ DOMAIN list = 1 .. Len(list) /\ \A i \in 1 .. Len(list) : list[i].priority \in Nat
  BY ServersOf
<1>. HIDE DEF b, x
<1>5. /\ x \in Seq(Servers) /\ DOMAIN x = 1 .. Len(list) + n /\ ToSet(x) \subseteq ToSet(list) \cup {s}
      /\ \A j \in 1 .. b : x[j] = list[j]
      /\ \A j \in b + 1 .. b + n : x[j] = s
      /\ \A j \in b + n + 1 .. Len(list) + n : x[j] = list[j - n]
  <2>1. b \in 0 .. Len(list)
    BY <1>2
  <2>. DEFINE y == Inserted(list, b, s, n)
  <2>2. y \in Seq(Servers)
    BY <2>1, InsertedParts
  <2>8. DOMAIN y = 1 .. Len(list) + n
    BY <2>1, InsertedParts
  <2>3. ToSet(y) \subseteq ToSet(list) \cup {s}
    BY <2>1, InsertedParts
  <2>4. \A j \in 1 .. b : y[j] = list[j]
    BY <2>1, InsertedParts
  <2>5. \A j \in b + 1 .. b + n : y[j] = s
    BY <2>1, InsertedParts
  <2>6. \A j \in b + n + 1 .. Len(list) + n : y[j] = list[j - n]
    BY <2>1, InsertedParts
  <2>. HIDE DEF y
  <2>7. x = y
    BY <1>3 DEF y
  <2>. QED  BY <2>2, <2>3, <2>4, <2>5, <2>6, <2>7, <2>8
<1>6. DOMAIN x = 1 .. Len(list) + n
  BY <1>5
<1>7. ASSUME NEW i \in b + 1 .. Len(list) PROVE s.priority <= list[i].priority
  <2>1. b + 1 \in DOMAIN list /\ i \in DOMAIN list /\ b < Len(list) /\ b + 1 <= i
    BY <1>2, <1>4
  <2>2. list[b + 1].priority >= s.priority /\ list[b + 1].priority <= list[i].priority
    BY <1>2, <2>1 DEF Sorted
  <2>. QED  BY <1>1, <1>4, <2>1, <2>2
<1>8. ASSUME NEW i \in DOMAIN x, NEW j \in DOMAIN x, i <= j
      PROVE  x[i].priority <= x[j].priority
  <2>1. CASE j <= b
    <3>1. i \in DOMAIN list /\ j \in DOMAIN list /\ x[i] = list[i] /\ x[j] = list[j]
      BY <1>2, <1>4, <1>5, <1>6, <1>8, <2>1
    <3>. QED  BY <1>8, <3>1 DEF Sorted
  <2>2. CASE ~(j <= b) /\ j <= b + n
    <3>1. x[j] = s
      <4>1. j \in b + 1 .. b + n
        BY <1>2, <1>4, <1>6, <2>2
      <4>. QED  BY <1>5, <4>1
    <3>2. x[i] = s \/ (x[i] = list[i] /\ i \in 1 .. b)
      BY <1>2, <1>4, <1>5, <1>6, <1>8, <2>2
    <3>3. CASE x[i] = s
      BY <1>1, <3>1, <3>3
    <3>4. CASE x[i] = list[i] /\ i \in 1 .. b
      <4>1. list[i].priority < s.priority /\ i \in 1 .. Len(list)
        BY <1>2, <1>4, <3>4
      <4>2. list[i].priority <= s.priority
        BY <1>1, <1>4, <4>1
      <4>. QED  BY <3>1, <3>4, <4>2
    <3>. QED  BY <3>2, <3>3, <3>4
  <2>3. CASE ~(j <= b + n)
    <3>1. j - n \in b + 1 .. Len(list) /\ ~(j <= b)
      BY <1>2, <1>4, <1>6, <2>3
    <3>2. x[j] = list[j - n] /\ s.priority <= list[j - n].priority /\ j - n \in DOMAIN list
          /\ list[j - n].priority \in Nat
      BY <1>2, <1>4, <1>5, <1>6, <1>7, <2>3, <3>1
    <3>3. CASE i <= b
      <4>1. x[i] = list[i] /\ i \in 1 .. b /\ i \in DOMAIN list
        BY <1>2, <1>4, <1>5, <1>6, <3>3
      <4>2. i <= j - n
        BY <1>2, <3>1, <4>1
      <4>3. list[i].priority <= list[j - n].priority
        BY <3>2, <4>1, <4>2 DEF Sorted
      <4>. QED  BY <3>2, <4>1, <4>3
    <3>4. CASE ~(i <= b) /\ i <= b + n
      <4>1. x[i] = s
        <5>1. i \in b + 1 .. b + n
          BY <1>2, <1>4, <1>6, <3>4
        <5>. QED  BY <1>5, <5>1
      <4>. QED  BY <3>2, <4>1
    <3>5. CASE ~(i <= b + n)
      <4>1. i - n \in DOMAIN list /\ i - n <= j - n /\ ~(i <= b)
        BY <1>2, <1>4, <1>6, <1>8, <3>5
      <4>2. x[i] = list[i - n]
        <5>1. i \in b + n + 1 .. Len(list) + n
          BY <1>2, <1>4, <1>6, <3>5
        <5>. QED  BY <1>5, <5>1
      <4>3. list[i - n].priority <= list[j - n].priority
        BY <3>2, <4>1 DEF Sorted
      <4>. QED  BY <3>2, <4>2, <4>3
    <3>. QED  BY <3>3, <3>4, <3>5
  <2>. QED  BY <2>1, <2>2, <2>3
<1>9. Sorted(x)
  BY <1>8 DEF Sorted
<1>. QED  BY <1>5, <1>9 DEF x


\* What the k-th record makes of the lists.
RecordTaken(q, host, n, l, k) ==
    IF Kept(srv[k].r.host) = Kept(host)
    THEN [l EXCEPT !.ina = Placed(@, Server(q, srv[k]), n)]
    ELSE [l EXCEPT !.srv = <<srv[k]>> \o @]

\* What becomes of the records and the servers is what its definition says.
LEMMA WithDef ==
    ASSUME srv \in Seq([id : Nat \ {0}, r : SrvRecords]), NEW q, NEW host, NEW n
    PROVE  WithAddresses(q, host, n) = [k \in 0 .. Len(srv) |->
                IF k = 0 THEN [srv |-> <<>>, ina |-> ina]
                ELSE RecordTaken(q, host, n, WithAddresses(q, host, n)[k - 1], k)]
<1>. DEFINE Taken(l, k) == RecordTaken(q, host, n, l, k)
            IsAfter(f, c) == f = [k \in 0 .. c |-> IF k = 0 THEN [srv |-> <<>>, ina |-> ina] ELSE Taken(f[k - 1], k)]
            T == {c \in Nat : \E f : IsAfter(f, c)}
<1>. HIDE DEF Taken
<1>1. 0 \in T
  <2>1. IsAfter([k \in 0 .. 0 |-> [srv |-> <<>>, ina |-> ina]], 0)
    OBVIOUS
  <2>. QED  BY <2>1
<1>2. ASSUME NEW c \in Nat, c \in T
      PROVE  c + 1 \in T
  <2>1. PICK f : IsAfter(f, c)
    BY <1>2
  <2>. DEFINE g == [k \in 0 .. c + 1 |-> IF k = c + 1 THEN Taken(f[k - 1], k) ELSE f[k]]
  <2>2. IsAfter(g, c + 1)
    BY <2>1
  <2>. HIDE DEF IsAfter, g
  <2>3. \E h : IsAfter(h, c + 1)
    BY <2>2, Zenon
  <2>. QED  BY <2>3
<1>. HIDE DEF IsAfter
<1>3. Nat \subseteq T
  BY <1>1, <1>2, Induction
<1>4. \E f : IsAfter(f, Len(srv))
  BY <1>3, LenProperties
<1>5. IsAfter(CHOOSE f : IsAfter(f, Len(srv)), Len(srv))
  BY <1>4, Zenon
<1>6. WithAddresses(q, host, n) = CHOOSE f : IsAfter(f, Len(srv))
  BY DEF WithAddresses, IsAfter, Taken, RecordTaken
<1>. QED  BY <1>5, <1>6 DEF IsAfter, Taken

\* A list and one in front of it.
LEMMA InFront ==
    ASSUME NEW S, NEW s \in Seq(S), NEW e \in S
    PROVE  <<e>> \o s \in Seq(S) /\ ToSet(<<e>> \o s) = ToSet(s) \cup {e}
<1>. DEFINE u == <<e>>
            w == u \o s
<1>1. u \in Seq(S) /\ Len(u) = 1 /\ u[1] = e
  OBVIOUS
<1>2. Len(s) \in Nat /\ DOMAIN s = 1 .. Len(s)
  BY LenProperties
<1>. HIDE DEF u
<1>3. w \in Seq(S) /\ Len(w) = 1 + Len(s) /\ \A j \in 1 .. 1 + Len(s) : w[j] = IF j <= 1 THEN u[j] ELSE s[j - 1]
  BY <1>1, ConcatProperties
<1>. HIDE DEF w
<1>4. DOMAIN w = 1 .. 1 + Len(s)
  BY <1>3, LenProperties
<1>5. w[1] = e /\ 1 \in DOMAIN w
  BY <1>1, <1>2, <1>3, <1>4
<1>6. \A j \in DOMAIN s : j + 1 \in DOMAIN w /\ w[j + 1] = s[j]
  <2>. SUFFICES ASSUME NEW j \in 1 .. Len(s) PROVE j + 1 \in DOMAIN w /\ w[j + 1] = s[j]
    BY <1>2
  <2>1. j + 1 \in 1 .. 1 + Len(s) /\ ~(j + 1 <= 1) /\ j + 1 - 1 = j
    BY <1>2
  <2>. QED  BY <1>3, <1>4, <2>1
<1>7. \A j \in DOMAIN w : j = 1 \/ (j - 1 \in DOMAIN s /\ w[j] = s[j - 1])
  <2>. SUFFICES ASSUME NEW j \in 1 .. 1 + Len(s), j # 1 PROVE j - 1 \in DOMAIN s /\ w[j] = s[j - 1]
    BY <1>4
  <2>1. j - 1 \in DOMAIN s /\ ~(j <= 1)
    BY <1>2
  <2>. QED  BY <1>3, <2>1
<1>8. ToSet(w) = ToSet(s) \cup {e}
  BY <1>5, <1>6, <1>7 DEF ToSet
<1>. QED  BY <1>3, <1>8 DEF w, u

\* The records that stay were there before, the servers that come are those of
\* hosts that cannot be told from that one, with its addresses, and servers stay sorted by priority.
FromLists(q, host, l) ==
    /\ l \in [srv : Seq([id : Nat \ {0}, r : SrvRecords]), ina : Seq(Servers)]
    /\ ToSet(l.srv) \subseteq ToSet(srv) /\ Sorted(l.ina)
    /\ \A s \in ToSet(l.ina) : s \in ToSet(ina) \/ (Kept(s.host) = Kept(host) /\ s.of = q.host)

LEMMA WithParts ==
    ASSUME Typed, Sorted(ina), NEW q \in asked, NEW host, NEW n \in Nat
    PROVE  \A k \in 0 .. Len(srv) : FromLists(q, host, WithAddresses(q, host, n)[k])
<1>. DEFINE R == [id : Nat \ {0}, r : SrvRecords]
            W == WithAddresses(q, host, n)
            Good(l) == FromLists(q, host, l)
            T == {c \in Nat : c <= Len(srv) => Good(W[c])}
<1>. USE DEF FromLists
<1>1. /\ srv \in Seq(R) /\ ina \in Seq(Servers) /\ q.host \in STRING
      /\ Len(srv) \in Nat /\ DOMAIN srv = 1 .. Len(srv) /\ \A k \in 1 .. Len(srv) : srv[k] \in R
  <2>1. srv \in Seq(R) /\ ina \in Seq(Servers) /\ q.host \in STRING
    BY DEF Typed
  <2>. QED  BY <2>1, LenProperties, ElementOfSeq
<1>. DEFINE Step(l, k) == RecordTaken(q, host, n, l, k)
<1>2. W = [k \in 0 .. Len(srv) |-> IF k = 0 THEN [srv |-> <<>>, ina |-> ina] ELSE Step(W[k - 1], k)]
  BY <1>1, WithDef
<1>. HIDE DEF W, Step
<1>3. 0 \in T
  <2>1. W[0] = [srv |-> <<>>, ina |-> ina]
    BY <1>1, <1>2
  <2>2. Good([srv |-> <<>>, ina |-> ina])
    BY <1>1 DEF ToSet
  <2>. HIDE DEF Good
  <2>. QED  BY <2>1, <2>2
<1>4. ASSUME NEW l, Good(l), NEW k \in 1 .. Len(srv) PROVE Good(Step(l, k))
  <2>1. srv[k] \in R /\ srv[k].r \in SrvRecords /\ srv[k] \in ToSet(srv)
    BY <1>1 DEF ToSet
  <2>2. CASE Kept(srv[k].r.host) = Kept(host)
    <3>. DEFINE s == Server(q, srv[k])
                p == Placed(l.ina, s, n)
    <3>1. s \in Servers /\ s.host = srv[k].r.host /\ s.of = q.host
      BY <1>1, <2>1 DEF Server, Servers, SrvRecords
    <3>2. l.ina \in Seq(Servers) /\ Sorted(l.ina)
      BY <1>4
    <3>. HIDE DEF s
    <3>3. p \in Seq(Servers) /\ Sorted(p) /\ ToSet(p) \subseteq ToSet(l.ina) \cup {s}
      BY <3>1, <3>2, PlacedParts
    <3>. HIDE DEF p
    <3>4. Step(l, k) = [l EXCEPT !.ina = p]
      BY <2>2 DEF Step, RecordTaken, p, s
    <3>6. Kept(s.host) = Kept(host)
      BY <2>2, <3>1
    <3>5. Step(l, k).ina = p /\ Step(l, k).srv = l.srv /\ Step(l, k) \in [srv : Seq(R), ina : Seq(Servers)]
      BY <1>4, <3>3, <3>4
    <3>. QED  BY <1>4, <3>1, <3>3, <3>5, <3>6
  <2>3. CASE Kept(srv[k].r.host) # Kept(host)
    <3>. DEFINE o == <<srv[k]>> \o l.srv
    <3>1. l.srv \in Seq(R)
      BY <1>4
    <3>2. o \in Seq(R) /\ ToSet(o) = ToSet(l.srv) \cup {srv[k]}
      <4>. HIDE DEF R
      <4>1. o \in Seq(R)
        BY <2>1, <3>1, InFront
      <4>2. ToSet(o) = ToSet(l.srv) \cup {srv[k]}
        BY <2>1, <3>1, InFront
      <4>. QED  BY <4>1, <4>2
    <3>. HIDE DEF o
    <3>3. Step(l, k) = [l EXCEPT !.srv = o]
      BY <2>3 DEF Step, RecordTaken, o
    <3>4. Step(l, k).srv = o /\ Step(l, k).ina = l.ina /\ Step(l, k) \in [srv : Seq(R), ina : Seq(Servers)]
      BY <1>4, <3>2, <3>3
    <3>. QED  BY <1>4, <2>1, <3>2, <3>4
  <2>. QED  BY <2>2, <2>3
<1>. HIDE DEF Good
<1>5. ASSUME NEW c \in Nat, c \in T PROVE c + 1 \in T
  <2>1. SUFFICES ASSUME c + 1 <= Len(srv) PROVE Good(W[c + 1])
    OBVIOUS
  <2>2. c + 1 \in 1 .. Len(srv) /\ c + 1 \in 0 .. Len(srv) /\ c + 1 # 0 /\ c + 1 - 1 = c /\ c <= Len(srv)
    BY <1>1, <2>1
  <2>3. W[c + 1] = Step(W[c], c + 1)
    BY <1>2, <2>2
  <2>4. Good(W[c])
    BY <1>5, <2>2
  <2>. QED  BY <1>4, <2>2, <2>3, <2>4
<1>6. Nat \subseteq T
  BY <1>3, <1>5, Induction
<1>7. ASSUME NEW k \in 0 .. Len(srv) PROVE Good(W[k])
  <2>1. k \in T /\ k <= Len(srv)
    BY <1>1, <1>6
  <2>. QED  BY <2>1
<1>. HIDE DEF FromLists
<1>. QED  BY <1>7 DEF Good, W


-----------------------------------------------------------------------------
\* Where a thread goes the others stay where they are.
LEMMA Gone ==
    ASSUME Steps, NEW t \in Threads, NEW l, Goto(t, l)
    PROVE  pc'[t] = l /\ \A u \in Threads : u # t => pc'[u] = pc[u]
  BY Zenon DEF Steps, Goto

\* A step that leaves the lists alone, but for connections that are over, and
\* brings no thread to records or to the next server.
LEMMA QuietStep ==
    ASSUME Lists, UNCHANGED <<srv, ina, asked, last, answers>>, tries' \subseteq tries,
           rest' \in Seq(SrvRecords), cancels' \in 0 .. Cancels, raced => raced',
           \A t \in Threads : pc'[t] \in {"picked", "record", "next"} => pc'[t] = pc[t]
    PROVE  Lists'
<1>. USE Three
<1>1. Typed'
  BY DEF Lists, Typed
<1>2. Sorted(ina)'
  BY DEF Lists, Sorted
<1>3. Fresh'
  BY Zenon DEF Lists, Fresh
<1>4. Numbered'
  <2>1. SUFFICES ASSUME answers' <= 1, ~raced' PROVE Numbered'
    BY DEF Numbered
  <2>2. answers <= 1 /\ ~raced /\ pc'[Worker] = "record" => pc[Worker] = "record"
    BY <2>1
  <2>. QED  BY <2>1, <2>2 DEF Lists, Numbered
<1>5. InTurn'
  <2>1. SUFFICES ASSUME answers' <= 1, ~raced' PROVE InTurn'
    BY DEF InTurn
  <2>2. answers <= 1 /\ ~raced /\ (pc'[Worker] = "record" => pc[Worker] = "record")
    BY <2>1
  <2>3. \A s \in ToSet(ina') : last' <= s.priority
    BY <2>2 DEF Lists, InTurn
  <2>4. ASSUME srv' # <<>> \/ pc'[Worker] = "record"
        PROVE  last' = 0 /\ tries' = {} /\ \A t \in Threads : pc'[t] # "next"
    <3>1. last = 0 /\ tries = {} /\ \A t \in Threads : pc[t] # "next"
      BY Zenon, <2>2, <2>4 DEF Lists, InTurn
    <3>. QED  BY <3>1
  <2>. QED  BY <2>3, <2>4 DEF InTurn
<1>. QED  BY <1>1, <1>2, <1>3, <1>4, <1>5 DEF Lists

LEMMA AnswerLists ==
    ASSUME OrderInv, Answer
    PROVE  Lists'
<1>1. /\ answers < MaxAnswers /\ UNCHANGED <<srv, ina, asked, tries, rest, last, answers, cancels>>
      /\ Goto(Worker, "picked") /\ Touch(Worker)
  BY DEF Answer, Enter, found, local, past
<1>2. Typed /\ Sorted(ina) /\ Fresh /\ Numbered /\ InTurn /\ Steps
  BY DEF OrderInv, Lists, IInv
<1>3. pc'[Worker] = "picked" /\ \A u \in Threads : u # Worker => pc'[u] = pc[u]
  BY <1>1, <1>2, Three, Gone
<1>4. raced => raced'
  BY Zenon, <1>1 DEF Touch
<1>5. Typed'
  BY <1>1, <1>2 DEF Typed
<1>6. Sorted(ina)'
  BY <1>1, <1>2 DEF Sorted
<1>7. \A u \in Threads : pc'[u] \notin {"record", "next"} \/ pc'[u] = pc[u]
  BY <1>3
<1>8. Fresh'
  BY <1>1, <1>2, <1>7 DEF Fresh
<1>9. Numbered'
  BY <1>1, <1>2, <1>3, <1>4 DEF Numbered
<1>10. InTurn'
  BY <1>1, <1>2, <1>3, <1>4, <1>7 DEF InTurn
<1>. QED  BY <1>5, <1>6, <1>8, <1>9, <1>10 DEF Lists

\* The first answer finds nothing there.
LEMMA PickedLists ==
    ASSUME OrderInv, NEW a \in Answers, Picked(a)
    PROVE  Lists'
<1>1. /\ pc[Worker] = "picked" /\ answers' = answers + 1 /\ rest' = a /\ raced' = raced
      /\ srv' = srv /\ ina' = ina /\ asked' = asked /\ tries' = tries /\ last' = last /\ cancels' = cancels
      /\ Goto(Worker, "record")
  BY DEF Picked, found
<1>2. Typed /\ Sorted(ina) /\ Fresh /\ Steps
  BY DEF OrderInv, Lists, IInv
<1>3. pc'[Worker] = "record" /\ \A u \in Threads : u # Worker => pc'[u] = pc[u]
  BY <1>1, <1>2, Three, Gone
<1>4. Typed'
  <2>1. rest' \in Seq(SrvRecords)
    BY <1>1, GetSrvAssumption DEF SrvRecords
  <2>2. answers' \in 0 .. MaxAnswers
    BY <1>1, <1>2, GetSrvAssumption DEF Typed
  <2>. QED  BY <1>1, <1>2, <1>3, <2>1, <2>2 DEF Typed
<1>5. answers \in Nat
  BY <1>2, GetSrvAssumption DEF Typed
<1>6. Fresh'
  BY <1>1, <1>5 DEF Fresh
<1>7. ASSUME answers' <= 1
      PROVE  /\ srv = <<>> /\ ina = <<>> /\ asked = {} /\ tries = {} /\ last = 0
             /\ \A t \in Threads : pc'[t] # "next"
  <2>1. answers = 0
    BY <1>1, <1>5, <1>7
  <2>2. \A u \in Threads \ {Worker} : pc[u] # "next"
    BY <1>2, <2>1 DEF Fresh
  <2>3. srv = <<>> /\ ina = <<>> /\ asked = {} /\ tries = {} /\ last = 0
    BY <1>2, <2>1 DEF Fresh
  <2>. QED  BY <1>3, <2>2, <2>3
<1>8. ToSet(<<>>) = {}
  BY DEF ToSet
<1>9. Numbered'
  BY <1>1, <1>7, <1>8 DEF Numbered
<1>10. InTurn'
  BY <1>1, <1>7, <1>8 DEF InTurn
<1>11. Sorted(ina)'
  BY <1>1, <1>2 DEF Sorted
<1>. QED  BY <1>4, <1>6, <1>9, <1>10, <1>11 DEF Lists

LEMMA RecordLists ==
    ASSUME OrderInv, NEW ask \in BOOLEAN, Record(ask)
    PROVE  Lists'
<1>. DEFINE r == Head(rest)
            id == Len(srv) + 1
            known == \E s \in ToSet(srv) : Kept(s.r.host) = r.host
            R == [id : Nat \ {0}, r : SrvRecords]
            e == [id |-> id, r |-> r]
<1>1. /\ pc[Worker] = "record" /\ rest # <<>>
      /\ srv' = (IF known \/ ask THEN <<e>> \o srv ELSE srv)
      /\ asked' = (IF ask /\ ~known THEN asked \cup {[id |-> id, host |-> r.host]} ELSE asked)
      /\ rest' = Tail(rest) /\ ina' = ina /\ tries' = tries /\ pc' = pc /\ last' = last
      /\ answers' = answers /\ cancels' = cancels /\ raced' = raced
  BY DEF Record, past
<1>2. Typed /\ Sorted(ina) /\ Fresh /\ Numbered /\ InTurn
  BY DEF OrderInv, Lists
<1>3. r \in SrvRecords /\ r.host \in STRING /\ rest' \in Seq(SrvRecords)
  <2>1. rest \in Seq(SrvRecords)
    BY <1>2 DEF Typed
  <2>2. r \in SrvRecords /\ Tail(rest) \in Seq(SrvRecords)
    BY <1>1, <2>1, HeadTailProperties
  <2>. QED  BY <1>1, <2>2 DEF SrvRecords
<1>4. srv \in Seq(R) /\ Len(srv) \in Nat /\ id \in Nat \ {0}
  BY <1>2 DEF Typed
<1>5. e \in R /\ e.id = id /\ e.r = r
  BY <1>3, <1>4
<1>. HIDE DEF r, known, e
<1>6. <<e>> \o srv \in Seq(R) /\ Len(<<e>> \o srv) = id /\ ToSet(<<e>> \o srv) = ToSet(srv) \cup {e}
  <2>. HIDE DEF R
  <2>1. <<e>> \o srv \in Seq(R)
    BY <1>4, <1>5, InFront
  <2>2. ToSet(<<e>> \o srv) = ToSet(srv) \cup {e}
    BY <1>4, <1>5, InFront
  <2>3. Len(<<e>> \o srv) = id
    BY <1>4, <1>5
  <2>. QED  BY <2>1, <2>2, <2>3
<1>7. Typed'
  <2>1. srv' \in Seq(R)
    BY <1>1, <1>4, <1>6
  <2>2. asked' \subseteq [id : Nat \ {0}, host : STRING]
    BY <1>1, <1>2, <1>3, <1>4 DEF Typed
  <2>. QED  BY <1>1, <1>2, <1>3, <2>1, <2>2 DEF Typed
<1>8. answers # 0
  BY <1>1, <1>2, Three DEF Fresh
<1>9. Fresh'
  BY <1>1, <1>8 DEF Fresh
<1>10. InTurn'
  BY <1>1, <1>2 DEF InTurn
<1>11. Numbered'
  <2>1. SUFFICES ASSUME answers <= 1, ~raced
                 PROVE  /\ \A x \in ToSet(srv') \cup asked' : x.id <= Len(srv')
                        /\ \A q \in asked', s \in ToSet(srv') : s.id = q.id => s.r.host = q.host
    BY <1>1, <1>2 DEF Numbered
  <2>2. /\ \A x \in ToSet(srv) \cup asked : x.id <= Len(srv)
        /\ \A q \in asked, s \in ToSet(srv) : s.id = q.id => s.r.host = q.host
    BY <1>1, <1>2, <2>1 DEF Numbered
  <2>3. \A x \in ToSet(srv) \cup asked : x.id \in Nat /\ x.id < id
    <3>1. \A x \in ToSet(srv) : x.id \in Nat
      <4>1. ToSet(srv) \subseteq R
        <5>. HIDE DEF R
        <5>. QED  BY <1>4, Members
      <4>. QED  BY <4>1
    <3>2. \A x \in asked : x.id \in Nat
      BY <1>2 DEF Typed
    <3>. QED  BY <1>4, <2>2, <3>1, <3>2
  <2>4. CASE known
    <3>1. srv' = <<e>> \o srv /\ asked' = asked
      BY <1>1, <2>4
    <3>2. ToSet(srv') = ToSet(srv) \cup {e} /\ Len(srv') = id
      BY <1>6, <3>1
    <3>. HIDE DEF id
    <3>. QED  BY <1>4, <1>5, <2>2, <2>3, <3>1, <3>2
  <2>5. CASE ~known /\ ask
    <3>. DEFINE p == [id |-> id, host |-> r.host]
    <3>1. srv' = <<e>> \o srv /\ asked' = asked \cup {p}
      BY <1>1, <2>5
    <3>2. ToSet(srv') = ToSet(srv) \cup {e} /\ Len(srv') = id
      BY <1>6, <3>1
    <3>3. p.id = id /\ p.host = r.host
      OBVIOUS
    <3>. HIDE DEF id, p
    <3>4. \A x \in ToSet(srv') \cup asked' : x.id <= Len(srv')
      BY <1>4, <1>5, <2>3, <3>1, <3>2, <3>3
    <3>5. ASSUME NEW q \in asked', NEW s \in ToSet(srv'), s.id = q.id PROVE s.r.host = q.host
      <4>1. CASE q \in asked /\ s \in ToSet(srv)
        BY <2>2, <3>5, <4>1
      <4>2. CASE q = p /\ s = e
        BY <1>5, <3>3, <4>2
      <4>3. CASE q = p /\ s \in ToSet(srv)
        BY <1>4, <2>3, <3>3, <3>5, <4>3
      <4>4. CASE q \in asked /\ s = e
        BY <1>4, <1>5, <2>3, <3>5, <4>4
      <4>. QED  BY <3>1, <3>2, <4>1, <4>2, <4>3, <4>4
    <3>. QED  BY <3>4, <3>5
  <2>6. CASE ~known /\ ~ask
    BY <1>1, <2>2, <2>6
  <2>. QED  BY <2>4, <2>5, <2>6
<1>12. Sorted(ina)'
  BY <1>1, <1>2 DEF Sorted
<1>. QED  BY <1>7, <1>9, <1>10, <1>11, <1>12 DEF Lists


\* on_getaddr.  The records that stay are ones there were, the servers that
\* come have hosts that cannot be told from the one that was asked for, and
\* nothing was tried yet.
LEMMA ResolvedLists ==
    ASSUME OrderInv, NEW t, NEW q, NEW n \in Nat, Resolved(t, q, n)
    PROVE  Lists'
<1>. DEFINE R == [id : Nat \ {0}, r : SrvRecords]
            base == SelectInSeq(srv, LAMBDA s : s.id = q.id)
            host == srv[base].r.host
            l == WithAddresses(q, host, n)[Len(srv)]
<1>1. /\ t \in {Worker, Monitor} /\ pc[t] = "idle" /\ q \in asked /\ asked' = asked \ {q}
      /\ tries' = tries /\ rest' = rest /\ last' = last /\ answers' = answers /\ cancels' = cancels
  BY DEF Resolved, local, past
<1>2. Typed /\ Sorted(ina) /\ Fresh /\ Numbered /\ InTurn /\ Steps
  BY DEF OrderInv, Lists, IInv
<1>3. t \in Threads
  BY <1>1, Three
<1>4. CASE ~(listed /\ base # 0)
  <2>1. srv' = srv /\ ina' = ina /\ pc' = pc /\ raced' = raced
    BY <1>4 DEF Resolved
  <2>2. Typed'
    BY <1>1, <1>2, <2>1 DEF Typed
  <2>3. Sorted(ina)'
    BY <1>2, <2>1 DEF Sorted
  <2>4. Fresh'
    BY <1>1, <1>2, <2>1 DEF Fresh
  <2>5. Numbered'
    BY <1>1, <1>2, <2>1 DEF Numbered
  <2>6. InTurn'
    BY <1>1, <1>2, <2>1 DEF InTurn
  <2>. QED  BY <2>2, <2>3, <2>4, <2>5, <2>6 DEF Lists
<1>5. CASE listed /\ base # 0
  <2>1. /\ srv' = l.srv
        /\ ina' \in IF l.srv = <<>> THEN Orders(l.ina) ELSE {l.ina}
        /\ Touch(t)
        /\ IF l.srv = <<>> THEN Goto(t, "next") ELSE pc' = pc
    BY <1>5 DEF Resolved
  <2>2. srv \in Seq(R) /\ Len(srv) \in Nat /\ Len(srv) \in 0 .. Len(srv) /\ DOMAIN srv = 1 .. Len(srv)
    BY <1>2, LenProperties DEF Typed
  <2>3. base \in DOMAIN srv /\ srv[base].id = q.id
    <3>. DEFINE I == {i \in 1 .. Len(srv) : srv[i].id = q.id}
    <3>1. base = IF I # {} THEN Min(I) ELSE 0
      BY DEF SelectInSeq
    <3>2. I # {} /\ base = Min(I)
      BY <1>5, <3>1
    <3>3. I \in SUBSET Nat
      BY <2>2
    <3>4. PICK i \in I : \A k \in I : i <= k
      BY <3>2, <3>3, Least
    <3>5. Min(I) \in I
      <4>. HIDE DEF I
      <4>1. Min(I) = CHOOSE x \in I : \A y \in I : x <= y
        BY DEF Min
      <4>. QED  BY <3>4, <4>1
    <3>. HIDE DEF base
    <3>. QED  BY <2>2, <3>2, <3>5
  <2>. HIDE DEF base
  <2>4. /\ l \in [srv : Seq(R), ina : Seq(Servers)]
        /\ ToSet(l.srv) \subseteq ToSet(srv) /\ Sorted(l.ina)
        /\ \A s \in ToSet(l.ina) : s \in ToSet(ina) \/ (Kept(s.host) = Kept(host) /\ s.of = q.host)
    <3>1. FromLists(q, host, l)
      <4>. HIDE DEF host
      <4>. QED  BY <1>1, <1>2, <2>2, WithParts
    <3>. QED  BY <3>1 DEF FromLists
  <2>. HIDE DEF l
  <2>5. /\ srv' \in Seq(R) /\ ToSet(srv') \subseteq ToSet(srv)
        /\ ina' \in Seq(Servers) /\ ToSet(ina') = ToSet(l.ina) /\ Sorted(ina')
    <3>1. CASE l.srv = <<>>
      <4>1. ina' \in Orders(l.ina) /\ l.ina \in Seq(Servers) /\ l.srv \in Seq(R)
        BY <2>1, <2>4, <3>1
      <4>2. ina' \in Seq(Servers) /\ ToSet(ina') = ToSet(l.ina) /\ Sorted(ina')
        BY <2>4, <4>1, OrdersSorted
      <4>. QED  BY <2>1, <2>4, <4>1, <4>2
    <3>2. CASE l.srv # <<>>
      <4>1. ina' = l.ina /\ srv' = l.srv
        BY <2>1, <3>2
      <4>. QED  BY <2>4, <4>1
    <3>. QED  BY <3>1, <3>2
  <2>6. pc'[t] \in {"idle", "next"} /\ (pc'[t] = "next" => srv' = <<>>)
        /\ \A u \in Threads : u # t => pc'[u] = pc[u]
    <3>1. CASE l.srv = <<>>
      <4>1. Goto(t, "next")
        BY <2>1, <3>1
      <4>2. pc'[t] = "next" /\ \A u \in Threads : u # t => pc'[u] = pc[u]
        BY <1>2, <1>3, <4>1, Gone
      <4>. QED  BY <2>1, <3>1, <4>2
    <3>2. CASE l.srv # <<>>
      BY <1>1, <2>1, <3>2
    <3>. QED  BY <3>1, <3>2
  <2>7. Typed'
    <3>1. pc'[Worker] = "picked" => pc[Worker] = "picked"
      BY <2>6, Three
    <3>. QED  BY <1>1, <1>2, <2>5, <3>1 DEF Typed
  <2>8. srv # <<>>
    BY <2>2, <2>3
  <2>9. answers # 0
    BY <1>2, <2>8 DEF Fresh
  <2>10. Fresh'
    BY <1>1, <2>9 DEF Fresh
  <2>11. ASSUME answers <= 1, ~raced'
         PROVE  /\ ~raced /\ \A u \in Threads : u # t => pc'[u] = "idle"
                /\ pc'[Worker] # "record"
                /\ last = 0 /\ tries = {} /\ \A q2 \in asked, s \in ToSet(srv) : s.id = q2.id => s.r.host = q2.host
                /\ \A s \in ToSet(ina) : Kept(s.host) = Kept(s.of)
    <3>1. ~raced /\ \A u \in Threads : u # t => pc[u] = "idle"
      BY <2>1, <2>11 DEF Touch
    <3>2. \A u \in Threads : u # t => pc'[u] = "idle"
      BY <2>6, <3>1
    <3>3. pc'[Worker] # "record"
      BY <2>6, <3>2, Three
    <3>4. last = 0 /\ tries = {}
      BY <1>2, <2>8, <2>11, <3>1 DEF InTurn
    <3>5. /\ \A q2 \in asked, s \in ToSet(srv) : s.id = q2.id => s.r.host = q2.host
          /\ \A s \in ToSet(ina) : Kept(s.host) = Kept(s.of)
      BY <1>2, <2>11, <3>1 DEF Numbered
    <3>. QED  BY <3>1, <3>2, <3>3, <3>4, <3>5
  <2>12. Numbered'
    <3>1. SUFFICES ASSUME answers <= 1, ~raced'
                   PROVE  /\ \A q2 \in asked', s \in ToSet(srv') : s.id = q2.id => s.r.host = q2.host
                          /\ \A s \in ToSet(ina') \cup tries' : Kept(s.host) = Kept(s.of)
      BY <1>1, <2>11 DEF Numbered
    <3>2. host = q.host
      <4>1. srv[base] \in ToSet(srv)
        BY <2>3 DEF ToSet
      <4>. QED  BY <1>1, <2>3, <2>11, <3>1, <4>1
    <3>3. \A s \in ToSet(ina') : Kept(s.host) = Kept(s.of)
      BY <2>4, <2>5, <2>11, <3>1, <3>2
    <3>. QED  BY <1>1, <2>5, <2>11, <3>1, <3>3
  <2>13. InTurn'
    <3>1. SUFFICES ASSUME answers <= 1, ~raced'
                   PROVE  /\ srv' # <<>> \/ pc'[Worker] = "record" =>
                                last' = 0 /\ tries' = {} /\ \A u \in Threads : pc'[u] # "next"
                          /\ \A s \in ToSet(ina') : last' <= s.priority
      BY <1>1 DEF InTurn
    <3>2. ToSet(ina') \subseteq Servers /\ \A s \in Servers : s.priority \in Nat
      BY <2>5, Members DEF Servers
    <3>3. \A s \in ToSet(ina') : last' <= s.priority
      BY <1>1, <2>11, <3>1, <3>2
    <3>4. srv' # <<>> => \A u \in Threads : pc'[u] # "next"
      BY <2>6, <2>11, <3>1
    <3>. QED  BY <1>1, <2>11, <3>1, <3>3, <3>4
  <2>. QED  BY <2>5, <2>7, <2>10, <2>12, <2>13 DEF Lists
<1>. QED  BY <1>4, <1>5

\* What the next server leaves of the list.
LEMMA NextServer ==
    ASSUME Lists, ina # <<>>, ina' = Tail(ina), last' = Head(ina).priority
    PROVE  /\ Head(ina) \in Servers /\ Head(ina) \in ToSet(ina) /\ last' \in Nat
           /\ ina' \in Seq(Servers) /\ Sorted(ina') /\ ToSet(ina') \subseteq ToSet(ina)
           /\ \A s \in ToSet(ina') : last' <= s.priority
<1>1. ina \in Seq(Servers) /\ Sorted(ina)
  BY DEF Lists, Typed
<1>2. /\ Len(ina) \in Nat /\ DOMAIN ina = 1 .. Len(ina)
      /\ \A i \in DOMAIN ina : ina[i] \in Servers /\ ina[i].priority \in Nat
  BY <1>1, ServersOf
<1>3. Head(ina) = ina[1] /\ 1 \in DOMAIN ina
  BY <1>1, <1>2
<1>4. ina' \in Seq(Servers) /\ Len(ina') = Len(ina) - 1 /\ \A i \in 1 .. Len(ina) - 1 : ina'[i] = ina[i + 1]
  BY <1>1, HeadTailProperties
<1>5. DOMAIN ina' = 1 .. Len(ina) - 1
  BY <1>4, ServersOf
<1>6. \A i \in DOMAIN ina' : i + 1 \in DOMAIN ina /\ ina'[i] = ina[i + 1]
  BY <1>2, <1>4, <1>5
<1>7. Sorted(ina')
  <2>. SUFFICES ASSUME NEW i \in DOMAIN ina', NEW j \in DOMAIN ina', i <= j
                PROVE  ina'[i].priority <= ina'[j].priority
    BY DEF Sorted
  <2>1. i + 1 <= j + 1
    BY <1>5
  <2>. QED  BY <1>1, <1>6, <2>1 DEF Sorted
<1>8. \A i \in DOMAIN ina' : ina[1].priority <= ina'[i].priority
  <2>. SUFFICES ASSUME NEW i \in DOMAIN ina' PROVE ina[1].priority <= ina[i + 1].priority
    BY <1>6
  <2>1. 1 <= i + 1
    BY <1>5
  <2>. QED  BY <1>1, <1>3, <1>6, <2>1 DEF Sorted
<1>9. ToSet(ina') \subseteq ToSet(ina)
  BY <1>6 DEF ToSet
<1>10. \A s \in ToSet(ina') : last' <= s.priority
  BY <1>3, <1>8 DEF ToSet
<1>11. Head(ina) \in ToSet(ina)
  BY <1>3 DEF ToSet
<1>. QED  BY <1>2, <1>3, <1>4, <1>7, <1>9, <1>10, <1>11

\* try_next_server, of which Pass and Try are the ways it may go.
LEMMA NextServerLists ==
    ASSUME OrderInv, NEW t \in Threads, pc[t] = "next", ina # <<>>,
           ina' = Tail(ina), last' = Head(ina).priority, tries' \subseteq tries \cup {Head(ina)},
           UNCHANGED <<srv, asked, rest, answers, cancels, raced>>,
           \A u \in Threads : pc'[u] \in {"picked", "record", "next"} => pc'[u] = pc[u]
    PROVE  Lists'
<1>1. Typed /\ Fresh /\ Numbered /\ InTurn /\ Lists
  BY DEF OrderInv, Lists
<1>2. /\ Head(ina) \in Servers /\ Head(ina) \in ToSet(ina) /\ last' \in Nat
      /\ ina' \in Seq(Servers) /\ Sorted(ina') /\ ToSet(ina') \subseteq ToSet(ina)
      /\ \A s \in ToSet(ina') : last' <= s.priority
  BY <1>1, NextServer
<1>3. Typed'
  <2>1. pc'[Worker] = "picked" => pc[Worker] = "picked"
    BY Three
  <2>. QED  BY <1>1, <1>2, <2>1 DEF Typed
<1>4. answers # 0
  BY <1>1 DEF Fresh
<1>5. Fresh'
  BY <1>4 DEF Fresh
<1>6. Numbered'
  <2>1. SUFFICES ASSUME answers <= 1, ~raced
                 PROVE  /\ pc'[Worker] = "record" => \A e \in ToSet(srv) \cup asked : e.id <= Len(srv)
                        /\ \A q \in asked, s \in ToSet(srv) : s.id = q.id => s.r.host = q.host
                        /\ \A s \in ToSet(ina') \cup tries' : Kept(s.host) = Kept(s.of)
    BY DEF Numbered
  <2>2. pc'[Worker] = "record" => pc[Worker] = "record"
    BY Three
  <2>. QED  BY <1>1, <1>2, <2>1, <2>2 DEF Numbered
<1>7. InTurn'
  <2>1. SUFFICES ASSUME answers <= 1, ~raced
                 PROVE  srv = <<>> /\ pc'[Worker] # "record"
    BY <1>2 DEF InTurn
  <2>2. ~(srv # <<>> \/ pc[Worker] = "record")
    BY <1>1, <2>1 DEF InTurn
  <2>. QED  BY <2>2, Three
<1>. QED  BY <1>2, <1>3, <1>5, <1>6, <1>7 DEF Lists

LEMMA RefusedLists ==
    ASSUME OrderInv, NEW c \in tries, Refused(c)
    PROVE  Lists'
<1>1. /\ pc[Worker] = "idle" /\ tries' = tries \ {c}
      /\ srv' = srv /\ ina' = ina /\ asked' = asked /\ rest' = rest /\ last' = last
      /\ answers' = answers /\ cancels' = cancels
  BY DEF Refused, found, local, past
<1>2. Typed /\ Sorted(ina) /\ Fresh /\ Numbered /\ InTurn /\ Steps
  BY DEF OrderInv, Lists, IInv
<1>3. CASE ~listed
  <2>1. pc' = pc /\ raced' = raced
    BY <1>3 DEF Refused
  <2>. QED  BY <1>1, <1>2, <2>1, QuietStep DEF Lists, Typed
<1>4. CASE listed
  <2>1. Goto(Worker, "next") /\ Touch(Worker)
    BY <1>4 DEF Refused, Enter
  <2>2. pc'[Worker] = "next" /\ \A u \in Threads : u # Worker => pc'[u] = pc[u]
    BY <1>2, <2>1, Three, Gone
  <2>3. Typed'
    BY <1>1, <1>2, <2>2 DEF Typed
  <2>4. Sorted(ina)'
    BY <1>1, <1>2 DEF Sorted
  <2>5. answers # 0
    BY <1>2 DEF Fresh
  <2>6. Fresh'
    BY <1>1, <2>5 DEF Fresh
  <2>7. raced => raced'
    BY <2>1 DEF Touch
  <2>8. Numbered'
    BY <1>1, <1>2, <2>2, <2>7 DEF Numbered
  <2>9. InTurn'
    BY <1>1, <1>2, <2>2, <2>7 DEF InTurn
  <2>. QED  BY <2>3, <2>4, <2>6, <2>8, <2>9 DEF Lists
<1>. QED  BY <1>3, <1>4


\* A thread that goes elsewhere, when nothing else of the lists changes.
LEMMA LeaveStep ==
    ASSUME OrderInv, UNCHANGED <<srv, ina, asked, last, answers, rest>>, tries' \subseteq tries,
           cancels' \in 0 .. Cancels, raced => raced',
           pc' = pc \/ \E t \in Threads, l \in {"idle", "over", "cancel", "release", "delete"} : Goto(t, l)
    PROVE  Lists'
<1>1. Lists /\ Steps /\ rest' \in Seq(SrvRecords)
  BY DEF OrderInv, IInv, Lists, Typed
<1>2. \A t \in Threads : pc'[t] \in {"picked", "record", "next"} => pc'[t] = pc[t]
  <2>1. CASE pc' = pc
    BY <2>1
  <2>2. ASSUME NEW u \in Threads, NEW l \in {"idle", "over", "cancel", "release", "delete"}, Goto(u, l)
        PROVE  \A t \in Threads : pc'[t] \in {"picked", "record", "next"} => pc'[t] = pc[t]
    <3>1. pc'[u] = l /\ \A t \in Threads : t # u => pc'[t] = pc[t]
      BY <1>1, <2>2, Gone
    <3>. QED  BY <3>1
  <2>. QED  BY <2>1, <2>2
<1>. QED  BY <1>1, <1>2, QuietStep

\* OrderInv: the lists of a request are of their types and sorted, numbers
\* stand for the records whose hosts were asked for, and no server is left
\* that is better than the last one tried (rascal_getsrv.cc:98-129, 225-283,
\* 313-371), with the references of a request (IInv).
THEOREM OrderInvariance == Spec => []OrderInv
<1>1. Init => Lists
  <2>. SUFFICES ASSUME Init PROVE Lists
    OBVIOUS
  <2>. USE GetSrvAssumption
  <2>1. ToSet(<<>>) = {} /\ DOMAIN <<>> = {}
    BY DEF ToSet
  <2>2. Typed
    <3>1. pc[Worker] # "picked"
      BY Three DEF Init
    <3>. QED  BY <3>1 DEF Init, Typed
  <2>3. Sorted(ina) /\ Numbered /\ InTurn
    BY <2>1, Three DEF Init, Sorted, Numbered, InTurn
  <2>4. Fresh
    BY DEF Init, Fresh
  <2>. QED  BY <2>2, <2>3, <2>4 DEF Lists
<1>2. OrderInv /\ [Next]_vars => Lists'
  <2>. SUFFICES ASSUME OrderInv, [Next]_vars PROVE Lists'
    OBVIOUS
  <2>. USE DEF object, found, local, past
  <2>1. Typed /\ cancels \in 0 .. Cancels
    BY DEF OrderInv, Lists, Typed
  <2>2. CASE UNCHANGED vars
    BY <2>1, <2>2, LeaveStep DEF vars
  <2>3. CASE Answer
    BY <2>3, AnswerLists
  <2>4. CASE OnEvent
    <3>6. ASSUME NEW a \in Answers, Picked(a) PROVE Lists'
      BY <3>6, PickedLists
    <3>1. CASE RecordNowhere
      BY <2>1, <3>1, Three, LeaveStep DEF RecordNowhere
    <3>2. CASE RecordsEnd
      BY <2>1, <3>2, Three, LeaveStep DEF RecordsEnd
    <3>3. CASE NothingFound
      BY <2>1, <3>3, Three, LeaveStep DEF NothingFound
    <3>4. CASE SomeFound
      BY <2>1, <3>4, Three, LeaveStep DEF SomeFound
    <3>5. ASSUME NEW ask \in BOOLEAN, Record(ask) PROVE Lists'
      BY <3>5, RecordLists
    <3>. QED  BY <2>4, <3>1, <3>2, <3>3, <3>4, <3>5, <3>6 DEF OnEvent
  <2>5. ASSUME NEW t, NEW q, NEW n \in 0 .. MaxAddrs, Resolved(t, q, n) PROVE Lists'
    <3>1. n \in Nat
      BY <2>5, GetSrvAssumption
    <3>. QED  BY <2>5, <3>1, ResolvedLists
  <2>6. CASE Events
    <3>1. ASSUME NEW c \in tries, Connected(c) PROVE Lists'
      BY <2>1, <3>1, Three, LeaveStep DEF Connected, Enter, Touch
    <3>2. ASSUME NEW c \in tries, Refused(c) PROVE Lists'
      BY <3>2, RefusedLists
    <3>3. ASSUME NEW c \in tries, Closed(c) PROVE Lists'
      BY <2>1, <3>3, LeaveStep DEF Closed
    <3>. QED  BY <2>6, <3>1, <3>2, <3>3 DEF Events
  <2>7. CASE Delete
    BY <2>1, <2>7, Three, LeaveStep DEF Delete
  <2>8. ASSUME NEW t \in Threads, Finish(t) PROVE Lists'
    <3>1. CASE NoServerLeft(t)
      BY <2>1, <3>1, LeaveStep DEF NoServerLeft
    <3>2. CASE Pass(t)
      BY <3>2, NextServerLists DEF Pass
    <3>3. CASE Try(t)
      <4>1. pc'[t] = "idle" /\ \A u \in Threads : u # t => pc'[u] = pc[u]
        BY <3>3, Gone DEF Try, OrderInv, IInv
      <4>. QED  BY <3>3, <4>1, NextServerLists DEF Try
    <3>4. CASE Cancel(t)
      <4>1. Goto(t, "release") \/ Goto(t, "idle")
        BY <3>4 DEF Cancel
      <4>. QED  BY <2>1, <3>4, <4>1, LeaveStep DEF Cancel
    <3>5. CASE Release(t)
      BY <2>1, <3>5, LeaveStep DEF Release
    <3>. QED  BY <2>8, <3>1, <3>2, <3>3, <3>4, <3>5 DEF Finish
  <2>9. CASE Expire
    BY <2>1, <2>9, Three, LeaveStep DEF Expire, Enter, Touch
  <2>10. CASE UserCancel
    <3>1. cancels' \in 0 .. Cancels
      BY <2>1, <2>10, GetSrvAssumption DEF UserCancel
    <3>. QED  BY <2>10, <3>1, Three, LeaveStep DEF UserCancel, Enter, Touch
  <2>. QED  BY <2>2, <2>3, <2>4, <2>5, <2>6, <2>7, <2>8, <2>9, <2>10, GetSrvAssumption DEF Next
<1>3. OrderInv <=> IInv /\ Lists
  BY DEF OrderInv
<1>. QED  BY <1>1, <1>2, <1>3, Invariance, PTL DEF Spec

\* AddressesMatch: an address is used with the records of hosts that cannot be
\* told from the one it was asked for by what is kept of a name, and variables keep their types (rascal_getsrv.cc:98-129, 336-371).
THEOREM AddressesAreOfTheirRecords == Spec => []AddressesMatch
<1>1. OrderInv => AddressesMatch
  <2>. SUFFICES ASSUME OrderInv PROVE AddressesMatch
    OBVIOUS
  <2>1. Steps /\ Typed /\ Numbered
    BY DEF OrderInv, IInv, Lists
  <2>2. TypeOK
    <3>. DEFINE R == [id : Nat \ {0}, r : SrvRecords]
    <3>1. srv \in Seq(R)
      BY <2>1 DEF Typed
    <3>2. ToSet(srv) \subseteq R
      <4>. HIDE DEF R
      <4>. QED  BY <3>1, Members
    <3>3. \A s \in ToSet(srv) \cup asked : s.id \in Nat \ {0}
      BY <2>1, <3>2 DEF Typed
    <3>4. ToSet(told) \subseteq {"connected", "unavailable", "not found"}
      BY <2>1, Members DEF Steps
    <3>5. answers \in 0 .. MaxAnswers /\ cancels \in 0 .. Cancels
      BY <2>1 DEF Typed
    <3>6. /\ life \in {"live", "gone"} /\ refc \in Int /\ rc \in {"success", "unavailable"}
          /\ {cancelled, listed, raced, expired} \subseteq BOOLEAN
          /\ pc \in [Threads -> {"idle", "picked", "record", "over", "next", "cancel", "release", "delete"}]
          /\ held \in [Threads -> BOOLEAN]
      BY <2>1, Zenon DEF Steps
    <3>7. {cancelled, listed} \subseteq BOOLEAN /\ {expired, raced} \subseteq BOOLEAN
      BY <3>6, Zenon
    <3>. QED  BY <3>3, <3>4, <3>5, <3>6, <3>7, Zenon DEF TypeOK
  <2>3. answers <= 1 /\ ~raced => \A s \in ToSet(ina) \cup tries : Kept(s.host) = Kept(s.of)
    BY <2>1 DEF Numbered
  <2>. QED  BY <2>2, <2>3 DEF AddressesMatch
<1>. QED  BY <1>1, OrderInvariance, PTL

\* AnyMayLead: every weighted server of the best priority may come first
\* (rascal_getsrv.cc:239-257), whatever the weights.
THEOREM WeightedServersMayLead == Spec => []AnyMayLead
<1>1. OrderInv => AnyMayLead
  <2>. SUFFICES ASSUME OrderInv, NEW i \in Group(ina), ~Arc4, \A j \in 1 .. i : ina[j].weight > 0
                PROVE  \E rnd \in Draws(Total(ina)) : Drawn(ina, rnd) = i
    BY DEF AnyMayLead
  <2>1. ina \in Seq(Servers)
    BY DEF OrderInv, Lists, Typed
  <2>. QED  BY <2>1, MayLead
<1>. QED  BY <1>1, OrderInvariance, PTL

\* TriedInOrder: no server is tried after a worse one (rascal_getsrv.cc:
\* 225-283, 356-365).
THEOREM ServersAreTriedInOrder == Spec => TriedInOrder
<1>1. OrderInv /\ [Next]_vars => [answers <= 1 /\ ~raced' => last' >= last]_vars
  <2>. SUFFICES ASSUME OrderInv, Next, answers <= 1, ~raced' PROVE last' >= last
    BY DEF TriedInOrder
  <2>1. last \in Nat /\ InTurn /\ Lists
    BY DEF OrderInv, Lists, Typed
  <2>2. ASSUME NEW t \in Threads, Pass(t) \/ Try(t) PROVE last' >= last
    <3>1. ina # <<>> /\ ina' = Tail(ina) /\ last' = Head(ina).priority /\ raced' = raced
      BY <2>2 DEF Pass, Try, past
    <3>2. Head(ina) \in ToSet(ina) /\ Head(ina) \in Servers
      BY <2>1, <3>1, NextServer
    <3>3. last <= Head(ina).priority
      BY <2>1, <3>1, <3>2 DEF InTurn
    <3>4. Head(ina).priority \in Nat
      BY <3>2 DEF Servers
    <3>. QED  BY <2>1, <3>1, <3>3, <3>4
  <2>3. last' = last \/ \E t \in Threads : Pass(t) \/ Try(t)
    BY DEF Next, Answer, Picked, OnEvent, RecordNowhere, RecordsEnd, NothingFound, SomeFound, Record,
           Resolved, Events, Connected, Refused, Closed, Delete, Finish, NoServerLeft, Cancel,
           Release, Expire, UserCancel, past
  <2>. QED  BY <2>1, <2>2, <2>3
<1>. QED  BY <1>1, OrderInvariance, PTL DEF Spec, TriedInOrder
=============================================================================

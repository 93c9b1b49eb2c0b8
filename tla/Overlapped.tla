----------------------------- MODULE Overlapped -----------------------------
(***************************************************************************)
(* A stream connection on Windows (nt/): the operations oconnect, oreader  *)
(* and owriter that hold the references to it, the workers that handle     *)
(* their completions (iocp::Worker), and a thread of the application that  *)
(* writes to it and cancels it.                                            *)
(*                                                                         *)
(* The connection is one that rascal_connect has begun, or one that a      *)
(* worker accepts (oaccept::on_event).  decref and the deletion it leads   *)
(* to are one step (Object shows what may happen in between), and so are   *)
(* incref and the system call of an operation, except for a writer's,      *)
(* which fills its buffer first.                                           *)
(***************************************************************************)
EXTENDS Integers, FiniteSets, SequencesExt

CONSTANTS
    Workers,    \* the threads of iocp::init
    Caller,     \* the thread of the application
    Chunk,      \* the bytes an operation has room for (OVERLAPPED_DATA_SIZE)
    None,
    Outgoing,   \* bound: bytes written
    Incoming,   \* bound: reads that succeed
    Cancels     \* bound: calls of rascal_cancel

Op(kind, data) == [kind |-> kind, data |-> data]
Operations == {Op("connect", <<>>), Op("read", <<>>)} \cup [kind : {"write"}, data : Seq(Nat)]

ASSUME OverlappedAssumption ==
    /\ Caller \notin Workers /\ None \notin Workers \cup {Caller} \cup Operations
    /\ Chunk \in Nat \ {0} /\ {Outgoing, Incoming, Cancels} \subseteq Nat

Threads == Workers \cup {Caller}

VARIABLES
    origin,     \* was the connection made or accepted?
    life, refc, cancelled,      \* the fields of object
    s,          \* the socket: trying, up, closed, or lost with its attempt
    is_writing, wrb, mx,        \* fields of connection; mx is its owner
    flight,     \* operations that the system works on
    port,       \* completions that wait for a worker
    pc,         \* what each thread does next
    ev,         \* the operation whose completion the worker handles
    nu,         \* the operation that the thread could not yet hand over
    written,    \* history: how many bytes were written,
    sent,       \* and those that the system took, in order
    came, cancels,  \* history: how many reads and cancellations there were
    closes,     \* history: how often rop_close was told
    happened    \* history: declined, early, raced

fields == <<life, refc, cancelled>>
buffer == <<is_writing, wrb>>
ops == <<flight, port>>
local == <<pc, ev, nu>>
past == <<written, sent, came, cancels, closes>>
vars == <<origin, fields, s, buffer, mx, ops, local, past, happened>>

Init ==
    /\ origin \in {"connected", "accepted"}
    /\ life = "live" /\ cancelled = FALSE
    /\ is_writing = FALSE /\ wrb = <<>> /\ mx = None
    /\ port = {}
    /\ ev = [t \in Threads |-> None] /\ nu = [t \in Threads |-> None]
    /\ written = 0 /\ sent = <<>> /\ came = 0 /\ cancels = 0 /\ closes = 0
    /\ happened = {}
    /\ \/ /\ origin = "connected" /\ s = "trying"
          /\ flight = {Op("connect", <<>>)} /\ refc = 1
          /\ pc = [t \in Threads |-> "idle"]
       \/ /\ origin = "accepted" /\ s = "up"
          /\ flight = {} /\ refc = 0
          /\ \E w \in Workers : pc = [t \in Threads |-> IF t = w THEN "accepted" ELSE "idle"]

Goto(t, l) == pc' = [pc EXCEPT ![t] = l]

\* Is the thread one that accepts the connection, which it does not hold?
Unheld(t) == t \in Workers /\ pc[t] # "idle" /\ ev[t] = None

\* object::decref, and delete.
Decref ==
    /\ refc' = refc - 1
    /\ life' = IF refc = 1 /\ cancelled THEN "gone" ELSE life
    /\ happened' = IF life' = "gone" /\ \E t \in Threads : Unheld(t)
                   THEN happened \cup {"early"} ELSE happened
    /\ UNCHANGED cancelled
Incref == refc' = refc + 1 /\ UNCHANGED <<life, cancelled>>

\* Where a thread is when a call it made for the connection returns.
Back(t) ==
    IF mx = t THEN "unlock"
    ELSE IF t = Caller THEN "release"
    ELSE IF ev[t] # None THEN "delete" ELSE "idle"

-----------------------------------------------------------------------------
\* The system completes an operation; those of a closed socket fail.
Complete(op, failed) ==
    /\ op \in flight
    /\ s = "closed" => failed /\ op.kind # "connect"
    /\ op.kind = "read" /\ ~failed => came < Incoming
    /\ came' = IF op.kind = "read" /\ ~failed THEN came + 1 ELSE came
    /\ s' = IF op.kind = "connect" /\ ~failed THEN "up" ELSE s
    /\ flight' = flight \ {op}
    /\ port' = port \cup {[op |-> op, failed |-> failed]}
    /\ UNCHANGED <<origin, fields, buffer, mx, local, written, sent, cancels, closes, happened>>

\* connect_ex_thread deletes an attempt whose socket it cannot ask, when the
\* attempt is new or when it next looks through its list: because the socket
\* was closed, or for any other reason, and then nobody hears of the attempt.
ConnectDropped ==
    /\ Op("connect", <<>>) \in flight
    /\ flight' = flight \ {Op("connect", <<>>)}
    /\ s' = IF s = "closed" THEN s ELSE "lost"
    /\ Decref
    /\ UNCHANGED <<origin, buffer, mx, port, local, past>>

\* iocp::Worker: on_event of oconnect, oreader or owriter ...
Dequeue(t, e) ==
    /\ t \in Workers /\ pc[t] = "idle"
    /\ e \in port /\ port' = port \ {e}
    /\ ev' = [ev EXCEPT ![t] = e.op]
    /\ Goto(t, IF e.failed THEN "cancel" ELSE e.op.kind)
    /\ UNCHANGED <<origin, fields, s, buffer, mx, flight, nu, past, happened>>

\* ... and the deletion of the operation.
Delete(t) ==
    /\ pc[t] = "delete"
    /\ Decref
    /\ ev' = [ev EXCEPT ![t] = None]
    /\ Goto(t, "idle")
    /\ UNCHANGED <<origin, s, buffer, mx, ops, nu, past>>

-----------------------------------------------------------------------------
\* connection::on_connect, on_accept: the handler takes the connection or
\* declines it, ...
Introduce(t) ==
    /\ pc[t] \in {"connect", "accepted"}
    /\ \/ Goto(t, "reader") /\ UNCHANGED happened
       \/ /\ Goto(t, "cancel")
          /\ happened' = IF pc[t] = "accepted" THEN happened \cup {"declined"} ELSE happened
    /\ UNCHANGED <<origin, fields, s, buffer, mx, ops, ev, nu, past>>

\* ... on_read: it hears of data, cancelled or not, ...
Arrive(t) ==
    /\ pc[t] = "read"
    /\ Goto(t, "reader")
    /\ UNCHANGED <<origin, fields, s, buffer, mx, ops, ev, nu, past, happened>>

\* Mutant of SpawnReader: one that cannot read is only deleted.
SpawnReaderQuiet(t) ==
    /\ pc[t] = "reader"
    /\ Goto(t, Back(t))
    /\ \/ s = "up" /\ Incref /\ flight' = flight \cup {Op("read", <<>>)}
       \/ UNCHANGED <<fields, flight>>
    /\ UNCHANGED <<origin, s, buffer, mx, port, ev, nu, past, happened>>

\* ... spawn_reader; oreader cancels the connection if it cannot read.
SpawnReader(t) ==
    /\ pc[t] = "reader"
    /\ Incref
    /\ \/ /\ s = "up"
          /\ flight' = flight \cup {Op("read", <<>>)}
          /\ Goto(t, Back(t))
          /\ UNCHANGED nu
       \/ /\ nu' = [nu EXCEPT ![t] = Op("read", <<>>)]
          /\ Goto(t, "cancel")
          /\ UNCHANGED flight
    /\ UNCHANGED <<origin, s, buffer, mx, port, ev, past, happened>>

\* Mutant of Wrote: the writer is spawned before is_writing is reset.
WroteStill(t) ==
    /\ pc[t] = "write"
    /\ mx = None
    /\ IF wrb = <<>> THEN is_writing' = FALSE ELSE UNCHANGED is_writing
    /\ Goto(t, "writer")
    /\ UNCHANGED <<origin, fields, s, wrb, mx, ops, ev, nu, past, happened>>

\* on_write: the handler hears of it, and the next writer may write.
Wrote(t) ==
    /\ pc[t] = "write"
    /\ mx = None
    /\ is_writing' = FALSE
    /\ Goto(t, "writer")
    /\ UNCHANGED <<origin, fields, s, wrb, mx, ops, ev, nu, past, happened>>

First(n, list) == SubSeq(list, 1, IF n < Len(list) THEN n ELSE Len(list))
Rest(n, list) == SubSeq(list, n + 1, Len(list))

\* Mutant of SpawnWriter: it does not ask whether another one writes.
SpawnWriterAnyway(t) ==
    /\ pc[t] = "writer"
    /\ mx \in {None, t}
    /\ IF wrb = <<>>
       THEN Goto(t, Back(t)) /\ UNCHANGED <<fields, buffer, nu>>
       ELSE /\ Incref
            /\ is_writing' = TRUE
            /\ nu' = [nu EXCEPT ![t] = Op("write", First(Chunk, wrb))]
            /\ wrb' = Rest(Chunk, wrb)
            /\ Goto(t, "send")
    /\ UNCHANGED <<origin, s, mx, ops, ev, past, happened>>

\* spawn_writer: owriter takes what there is room for, if there is anything
\* and no other one writes, ...
SpawnWriter(t) ==
    /\ pc[t] = "writer"
    /\ mx \in {None, t}
    /\ IF is_writing \/ wrb = <<>>
       THEN Goto(t, Back(t)) /\ UNCHANGED <<fields, buffer, nu>>
       ELSE /\ Incref
            /\ is_writing' = TRUE
            /\ nu' = [nu EXCEPT ![t] = Op("write", First(Chunk, wrb))]
            /\ wrb' = Rest(Chunk, wrb)
            /\ Goto(t, "send")
    /\ UNCHANGED <<origin, s, mx, ops, ev, past, happened>>

\* ... and hands it to the system, or cancels the connection if it cannot.
Send(t) ==
    /\ pc[t] = "send"
    /\ \/ /\ s = "up"
          /\ flight' = flight \cup {nu[t]}
          /\ sent' = sent \o nu[t].data
          /\ nu' = [nu EXCEPT ![t] = None]
          /\ Goto(t, Back(t))
       \/ Goto(t, "cancel") /\ UNCHANGED <<flight, sent, nu>>
    /\ UNCHANGED <<origin, fields, s, buffer, mx, port, ev, written, came, cancels, closes, happened>>

-----------------------------------------------------------------------------
\* connection::cancel: rop_close, unless the connection is cancelled, ...
CancelNot(t) ==
    /\ pc[t] = "cancel" /\ cancelled
    /\ Goto(t, IF nu[t] # None THEN "drop" ELSE Back(t))
    /\ UNCHANGED <<origin, fields, s, buffer, mx, ops, ev, nu, past, happened>>

Cancel(t) ==
    /\ pc[t] = "cancel" /\ ~cancelled
    /\ happened' = IF \E u \in Threads \ {t} : pc[u] = "mark" THEN happened \cup {"raced"} ELSE happened
    /\ closes' = closes + 1
    /\ Goto(t, "mark")
    /\ UNCHANGED <<origin, fields, s, buffer, mx, ops, ev, nu, written, sent, came, cancels>>

\* Mutant of Mark: the connection is not marked.
MarkNot(t) ==
    /\ pc[t] = "mark"
    /\ Goto(t, "close")
    /\ UNCHANGED <<origin, fields, s, buffer, mx, ops, ev, nu, past, happened>>

\* ... object::cancel ...
Mark(t) ==
    /\ pc[t] = "mark"
    /\ cancelled' = TRUE
    /\ Goto(t, "close")
    /\ UNCHANGED <<origin, life, refc, s, buffer, mx, ops, ev, nu, past, happened>>

\* Mutant of Close: the socket stays open.
CloseNot(t) ==
    /\ pc[t] = "close"
    /\ Goto(t, IF nu[t] # None THEN "drop" ELSE Back(t))
    /\ UNCHANGED <<origin, fields, s, buffer, mx, ops, ev, nu, past, happened>>

\* ... and port.close.
Close(t) ==
    /\ pc[t] = "close"
    /\ s' = "closed"
    /\ Goto(t, IF nu[t] # None THEN "drop" ELSE Back(t))
    /\ UNCHANGED <<origin, fields, buffer, mx, ops, ev, nu, past, happened>>

\* Mutant of Drop: the operation that was not taken stays.
DropNot(t) ==
    /\ pc[t] = "drop"
    /\ nu' = [nu EXCEPT ![t] = None]
    /\ Goto(t, Back(t))
    /\ UNCHANGED <<origin, fields, s, buffer, mx, ops, ev, past, happened>>

\* Then an operation that the system did not take is deleted.
Drop(t) ==
    /\ pc[t] = "drop"
    /\ Decref
    /\ nu' = [nu EXCEPT ![t] = None]
    /\ Goto(t, Back(t))
    /\ UNCHANGED <<origin, s, buffer, mx, ops, ev, past>>

-----------------------------------------------------------------------------
\* rascal_write, with mx locked till it returns, ...
CallWrite ==
    /\ pc[Caller] = "idle" /\ life = "live" /\ written < Outgoing
    /\ Incref
    /\ Goto(Caller, "append")
    /\ UNCHANGED <<origin, s, buffer, mx, ops, ev, nu, past, happened>>

\* Mutant of Append: spawn_writer is left to on_write.
AppendOnly ==
    /\ pc[Caller] = "append" /\ mx = None /\ mx' = Caller
    /\ written' = written + 1
    /\ wrb' = Append(wrb, written')
    /\ Goto(Caller, "unlock")
    /\ UNCHANGED <<origin, fields, s, is_writing, ops, ev, nu, sent, came, cancels, closes, happened>>

AppendByte ==
    /\ pc[Caller] = "append" /\ mx = None /\ mx' = Caller
    /\ written' = written + 1
    /\ wrb' = Append(wrb, written')
    /\ Goto(Caller, IF is_writing THEN "unlock" ELSE "writer")
    /\ UNCHANGED <<origin, fields, s, is_writing, ops, ev, nu, sent, came, cancels, closes, happened>>

Unlock(t) ==
    /\ pc[t] = "unlock" /\ mx = t /\ mx' = None
    /\ Goto(t, "release")
    /\ UNCHANGED <<origin, fields, s, buffer, ops, ev, nu, past, happened>>

\* ... rascal_cancel, ...
CallCancel ==
    /\ pc[Caller] = "idle" /\ life = "live" /\ cancels < Cancels
    /\ cancels' = cancels + 1
    /\ Incref
    /\ Goto(Caller, "cancel")
    /\ UNCHANGED <<origin, s, buffer, mx, ops, ev, nu, written, sent, came, closes, happened>>

\* ... and ~pobject.
Release ==
    /\ pc[Caller] = "release"
    /\ Decref
    /\ Goto(Caller, "idle")
    /\ UNCHANGED <<origin, s, buffer, mx, ops, ev, nu, past>>

Proceed(t) ==
    \/ Introduce(t) \/ Arrive(t) \/ SpawnReader(t) \/ Wrote(t) \/ SpawnWriter(t) \/ Send(t)
    \/ CancelNot(t) \/ Cancel(t) \/ Mark(t) \/ Close(t) \/ Drop(t) \/ Delete(t) \/ Unlock(t)
Call == CallWrite \/ CallCancel
Return == AppendByte \/ Release

\* What a thread does to a connection that was deleted under it is not defined.
Next ==
    /\ "early" \notin happened
    /\ \/ \E op \in flight, failed \in BOOLEAN : Complete(op, failed)
       \/ ConnectDropped
       \/ \E t \in Workers, e \in port : Dequeue(t, e)
       \/ \E t \in Threads : Proceed(t)
       \/ Call \/ Return

Spec == Init /\ [][Next]_vars

\* A thread that has something to do does it, a free worker takes what there
\* is, and the system completes what is sent and what a closed socket aborts.
FairSpec ==
    /\ Spec
    /\ \A t \in Workers : WF_vars(Proceed(t))
    /\ WF_vars(Proceed(Caller) \/ Return)
    /\ WF_vars(\E t \in Workers, e \in port : Dequeue(t, e))
    /\ WF_vars(\E op \in flight, failed \in BOOLEAN :
                 (op.kind = "write" \/ s = "closed") /\ Complete(op, failed))

-----------------------------------------------------------------------------
TypeOK ==
    /\ origin \in {"connected", "accepted"}
    /\ life \in {"live", "gone"} /\ refc \in Nat /\ {cancelled, is_writing} \subseteq BOOLEAN
    /\ s \in {"trying", "up", "closed", "lost"} /\ mx \in Threads \cup {None}
    /\ pc \in [Threads -> {"idle", "connect", "accepted", "read", "write", "reader", "writer",
                           "send", "cancel", "mark", "close", "drop", "delete",
                           "append", "unlock", "release"}]
    /\ happened \subseteq {"declined", "early", "raced"}

\* What holds a reference: operations, wherever they are, and a call.
Handled == {t \in Threads : ev[t] # None}
Refused == {t \in Threads : nu[t] # None}
Calling == {Caller} \ {t \in Threads : pc[t] = "idle"}
References == Cardinality(flight) + Cardinality(port) + Cardinality(Handled)
              + Cardinality(Refused) + Cardinality(Calling)

\* Variables keep their types, every reference is one of an operation or of a
\* call, and nothing is done to a connection that was deleted: by the last of
\* them (nt/overlapped.cc:11-29, nt/iocp.cc:143-155), unless an accepted one,
\* which has none before its first read, is cancelled and released by another
\* thread (nt/oaccept.cc:51-54).
HoldsExact ==
    /\ TypeOK
    /\ "early" \notin happened =>
        /\ refc = References
        /\ life = "gone" => refc = 0 /\ \A t \in Threads : pc[t] = "idle"

\* Bytes leave in the order in which they were written, each once, however
\* on_write and rascal_write compete to spawn the next writer
\* (nt/connection.cc:51-62, 92-100; nt/owriter.cc:14-49).
SentInOrder ==
    LET taken == UNION {ToSet(nu[t].data) : t \in {u \in Threads : nu[u] # None}} IN
    /\ \A i \in DOMAIN sent : sent[i] = i
    /\ ~cancelled => Len(sent) + Cardinality(taken) + Len(wrb) = written

\* rop_close is told once (nt/connection.cc:37-48), unless two threads find the
\* connection not yet cancelled.
ClosedOnce == "raced" \notin happened => closes <= 1

\* A connection that is not cancelled has an operation that will notice its
\* end: it never goes deaf (nt/connection.cc:80-86, 103-129;
\* nt/oreader.cc:15-44), unless its attempt was deleted without a word
\* (nt/connectex.cc:60-64, 104-110).
StaysRead ==
    ~cancelled /\ s # "lost" =>
        \/ \E op \in flight \cup {e.op : e \in port} : op.kind # "write"
        \/ \E t \in Threads :
             pc[t] \in {"connect", "accepted", "read", "reader", "cancel", "mark"}

\* What is written leaves, or the connection is closed (nt/connection.cc:57-59,
\* 92-100).
WritesLeave == wrb # <<>> ~> wrb = <<>> \/ cancelled

\* A cancelled connection is deleted in the end, unless it was accepted and
\* declined, when nobody holds it, or is still connecting, when its operation
\* waits for another attempt to be noticed (connectex.cc:57-64).
CancelledDies ==
    cancelled ~> \/ life = "gone"
                 \/ "declined" \in happened
                 \/ Op("connect", <<>>) \in flight

-----------------------------------------------------------------------------
(***************************************************************************)
(* The inductive invariant.                                                *)
(***************************************************************************)

\* The bytes of the list follow the first n.
Follow(n, list) == \A i \in DOMAIN list : list[i] = n + i

Data ==
    /\ flight \subseteq Operations /\ port \subseteq [op : Operations, failed : BOOLEAN]
    /\ {ev, nu} \subseteq [Threads -> Operations \cup {None}]
    /\ {wrb, sent} \subseteq Seq(Nat) /\ {written, closes} \subseteq Nat

\* Where a thread is tells what it holds.
Places ==
    /\ mx \in {Caller, None} /\ ev[Caller] = None
    /\ pc[Caller] \notin {"connect", "accepted", "read", "write", "reader", "delete"}
    /\ \A t \in Workers :
        /\ pc[t] \notin {"append", "unlock", "release"}
        /\ pc[t] = "idle" => ev[t] = None
        /\ pc[t] \in {"connect", "read", "write", "writer", "send", "delete"} => ev[t] # None
    /\ \A t \in Threads :
        /\ nu[t] # None => pc[t] \in {"send", "cancel", "mark", "close", "drop"}
        /\ pc[t] \in {"send", "drop"} => nu[t] # None
        /\ pc[t] = "send" => nu[t].kind = "write"

Counted ==
    /\ IsFiniteSet(flight) /\ IsFiniteSet(port) /\ IsFiniteSet(Handled) /\ IsFiniteSet(Refused)
    /\ refc = References

\* At most one of the operations of these kinds, and of the threads at these
\* places.
OneTurn(kinds, places) ==
    LET begun == {op \in flight : op.kind \in kinds}
        done == {e \in port : e.op.kind \in kinds}
        at == {t \in Threads : pc[t] \in places}
    IN  /\ \A a, b \in begun : a = b
        /\ \A a, b \in done : a = b
        /\ \A a, b \in at : a = b
        /\ begun = {} \/ done = {}
        /\ begun \cup done = {} \/ at = {}

OneReads == OneTurn({"connect", "read"}, {"connect", "accepted", "read", "reader"})
OneWrites == OneTurn({"write"}, {"write"})
Writing ==
    \/ \E op \in flight \cup {e.op : e \in port} : op.kind = "write"
    \/ \E t \in Threads : pc[t] = "write"

\* The bytes that a writer has taken and the system has not.
Filled(t) == nu[t] # None /\ nu[t].kind = "write"

InOrder ==
    /\ Writing => is_writing
    /\ Follow(0, sent)
    /\ \A t \in Threads : Filled(t) =>
        /\ is_writing /\ ~Writing /\ \A u \in Threads : Filled(u) => u = t
        /\ Follow(Len(sent), nu[t].data)
        /\ Follow(Len(sent) + Len(nu[t].data), wrb)
        /\ Len(sent) + Len(nu[t].data) + Len(wrb) = written
    /\ (\A t \in Threads : ~Filled(t)) =>
        \/ Follow(Len(sent), wrb) /\ Len(sent) + Len(wrb) = written
        \/ cancelled /\ is_writing /\ ~Writing

Marked ==
    /\ s = "closed" => cancelled
    /\ \A t \in Threads : pc[t] \in {"close", "drop"} => cancelled
    /\ "raced" \notin happened =>
        closes <= 1 /\ (closes = 0 \/ cancelled \/ \E t \in Threads : pc[t] = "mark")

Gone ==
    life = "gone" =>
        refc = 0 /\ cancelled /\ ("early" \in happened \/ \A t \in Threads : pc[t] = "idle")

IInv ==
    /\ TypeOK /\ Data /\ Places /\ Counted /\ OneReads /\ OneWrites
    /\ InOrder /\ Marked /\ StaysRead /\ Gone
=============================================================================

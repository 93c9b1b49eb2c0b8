------------------------------- MODULE GetSrv -------------------------------
(***************************************************************************)
(* rascal_connect_service: one request for a service, from the packet that *)
(* asks for its SRV records to the connection it was made for              *)
(* (common/resolver/rascal_getsrv.cc), and rascal_accept_service, which is *)
(* that with a filter that never accepts.                                  *)
(*                                                                         *)
(* The SRV answer starts one address request per host name; when the last  *)
(* of these is over, the servers are sorted and tried in turn, each next   *)
(* one when the connection to the last fails.  Nothing of this is locked.  *)
(*                                                                         *)
(* Of the end of a request (Resolver) unlist, cancel and decref are one    *)
(* step here.  The address requests are taken to be answered or given up   *)
(* once.  The request stands in the queue from the beginning: Resolver     *)
(* shows how it comes there.                                               *)
(***************************************************************************)
EXTENDS SrvOrder

CONSTANTS
    Answers,    \* what name servers may answer: sequences of SRV records
    Nowhere,    \* the host name "." of a service that is not available
    Kept(_),    \* what srv::host, of 64 octets, keeps of a host name
    MaxAddrs,   \* addresses of a host
    Worker,     \* the thread that reads answers and connects
    Monitor,    \* the thread of monitor.cc
    Caller,     \* the thread of the application
    MaxAnswers, \* bound: answers to the SRV question
    MaxServers, \* bound: servers to be tried
    Cancels     \* bound: calls of rascal_cancel

ASSUME GetSrvAssumption ==
    /\ {MaxAddrs, MaxAnswers, MaxServers, Cancels} \subseteq Nat
    /\ Worker # Monitor /\ Caller \notin {Worker, Monitor}
    /\ \A a \in Answers : a \in Seq([priority : Nat, weight : Nat, host : STRING])

Threads == {Worker, Monitor, Caller}

VARIABLES
    life, refc, cancelled,  \* the fields of object
    listed,     \* is the request in request::queue?
    srv,        \* the SRV records whose address is not known yet
    ina,        \* the servers still to be tried
    asked,      \* address requests under way: the id and name of the record
    tries,      \* connections under way
    pc,         \* what each thread does next with the request
    held,       \* does the thread hold a reference to it?
    rest, rc,   \* locals of on_event
    told,       \* what the handler was told, in order
    last,       \* history: the priority of the server tried last
    answers, cancels,   \* history: how many there were
    expired,    \* history: did the monitor give the request up?
    raced       \* history: did two threads have to do with it at a time?

object == <<life, refc, cancelled, listed>>
found == <<srv, ina, asked>>
local == <<rest, rc>>
past == <<answers, cancels, expired>>
vars == <<object, found, tries, pc, held, local, told, last, past, raced>>

Init ==
    /\ life = "live" /\ refc = 1 /\ cancelled = FALSE /\ listed = TRUE
    /\ srv = <<>> /\ ina = <<>> /\ asked = {} /\ tries = {}
    /\ pc = [t \in Threads |-> "idle"]
    /\ held = [t \in Threads |-> FALSE]
    /\ rest = <<>> /\ rc = "success"
    /\ told = <<>> /\ last = 0
    /\ answers = 0 /\ cancels = 0 /\ expired = FALSE /\ raced = FALSE

Goto(t, l) == pc' = [pc EXCEPT ![t] = l]
Touch(t) == raced' = (raced \/ \E u \in Threads \ {t} : pc[u] # "idle")
Enter(t, l) == Goto(t, l) /\ Touch(t)
Tell(what) == told' = Append(told, what)

Decref(n) ==
    /\ refc' = refc - n
    /\ life' = IF refc - n <= 0 /\ cancelled' THEN "gone" ELSE life

-----------------------------------------------------------------------------
\* request::on_read: an answer to the SRV question, of one of the name servers
\* or to one of the packets, is read, and pick finds the request ...
Answer ==
    /\ pc[Worker] = "idle"
    /\ listed
    /\ answers < MaxAnswers
    /\ Enter(Worker, "picked")
    /\ UNCHANGED <<object, found, tries, held, local, told, last, past>>

\* Mutant of Picked: on_read keeps no reference.
PickedUncounted(a) ==
    /\ pc[Worker] = "picked"
    /\ answers' = answers + 1
    /\ held' = [held EXCEPT ![Worker] = TRUE]
    /\ rest' = a /\ rc' = "success"
    /\ Goto(Worker, "record")
    /\ UNCHANGED <<object, found, tries, told, last, cancels, expired, raced>>

\* ... which is counted only now, whether it is there or not ...
Picked(a) ==
    /\ pc[Worker] = "picked"
    /\ answers' = answers + 1
    /\ refc' = refc + 1
    /\ held' = [held EXCEPT ![Worker] = TRUE]
    /\ rest' = a /\ rc' = "success"
    /\ Goto(Worker, "record")
    /\ UNCHANGED <<life, cancelled, listed, found, tries, told, last, cancels, expired, raced>>

\* ... on_event reads its records until one says that there is no service ...
RecordNowhere ==
    /\ pc[Worker] = "record"
    /\ rest # <<>> /\ Head(rest).host = Nowhere
    /\ rc' = "unavailable"
    /\ Goto(Worker, "over")
    /\ UNCHANGED <<object, found, tries, held, rest, told, last, past, raced>>

\* Mutant of Record: the number is taken before the record is linked to the
\* others.
RecordUnlinked(ask) ==
    LET r == Head(rest)
        known == \E s \in ToSet(srv) : Kept(s.r.host) = r.host
    IN  /\ pc[Worker] = "record"
        /\ rest # <<>> /\ r.host # Nowhere
        /\ srv' = IF known \/ ask THEN <<[id |-> 1, r |-> r]>> \o srv ELSE srv
        /\ asked' = IF ask /\ ~known THEN asked \cup {[id |-> 1, host |-> r.host]} ELSE asked
        /\ rest' = Tail(rest)
        /\ UNCHANGED <<object, ina, tries, pc, held, rc, told, last, past, raced>>

\* ... each record gets the next number, and if none has its host name, as far
\* as that is kept, an address request for the whole name, without which (flush
\* fails) it is dropped.  (r.host is the whole name: of a record of srv the code
\* has but what Kept says) ...
Record(ask) ==
    LET r == Head(rest)
        id == Len(srv) + 1
        known == \E s \in ToSet(srv) : Kept(s.r.host) = r.host
    IN  /\ pc[Worker] = "record"
        /\ rest # <<>> /\ r.host # Nowhere
        /\ srv' = IF known \/ ask THEN <<[id |-> id, r |-> r]>> \o srv ELSE srv
        /\ asked' = IF ask /\ ~known THEN asked \cup {[id |-> id, host |-> r.host]} ELSE asked
        /\ rest' = Tail(rest)
        /\ UNCHANGED <<object, ina, tries, pc, held, rc, told, last, past, raced>>

RecordsEnd ==
    /\ pc[Worker] = "record" /\ rest = <<>>
    /\ Goto(Worker, "over")
    /\ UNCHANGED <<object, found, tries, held, local, told, last, past, raced>>

\* ... and if there is none left the request is over.
NothingFound ==
    /\ pc[Worker] = "over" /\ srv = <<>>
    /\ Tell(IF rc = "success" THEN "not found" ELSE "unavailable")
    /\ Goto(Worker, "cancel")
    /\ UNCHANGED <<object, found, tries, held, local, last, past, raced>>

SomeFound ==
    /\ pc[Worker] = "over" /\ srv # <<>>
    /\ Goto(Worker, "release")
    /\ UNCHANGED <<object, found, tries, held, local, told, last, past, raced>>

-----------------------------------------------------------------------------
\* How many servers at the head of the list come before that priority.
Better(list, priority) ==
    CHOOSE b \in 0 .. Len(list) :
        /\ \A i \in 1 .. b : list[i].priority < priority
        /\ b < Len(list) => list[b + 1].priority >= priority

Inserted(list, b, s, n) == SubSeq(list, 1, b) \o [i \in 1 .. n |-> s] \o SubSeq(list, b + 1, Len(list))

\* Mutant of Placed: a server goes behind those of the next priority.
PlacedBehind(list, s, n) == Inserted(list, Better(list, s.priority + 2), s, n)

\* A server, once for each of n addresses, goes before those of its own
\* priority and behind the better ones.
Placed(list, s, n) == Inserted(list, Better(list, s.priority), s, n)

Server(q, s) == [priority |-> s.r.priority, weight |-> s.r.weight, host |-> s.r.host, of |-> q.host]
\* Mutant of WithAddresses: all records become servers.
WithAddressesToAll(q, host, n) ==
    LET after[k \in 0 .. Len(srv)] ==
            IF k = 0 THEN [srv |-> <<>>, ina |-> ina]
            ELSE [after[k - 1] EXCEPT !.ina = Placed(@, Server(q, srv[k]), n)]
    IN  after

\* What becomes of the records, one after another, and of the servers when the
\* n addresses of a host are there: the records of hosts that cannot be told
\* from it become servers, the others are turned round.
WithAddresses(q, host, n) ==
    LET after[k \in 0 .. Len(srv)] ==
            IF k = 0 THEN [srv |-> <<>>, ina |-> ina]
            ELSE IF Kept(srv[k].r.host) = Kept(host)
            THEN [after[k - 1] EXCEPT !.ina = Placed(@, Server(q, srv[k]), n)]
            ELSE [after[k - 1] EXCEPT !.srv = <<srv[k]>> \o @]
    IN  after

\* on_getaddr: the addresses of a host (none, if its request failed or timed
\* out), for a record that is found by its number.  The last one has the
\* servers sorted and tried.
Resolved(t, q, n) ==
    LET base == SelectInSeq(srv, LAMBDA s : s.id = q.id)
        lists == WithAddresses(q, srv[base].r.host, n)[Len(srv)]
    IN  /\ t \in {Worker, Monitor} /\ pc[t] = "idle"
        /\ q \in asked /\ asked' = asked \ {q}
        /\ IF listed /\ base # 0
           THEN /\ Len(lists.ina) <= MaxServers
                /\ srv' = lists.srv
                /\ ina' \in IF lists.srv = <<>> THEN Orders(lists.ina) ELSE {lists.ina}
                /\ Touch(t)
                /\ IF lists.srv = <<>> THEN Goto(t, "next") ELSE UNCHANGED pc
           ELSE UNCHANGED <<srv, ina, pc, raced>>
        /\ UNCHANGED <<object, tries, held, local, told, last, past>>

-----------------------------------------------------------------------------
\* Mutant of NoServerLeft: nobody is told.
NoServerLeftQuiet(t) ==
    /\ pc[t] = "next" /\ ina = <<>>
    /\ Goto(t, "cancel")
    /\ UNCHANGED <<object, found, tries, held, local, told, last, past, raced>>

\* try_next_server: none is left ...
NoServerLeft(t) ==
    /\ pc[t] = "next" /\ ina = <<>>
    /\ Tell("unavailable")
    /\ Goto(t, "cancel")
    /\ UNCHANGED <<object, found, tries, held, local, last, past, raced>>

\* ... or the filter declines it or the connection fails at once ...
Pass(t) ==
    /\ pc[t] = "next" /\ ina # <<>>
    /\ ina' = Tail(ina) /\ last' = Head(ina).priority
    /\ UNCHANGED <<object, srv, asked, tries, pc, held, local, told, past, raced>>

\* ... or a connection is begun.
Try(t) ==
    /\ pc[t] = "next" /\ ina # <<>>
    /\ ina' = Tail(ina) /\ last' = Head(ina).priority
    /\ tries' = tries \cup {Head(ina)}
    /\ Goto(t, "idle")
    /\ UNCHANGED <<object, srv, asked, held, local, told, past, raced>>

\* try_next_server_disp: the connection is up; it is the handler's from now ...
Connected(c) ==
    /\ pc[Worker] = "idle"
    /\ c \in tries /\ tries' = tries \ {c}
    /\ IF listed THEN Tell("connected") /\ Enter(Worker, "delete")
       ELSE UNCHANGED <<told, pc, raced>>
    /\ UNCHANGED <<object, found, held, local, last, past>>

\* Mutant of Delete: the request stays in the queue, alive.
DeleteNot ==
    /\ pc[Worker] = "delete"
    /\ Goto(Worker, "idle")
    /\ UNCHANGED <<object, found, tries, held, local, told, last, past, raced>>

\* ... and the request is deleted, whoever holds it.
Delete ==
    /\ pc[Worker] = "delete"
    /\ life' = "gone" /\ listed' = FALSE
    /\ Goto(Worker, "idle")
    /\ UNCHANGED <<refc, cancelled, found, tries, held, local, told, last, past, raced>>

\* It failed: the next server.
Refused(c) ==
    /\ pc[Worker] = "idle"
    /\ c \in tries /\ tries' = tries \ {c}
    /\ IF listed THEN Enter(Worker, "next") ELSE UNCHANGED <<pc, raced>>
    /\ UNCHANGED <<object, found, held, local, told, last, past>>

\* It was closed, as after a timeout: nothing.
Closed(c) ==
    /\ pc[Worker] = "idle"
    /\ c \in tries /\ tries' = tries \ {c}
    /\ UNCHANGED <<object, found, pc, held, local, told, last, past, raced>>

-----------------------------------------------------------------------------
\* Mutant of Cancel: the reference the request has to itself stays.
CancelKeeps(t) ==
    /\ pc[t] = "cancel"
    /\ listed' = FALSE /\ cancelled' = TRUE
    /\ Goto(t, IF held[t] THEN "release" ELSE "idle")
    /\ UNCHANGED <<life, refc, found, tries, held, local, told, last, past, raced>>

\* request::cancel, of whoever ends the request, drops its own reference ...
Cancel(t) ==
    /\ pc[t] = "cancel"
    /\ listed' = FALSE /\ cancelled' = TRUE
    /\ Decref(1)
    /\ Goto(t, IF held[t] THEN "release" ELSE "idle")
    /\ UNCHANGED <<found, tries, held, local, told, last, past, raced>>

\* ... and on_read or pobject that of the thread.
Release(t) ==
    /\ pc[t] = "release"
    /\ UNCHANGED <<listed, cancelled>>
    /\ Decref(1)
    /\ held' = [held EXCEPT ![t] = FALSE]
    /\ Goto(t, "idle")
    /\ UNCHANGED <<found, tries, local, told, last, past, raced>>

\* The monitor gives the request up, a while after its last packet, whatever
\* has become of it since: getsrv has no cancel of its own that would tell.
Expire ==
    /\ pc[Monitor] = "idle" /\ listed
    /\ expired' = TRUE
    /\ Enter(Monitor, "cancel")
    /\ UNCHANGED <<object, found, tries, held, local, told, last, answers, cancels>>

\* rascal_cancel.
UserCancel ==
    /\ pc[Caller] = "idle" /\ life = "live"
    /\ cancels < Cancels /\ cancels' = cancels + 1
    /\ refc' = refc + 1
    /\ held' = [held EXCEPT ![Caller] = TRUE]
    /\ Enter(Caller, "cancel")
    /\ UNCHANGED <<life, cancelled, listed, found, tries, local, told, last, answers, expired>>

OnEvent ==
    \/ \E a \in Answers : Picked(a)
    \/ RecordNowhere \/ RecordsEnd \/ NothingFound \/ SomeFound
    \/ \E ask \in BOOLEAN : Record(ask)
Finish(t) == NoServerLeft(t) \/ Pass(t) \/ Try(t) \/ Cancel(t) \/ Release(t)
Events == \E c \in tries : Connected(c) \/ Refused(c) \/ Closed(c)

Next ==
    \/ Answer \/ OnEvent
    \/ \E q \in asked, n \in 0 .. MaxAddrs : Resolved(Worker, q, n)
    \/ \E q \in asked : Resolved(Monitor, q, 0)
    \/ Events \/ Delete
    \/ \E t \in Threads : Finish(t)
    \/ Expire \/ UserCancel

Spec == Init /\ [][Next]_vars

\* Each thread finishes what it began.
FairSpec ==
    /\ Spec
    /\ WF_vars(OnEvent \/ Delete \/ Finish(Worker))
    /\ \A t \in {Monitor, Caller} : WF_vars(Finish(t))

-----------------------------------------------------------------------------
TypeOK ==
    /\ life \in {"live", "gone"} /\ refc \in Int /\ {cancelled, listed} \subseteq BOOLEAN
    /\ \A s \in ToSet(srv) \cup asked : s.id \in Nat \ {0}
    /\ pc \in [Threads -> {"idle", "picked", "record", "over", "next", "cancel", "release", "delete"}]
    /\ held \in [Threads -> BOOLEAN]
    /\ rc \in {"success", "unavailable"}
    /\ ToSet(told) \subseteq {"connected", "unavailable", "not found"}
    /\ answers \in 0 .. MaxAnswers /\ cancels \in 0 .. Cancels
    /\ {expired, raced} \subseteq BOOLEAN

\* The handler of a service is told once, and no server is offered to the
\* filter afterwards (rascal_getsrv.cc:175-187, 211-216, 289-293):
\* rascal_accept_service deletes the context of its filter when it is told
\* (rascal_accept_service.cc:57-63).  Two threads that have to do with the
\* request at a time may each tell.  A request that ends without a word was
\* given up by the monitor or cancelled.
ToldOnce ==
    /\ ~raced => /\ Len(told) <= 1
                 /\ told # <<>> => \A t \in Threads : pc[t] # "next"
    /\ life = "gone" => told # <<>> \/ expired \/ cancels > 0

\* Servers are tried by priority (RFC 2782; rascal_getsrv.cc:225-283, 356-365),
\* whatever the order in which their addresses come in.  Each answer to the
\* question starts again.
TriedInOrder == [][answers <= 1 /\ ~raced' => last' >= last]_vars

\* Every weighted server of the best priority may come first
\* (rascal_getsrv.cc:239-257), if it has no weightless one before it and its
\* last unit is drawn as others are.
AnyMayLead ==
    \A i \in Group(ina) :
        ~Arc4 /\ (\A j \in 1 .. i : ina[j].weight > 0) =>
            \E rnd \in Draws(Total(ina)) : Drawn(ina, rnd) = i

\* An address is used with the records of the host that it was asked for, and
\* of those that cannot be told from it (rascal_getsrv.cc:123, 127, 340).  The
\* host is found by a number, which is the length of a list that shrinks and
\* grows again (121-122, 337-373), and so repeats itself when a second answer
\* comes after some hosts are resolved.  Variables keep their types.
AddressesMatch ==
    /\ TypeOK
    /\ answers <= 1 /\ ~raced => \A s \in ToSet(ina) \cup tries : Kept(s.host) = Kept(s.of)

\* The ends of a request: calls of rascal_cancel, what its handler was told,
\* the monitor's end.
Ends == cancels + Len(told) + (IF expired THEN 1 ELSE 0)

\* "The `object' implements a reference counter to ensure that objects are only
\* deleted when they are not used by the library" (object.h:14-15): a request
\* that was ended once is deleted under no thread that holds it, and each
\* further end takes it from one at most, whether it drops a reference it has
\* not (request.cc:172-178) or, when a connection is up, deletes the request
\* whoever holds it (rascal_getsrv.cc:214).  A worker that has picked the
\* request and not counted it holds nothing yet: the end of the request may
\* delete it then, and the worker goes on with what is gone, as in Resolver.
EndedUnheld ==
    [][life = "live" /\ life' = "gone" => Cardinality({t \in Threads : held'[t]}) < Ends']_vars

\* The inductive invariant behind ToldOnce and EndedUnheld: what a thread may
\* be at, and whether it holds the request then ...
Steps ==
    /\ life \in {"live", "gone"} /\ refc \in Int
    /\ {cancelled, listed, raced, expired} \subseteq BOOLEAN
    /\ told \in Seq({"connected", "unavailable", "not found"}) /\ cancels \in Nat
    /\ rc \in {"success", "unavailable"}
    /\ pc \in [Threads -> {"idle", "picked", "record", "over", "next", "cancel", "release", "delete"}]
    /\ held \in [Threads -> BOOLEAN]
    /\ pc[Worker] \in {"record", "over", "release"} => held[Worker]
    /\ pc[Worker] \in {"idle", "picked", "next", "delete"} => ~held[Worker]
    /\ pc[Monitor] \in {"idle", "next", "cancel"} /\ ~held[Monitor]
    /\ pc[Caller] \in {"idle", "cancel", "release"} /\ (held[Caller] <=> pc[Caller] # "idle")

\* ... a thread is alone with the request, and once it has told the handler
\* it ends it at once, or takes it from the queue ...
Alone ==
    ~raced =>
        /\ \A t, u \in Threads : pc[t] # "idle" /\ pc[u] # "idle" => t = u
        /\ Len(told) <= 1
        /\ told # <<>> =>
            /\ \A t \in Threads : pc[t] \notin {"picked", "record", "over", "next"}
            /\ listed => \E t \in Threads : pc[t] \in {"cancel", "delete"}

\* ... who ends it has a reason ...
Reasons ==
    LET reason == told # <<>> \/ expired \/ cancels > 0
    IN  /\ cancelled \/ life = "gone" => reason
        /\ \A t \in Threads : pc[t] = "cancel" => reason
        /\ pc[Worker] = "delete" => told # <<>>
        /\ held[Caller] => cancels > 0
        /\ expired /\ listed => pc[Monitor] = "cancel"

\* ... and what is still to be taken from the count, by ends that have begun
\* and by threads that hold the request, never exceeds it by more than there
\* are ends.
Holds(t) == IF held[t] THEN 1 ELSE 0
Pending(t) == IF pc[t] \in {"cancel", "delete"} THEN 1 ELSE 0
Owed(t) == Holds(t) + Pending(t)
References == refc + Ends >= 1 + Owed(Worker) + Owed(Monitor) + Owed(Caller)

IInv == Steps /\ Alone /\ Reasons /\ References

\* The inductive invariant behind AddressesMatch and TriedInOrder: lists keep
\* their types ...
SrvRecords == [priority : Nat, weight : Nat, host : STRING]
Typed ==
    /\ srv \in Seq([id : Nat \ {0}, r : SrvRecords])
    /\ asked \subseteq [id : Nat \ {0}, host : STRING]
    /\ ina \in Seq(Servers) /\ tries \subseteq Servers
    /\ rest \in Seq(SrvRecords) /\ last \in Nat
    /\ answers \in 0 .. MaxAnswers /\ cancels \in 0 .. Cancels
    /\ pc[Worker] = "picked" => answers < MaxAnswers

\* ... the servers stay sorted by priority ...
Sorted(list) == \A i, j \in DOMAIN list : i <= j => list[i].priority <= list[j].priority

\* ... there is nothing before the first answer ...
Fresh ==
    answers = 0 =>
        /\ srv = <<>> /\ ina = <<>> /\ asked = {} /\ tries = {} /\ last = 0
        /\ \A t \in Threads : pc[t] \notin {"record", "next"}

\* ... and as long as there is but one, a number stands for one record of a
\* host, which is the host that was asked for, ...
Numbered ==
    answers <= 1 /\ ~raced =>
        /\ pc[Worker] = "record" => \A e \in ToSet(srv) \cup asked : e.id <= Len(srv)
        /\ \A q \in asked, s \in ToSet(srv) : s.id = q.id => s.r.host = q.host
        /\ \A s \in ToSet(ina) \cup tries : Kept(s.host) = Kept(s.of)

\* ... no server is tried before all addresses are in, and none is left that
\* is better than the last one.
InTurn ==
    answers <= 1 /\ ~raced =>
        /\ srv # <<>> \/ pc[Worker] = "record" =>
              last = 0 /\ tries = {} /\ \A t \in Threads : pc[t] # "next"
        /\ \A s \in ToSet(ina) : last <= s.priority

Lists == Typed /\ Sorted(ina) /\ Fresh /\ Numbered /\ InTurn
OrderInv == IInv /\ Lists

\* Every request ends, or waits in the queue for an answer, a connection or the
\* monitor, which may be asleep (monitor.cc:106-109), and nobody is at work on
\* it then.
RequestEnds == <>(life = "gone") \/ <>[](listed /\ \A t \in Threads : pc[t] = "idle")
=============================================================================

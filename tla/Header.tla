------------------------------- MODULE Header -------------------------------
(***************************************************************************)
(* class header (common/resolver/header.cc): how the answer of a name      *)
(* server is read, octet by octet, by the requests for the addresses of a  *)
(* host (get_addrs), for the names of an address (get_hosts) and for the   *)
(* servers of a service (getsrv::on_event, on_record).                     *)
(*                                                                         *)
(* A message is a sequence of octets, without the twelve of the header,    *)
(* which are variables here; a name is a sequence of labels, a label one   *)
(* of octets.  A name server answers with any of the given records, and    *)
(* the message may be cut off anywhere.  The buffers that names are read   *)
(* into (256) hold any name of the wire (255), so that their room is not   *)
(* modelled; what is kept of a server's name has room for less (Stored).   *)
(* Labels have no octet that ends or divides the text of a name.           *)
(***************************************************************************)
EXTENDS Integers, SequencesExt

CONSTANTS
    Name,       \* the name that is asked for
    Zones,      \* what may be answered: a set of sequences of records, by question
    Room        \* how many addresses or names the caller has room for (addrc, hostc)

TYPE_A == 1
TYPE_CNAME == 5
TYPE_PTR == 12
TYPE_SRV == 33
CLASS_IN == 1
Questions == {"addrs", "hosts", "srv"}

VARIABLES
    asked,      \* which of the questions
    zone,       \* history: the records that were sent
    m,          \* what arrived of the message
    rcode,      \* fields of the header; ancount is the length of zone
    at,         \* src, as a place in m
    idx,        \* records seen
    slots,      \* addrv, hostv, or the list srv, as a function of places
    count,      \* how many of them were found
    rc,         \* what getsrv is to report of them
    stale,      \* history: was the octet before a buffer a dot?
    pc

vars == <<asked, zone, m, rcode, at, idx, slots, count, rc, stale, pc>>
message == <<asked, zone, m, rcode>>

-----------------------------------------------------------------------------
\* Octets, numbers of two octets, and labels.
Octet == 0 .. 255
Greatest16 == 65535
Number == 0 .. Greatest16
Label == {label \in Seq(Octet \ {0, 46}) : Len(label) \in 1 .. 63}

\* header::put: labels with their lengths, and the root.
Put(name) == FlattenSeq([i \in DOMAIN name |-> <<Len(name[i])>> \o name[i]]) \o <<0>>

Short(n) == <<n \div 256, n % 256>>

\* A name server points to the question for what it repeats.
Repeat == <<192, 12>>
Compressed(name) ==
    IF name = Name THEN Repeat
    ELSE IF name # <<>> /\ Tail(name) = Name THEN <<Len(name[1])>> \o name[1] \o Repeat
    ELSE Put(name)
Data(r) ==
    IF r.type = TYPE_A THEN r.addr
    ELSE IF r.type = TYPE_SRV
         THEN Short(r.priority) \o Short(r.weight) \o Short(r.port) \o Compressed(r.host)
    ELSE Compressed(r.host)
Record(r) ==
    Repeat \o Short(r.type) \o Short(r.class) \o <<0, 0, 0, 9>>
    \o Short(Len(Data(r))) \o Data(r)
Question == Put(Name) \o Short(TYPE_A) \o Short(CLASS_IN)
Message(records) == Question \o FlattenSeq([i \in DOMAIN records |-> Record(records[i])])

\* What RFC 1035 allows in a message, and the text of a name: labels of 63
\* octets, names of 255, and addresses of four.
IsName(name) == name \in Seq(Label) /\ Len(Put(name)) <= 255
IsRecord(r) ==
    /\ r.type \in Number /\ r.class \in Number
    /\ IF r.type = TYPE_A
       THEN /\ r.addr \in Seq(Octet) /\ Len(r.addr) \in Number
            /\ r.class = CLASS_IN => Len(r.addr) = 4
       ELSE IsName(r.host)
    /\ r.type = TYPE_SRV => {r.priority, r.weight, r.port} \subseteq Number

ASSUME HeaderAssumption ==
    /\ Room \in Nat
    /\ IsName(Name)
    /\ DOMAIN Zones = Questions
    /\ \A q \in Questions : \A records \in Zones[q] :
          records \in Seq(ToSet(records)) /\ \A r \in ToSet(records) : IsRecord(r)

-----------------------------------------------------------------------------
\* get of a field of two octets, if they are there.
Has(i, n) == i + n <= Len(m) + 1
Value(i) == m[i] * 256 + m[i + 1]
Lesser(i, j) == IF i < j THEN i ELSE j
Octets(i, n) == SubSeq(m, i, Lesser(i + n - 1, Len(m)))

\* skip_name: is there a name, and what comes after?
SkipName(from) ==
    LET skip[i \in 1 .. Len(m) + 1] ==
            IF ~Has(i, 1) THEN [ok |-> FALSE, at |-> i]
            ELSE IF m[i] = 0 THEN [ok |-> TRUE, at |-> i + 1]
            ELSE IF m[i] < 64 THEN skip[Lesser(i + m[i] + 1, Len(m) + 1)]
            ELSE IF Has(i, 2) THEN [ok |-> TRUE, at |-> i + 2]
            ELSE [ok |-> FALSE, at |-> i]
    IN  skip[from]

\* Mutant of GetName: a mark ends the name, as in skip_name.
GetNamePlain(from) ==
    LET get[i \in 1 .. Len(m) + 1] ==
            IF ~Has(i, 1) \/ m[i] = 0 \/ m[i] >= 192 THEN [ok |-> TRUE, name |-> <<>>]
            ELSE LET lim == Lesser(i + m[i] + 1, Len(m) + 1)
                 IN  [get[lim] EXCEPT !.name = <<SubSeq(m, i + 1, lim - 1)>> \o @]
    IN  get[from]

\* get of a name: the labels up to the root, the end of the message or a mark,
\* and those that the mark points to.  A name that leads back to itself is
\* given up after as many labels and marks as there are octets; the code
\* would call itself without an end.
GetName(from) ==
    LET get[k \in 0 .. Len(m) + 1] ==
          [i \in 1 .. Len(m) + 1 |->
            IF k = 0 THEN [ok |-> FALSE, name |-> <<>>]
            ELSE IF ~Has(i, 1) \/ m[i] = 0 THEN [ok |-> TRUE, name |-> <<>>]
            ELSE IF m[i] < 192
            THEN LET lim == Lesser(i + m[i] + 1, Len(m) + 1)
                     label == IF lim = i + 1 THEN <<>> ELSE <<SubSeq(m, i + 1, lim - 1)>>
                     rest == get[k - 1][lim]
                 IN  [ok |-> rest.ok, name |-> label \o rest.name]
            ELSE LET to == (Value(i) % 16384) - 11
                 IN  IF Has(i, 2) /\ to <= Len(m) THEN get[k - 1][to]
                     ELSE [ok |-> FALSE, name |-> <<>>]]
    IN  get[Len(m) + 1][from]

\* Mutant of Fields: the length is believed.
FieldsUnchecked(from) ==
    LET s == SkipName(from)
        i == s.at
    IN  IF s.ok /\ Has(i, 10)
        THEN [ok |-> TRUE, type |-> Value(i), class |-> Value(i + 2),
              length |-> Value(i + 8), at |-> i + 10]
        ELSE [ok |-> FALSE]

\* What precedes the data of each record: its owner, type, class, time to live
\* and length; the data must be there too.
Fields(from) ==
    LET s == SkipName(from)
        i == s.at
    IN  IF s.ok /\ Has(i, 10) /\ Has(i + 10, Value(i + 8))
        THEN [ok |-> TRUE, type |-> Value(i), class |-> Value(i + 2),
              length |-> Value(i + 8), at |-> i + 10]
        ELSE [ok |-> FALSE]

-----------------------------------------------------------------------------
Init ==
    /\ asked \in Questions
    /\ zone \in Zones[asked]
    /\ \E n \in 0 .. Len(Message(zone)) : m = SubSeq(Message(zone), 1, n)
    /\ rcode \in {0, 3}
    /\ at = 1 /\ idx = 0
    /\ slots = <<>> /\ count = 0 /\ rc = "success"
    /\ stale = FALSE /\ pc = "echo"

Stop == pc' = "done"
Loop(next) == at' = next /\ idx' = idx + 1 /\ UNCHANGED pc
Found(slot, what) ==
    /\ slots' = [i \in DOMAIN slots \cup {slot} |-> IF i = slot THEN what ELSE slots[i]]
    /\ count' = count + 1

\* There is no answer to look at (getsrv looks whatever the answer).
Refused ==
    /\ pc = "echo" /\ asked # "srv"
    /\ zone = <<>> \/ rcode # 0
    /\ Stop
    /\ UNCHANGED <<message, at, idx, slots, count, rc, stale>>

\* skip_echo: a question that is cut off in its name passes for none, one that
\* is cut off behind it ends the reading.
SkipEcho ==
    /\ pc = "echo"
    /\ asked = "srv" \/ (zone # <<>> /\ rcode = 0)
    /\ LET s == SkipName(at)
       IN  IF s.ok /\ ~Has(s.at, 4) THEN Stop /\ at' = s.at
           ELSE /\ pc' = "records"
                /\ at' = IF s.ok THEN s.at + 4 ELSE s.at
    /\ UNCHANGED <<message, idx, slots, count, rc, stale>>

Over ==
    /\ pc = "records"
    /\ idx = Len(zone) \/ ~Fields(at).ok
    /\ Stop
    /\ UNCHANGED <<message, at, idx, slots, count, rc, stale>>

More == pc = "records" /\ idx < Len(zone) /\ Fields(at).ok

\* Mutant of AddrRecord: what there is no room for ends the reading.
AddrRecordAny ==
    LET f == Fields(at) IN
    /\ asked = "addrs" /\ More
    /\ IF f.type = TYPE_A /\ count < Room
       THEN Found(count, Octets(f.at, f.length))
       ELSE UNCHANGED <<slots, count>>
    /\ Loop(f.at + f.length)
    /\ UNCHANGED <<message, rc, stale>>

\* The loop of get_addrs.
AddrRecord ==
    LET f == Fields(at) IN
    /\ asked = "addrs" /\ More
    /\ IF f.type = TYPE_A /\ f.class = CLASS_IN /\ f.length = 4 /\ count < Room
       THEN Found(count, Octets(f.at, 4))
       ELSE UNCHANGED <<slots, count>>
    /\ Loop(f.at + f.length)
    /\ UNCHANGED <<message, rc, stale>>

\* A name that is read into a buffer: for the root, the octet before the buffer
\* decides whether it is empty; if that is a dot, what was in it remains.
Remains == <<<<46>>>>
Texts(name) == IF name = <<>> THEN {<<>>, Remains} ELSE {name}

\* Mutant of HostRecord: a name goes behind the place of its record.
HostRecordBehind ==
    LET f == Fields(at)
        n == GetName(f.at)
    IN  /\ asked = "hosts" /\ More
        /\ IF f.type = TYPE_PTR /\ f.class = CLASS_IN /\ count < Room /\ n.ok
           THEN Found(idx + 1, n.name)
           ELSE UNCHANGED <<slots, count>>
        /\ Loop(at + f.length)
        /\ UNCHANGED <<message, rc, stale>>

\* The loop of get_hosts: the next record is looked for one length behind the
\* start of this one, and a name goes to the place of its record.
HostRecord ==
    LET f == Fields(at)
        n == GetName(f.at)
    IN  /\ asked = "hosts" /\ More
        /\ IF f.type = TYPE_PTR /\ f.class = CLASS_IN /\ count < Room
           THEN \E dst \in Texts(n.name) :
                   /\ stale' = (stale \/ dst # n.name)
                   /\ IF n.ok THEN Found(idx, dst) /\ Loop(at + f.length)
                      ELSE Stop /\ UNCHANGED <<at, idx, slots, count>>
           ELSE Loop(at + f.length) /\ UNCHANGED <<slots, count, stale>>
        /\ UNCHANGED <<message, rc>>

\* The text of a name, and what srv::host, of 64 octets, keeps of it.
Text(name) ==
    IF name = <<>> THEN <<>>
    ELSE Tail(FlattenSeq([i \in DOMAIN name |-> <<46>> \o name[i]]))
Stored(name) == SubSeq(Text(name), 1, Lesser(Len(Text(name)), 63))

\* The loop of getsrv::on_event, and on_record: the host name "." says that
\* there is no such service, and of any other what there is room for is kept.
SrvRecord ==
    LET f == Fields(at)
        n == GetName(f.at + 6)
    IN  /\ asked = "srv" /\ More
        /\ IF f.type # TYPE_SRV \/ f.class # CLASS_IN
           THEN Loop(f.at + f.length) /\ UNCHANGED <<slots, count, rc, stale>>
           ELSE IF ~Has(f.at, 6) \/ ~n.ok
           THEN Stop /\ UNCHANGED <<at, idx, slots, count, rc, stale>>
           ELSE \E dst \in Texts(n.name) :
                   /\ stale' = (stale \/ dst # n.name)
                   /\ IF dst = <<>>
                      THEN rc' = "unavailable" /\ Stop /\ UNCHANGED <<at, idx, slots, count>>
                      ELSE /\ Found(count, [priority |-> Value(f.at), weight |-> Value(f.at + 2),
                                            port |-> Value(f.at + 4), host |-> Stored(dst)])
                           /\ Loop(f.at + f.length)
                           /\ UNCHANGED rc
        /\ UNCHANGED message

Next == Refused \/ SkipEcho \/ Over \/ AddrRecord \/ HostRecord \/ SrvRecord

Spec == Init /\ [][Next]_vars

-----------------------------------------------------------------------------
\* Nothing is read from behind the end of what arrived.
TypeOK ==
    /\ at \in 1 .. Len(m) + 1
    /\ idx \in 0 .. Len(zone) /\ count \in 0 .. idx
    /\ rc \in {"success", "unavailable"} /\ stale \in BOOLEAN
    /\ pc \in {"echo", "records", "done"}

\* How long the message is up to the n-th record, and the number of those that
\* arrived whole.
End(n) == Len(Message(SubSeq(zone, 1, n)))
Arrived ==
    LET whole == {n \in 0 .. Len(zone) : End(n) <= Len(m)}
    IN  IF whole = {} THEN 0 ELSE Max(whole)

\* Of the first n records, those of a type.
Kept(type) ==
    LET kept[n \in 0 .. Len(zone)] ==
            IF n = 0 THEN <<>>
            ELSE IF zone[n].type = type /\ zone[n].class = CLASS_IN
            THEN Append(kept[n - 1], zone[n])
            ELSE kept[n - 1]
    IN  kept

Result == [i \in 1 .. count |-> slots[i - 1]]

\* The addresses of a host are those that arrived, in order, as many as there
\* is room for, among whatever other records, wherever the message was cut
\* (header.cc:194-233).
Addrs(n) ==
    LET all == Kept(TYPE_A)[n]
    IN  [i \in 1 .. Lesser(Room, Len(all)) |-> all[i].addr]
AddrsRead ==
    pc = "done" /\ asked = "addrs" => Result = IF rcode # 0 THEN <<>> ELSE Addrs(Arrived)

\* The servers of a service are those that arrived up to one whose host is the
\* root, which makes it unavailable (rascal_getsrv.cc:97-116, 152-179), unless
\* a dot before the buffer hides this; of their names 63 octets are kept
\* (rascal_getsrv.cc:123, resolver.h:220).
ServerOf(r) == [priority |-> r.priority, weight |-> r.weight, port |-> r.port, host |-> Stored(r.host)]
Roots(list) == {i \in DOMAIN list : list[i].host = <<>>}
SrvRead ==
    LET all == Kept(TYPE_SRV)[Arrived]
        good == IF Roots(all) = {} THEN Len(all) ELSE Min(Roots(all)) - 1
    IN  pc = "done" /\ asked = "srv" /\ ~stale =>
            /\ Result = [i \in 1 .. good |-> ServerOf(all[i])]
            /\ rc = "unavailable" <=> Roots(all) # {}

\* The name of an address is read if it is in the first record, and it is all
\* that is read if there is no other (header.cc:236-280).
FirstHost ==
    /\ Kept(TYPE_PTR)[1] # <<>> /\ Room > 0 => count > 0 /\ 0 \in DOMAIN slots /\ slots[0] = zone[1].host
    /\ Len(zone) = 1 => count = Lesser(Room, Len(Kept(TYPE_PTR)[1]))
HostsRead ==
    pc = "done" /\ asked = "hosts" /\ rcode = 0 /\ ~stale /\ Arrived > 0 => FirstHost

\* What is read from an answer is what was answered.
AnswerRead == AddrsRead /\ SrvRead /\ HostsRead

-----------------------------------------------------------------------------
\* The inductive invariant behind TypeOK and AnswerRead: a message is what was
\* sent, or the beginning of it, ...
Sent ==
    /\ asked \in Questions /\ zone \in Zones[asked] /\ rcode \in {0, 3}
    /\ Len(m) \in 0 .. Len(Message(zone)) /\ m = SubSeq(Message(zone), 1, Len(m))

\* ... the reading starts with nothing, ...
Begun ==
    pc = "echo" =>
        at = 1 /\ idx = 0 /\ slots = <<>> /\ count = 0 /\ rc = "success" /\ ~stale

\* ... is at the next record, or at the end of a question that was cut off
\* (of names this is true of the first record only), ...
InPlace ==
    pc = "records" /\ (asked = "hosts" => idx = 0) =>
        IF Len(m) < End(0) THEN idx = 0 /\ at = Len(m) + 1
        ELSE End(idx) <= Len(m) /\ at = End(idx) + 1

\* ... and has found what the records before it hold.
Gathered ==
    pc = "records" =>
        /\ asked # "srv" => rcode = 0
        /\ asked = "addrs" => DOMAIN slots = 0 .. count - 1 /\ Result = Addrs(idx)
        /\ asked = "srv" /\ ~stale =>
              LET all == Kept(TYPE_SRV)[idx]
              IN  /\ DOMAIN slots = 0 .. count - 1 /\ Roots(all) = {} /\ rc = "success"
                  /\ Result = [i \in DOMAIN all |-> ServerOf(all[i])]
        /\ asked = "hosts" => IF idx = 0 THEN count = 0 /\ slots = <<>> ELSE stale \/ FirstHost

IInv == TypeOK /\ Sent /\ Begun /\ InPlace /\ Gathered /\ AnswerRead
=============================================================================

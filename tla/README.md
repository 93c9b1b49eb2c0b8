# Verification of librascal

librascal (Realtime Asynchronous Connection Abstraction Layer) is a C++
library for asynchronous network programs: an application opens connections,
listeners and DNS requests, gets an id (`rrid_t`) for each, and is told what
happens to them by calls of its *dispatcher* from the library's worker
threads. This directory holds TLA+ models of it, their TLC runs and TLAPS
proofs. Paths below are relative to `src/trunk/sources` unless they begin with
`src/` or name a docbook file, which is in `src/trunk/docbook`.

The repository has three copies of the library: `src/trunk`,
`src/tags/1.0-rc1` (older) and `src/branches/scons` (newer layout, with an
unfinished HTTP client). The models are of `src/trunk`, and of its BSD/Linux
back end `bsd/` where the back ends differ; `Overlapped` is of the other one,
`nt/`.

## 1. The system

| Component | Code | State it keeps | Operations |
|---|---|---|---|
| Object table | `common/util/stock.h` | slots with id and pointer, stack of free slots, serial number | `add`, `get`, `remove`, under `stock::mx` |
| Object life cycle | `common/object.{h,cc}` | per object: `refc`, `cancelled`; global: `object_stock`, `laze` | construction and destruction (register, unregister), `_lookup`/`pobject`, `incref`, `decref`, `cancel`, `list`, `wait` |
| Worker | `bsd/connection.cc:236-359` | `selected` of each connection, the array of one round | `filter`, `work`, `worker` |
| Stream connection | `bsd/connection.cc` | `mode`, socket, peer, buffers `rd` and `wr`, time stamp | `connect`, `write`, `read`, `reads`, `on_read`, `on_write`, `on_error`, `on_pulse` |
| Listener | `bsd/connection_in.cc` | a socket that listens | `connect` (listen), `on_read` (accept) |
| Datagram connection | `bsd/connection_dg.cc` | as a stream's, with packet buffers | as a stream's |
| Buffers | `common/datachain.cc`, `packetchain.cc` | chain of 2 KB items | `append`, `peek`, `remove`, `extract`, `gets`, `get_size`, `has_data` |
| DNS requests | `common/resolver/request.cc`, `rascal_getaddr.cc`, `rascal_gethost.cc` | `request::queue`; per request: `id`, `rcount`, `tstamp`, `listed` | creation and `flush`, `on_read` (answer), `cancel`, `pick` |
| DNS monitor | `common/resolver/monitor.cc` | its condition variable | `cycle_monitor`: resend, give up, sleep |
| Name server connection | `common/resolver/resolver.cc` | `ns_rids` | `ns_dispatcher`, `rascal_set_nameserver` |
| Service connection | `common/resolver/rascal_getsrv.cc` | the SRV records and addresses found so far | `on_event`, `on_getaddr`, `sort`, `try_next_server` |
| Service acceptance | `common/rascal_accept_service.cc` | one temporary record | the service connection with a filter that declines |
| DNS messages | `common/resolver/header.cc` | none | encode, decode |
| Paged allocator | `common/util/memory.cc` | pages, a stack of free items in each | `pmalloc`, `pmfree` |
| Lists, time, options | `common/util/list.h`, `ftspec.cc`, `common/rascal_options.cc` | an array; none; a table of values | |
| NT back end | `nt/` | completion port, `is_writing` | overlapped operations that hold a reference to their connection |

**How they interact.** An application call (`rascal_write(id, ...)`) builds a
`pobject`, which finds the object in the table and counts a reference in one
critical section of `object_stock.mx`, calls a method under the object's own
`mx` and drops the reference. Workers loop: `object::list` walks the whole
table with `object_stock.mx` locked and lets `connection::filter` pick idle
connections (`selected`, with a reference each), `select` waits for at most
100 ms, and the worker calls `on_read` and `on_write` of those that are ready.
These move bytes between socket and buffers under `connection::mx` and call
the dispatcher with the mutex released; the dispatcher may call anything,
`rascal_cancel` of this very object included. An object dies when its last
reference goes after it was cancelled. The resolver is a client of all that:
its name server is a datagram connection, its requests are objects, and its
monitor is one more thread.

**What is hard.** Worker threads, application threads, the monitor and the
peer interleave; five kinds of mutex are taken in different orders; the
decision to delete and the removal from the table are two critical sections;
handlers re-enter the library; the creation of an object is not over when
workers see it; connection attempts time out or fail in several places; send
buffers fill; condition variables are signalled without a predicate. `hazards`
in PROJECT.json lists 40 such places by line, each with the properties that
cover it.

**What makes each part correct.**

- Object table: an id leads to its object and to no other; removed ids lead
  nowhere; no slot is lost or given twice.
- Objects: counts are exact; nothing is deleted in use or twice; what is
  cancelled dies; who waits returns; a walk meets only living objects.
- Worker: one worker per connection, and none left out for ever.
- Buffers: bytes leave in the order in which they came; a read never joins
  datagrams; a line is read when its LF is there.
- Connection: nothing written is lost; events tell the truth, in order
  (introduction, data, end), the end once and last; what happens is told.
- Resolver: the queue holds exactly the requests that are not over; every
  request is reported, once; one that was ended once is deleted under nobody,
  and each further end takes it from one holder at most.
- Services: the handler is told once; servers are tried by priority and drawn
  by weight; an address is used with the host it was asked for (as far as the
  kept part of a name tells); a request ends or waits with nobody at work on it.
- DNS messages: nothing is read behind the end of a message; what arrived
  whole is what is found.
- Allocator: no item is handed out twice or lost; memory follows the demand.
- NT connection: the operations hold exact references; bytes leave in order;
  a connection that is not cancelled has an operation that will notice its end.

## 2. The modules

| Module | Models | Role |
|---|---|---|
| `HandleTable` | - | abstract: a set of entries handle -> body |
| `Stock` | `stock.h` | implements `HandleTable` under the mapping `Entries` |
| `StockMC` | | instances |
| `AllocationProofs` | | proofs about `Stock` and `Pageman` |
| `Object` | `object.cc`, `object.h`, `rascal_cancel.cc`, `sem.cc`, creation in `rascal_connect.cc` / `rascal_accept.cc`, selection in `bsd/connection.cc` | life cycle with threads |
| `ObjectMC`, `ObjectProofs` | | instances, proofs |
| `Parcels` | - | abstract: a queue of bytes with datagram boundaries |
| `DataChain` | `datachain.cc`, `packetchain.cc` | implements `Parcels` under the mapping `Queue` |
| `DataChainMC`, `DataChainProofs` | | instances, proofs |
| `Connection` | `bsd/connection.cc`, accepting in `connection_in.cc` | one connection, its worker, the application and the peer |
| `ConnectionProofs` | | proofs |
| `Pageman` | `common/util/memory.{h,cc}` | the paged allocator |
| `SrvOrder` | `getsrv::sort`, `random.cc` | pure: the order of the servers |
| `GetSrv` | `rascal_getsrv.cc`, ends of requests in `request.cc`, `monitor.cc` | one service request, its address requests and connections |
| `GetSrvMC`, `GetSrvProofs` | | instances, proofs |
| `Header` | `header.cc`, `resolver.h`, reading of records in `rascal_getsrv.cc` | how an answer is read |
| `HeaderMC`, `HeaderProofs` | | instances, proofs |
| `Overlapped` | `nt/connection.cc`, `nt/o*.cc`, `nt/iocp.cc` | a stream connection on Windows |
| `OverlappedProofs` | | proofs |
| `Resolver` | `request.cc`, `monitor.cc`, `resolver.cc`, `rascal_getaddr.cc`, `rascal_gethost.cc` | DNS requests, their callers, the worker that reads answers, the monitor |
| `ResolverProofs` | | proofs |

The modules rest on each other by contract. `Object` uses the table as
`HandleTable` promises it (an object is found from its constructor to its
destructor). `Connection` uses `Object`'s theorem `WorkersExclusive` (one
worker serves it at a time) and the queue that `Parcels` promises (so a buffer
is a number of bytes there). `Resolver` uses `Object`'s reference counts, with
`decref` and the deletion that follows as one step, as do `GetSrv` and
`Overlapped`. `GetSrv` builds on the end of a request that `Resolver` shows,
and on records as `Header` reads them; it extends `SrvOrder`.

### Stock

A 32-bit id is the pair of its 16-bit halves: `lo` the slot, `hi` the serial
number. `Place` is the end of `add`; `AddReuse`, `AddGrow` and `AddFails` are
`add` with a free slot, with a new page, and with no memory; `Remove` is
`remove` as `~object` calls it, with the id -1 of a failed `add` too; `get` is
`Found` and `Get`, as it changes nothing. Each call runs under `stock::mx` and
is one action. `oid` is the `id` field of the objects, and `adds`, `serial` and
`stale` are history. `MakeId` is the code's bitwise or, which for slots from
65536 on spills into the serial number (the bound `MaxSlots` stays below).

### Object

Threads run library calls. `ref[r]` is a reference that exists: the thread that
holds it, the object, and its use: a call's `pobject`, `rascal_wait`, the
array of a round of work, or lost. `Create`..`MakeFails` are
`rascal_connect_ex`, `rascal_accept` and the accepting `on_read`, in which the
creator works with a plain pointer. `Lookup` is `pobject(id)`; `Release` is
`decref` up to the point where it leaves `mx`; `Signal` and `Kill` are the two
ways it goes on. `List`, `Skip`, `Consider`, `Pulse`, `Pick`, `EndList` are
`object::list` with `connection::filter`; the filter reads `cancelled` without
a lock, so reading (`Consider`) and taking (`Pick`) are two steps. `Selected`
and `SelectFails` are the two outcomes of `select`; `Deselect` then `Release`
end a round. `Sleep`, `WakeUp`, `Test` are `object::wait`; `laze.mx` is locked
twice before the wait, which releases it once, so the sleeper keeps it.
`Mishaps` switches three kinds of event on: `declined` (`delete` by the
creator), `withdrawn` (a handler cancels the object it is just told of) and
`interrupted` (`select` fails).

Left out: what a handler does when `on_pulse` calls it *inside*
`object::list`, with `object_stock.mx` locked (a call that needs the table in
the same thread depends on the kind of mutex; a handler that waits for another
thread can hang the library); and the virtual `cancel` of DNS requests, which
belongs to the resolver.

### DataChain

`chain` is the sequence of items from `head` to `tail`, an item the bytes put
into it and the number read since. `kind` is the class, as `packetchain`
overrides two methods. `AppendData`, `Extract`, `Gets`, `MeasureLine` and
`Measure` are the calls a connection makes, each under the connection's mutex.
`OutOfMemory` is where `new datachainitem` returns NULL, as the code tests for.
(The class's `operator new` has no `throw()`, so a compiler may assume it
never returns NULL; the models take the code's test at its word.)
`CopyEnds` is the one read of a byte that was never written: any value is
possible, so the outcome is a choice.

### Connection

One connection from its constructor on. `maker` is the thread that creates it,
`pc`, `doing`, `ready` and `found` the worker that serves it (the step of the
round, the call, the bits of `select`, the locals of the call), the rest its
fields, its socket and history. `Pick`, `Pulse`/`TimeOut`, `Select`, `Begin`,
`Deselect` are a round of `work`; `Receive` and `Received` the loop of
`on_read`, `Send` and `Sent` that of `on_write`; the four `Tell` actions are
the events that both tell afterwards, in the code's order, with `mx` released.
`Write`, `Read` and `Cancel` are the application's calls, which need `mx`
(`MayLock`) and a known id. `Answer`, `Arrive` and `HangUp` are the peer.
`Mishaps` switches on `early` (a worker serves a connection whose `connect` has
not returned), `short` (`send` takes a part of what it is offered, or nothing)
and `reset` (an established connection fails). `HangUp` closes the peer's side
or resets the connection, which it may do after a close as well: then a `send`
after the FIN fails.

A constructor that fails, `connect()` that fails at once, and an accepted
connection that is declined end in `delete`: that is `Object`'s `MakeFails`.
The data in the buffers is `DataChain`'s business.

### Resolver

`queue` is `request::queue`, `behind` the `next` field of a request that has
left it, which the monitor may still read. `New`, `Flush` and `Made` (or
`FlushFails` and `Undo`) are `rascal_getaddr` and `rascal_gethost`: the
request is in the queue from its base class constructor on, before it has a
handler. A request ends in four steps, `Report` (the handler), `Unlist`,
`Drop` (`object::cancel`, `decref`) and `Release` (the caller's `pobject` or the
reference of `on_read`), taken by the worker after `Answer` (`pick` finds the
request) and `Picked` (it counts its reference, under another lock, when the
request may be gone), by a caller after `Cancel`, and without the last by the monitor after `Expire`.
`Cycle` to `EndCycle` are `cycle_monitor`: between two stops the monitor keeps
`request::mx`, so the requests it passes over (`Ahead`) take no step, and it
lets go of it to cancel (`Expire`) or to send again (`Retries`, `Resend`).
`Cycle` reads the head without `mx`, and `unlist` first writes NULL there
(`request.cc:62`), so that the monitor may see an empty queue that is not
(`Heads`). A signal to the monitor wakes it only if it sleeps. `up` is whether
`ns_rids` names a server. An answer may come late, twice or never.

A handler may call `rascal_cancel` on the request it is told of
(`ReportCancels`): the same four steps run inside its end, by the threads in
`inner`, with a reference of their own, tell the handler again, and then the
end they interrupted goes on with what is left. `raced` remembers that
two threads once had to do with one request at a time, or that a handler
cancelled its own.
`told`, `made`, `missed` and `raced` are history.

Taken as given: packet ids are distinct (`lastid` wraps after 65535 requests);
only one signal matters at a time; `RO_DNS_RETRY` is at least one (with zero a
request may be given up before it has a handler).

### Pageman

Pages are numbered by their place in the chain; `index` and `available` are a
page's fields, `live` the blocks that the program has. `pmalloc` walks to the
first page with an item available (`Reached`), which gives one (`Alloc`) or,
if its items have another size, refuses (`AllocRefused`); without one a page is
added (`AllocGrow`) or cannot be had (`AllocFails`). `Free` is `pmfree`, which
ignores the size. All of it runs under `pageman::mx`. That a class shares the
allocator of its base class and is larger is a case of `Sizes`; in the code the
derived classes keep to the size of the base (requests store their data in
fields of `request`).

### GetSrv and SrvOrder

`srv` and `ina` are the two lists, `asked` the address requests under way with
the number that `on_record` gave them (the length of a list that shrinks and
grows), `tries` the connections under way. `Kept` is what `srv::host` keeps of
a host name, 63 characters, which is all that `on_record` and `on_getaddr`
compare; what they are compared with, and what is asked for, is the whole name.
`Answer` (`pick`), `Picked` (`incref`, under another lock), `Record`..,
`NothingFound` or `SomeFound` are `request::on_read` and `getsrv::on_event`; `Resolved` is
`on_getaddr`, called by the worker with the addresses of a host or by the
monitor with none; `NoServerLeft`, `Pass` and `Try` are `try_next_server`;
`Connected` with `Delete`, `Refused` and `Closed` are `try_next_server_disp`.
A request ends by `Cancel` and `Release`, of whoever does it: the thread that
told the handler, the monitor (`Expire`), or the caller (`UserCancel`). `pc`,
`held`, `rest` and `rc` are the threads' locals; `of` in a server names the
host whose addresses it was given, `last`, `answers`, `cancels`, `expired` and
`raced` are history. `SrvOrder` defines `sort` as the set of orders it may
make (`Orders`), by the draws that `faeutil_random` may return (`Draws`).

### Header

`m` is what arrived of a message, as octets, `at` the place of `src`. `Put` is
the code's encoder of names; `Compressed`, `Record` and `Message` stand for the
name server, which sends what RFC 1035 allows (`IsName`: labels of up to 63 octets,
names of up to 255; `IsRecord`: numbers of two octets, addresses of four).
`SkipName` and `GetName` are recursive functions over places. A name whose marks
lead back to itself makes the code call itself until the stack is used up; no
record puts one, and `GetName` gives it up after as many labels and marks as the
message has octets (`ok` is false). `SkipEcho`, then one of `AddrRecord`, `HostRecord` and `SrvRecord` for
each record, then `Over` are the loops of `get_addrs`, `get_hosts` and
`getsrv::on_event`. The test `dst[-1] == '.'` at the end of a name reads the
octet before the buffer if the name is empty: `Texts` has both outcomes, and
`stale` remembers the bad one. What is kept of a server's name is `Stored`: its
text (`Text`, with the dots) up to 63 octets. Labels hold neither a zero octet
nor a dot, which a text could not tell from its end or from the next label.
`Arrived` is how many records came whole, `Kept`
which of them are of a type: what the reading should find.

### Overlapped

An operation (`Op`) is in `flight` while the system works on it, in `port`
when it is completed, `ev[t]` of the worker that handles it, or `nu[t]` of a
thread that made it and could not hand it over. `Complete` is the system,
`Dequeue` and `Delete` the two ends of `iocp::Worker`'s loop; in between come
`Introduce` (`on_connect`, `on_accept`), `Arrive` (`on_read`) or `Wrote`
(`on_write`), `SpawnReader`, `SpawnWriter` with `Send`, and for a failure
`Cancel`, `Mark` and `Close`, the three unlocked steps of `connection::cancel`
(`CancelNot` if it is cancelled), with `Drop` for an operation that was not
taken. `ConnectDropped` is `connectex.cc` when it cannot ask the socket of an
attempt, because it was closed or for any other reason (`s` is then "lost"): it
deletes the attempt without a word. `CallWrite`, `AppendByte`, `Unlock`, `CallCancel` and `Release` are the
application. A connection is either one that was begun or one that a worker
accepts, without a reference to it (`Unheld`). `written`, `sent`, `came`,
`cancels`, `closes` and `happened` are history.

## 3. The runs

"v" marks a run that shows a disagreement between the code and what the
manual, a comment or the code itself says.

| Run | Question | Bounds |
|---|---|---|
| `stock` | ids lead to their objects only; no slot lost; `HandleTable` implemented | 3 objects, pages of 2, 4 slots, 4 serial numbers, 7 additions |
| `object_shared` | counts, walks, workers, deletion under all interleavings | 3 threads, 2 objects, 3 references, all threads may wait |
| `object_found` v | is what a lookup found there until it is released? | 2 threads, 1 object, 2 references, no mishap |
| `object_end` | do cancelled objects die? | 2 threads, 1 object, 2 references, all mishaps |
| `object_wait` v | does `rascal_wait` return? | 2 threads, one waits |
| `datachain` | are both classes the queues that they promise to be? | items of 2 bytes, 5 bytes in all, 5 chunks, 5 buffer sizes |
| `connection` | truth, order and delivery of events; conservation of bytes | 2 bytes come, 3 are written, bursts of 2, all mishaps |
| `resolver` | the queue is exact; no request ends in silence; reported once, deletions bounded by ends, reported in the end | 2 requests, 1 caller, 1 `rascal_cancel`, 2 sendings |
| `pageman` | are the free stacks exact, and is memory reused? | 3 pages of 2 items, 2 sizes |
| `getsrv` | told once, order of servers, addresses with their records, deletions bounded by ends, requests end or wait | 6 answers of up to 3 records, 3 hosts of up to 2 addresses, two of which share what is kept of their names, 3 servers, 2 answers, 1 `rascal_cancel` |
| `header` | is nothing read behind the end, and is what arrived what is found? | up to 3 records of 4 kinds, a server whose name is longer than is kept of it, cut at every octet, room for 2 |
| `overlapped` | references, order of bytes, `rop_close` once, never deaf, delivery, death | 2 workers, 3 bytes written, operations of 2, 1 read, 1 `rascal_cancel` |

**Why the bounds are enough.** *Stock*: two pages make it grow twice, the
third object exhausts a page, seven additions wrap the serial number of four.
*Object*: three threads are one that holds, one that deletes and one that looks
up; two objects let a walk visit one while the other dies; with the references
all taken the array is full. For any number of these the invariants are
proved. *DataChain*: chunks are empty, shorter than an item, as long and
longer, with CR and LF at every place of an item; buffers of 0, 1, a whole
item, and more. *Connection*: two bytes let one come before and one after each
event of a call, three written bytes need two bursts. *Resolver*: of two
requests one can be ended while the monitor stands on it or on the other, with
two sendings one is the monitor's, and each end may be doubled from another thread
or from within; for any number of requests and callers the
invariants are proved. *Pageman*: two items are deleted in either order,
three pages let the walk pass a full one to one that has room again; the proof
is for all. *GetSrv*: the answers hold no record, the refusal (alone and
after a record), two hosts, a third that cannot be told from the first, a host
named twice with another between, equal and different priorities, zero weights; three servers in a group tell each draw
apart; one worker, the monitor and one caller are all who may end it. *Header*:
one server's name is of two labels of 40 octets, so that it is cut in the
second; the names are repeated, shared in part and written out; three
records let one follow one that was skipped. *Overlapped*: the third byte is
written between `is_writing = false` and the spawning of the next writer while
the second waits in the buffer; the safety is proved for any number.
`MaxPages`, `MaxServers`, `MaxAnswers`,
`Capacity`, `Cancels`, `MaxAdds`,
`MaxSlots`, `Refs`, `Incoming`, `Outgoing` and `Burst` are named in guards;
there is no state constraint. Requests are alike until they are created, so
`New` takes any one of the rest. Symmetry is used for sets of bodies, threads,
objects and references in runs without liveness only, and only where all or no
threads wait.

**Deadlock.** `stock` runs stop when `MaxAdds` is used up, and the `object`
runs when each object has been created once and has died, or was deleted under a
reference; a thread in
`rascal_wait` may wait for ever. The run `connection` checks deadlock; `Ended` is
the one state in which a connection rests. The runs of `Resolver` check it too:
its monitor never stops. The runs `getsrv`, `header` and `overlapped` end: a
request or a connection dies, a message has been read.

**Fairness.** `Object`'s `FairSpec`: a thread finishes a call it began and
drops its references, and is not refused a mutex for ever. Handlers return;
that is the application's duty (ch. intro). `CancelledDies` needs in addition
that calls cease to find the object. `Connection`'s `FairSpec`: the creator
and the worker go on (the loop of `worker` never ends, and `filter` takes every
idle connection), an attempt that lasts too long is timed out
(`RO_CONN_TIMEOUT`), and a socket is not busy at every `select`. Nothing is
assumed of the application or of the peer. `Resolver`'s `FairSpec`: each thread
finishes what it began (`request::mx` is held for short), and the time of a
request that the monitor visits again and again is up in the end
(`monitor.cc:55-58`). Nothing is assumed of answers, name servers or spurious
wake-ups of the monitor. `GetSrv`'s: each thread finishes what it began, no
more; nothing is assumed of answers, address requests or connections, nor that
the monitor gives a request up: it may be asleep (`monitor.cc:106-109`), or its
attempts may not count (`request.cc:96-102`). `Overlapped`'s: a thread
goes on (its steps wait at most for `connection::mx`, which a caller holds for
short, and for as many writes as there are), a free worker takes a completion,
and the system completes what is sent and what the closing of a socket aborts;
nothing is assumed of reads or of connecting.

**What the passing runs of `Connection` except.** With `reset` (also of a connection whose peer had closed
its side), the code tells data after the end: `on_read` gets bytes and then an error in one loop, calls
`on_error` (a failed `rop_connect`, or `rop_close`) and goes on to
`rop_connect` and `rop_read` (`bsd/connection.cc:147-177`, the same in
`on_write`, 209-231). `AttemptEndsOnce` and `NothingAfterClose` therefore except connections
that were reset; without the exception TLC refutes both. With `early`, a worker
may deliver `rop_close` for a socket that has not been connected yet, or
`rop_read` before `rop_connect`; `IntroducedFirst` excepts it. With `short`,
bytes are lost: `on_write` ignores how much `send` took (`KeptUnlessShort`
excepts it). `ArrivalsAreTold` is of sockets that do not block
(`AcceptedBlock = FALSE`); the sockets of `accept` do, and then it fails.

**What the passing run of `Resolver` excepts.** The steps that end a request
are guarded by nothing but `listed`. When an answer, a timeout and
`rascal_cancel` meet over one request, or its handler cancels it, the handler
is called twice: `ReportedOnce` holds until then (`raced`), and TLC refutes it
without that exception. The request's one reference is dropped once for each
of these ends. `UsedAlive` has no such exception: it says how far that goes. A
request that was told n times is deleted under fewer than n holders, so under
nobody if it was ended once, whoever met over it; with a second end the code
does delete it under a holder. Its second half says that the monitor, which
goes on from the `next` field of what it may have deleted, stops at no request
that an end has deleted; it excepts what a creator has deleted (`Undo`), which
the monitor does come upon. A worker that has picked a request and not
counted it is no holder yet: if the request ends in between, the worker counts
and ends one that is gone, in the model as in the code, and no property denies
it. `ReportedIfWatched` excepts a monitor that sleeps through its signal or was
misled about the head, and times without a name server: then `flush` fails
before it counts, and the monitor resends for ever. `QueueExact`, and the half
of `ReportedOnce` that says that no request ends in silence, have no exception.

**What the passing run of `GetSrv` excepts.** Two threads that meet over a
request (`raced`) tell its handler twice, as above. After a second answer
(`answers`) records get numbers that were given before, so that the addresses of
one host go to another, and the servers are sorted while the first are tried.
Names are compared as far as they are kept: hosts that share their first 63
characters get each other's addresses, after one answer and with one thread
(`rascal_getsrv.cc:123,127,340`, where the comment at 316 speaks of the host
name), and a host with a longer name asks once for each of its records.
`AddressesMatch` therefore asks that the kept names agree. A
request given up by the monitor (`expired`) or cancelled ends without a word:
`getsrv` has no `cancel` of its own that would tell, and `rascal_accept_service`
then never deletes its record. `EndedUnheld` has no exception: a request is
deleted under fewer threads that hold it than it had ends, where a connection
that deletes the request whoever holds it (214) is an end; with two ends the
code does delete it under a holder, and a worker that has picked it and
not counted it holds nothing yet. `RequestEnds` admits that a request waits in
the queue for ever, with no thread at work on it. With `arc4random` the last unit
of weight is never drawn and a total of one divides by zero; a server without
weight is always drawn before the ones behind it.

**What the passing run of `Header` excepts.** Names of a second record on
(`HostRecord` looks for them in the wrong place and stores them by record
number), and names of the root under a stale dot. Of a server's name the first
63 characters are found, which is what `AnswerRead` says (`Stored`).

**What the passing run of `Overlapped` excepts.** Two threads inside `cancel`
(`raced`) both tell `rop_close`. An accepted connection has no reference before
its first reader: cancelled and released by another thread before that, it is
deleted under the worker (`early`); declined by the handler, it is never
deleted (`declined`). A cancelled attempt to connect is freed when
`connectex.cc` next looks through its list, which takes another attempt. An
attempt whose socket cannot be asked is deleted without a word
(`connectex.cc:60-64`, 104-110): the connection then has no operation and is
not closed, and `StaysRead` excepts it.

## 4. What is proved

All eight proof modules follow one line: an inductive invariant in the
component's module, checked with TLC first (`IInv`, in `DataChain` `ChainInv`,
and `OrderInv` for the lists of `GetSrv`; that of `Pageman`, `PagesInv`, stands
with its proofs), that it holds initially, one lemma per action that it is kept,
and theorems of the specification from it.
PROJECT.json lists 52 of them.

**AllocationProofs**, of the two that give places away. `Stock`, for any number
of objects, page size, serial span and bound on additions, from
`StockAssumption` and `InRange` (slot `0xffff` is not allocated: tables of up to
65500 slots). `TableOK` speaks of a triple of count, slots and free stack, so
that it can be stated of the page `add` is about to commit; `Aligned` ties a
serial number to the number of ids issued since it, which makes `StaleRejected`
inductive. Theorems: `Typing`, `FreeListStaysExact`, `LiveIdsResolve`,
`StaleIdsRejected`, `NoIdStaysRejected`, and `StockImplementsHandleTable`, the
refinement.

`Pageman` (with `Pages` before the names that both have), for any page size, set
of sizes and number of pages, from `PagemanAssumption`: the stack of a page is
exact because an item that is popped is not below in the stack, and one that is
pushed was not in it. Theorems: `PagesTyping`, `StacksStayExact`, and
`NoBlockGivenTwice`, the action property that a block the program gets is none
that it has. `MemoryFollowsDemand` (`Thrifty`) rests on `AllTaken`: a walk that
finds nothing, not even a first page with room (`Least`), means that the blocks
in use are a product of pages and items, which are counted.

**ObjectProofs**, for any number of threads, objects and references (`Refs`
finite) and any `Mishaps`. `RefcExact` speaks of a cardinality, so that each
step that takes or drops a reference needs a lemma on adding or removing one
element. `WalkLocked` (only the owner of `object_stock.mx` has a walk, and what
it is about to pick is not served) and `ServedIsSelected` make `OneWorkerEach`
inductive. `SelectedIsServed` and `CancelledNotForgotten` are proved for
programs whose `select` never fails, `DeletedUnused` for those whose creations
are not undone by `delete`: with these mishaps they are false. Theorems:
`Typing` (with mutual exclusion), `CountsExact`, `WalksMeetNoDead`,
`WorkersExclusive`, `NoneShutOut`, `NoneForgotten`, `DeletionWaits`.

**DataChainProofs**, for any alphabet, chunks, buffer sizes, item size and
capacity, from `DataChainAssumption`: the refinement of `Parcels`, whole. What a
chain holds, its sizes, what is copied from it and what bytes make of it are
recursive functions over its items. That each is what it says for every chain
is proved by induction on a length; the library's induction theorem takes an
operator and cannot be used, so the lemma `Induction` derives from the well-foundedness
of `Nat` that a set that has 0 and with each number the next has all of them,
and each use of it names a set. `ChainInv` (the chain is made of items, no longer
than they must be) carries the rest: a packet begins where an item does, and a
line ends in the first item that has an LF.
`AppendedParts` says that a call appends the parcel of its chunk, whatever items
that takes, and `OutOfMemoryParts` that a failed one appends a beginning of it;
`CopiedIs`, that what a loop over the items copies are the first bytes of the
queue; `RemovedParts`, that counting bytes as dead item by item and freeing items
at the head drops as many cells from the queue, and keeps the shape;
`LineSizeIs`, that the sum of the sizes before the item with the LF and of the
place in it is the place of the first LF of the queue. `CutLine` is about `gets`: a copy that ends
early at an item (`CopyEnds`) is one of the lines `Parcels` allows. Theorems: `ChainInvariance`, `Refinement`.

**ConnectionProofs**, for any numbers of bytes, any burst, blocking sockets or
not and any `Mishaps`, from `ConnectionAssumption`. `Failing` (a call that
failed has nothing else to tell, unless the peer resets) and `EndReached` (after
the end the call that found it is silent and the object is cancelled) carry
`CloseIsLast`; `Making`, `Introduced` and `AttemptOver` relate creation, mode
and what was told, and carry `Introductions` and `AttemptsEndOnce`;
`SentThisCall` and `NewsOfThisCall` relate the locals of a call to the
buffers. Theorems: `Typing`, `NothingLost`, `WritesAreReal`, `Introductions`,
`AttemptsEndOnce`, `CloseIsLast`, `NewsTravel`.

**ResolverProofs**, for any number of requests, callers, sendings and
cancellations, from `ResolverAssumption`. The queue is a sequence without
repetitions, of which the lemmas `Leaving`, `Appending` and `NextIsListed` say
what leaving, coming and following `next` do to it, however many requests it
holds. `Held` says what is to be found in a request by the step of the one thread
that has to do with it (`Fits`), or if there is none; the lemma `Acting` reduces
each step to that thread and that request. What the monitor may visit
(`Ahead`) is the least set closed under `next`, so that a set that contains the
start and is closed bounds it: no recursion is needed to show that none of it
was deleted in the making (`Onward`), which is why the monitor resends or ends
requests that live. `Counted` is the balance of a request: each end adds one to
`told` and will take one from the count, so that the count, with the ends that
were told, covers one more than what is owed (`Owed`, `Debts`: the references
held, those of calls inside a handler, and the ends that have told and not yet
dropped). It holds whoever ends the request how often, and where the count
reaches zero it bounds the holders by the ends. Theorems: `QueueStaysExact`, `HandlersAreCalledOnce`,
`RequestsAreUsedAlive`.

**OverlappedProofs**, for any numbers of workers, bytes, operations, reads and
cancellations, from `OverlappedAssumption`. `Counted` gives the reference count
as a sum of five cardinalities, of operations under way (`flight`), completed
(`port`), handled and refused, and of calls; each step moves one element, and
`Gone` says that a deleted connection has none. `OneWrites` (`is_writing` is
held by one operation or one thread) makes `InOrder` inductive: what was sent,
what that one operation has and what is in the buffer follow each other.
Theorems: `ReferencesAreExact`, `BytesLeaveInOrder`, `CloseIsToldOnce`,
`ConnectionStaysRead`.

**GetSrvProofs**, for any answers, addresses, servers and cancellations, from
`GetSrvAssumption`. `Steps` says what each of the three threads may be at and
whether it holds the request then; `Alone`, that without a meeting of two
threads a handler that was told finds every thread at the end of its work;
`Reasons`, that who is about to end a request has told, expired or been asked
to. `Ends` counts these, and `References` is the balance: the count and the
ends together are more than what is owed by the three threads (the references they hold,
and the ends that have begun and not yet dropped theirs). A step that ends,
holds or drops moves both sides alike (the lemma `Balance`), however often the
request was ended and whether or not it is gone when the worker counts it; so
a deletion finds fewer holders than ends. The lemma `Telling` says
that whoever tells, without a meeting, was the first to end.
Theorems: `HandlerIsToldOnce`, `EndedUnderNobody`.

Of the lists of servers, `OrderInv` adds `Lists` to `IInv`: variables keep
their types, the servers stay sorted by priority, and as long as there was but
one answer and no meeting of two threads, a number stands for one record of a
host, whose kept name is that of the host that was asked for (`Numbered`), and nothing is tried
before all addresses are in, nor left that is better than the last one tried
(`InTurn`). From it: `AddressesAreOfTheirRecords` and `ServersAreTriedInOrder`.
`OrdersSorted` is about `getsrv::sort` alone: whatever numbers are drawn, the list that
results has the servers of the old one, sorted by priority if that was
(an induction over the turns of the loop). `WeightedServersMayLead` says that
without `arc4random` a server of the first priority with no weightless one
before it is drawn for some number; `SumGrows`, that the sums of the weights
grow along the list, shows for which.

**HeaderProofs**, for any name, any records that RFC 1035 allows, any room for
results and a message cut off at any octet, from `HeaderAssumption`. First the
encoder: what a label, a name in each of its three forms, a record and a message
are, octet by octet (`PutParts`, `CompressedParts`, `DataParts`, `RecordParts`,
`MessageParts`), and from them, which octet is at which place of what arrived
(`SentParts`). Then the decoder: `SkipName`, `GetName` and `Kept` are what their
recursive definitions say (`SkipNameDef`, `GetNameDef`, `KeptDef`, by the lemma
`Induction` again); whatever the octets, `SkipName` ends in the message or right
behind it (`SkipNameParts`), so that no field is read from behind the end
(`FieldsParts`). Of octets that were put: the question is passed, or found cut
(`QuestionSkipped`), the fields of a record are found exactly if it came whole
(`FieldsAt`), and a name is read as it was put, also through the mark that leads
to the question (`HostAt`), for which as many turns as the message has octets are
enough. `IInv` adds that the loop is at the record whose number it has
(`InPlace`; of names, only for the first) and that what was found is what the
records before it hold (`Gathered`), of a server's name what is `Stored` of it; when the loop ends, those are all that
arrived (`EndsHere`). Theorems: `Typing`, `AnswersAreRead`; of the operators alone,
`ReadingStaysInside`, for any octets whatever, and `NamesAreRead`.

**Only model-checked**: all liveness (`CancelledDies`, `WaitReturns`,
`ArrivalsAreTold`, `WritesLeave`, `EndIsTold`, `ReportedIfWatched`,
`RequestEnds`, `Overlapped`'s two), which the prover cannot reach. Every
invariant and every action property that a passing run checks is stated by a theorem.

## 5. Disagreements found

Shown by a run, with the quotation in PROJECT.json `findings`:

1. `rascal_wait` sleeps before it tests, and the broadcast is sent without
   `laze.mx`: a request finished before the sleep is missed (`object_wait`).
2. `decref` decides to delete under one lock and the destructor unregisters
   under another: `_lookup` finds the object in between, and its reference does
   not keep the object (`object.cc:56`, against `object.h:42`; `object_found`).

Met in the models, where a property names the exception, without which TLC
refutes it:

3. `on_write` ignores how much `send` took, and takes EAGAIN for a success: it
   removes all it offered, and `rop_write` is told (`bsd/connection.cc:216`,
   against app.funcref.docbook:324).
4. Accepted sockets block: `on_read` receives what has come, and then waits in
   `recv` with `mx` locked before it tells anyone (`connection_in.cc:71`,
   against ch.intro.docbook:5, "performs no blocking operations").
5. A request whose name server is lost is never reported: `flush` fails before
   it counts the attempt (`request.cc:97`, against app.funcref.docbook:707).
6. "Attempts to connect to a service trying all available servers"
   (app.funcref.docbook:174): a server that does not answer in time is told as
   `rop_close`, for which the next is not tried (`rascal_getsrv.cc:201`); the
   request then waits for the monitor, which ends it without a word. A service
   request is also given up at its DNS timeout while a connection is being made.
7. The draw of servers (`rascal_getsrv.cc:226`, "the weight sorting rules
   defined in RFC2782") and the reading of several names
   (`header.cc:275`): see section 3.
8. Of a server's host name 63 characters are kept and compared
   (`rascal_getsrv.cc:123`, `resolver.h:220`, against the comment at
   `rascal_getsrv.cc:316`): see section 3.
9. On NT, `cancel` tests, tells, marks and closes in four unlocked steps
   (`nt/connection.cc:37-48`), accepted connections are not held, and declined
   ones never die: see section 3.

Met while modelling:

- A removed id is reissued after 32768 additions (`stock.h:121`, against
  app.intref.docbook:48); `StaleRejected` says that it takes no less.
- A failing `select` (a signal is enough) leaves connections selected, so that
  no worker serves them again, and their references are lost
  (`bsd/connection.cc:303`, against 341): `SelectedIsServed` holds of programs
  whose `select` never fails, and TLC refutes it with the mishap `interrupted`.
- The races of the resolver: see section 3. The monitor goes on from a request
  it has cancelled, and perhaps deleted, where its comment says it restarts
  from the head (`monitor.cc:62-71`). A request is sent `RO_DNS_RETRY` times in
  all, not that many times after the first (`monitor.cc:59`).
- `stock::add` does not refuse slots beyond 65535 (`stock.h:103`, although
  app.intref.docbook:44 speaks of that limit); `get(-1)` and `remove(-1)`
  match slot `0xffff` once it is free (138).
- With two threads, or with one and a handler that cancels the id it is told
  of, a creator uses its plain pointer after the object died
  (`rascal_connect.cc:35-36`, `rascal_accept.cc:27`, `connection_in.cc:72`).
  An undone creation deletes an object that others hold
  (`connection_in.cc:73`, against `object.h:14-17`). Two threads that wait
  for one object wait for ever.
- `RRF_MEASURE` with `RRF_UNTRIMMED` does not count the terminator that
  app.funcref.docbook:542 asks for; `rascal_read` never returns `REC_NO_DATA`
  (484-486, `bsd/connection.cc:384-389`); `packetchain::gets` does not override
  `datachain::gets` (`datachain.h:52,78`), so that lines can be read from
  datagrams (503), across their ends; a read with a small buffer leaves the
  rest of a datagram for the next one (486); `gets` with a buffer of size 0
  removes the line; CRs before the cut of a long line are dropped;
  `connection::write` ignores that `append` failed.
- Data followed by a reset, and early workers: see section 3. `getsockopt`'s
  result is tested the wrong way round, so exceptional sockets are ignored
  (`bsd/connection.cc:320`); `rascal_cancel` delivers no `rop_close`
  (app.funcref.docbook:114); a connection attempt that times out is told as
  `rop_close`, not `rop_connect` (`bsd/connection.cc:124`); accepted
  connections never set `peer` (`connection_in.cc:71`).
- Datagrams: `rop_write` is never told and `rop_read` once for a batch
  (`connection_dg.cc:41-116`), not for each datagram as
  app.funcref.docbook:317,326 say; EWOULDBLOCK drops the packet; one of a
  foreign peer ends the batch. The resolver reads one packet per `rop_read`
  (`request.cc:130`): of two answers that come together the second stays in
  the buffer until another packet comes, and from then on each answer is read
  one packet late. For `Resolver` that is an answer that comes late or never.
- One of the two `realloc`s of `stock::add` may fail when the other has moved
  its block (`stock.h:107`): the member keeps the old pointer.
- NT: `on_read` appends to `rdb` without `mx` while `read` holds it
  (`nt/connection.cc:82`), a data race that the model leaves out, as its buffers
  are not in question; a write before the connection is up fails and closes it
  (`owriter.cc:44-47`), where the BSD back end keeps the data; completions that
  were queued before a close are told after it (`rop_read` after `rop_close`); a
  listener loses an acceptor each time `port.socket()` fails
  (`oaccept.cc:14-18`); a datagram of a foreign peer deletes the reader without
  a new one, so that the connection goes deaf (`oreader_dg.cc`); an attempt to
  connect whose socket cannot be asked is dropped without a word, and its
  connection stays (`connectex.cc:60`).

## 6. What is not modelled, and the plan

Not modelled:

- Text conversions, error messages, logging, samples, options, the other copies
  of the code, the HTTP client of a branch: sequential, without state of their
  own, or not part of the library.
- `common/util/list.h`: included by `rascal_accept_service.cc`, which uses
  none of it; nothing else in the trunk does.
- `ftspec` and `gettime`: "it is too late" is a choice in `Connection`,
  `Resolver` and `GetSrv`, so that no property depends on the arithmetic.
- Datagram connections (`bsd/connection_dg.cc`, `nt/*_dg.cc`): their buffers are
  the packet chains of `DataChain`; their events differ as section 5 says. The
  queue of a listening socket is the system's.
- Calls of the library from handlers, but for these: `rascal_cancel` of the
  object a handler is told of, in `Object` (`withdrawn`) and `Resolver`
  (`ReportCancels`), and in `Connection` the application's calls while an
  event is told, when no thread has `mx`. What a handler of `Resolver` does to other
  requests is what a caller does, except that the thread is the worker or the
  monitor; in `Overlapped` the application's calls come from its own threads
  only.
- Memory-level undefined behaviour (a freed block that is read, a byte behind
  a buffer) beyond the choices named above.

What remains worth doing, in this order:

1. The datagram classes as a second kind of `Connection`.
2. Compositions: `Object` with `Stock` in place of `HandleTable`; `GetSrv` on
   `Resolver` with its address requests as requests of their own.

## 7. Running it

In this directory: `tlc -config StockMC.cfg StockMC` and likewise for the other
runs (PROJECT.json names the module and configuration of each); the longest
takes about two minutes. `tlapm AllocationProofs.tla`, and likewise for
`ObjectProofs`, `DataChainProofs`, `ConnectionProofs`, `ResolverProofs`,
`OverlappedProofs`, `GetSrvProofs` and `HeaderProofs` (several minutes), checks
the proofs.

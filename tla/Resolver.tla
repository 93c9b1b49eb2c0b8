------------------------------ MODULE Resolver ------------------------------
(***************************************************************************)
(* DNS requests (common/resolver/request.cc, rascal_getaddr.cc,            *)
(* rascal_gethost.cc), the monitor that resends them or gives them up      *)
(* (monitor.cc) and the name server's connection (resolver.cc).            *)
(*                                                                         *)
(* A request lives in the queue from its constructor until it is answered, *)
(* given up or cancelled, and holds one reference to itself that cancel()  *)
(* drops.  The worker that reads answers, the monitor and the threads of   *)
(* the application each go through the same steps to end a request.        *)
(*                                                                         *)
(* Of a reference count that comes to zero, the decision to delete and the *)
(* deletion are one step here: Object shows what happens between them.     *)
(* A block that was deleted keeps its contents; its reuse is left out.     *)
(***************************************************************************)
EXTENDS Integers, SequencesExt

CONSTANTS
    Requests,
    Callers,    \* the threads of the application
    Worker,     \* the thread that reads the answers
    Monitor,    \* the thread of monitor.cc
    Retry,      \* RO_DNS_RETRY
    Cancels,    \* calls of rascal_cancel (bound; a handler that cancels its own
                \* request does it once, not again when that calls it)
    None        \* no request, no thread

ASSUME ResolverAssumption ==
    /\ Retry \in Nat \ {0} /\ Cancels \in Nat
    /\ IsFiniteSet(Callers)
    /\ Worker # Monitor /\ {Worker, Monitor} \cap Callers = {}
    /\ None \notin Requests \cup Callers \cup {Worker, Monitor}

Threads == Callers \cup {Worker, Monitor}

VARIABLES
    life,       \* "none", "live" or "gone"
    refc, cancelled,    \* the fields of object
    queue,      \* request::queue, linked by next
    behind,     \* next of a request that is no longer in the queue
    rcount,     \* request::rcount
    pc, on,     \* what each thread does next, and to which request
    seen,       \* rc of cycle_monitor
    up,         \* is there a name server in ns_rids?
    made,       \* what its creation returned: "no", "yes" or "error"
    told,       \* how often its handler was called
    inner,      \* threads whose handler cancels the request it is told of
    cancels,    \* calls of rascal_cancel so far
    missed,     \* did the monitor read that the queue is empty while others
                \* were in it, or came before it slept?
    raced       \* did two threads ever have to do with a request at a time, or
                \* one thread twice?

object == <<life, refc, cancelled>>
list == <<queue, behind>>
walk == <<seen, missed>>
app == <<made, told, cancels>>
ends == <<on, inner>>
vars == <<object, list, rcount, pc, ends, walk, up, app, raced>>

Init ==
    /\ life = [r \in Requests |-> "none"]
    /\ refc = [r \in Requests |-> 0]
    /\ cancelled = [r \in Requests |-> FALSE]
    /\ queue = <<>>
    /\ behind = [r \in Requests |-> None]
    /\ rcount = [r \in Requests |-> 0]
    /\ pc = [t \in Threads |-> IF t = Monitor THEN "asleep" ELSE "idle"]
    /\ on = [t \in Threads |-> None]
    /\ seen = FALSE /\ missed = FALSE /\ raced = FALSE
    /\ up \in BOOLEAN
    /\ made = [r \in Requests |-> "no"]
    /\ told = [r \in Requests |-> 0]
    /\ inner = {}
    /\ cancels = 0

Listed(r) == r \in ToSet(queue)
Place(r) == CHOOSE i \in DOMAIN queue : queue[i] = r
NextOf(r) ==
    IF ~Listed(r) THEN behind[r]
    ELSE IF Place(r) = Len(queue) THEN None ELSE queue[Place(r) + 1]

Busy(t, r) == on[t] = r /\ pc[t] \notin {"idle", "asleep"}
Meets(t, r) == raced \/ \E u \in Threads \ {t} : Busy(u, r)

Goto(t, l) == pc' = [pc EXCEPT ![t] = l]
Take(t, r, l) ==
    /\ Goto(t, l)
    /\ on' = [on EXCEPT ![t] = r]
    /\ raced' = Meets(t, r)
    /\ UNCHANGED inner
Leave(t) ==
    /\ pc' = [pc EXCEPT ![t] = IF t = Monitor THEN "back" ELSE "idle"]
    /\ on' = [on EXCEPT ![t] = IF t = Monitor THEN @ ELSE None]
    /\ UNCHANGED inner

-----------------------------------------------------------------------------
\* rascal_getaddr: the constructor of request, which lists it (requests are
\* alike until then: which one it is makes no difference) ...
New(t) ==
    LET Fresh == {r \in Requests : life[r] = "none"}
        r == CHOOSE q \in Fresh : TRUE
    IN  /\ t \in Callers /\ pc[t] = "idle"
        /\ Fresh # {}
        /\ life' = [life EXCEPT ![r] = "live"]
        /\ refc' = [refc EXCEPT ![r] = 1]
        /\ queue' = Append(queue, r)
        /\ Take(t, r, "built")
        /\ UNCHANGED <<cancelled, behind, rcount, walk, up, app>>

\* ... flush, when the name and the handler are known ...
Sending(r) == rcount' = [rcount EXCEPT ![r] = @ + 1]

\* Mutant of Wakes: nobody tells the monitor of a new request.
WakesNobody(r, others) == pc' = others /\ UNCHANGED missed

\* The first packet wakes the monitor; a signal nobody waits for is lost.
Wakes(r, others) ==
    IF rcount[r] # 0 THEN pc' = others /\ UNCHANGED missed
    ELSE IF pc[Monitor] = "asleep"
         THEN pc' = [others EXCEPT ![Monitor] = "cycle"] /\ missed' = FALSE
         ELSE pc' = others /\ missed' = (missed \/ pc[Monitor] = "walk")

Flush(t) ==
    /\ t \in Callers /\ pc[t] = "built"
    /\ up
    /\ Sending(on[t])
    /\ Wakes(on[t], [pc EXCEPT ![t] = "sent"])
    /\ UNCHANGED <<object, list, ends, seen, up, app, raced>>

\* ... and the id, which is read from the request.
Made(t) ==
    /\ pc[t] = "sent"
    /\ made' = [made EXCEPT ![on[t]] = "yes"]
    /\ Leave(t)
    /\ UNCHANGED <<object, list, rcount, walk, up, told, cancels, raced>>

Unlisted(r) == IF Listed(r) THEN RemoveAt(queue, Place(r)) ELSE queue

\* ... or delete this, when there is no name server to send to.
FlushFails(t) ==
    /\ pc[t] = "built" /\ ~up
    /\ Goto(t, "undo")
    /\ UNCHANGED <<object, list, rcount, ends, walk, up, app, raced>>

Undo(t) ==
    /\ pc[t] = "undo"
    /\ life' = [life EXCEPT ![on[t]] = "gone"]
    /\ behind' = [behind EXCEPT ![on[t]] = NextOf(on[t])]
    /\ queue' = Unlisted(on[t])
    /\ made' = [made EXCEPT ![on[t]] = "error"]
    /\ raced' = (raced \/ pc[Monitor] \notin {"asleep", "cycle"})
    /\ Leave(t)
    /\ UNCHANGED <<refc, cancelled, rcount, walk, up, told, cancels>>

-----------------------------------------------------------------------------
\* rascal_cancel: the virtual cancel() of a request that can be found.
Cancel(t, r) ==
    /\ t \in Callers /\ pc[t] = "idle"
    /\ made[r] = "yes" /\ life[r] = "live"
    /\ cancels < Cancels
    /\ cancels' = cancels + 1
    /\ refc' = [refc EXCEPT ![r] = @ + 1]
    /\ Take(t, r, "report")
    /\ UNCHANGED <<life, cancelled, list, rcount, walk, up, made, told>>

\* request::on_read: the answer to one of the packets is read, which may come
\* late or twice; pick finds its request, or none ...
Answer(r) ==
    /\ pc[Worker] = "idle"
    /\ rcount[r] > 0
    /\ Listed(r)
    /\ Take(Worker, r, "picked")
    /\ UNCHANGED <<object, list, rcount, walk, up, app>>

\* Mutant of Picked: on_read does not count its own use of the request.
PickedUncounted ==
    /\ pc[Worker] = "picked"
    /\ Goto(Worker, "report")
    /\ UNCHANGED <<object, list, rcount, ends, walk, up, app, raced>>

\* ... which is counted only now, and gets its answer.
Picked ==
    /\ pc[Worker] = "picked"
    /\ refc' = [refc EXCEPT ![on[Worker]] = @ + 1]
    /\ Goto(Worker, "report")
    /\ UNCHANGED <<life, cancelled, list, rcount, ends, walk, up, app, raced>>

-----------------------------------------------------------------------------
\* The end of a request, whoever brings it about.  The handler ...
Report(t) ==
    /\ pc[t] = "report"
    /\ told' = [told EXCEPT ![on[t]] = @ + 1]
    /\ Goto(t, "unlist")
    /\ UNCHANGED <<object, list, rcount, ends, walk, up, made, cancels, raced>>

\* ... which may call rascal_cancel on what it is told of, and is then called
\* again before the call returns: one end inside the other ...
ReportCancels(t) ==
    LET r == on[t] IN
    /\ pc[t] = "report" /\ t \notin inner
    /\ made[r] = "yes" /\ life[r] = "live"
    /\ cancels < Cancels
    /\ cancels' = cancels + 1
    /\ told' = [told EXCEPT ![r] = @ + 1]
    /\ refc' = [refc EXCEPT ![r] = @ + 1]
    /\ inner' = inner \cup {t}
    /\ raced' = TRUE
    /\ UNCHANGED <<life, cancelled, list, rcount, pc, on, walk, up, made>>

\* Mutant of Unlist: the link of the request before it is cut.
UnlistRest(t) ==
    LET r == on[t] IN
    /\ pc[t] = "unlist"
    /\ queue' = IF Listed(r) THEN SubSeq(queue, 1, Place(r) - 1) ELSE queue
    /\ behind' = [behind EXCEPT ![r] = NextOf(r)]
    /\ Goto(t, "drop")
    /\ UNCHANGED <<object, rcount, ends, walk, up, app, raced>>

\* Mutant of Unlist: `listed' was never set.
UnlistNothing(t) ==
    /\ pc[t] = "unlist"
    /\ Goto(t, "drop")
    /\ UNCHANGED <<object, list, rcount, ends, walk, up, app, raced>>

\* ... unlist, under mx if it is listed ...
Unlist(t) ==
    LET r == on[t] IN
    /\ pc[t] = "unlist"
    /\ queue' = Unlisted(r)
    /\ behind' = [behind EXCEPT ![r] = NextOf(r)]
    /\ Goto(t, "drop")
    /\ UNCHANGED <<object, rcount, ends, walk, up, app, raced>>

Decref(r, cancel) ==
    /\ refc' = [refc EXCEPT ![r] = @ - 1]
    /\ life' = [life EXCEPT ![r] = IF refc[r] = 1 /\ cancel THEN "gone" ELSE @]

\* ... cancelled, and the request's own reference ...
Drop(t) ==
    /\ pc[t] = "drop"
    /\ cancelled' = [cancelled EXCEPT ![on[t]] = TRUE]
    /\ Decref(on[t], TRUE)
    /\ IF t = Monitor /\ t \notin inner THEN Leave(t) ELSE Goto(t, "release") /\ UNCHANGED ends
    /\ UNCHANGED <<list, rcount, walk, up, app, raced>>

\* ... and that of the caller, which the monitor has not; the handler returns
\* if it was the caller.
Release(t) ==
    /\ pc[t] = "release"
    /\ Decref(on[t], cancelled[on[t]])
    /\ IF t \in inner THEN Goto(t, "unlist") /\ inner' = inner \ {t} /\ UNCHANGED on ELSE Leave(t)
    /\ UNCHANGED <<cancelled, list, rcount, walk, up, app, raced>>

-----------------------------------------------------------------------------
\* The monitor wakes up, for no reason even ...
Rouse ==
    /\ pc[Monitor] = "asleep"
    /\ Goto(Monitor, "cycle")
    /\ missed' = FALSE
    /\ UNCHANGED <<object, list, rcount, ends, seen, up, app, raced>>

\* ... and reads the head of the queue, for the call of cycle_monitor, without
\* mx: unlist cuts the queue there before it links the rest again.
Cutting(t) == pc[t] \in {"unlist", "undo"} /\ Listed(on[t])
Heads == (IF queue = <<>> THEN {None} ELSE {queue[1]}) \cup {None : t \in {u \in Threads : Cutting(u)}}

Cycle ==
    /\ pc[Monitor] = "cycle"
    /\ \E r \in Heads :
         /\ Take(Monitor, r, "walk")
         /\ missed' = (r = None /\ Len(queue) > 1)
    /\ UNCHANGED <<object, list, rcount, seen, up, app>>

\* It keeps mx from here to the next request it stops at: the links it follows
\* until then.  After a stop it goes on from the link of where it stands.
Walks == pc[Monitor] \in {"walk", "back"}
Start == IF pc[Monitor] = "walk" THEN on[Monitor] ELSE NextOf(on[Monitor])
HasNext(S) == \A r \in S : NextOf(r) \in S \cup {None}
Ahead == {r \in Requests : \A S \in SUBSET Requests :
                              Start \in S \cup {None} /\ HasNext(S) => r \in S}

\* Mutant of Expire: request::cancel in place of the virtual cancel().
ExpireSilently(r) ==
    /\ Walks /\ r \in Ahead /\ ~cancelled[r]
    /\ rcount[r] >= Retry /\ \A t \in Callers : ~(on[t] = r /\ pc[t] \in {"built", "undo"})
    /\ seen' = TRUE
    /\ Take(Monitor, r, "unlist")
    /\ UNCHANGED <<object, list, rcount, missed, up, app>>

\* The time of a request is up, for the last time: cancel() with mx unlocked.
\* (A request that is not built yet is too young for that.)
Expire(r) ==
    /\ Walks /\ r \in Ahead /\ ~cancelled[r]
    /\ rcount[r] >= Retry /\ \A t \in Callers : ~(on[t] = r /\ pc[t] \in {"built", "undo"})
    /\ seen' = TRUE
    /\ Take(Monitor, r, "report")
    /\ UNCHANGED <<object, list, rcount, missed, up, app>>

\* Mutant of Retries: sent again without end.
RetriesForever(r) ==
    /\ Walks /\ r \in Ahead /\ ~cancelled[r]
    /\ seen' = TRUE
    /\ Take(Monitor, r, "resend")
    /\ UNCHANGED <<object, list, rcount, missed, up, app>>

\* Or it is sent again, with mx unlocked too.
Retries(r) ==
    /\ Walks /\ r \in Ahead /\ ~cancelled[r]
    /\ rcount[r] < Retry
    /\ seen' = TRUE
    /\ Take(Monitor, r, "resend")
    /\ UNCHANGED <<object, list, rcount, missed, up, app>>

\* flush, without an effect if there is no name server, or (dump) if the
\* request is not built yet.
Resend ==
    LET r == on[Monitor] IN
    /\ pc[Monitor] = "resend"
    /\ \/ /\ up
          /\ Sending(r)
          /\ Wakes(r, [pc EXCEPT ![Monitor] = "back"])
       \/ /\ ~up \/ \E t \in Callers : on[t] = r /\ pc[t] = "built"
          /\ Goto(Monitor, "back")
          /\ UNCHANGED <<rcount, missed>>
    /\ UNCHANGED <<object, list, ends, seen, up, app, raced>>

\* All visited: another cycle, after a sleep until the next request is due,
\* or a sleep without end.
EndCycle ==
    LET again == seen \/ \E r \in Ahead : ~cancelled[r] IN
    /\ Walks
    /\ Goto(Monitor, IF again THEN "cycle" ELSE "asleep")
    /\ on' = [on EXCEPT ![Monitor] = None]
    /\ seen' = FALSE
    /\ missed' = (missed /\ ~again)
    /\ UNCHANGED <<object, list, rcount, inner, up, app, raced>>

-----------------------------------------------------------------------------
\* rop_connect puts a name server into ns_rids, after rascal_set_nameserver or
\* a reconnection.
NsConnect ==
    /\ ~up /\ up' = TRUE
    /\ UNCHANGED <<object, list, rcount, pc, ends, walk, app, raced>>

\* rop_close takes it out; the id of a reconnection, if it is one, is overwritten.
NsClose ==
    /\ up /\ up' = FALSE
    /\ UNCHANGED <<object, list, rcount, pc, ends, walk, app, raced>>

End(t) == Report(t) \/ ReportCancels(t) \/ Unlist(t) \/ Drop(t) \/ Release(t)
Create(t) == Flush(t) \/ FlushFails(t) \/ Undo(t) \/ Made(t)
Watch ==
    \/ Cycle \/ Resend \/ EndCycle
    \/ \E r \in Requests : Expire(r) \/ Retries(r)

Next ==
    \/ \E t \in Callers : New(t) \/ Create(t)
    \/ \E t \in Callers, r \in Requests : Cancel(t, r)
    \/ \E t \in Threads : End(t)
    \/ \E r \in Requests : Answer(r)
    \/ Picked
    \/ Watch \/ Rouse
    \/ NsConnect \/ NsClose

Spec == Init /\ [][Next]_vars

\* Each thread finishes what it began, and the time of a request that the
\* monitor visits again and again is up in the end.
FairSpec ==
    /\ Spec
    /\ \A t \in Callers : WF_vars(Create(t) \/ End(t))
    /\ WF_vars(Picked \/ End(Worker))
    /\ WF_vars(Watch \/ End(Monitor))
    /\ \A r \in Requests : SF_vars(Expire(r) \/ Retries(r))

-----------------------------------------------------------------------------
TypeOK ==
    /\ life \in [Requests -> {"none", "live", "gone"}]
    /\ refc \in [Requests -> Int]
    /\ cancelled \in [Requests -> BOOLEAN]
    /\ queue \in Seq(Requests)
    /\ behind \in [Requests -> Requests \cup {None}]
    /\ rcount \in [Requests -> 0..Retry + 1]
    /\ pc \in [Threads -> {"idle", "built", "sent", "undo", "picked", "report", "unlist", "drop",
                          "release", "asleep", "cycle", "walk", "resend", "back"}]
    /\ on \in [Threads -> Requests \cup {None}]
    /\ {seen, up, missed, raced} \subseteq BOOLEAN
    /\ made \in [Requests -> {"no", "yes", "error"}]
    /\ told \in [Requests -> Nat]
    /\ inner \subseteq Threads
    /\ cancels \in 0..Cancels

\* Variables keep their types, and the queue holds every request once that
\* lives and is not being ended (request.cc:41-46, 67-80).
QueueExact ==
    /\ TypeOK
    /\ IsInjective(queue)
    /\ \A r \in Requests :
         /\ life[r] = "live" /\ ~cancelled[r] =>
               Listed(r) \/ \E t \in Threads : on[t] = r /\ pc[t] = "drop"
         /\ Listed(r) => life[r] = "live" /\ ~cancelled[r]

\* The handler of a request is called once ("Then the object is removed from
\* the queue", resolver.h:109-113), as long as no two threads have to do with
\* the request at a time, and no request ends without a word: its handler was
\* called, or its creation returned an error (rascal_getaddr.cc:17-25, 51-60).
ReportedOnce ==
    \A r \in Requests :
        /\ ~raced => told[r] <= 1
        /\ life[r] = "gone" => told[r] > 0 \/ made[r] = "error"

\* Who holds a reference to a request: those who found it and count it, and
\* the calls of rascal_cancel in its own handler.
Holders(r) == {t \in Threads \ {Monitor} : on[t] = r /\ pc[t] \in {"report", "unlist", "drop", "release"}}
Inner(r) == {t \in inner : on[t] = r}

\* "The `object' implements a reference counter to ensure that objects are only
\* deleted when they are not used by the library" (object.h:14-15).  As cancel()
\* drops the request's own reference each time it is called, whoever calls it
\* (request.cc:172-178, monitor.cc:69), a request that was ended once is deleted
\* under nobody, and each further end takes it from one holder at most.  And the
\* monitor, which follows the links of what was deleted, resends or gives up
\* none of that, but what a creator has deleted (monitor.cc:47, 71).
UsedAlive ==
    [][\A r \in Requests :
          /\ life[r] = "live" /\ life'[r] = "gone" /\ made'[r] # "error" =>
                Cardinality(Holders(r)') + Cardinality(Inner(r)') < told'[r]
          /\ Walks /\ pc'[Monitor] \in {"report", "resend"} /\ on'[Monitor] = r =>
                life[r] = "live" \/ made[r] = "error"]_vars

\* Did the monitor go to sleep, for good, with a request it does not know of?
Unwatched == missed /\ pc[Monitor] = "asleep"
Over(r) == told[r] > 0 \/ life[r] = "gone"

\* Every request is reported in the end, answered or not, if a name server
\* stays known and the monitor does not sleep through its wake-up
\* (monitor.cc:56-83, 103-121).
ReportedIfWatched ==
    \A r \in Requests : life[r] = "live" ~> Over(r) \/ Unwatched \/ ~up

-----------------------------------------------------------------------------
(***************************************************************************)
(* The inductive invariant.                                                *)
(***************************************************************************)
Making == {"built", "sent", "undo"}
Ending == {"unlist", "drop", "release"}

Placed ==
    /\ pc[Worker] \in {"idle", "picked", "report"} \cup Ending
    /\ pc[Monitor] \in {"asleep", "cycle", "walk", "resend", "back", "report"} \cup Ending
    /\ pc[Monitor] = "release" => Monitor \in inner
    /\ \A t \in inner : pc[t] \in {"report"} \cup Ending
    /\ \A t \in Callers : pc[t] \in {"idle", "report"} \cup Making \cup Ending
    /\ \A t \in Threads \ {Monitor} : pc[t] = "idle" <=> on[t] = None
    /\ pc[Monitor] \in {"asleep", "cycle"} => on[Monitor] = None
    /\ on[Monitor] = None => pc[Monitor] \in {"asleep", "cycle", "walk"}
    /\ \A t \in Threads : on[t] # None => life[on[t]] # "none"
    /\ \A r \in Requests : behind[r] # None => life[behind[r]] # "none"

Queued ==
    /\ IsInjective(queue)
    /\ \A r \in Requests :
         /\ life[r] = "live" /\ ~cancelled[r] =>
               Listed(r) \/ \E t \in Threads : on[t] = r /\ pc[t] = "drop"
         /\ Listed(r) => life[r] = "live" /\ ~cancelled[r]
         /\ life[r] = "none" => ~cancelled[r]
    /\ \A t \in Threads :
         /\ pc[t] \in {"drop", "release"} => ~Listed(on[t])
         /\ pc[t] = "release" => cancelled[on[t]]

\* A packet that a thread is about to send counts already.
Bounded ==
    /\ \A r \in Requests : life[r] = "none" => rcount[r] = 0
    /\ \A t \in Callers : pc[t] = "built" => rcount[on[t]] <= Retry
    /\ pc[Monitor] = "resend" =>
         /\ rcount[on[Monitor]] <= Retry
         /\ \A t \in Callers : pc[t] = "built" /\ on[t] = on[Monitor] => rcount[on[t]] < Retry
    /\ \A t, u \in Callers : {pc[t], pc[u]} \subseteq Making /\ on[t] = on[u] => t = u

Spoken ==
    /\ \A t \in Threads : pc[t] \in Ending => told[on[t]] > 0
    /\ \A t \in Threads : pc[t] \in Making => made[on[t]] = "no"
    /\ \A r \in Requests :
         /\ life[r] = "none" => made[r] = "no" /\ told[r] = 0
         /\ life[r] = "gone" => told[r] > 0 \/ made[r] = "error"

Alone ==
    ~raced =>
        inner = {} /\ \A r \in Requests : \A t, u \in Threads : Busy(t, r) /\ Busy(u, r) => t = u

\* What is to be found in a request that a thread has to do with, or none.
Found(r, refs, mark, calls) == refc[r] = refs /\ cancelled[r] = mark /\ told[r] = calls
Fits(t, r) ==
    LET refs == IF t = Monitor THEN 1 ELSE 2
    IN  /\ pc[t] \in {"picked", "walk", "resend", "back"} \cup Making => Found(r, 1, FALSE, 0)
        /\ pc[t] = "report" => Found(r, refs, FALSE, 0)
        /\ pc[t] \in {"unlist", "drop"} => Found(r, refs, FALSE, 1)
        /\ pc[t] = "release" => Found(r, 1, TRUE, 1)
HeldAt(r) ==
    /\ life[r] = "live" =>
         /\ \A t \in Threads : Busy(t, r) => Fits(t, r)
         /\ (\A t \in Threads : ~Busy(t, r)) => Found(r, 1, FALSE, 0)
    /\ life[r] = "gone" =>
         told[r] <= 1 /\ \A t \in Threads : Busy(t, r) => t = Monitor /\ pc[t] = "back"

Held == ~raced => \A r \in Requests : HeldAt(r)

\* No request that was deleted in the making is ahead of the monitor.
Onward ==
    ~raced /\ pc[Monitor] \notin {"asleep", "cycle"} =>
        \A r \in Ahead : life[r] = "gone" => cancelled[r]

\* What is still to be taken from the count of a request, and by whom: the
\* references held, and the ends under way, two where one is inside the other.
Debts == {"held", "inner", "end", "innerend"}
Owes(t, d, r) ==
    /\ on[t] = r
    /\ \/ d = "held" /\ t # Monitor /\ pc[t] \in {"report"} \cup Ending
       \/ d \in {"inner", "end"} /\ t \in inner
       \/ d = "end" /\ pc[t] \in {"unlist", "drop"}
       \/ d = "innerend" /\ t \in inner /\ pc[t] \in {"unlist", "drop"}
Owed(r) == {x \in Threads \X Debts : Owes(x[1], x[2], r)}

Counted ==
    \A r \in Requests :
        /\ life[r] # "none" => refc[r] + told[r] >= 1 + Cardinality(Owed(r))
        /\ life[r] = "gone" => cancelled[r] \/ made[r] = "error"

IInv == TypeOK /\ Placed /\ Queued /\ Bounded /\ Spoken /\ Alone /\ Held /\ Onward
=============================================================================

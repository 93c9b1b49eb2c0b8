------------------------------- MODULE Object -------------------------------
(***************************************************************************)
(* The life of class object (common/object.cc): reference counting through *)
(* pobject, cancellation, deletion by the last decref, the worker's walk   *)
(* through the object table and rascal_wait.                               *)
(*                                                                         *)
(* Threads run library calls, some of them from a handler (dispatcher) the *)
(* library is calling.  A reference is a token of Refs: a pobject on some  *)
(* stack, or an element of the array object::list fills.  The table itself *)
(* is the contract of HandleTable: an object is found from its constructor *)
(* until its destructor removes it, and object_stock.mx is stockmx.        *)
(*                                                                         *)
(* Each object is created once.  The fields of an object that is gone keep *)
(* their values: its block waits in a page cache (memory.cc) until reuse.  *)
(***************************************************************************)
EXTENDS Integers, FiniteSets

CONSTANTS
    Threads,
    Objects,
    Refs,               \* references that can exist at a time (bound)
    Free,               \* the state of a reference nobody holds
    None,               \* no thread, no object
    Waiters,            \* the threads that call rascal_wait
    Mishaps             \* what may go wrong, among:
                        \* "declined": connect() or a handler ends a creation,
                        \* "withdrawn": a handler cancels the object it is
                        \*    told of while that object is being made,
                        \* "interrupted": select() fails, as on a signal

\* What a reference is for: a library call, rascal_wait, the round of a
\* worker, or nothing any more.
Uses == {"call", "wait", "work", "lost"}

Holdings == [thread : Threads, obj : Objects, use : Uses, late : BOOLEAN]

ASSUME ObjectAssumption ==
    /\ IsFiniteSet(Refs)
    /\ Free \notin Holdings
    /\ None \notin Threads \cup Objects
    /\ Waiters \subseteq Threads
    /\ Mishaps \subseteq {"declined", "withdrawn", "interrupted"}

VARIABLES
    life,       \* "none", "live", "condemned" (delete was decided) or "gone"
    refc,       \* object::refc
    cancelled,  \* object::cancelled
    selected,   \* connection::selected
    ref,        \* who holds each reference, to which object; late: taken
                \* after the object was condemned
    pc,         \* what each thread does next
    at,         \* the object it does it to
    making,     \* the object whose creation it has not finished
    todo,       \* the objects its walk through the table has not visited
    stockmx,    \* the owner of object_stock.mx
    lazemx      \* the owner of laze.mx

vars == <<life, refc, cancelled, selected, ref, pc, at, making, todo,
          stockmx, lazemx>>

RefsTo(o) == {r \in Refs : ref[r] # Free /\ ref[r].obj = o}
Holds(t, r) == ref[r] # Free /\ ref[r].thread = t
Serves(r, o) == ref[r] # Free /\ ref[r].obj = o /\ ref[r].use = "work"
\* Whoever creates an object learns its id from the events of that call, the
\* worker that serves it from its events, all others once it is returned.
Knows(t, o) ==
    \/ \A u \in Threads \ {t} : making[u] # o
    \/ \E r \in Refs : Holds(t, r) /\ Serves(r, o)

Idle(t) == \A r \in Refs : Holds(t, r) => ref[r].use = "lost"
Registered == {o \in Objects : life[o] \in {"live", "condemned"}}

Init ==
    /\ life = [o \in Objects |-> "none"]
    /\ refc = [o \in Objects |-> 0]
    /\ cancelled = [o \in Objects |-> FALSE]
    /\ selected = [o \in Objects |-> FALSE]
    /\ ref = [r \in Refs |-> Free]
    /\ pc = [t \in Threads |-> "run"]
    /\ at = [t \in Threads |-> None]
    /\ making = [t \in Threads |-> None]
    /\ todo = [t \in Threads |-> {}]
    /\ stockmx = None
    /\ lazemx = None

-----------------------------------------------------------------------------
\* new: the constructor registers the object.  Its creator has a plain
\* pointer, no reference (rascal_connect, rascal_accept, on_read of a
\* listener), until it returns.
Create(t, o) ==
    /\ pc[t] = "run" /\ making[t] = None
    /\ stockmx = None
    /\ life[o] = "none"
    /\ life' = [life EXCEPT ![o] = "live"]
    /\ making' = [making EXCEPT ![t] = o]
    /\ UNCHANGED <<refc, cancelled, selected, ref, pc, at, todo, stockmx, lazemx>>

\* The calls a handler made on the new object have returned.
HandlerDone(t) ==
    /\ making[t] # None
    /\ \A r \in RefsTo(making[t]) : ~Holds(t, r)

\* The creation succeeded: the creator returns the id.
Made(t) ==
    /\ pc[t] = "run" /\ HandlerDone(t)
    /\ making' = [making EXCEPT ![t] = None]
    /\ UNCHANGED <<life, refc, cancelled, selected, ref, pc, at, todo, stockmx, lazemx>>

\* The creation failed, or the handler declined the object: delete tmp.
MakeFails(t) ==
    /\ "declined" \in Mishaps
    /\ pc[t] = "run" /\ HandlerDone(t)
    /\ life' = [life EXCEPT ![making[t]] = IF @ = "live" THEN "condemned" ELSE @]
    /\ pc' = [pc EXCEPT ![t] = "kill"]
    /\ at' = [at EXCEPT ![t] = making[t]]
    /\ making' = [making EXCEPT ![t] = None]
    /\ UNCHANGED <<refc, cancelled, selected, ref, todo, stockmx, lazemx>>

\* pobject(id): find the object and incref it, all under object_stock.mx.
\* The caller is rascal_wait, outside any handler, or any other call.
Lookup(t, r, o, use) ==
    /\ pc[t] = "run"
    /\ stockmx = None
    /\ o \in Registered /\ Knows(t, o)
    /\ ref[r] = Free
    /\ use = "wait" => t \in Waiters /\ making[t] = None /\ Idle(t)
    /\ ref' = [ref EXCEPT ![r] =
                  [thread |-> t, obj |-> o, use |-> use, late |-> life[o] = "condemned"]]
    /\ refc' = [refc EXCEPT ![o] = @ + 1]
    /\ pc' = [pc EXCEPT ![t] = IF use = "wait" THEN "enter" ELSE @]
    /\ at' = [at EXCEPT ![t] = IF use = "wait" THEN o ELSE @]
    /\ UNCHANGED <<life, cancelled, selected, making, todo, stockmx, lazemx>>

\* rascal_cancel, on_error, a closed connection, a declined rop_connect.
Cancel(t, r) ==
    /\ pc[t] = "run"
    /\ Holds(t, r) /\ ref[r].use \in {"call", "work"}
    /\ making[t] = ref[r].obj => "withdrawn" \in Mishaps
    /\ cancelled' = [cancelled EXCEPT ![ref[r].obj] = TRUE]
    /\ UNCHANGED <<life, refc, selected, ref, pc, at, making, todo, stockmx, lazemx>>

\* Mutant of Deselect: only the reference is given back.
DeselectForgets(t, r) ==
    /\ pc[t] = "run"
    /\ Holds(t, r) /\ ref[r].use = "work"
    /\ ref' = [ref EXCEPT ![r].use = "call"]
    /\ UNCHANGED <<life, refc, cancelled, selected, pc, at, making, todo, stockmx, lazemx>>

\* conn->selected = false, before the worker drops its reference.
Deselect(t, r) ==
    /\ pc[t] = "run"
    /\ Holds(t, r) /\ ref[r].use = "work"
    /\ selected' = [selected EXCEPT ![ref[r].obj] = FALSE]
    /\ ref' = [ref EXCEPT ![r].use = "call"]
    /\ UNCHANGED <<life, refc, cancelled, pc, at, making, todo, stockmx, lazemx>>

\* Mutants of KillMe: one reference too early, never.
KillMeTooSoon(o, n) == n <= 1 /\ cancelled[o]
KillMeNever(o, n) == FALSE

\* What decref decides when n references are left.
KillMe(o, n) == n = 0 /\ cancelled[o]
SignalWaiter(o, n) == n = 1 /\ cancelled[o]

\* decref up to mx.leave(): count down and decide.
Release(t, r) ==
    LET o == ref[r].obj
        n == refc[o] - 1
    IN  /\ pc[t] = "run"
        /\ Holds(t, r) /\ ref[r].use \in {"call", "wait"}
        /\ ref' = [ref EXCEPT ![r] = Free]
        /\ refc' = [refc EXCEPT ![o] = n]
        /\ pc' = [pc EXCEPT ![t] =
                     IF KillMe(o, n) THEN "kill" ELSE IF SignalWaiter(o, n) THEN "signal" ELSE "run"]
        /\ at' = [at EXCEPT ![t] = IF KillMe(o, n) THEN o ELSE None]
        /\ life' = [life EXCEPT ![o] = IF KillMe(o, n) /\ @ = "live" THEN "condemned" ELSE @]
        /\ UNCHANGED <<cancelled, selected, making, todo, stockmx, lazemx>>

\* The rest of decref: laze.broadcast() ...
Signal(t) ==
    /\ pc[t] = "signal"
    /\ pc' = [u \in Threads |-> IF u = t THEN "run" ELSE IF pc[u] = "sleep" THEN "woken" ELSE pc[u]]
    /\ UNCHANGED <<life, refc, cancelled, selected, ref, at, making, todo, stockmx, lazemx>>

\* Mutant of Kill: the destructor unregisters without the lock.
KillUnlocked(t) ==
    /\ pc[t] = "kill"
    /\ life' = [life EXCEPT ![at[t]] = "gone"]
    /\ pc' = [pc EXCEPT ![t] = "run"]
    /\ at' = [at EXCEPT ![t] = None]
    /\ UNCHANGED <<refc, cancelled, selected, ref, making, todo, stockmx, lazemx>>

\* ... or delete this: the destructor takes object_stock.mx to unregister.
Kill(t) ==
    /\ pc[t] = "kill"
    /\ stockmx = None
    /\ life' = [life EXCEPT ![at[t]] = "gone"]
    /\ pc' = [pc EXCEPT ![t] = "run"]
    /\ at' = [at EXCEPT ![t] = None]
    /\ UNCHANGED <<refc, cancelled, selected, ref, making, todo, stockmx, lazemx>>

-----------------------------------------------------------------------------
\* connection::work: object::list locks the table and applies
\* connection::filter to every object in it.
List(t) ==
    /\ pc[t] = "run" /\ making[t] = None /\ Idle(t)
    /\ stockmx = None
    /\ stockmx' = t
    /\ todo' = [todo EXCEPT ![t] = Registered]
    /\ pc' = [pc EXCEPT ![t] = "list"]
    /\ UNCHANGED <<life, refc, cancelled, selected, ref, at, making, lazemx>>

Skip(t, o) ==
    /\ pc[t] = "list" /\ o \in todo[t]
    /\ cancelled[o] \/ selected[o]
    /\ todo' = [todo EXCEPT ![t] = @ \ {o}]
    /\ UNCHANGED <<life, refc, cancelled, selected, ref, pc, at, making, stockmx, lazemx>>

\* Mutant of Consider: the filter does not look at selected.
ConsiderSelected(t, o) ==
    /\ pc[t] = "list" /\ o \in todo[t]
    /\ ~cancelled[o]
    /\ \E r \in Refs : ref[r] = Free
    /\ pc' = [pc EXCEPT ![t] = "pick"]
    /\ at' = [at EXCEPT ![t] = o]
    /\ UNCHANGED <<life, refc, cancelled, selected, ref, making, todo, stockmx, lazemx>>

\* The filter sees an idle connection: read, not locked against Cancel.
Consider(t, o) ==
    /\ pc[t] = "list" /\ o \in todo[t]
    /\ ~cancelled[o] /\ ~selected[o]
    /\ \E r \in Refs : ref[r] = Free
    /\ pc' = [pc EXCEPT ![t] = "pick"]
    /\ at' = [at EXCEPT ![t] = o]
    /\ UNCHANGED <<life, refc, cancelled, selected, ref, making, todo, stockmx, lazemx>>

\* on_pulse finds that the connection attempt took too long, which it cannot
\* be before connect() has returned.
Pulse(t) ==
    /\ pc[t] = "pick"
    /\ \A u \in Threads : making[u] # at[t]
    /\ cancelled' = [cancelled EXCEPT ![at[t]] = TRUE]
    /\ UNCHANGED <<life, refc, selected, ref, pc, at, making, todo, stockmx, lazemx>>

\* Mutant of Pick: the worker does not count its reference.
PickUncounted(t, r) ==
    LET o == at[t] IN
    /\ pc[t] = "pick"
    /\ ref[r] = Free
    /\ ref' = [ref EXCEPT ![r] =
                  [thread |-> t, obj |-> o, use |-> "work", late |-> life[o] # "live"]]
    /\ selected' = [selected EXCEPT ![o] = TRUE]
    /\ todo' = [todo EXCEPT ![t] = @ \ {o}]
    /\ pc' = [pc EXCEPT ![t] = "list"]
    /\ at' = [at EXCEPT ![t] = None]
    /\ UNCHANGED <<life, refc, cancelled, making, stockmx, lazemx>>

\* The filter takes it: incref, selected = true.
Pick(t, r) ==
    LET o == at[t] IN
    /\ pc[t] = "pick"
    /\ ref[r] = Free
    /\ ref' = [ref EXCEPT ![r] =
                  [thread |-> t, obj |-> o, use |-> "work", late |-> life[o] # "live"]]
    /\ refc' = [refc EXCEPT ![o] = @ + 1]
    /\ selected' = [selected EXCEPT ![o] = TRUE]
    /\ todo' = [todo EXCEPT ![t] = @ \ {o}]
    /\ pc' = [pc EXCEPT ![t] = "list"]
    /\ at' = [at EXCEPT ![t] = None]
    /\ UNCHANGED <<life, cancelled, making, stockmx, lazemx>>

\* All objects were visited, or the array is full.
EndList(t) ==
    /\ pc[t] = "list"
    /\ todo[t] = {} \/ \A r \in Refs : ref[r] # Free
    /\ stockmx' = None
    /\ todo' = [todo EXCEPT ![t] = {}]
    /\ pc' = [pc EXCEPT ![t] = "select"]
    /\ UNCHANGED <<life, refc, cancelled, selected, ref, at, making, lazemx>>

\* select returns; the events of the connections come next ...
Selected(t) ==
    /\ pc[t] = "select"
    /\ pc' = [pc EXCEPT ![t] = "run"]
    /\ UNCHANGED <<life, refc, cancelled, selected, ref, at, making, todo, stockmx, lazemx>>

\* ... unless it failed: work returns at once and forgets what it picked.
SelectFails(t) ==
    /\ "interrupted" \in Mishaps
    /\ pc[t] = "select"
    /\ ref' = [r \in Refs |-> IF Holds(t, r) THEN [ref[r] EXCEPT !.use = "lost"] ELSE ref[r]]
    /\ pc' = [pc EXCEPT ![t] = "run"]
    /\ UNCHANGED <<life, refc, cancelled, selected, at, making, todo, stockmx, lazemx>>

-----------------------------------------------------------------------------
\* object::wait: laze.mx is entered twice before pthread_cond_wait, which
\* leaves it once: the sleeper keeps it.
Sleep(t) ==
    /\ pc[t] = "enter"
    /\ lazemx = None
    /\ lazemx' = t
    /\ pc' = [pc EXCEPT ![t] = "sleep"]
    /\ UNCHANGED <<life, refc, cancelled, selected, ref, at, making, todo, stockmx>>

\* A condition variable may wake a thread for no reason.
WakeUp(t) ==
    /\ pc[t] = "sleep"
    /\ pc' = [pc EXCEPT ![t] = "woken"]
    /\ UNCHANGED <<life, refc, cancelled, selected, ref, at, making, todo, stockmx, lazemx>>

\* Awake: only the waiter's own reference left?  Return, or sleep again.
Test(t) ==
    /\ pc[t] = "woken"
    /\ IF refc[at[t]] = 1 /\ cancelled[at[t]]
       THEN /\ pc' = [pc EXCEPT ![t] = "run"]
            /\ at' = [at EXCEPT ![t] = None]
            /\ lazemx' = None
       ELSE /\ pc' = [pc EXCEPT ![t] = "sleep"]
            /\ UNCHANGED <<at, lazemx>>
    /\ UNCHANGED <<life, refc, cancelled, selected, ref, making, todo, stockmx>>

-----------------------------------------------------------------------------
\* What a thread is bound to do once it began, unlike new calls.
Finish(t) ==
    \/ Made(t) \/ Signal(t) \/ Kill(t) \/ EndList(t) \/ Selected(t) \/ Sleep(t) \/ Test(t)
    \/ \E o \in Objects : Skip(t, o) \/ Consider(t, o)
    \/ \E r \in Refs : Pick(t, r)

Step(t) ==
    \/ Finish(t)
    \/ MakeFails(t) \/ List(t) \/ Pulse(t) \/ SelectFails(t) \/ WakeUp(t)
    \/ \E o \in Objects : Create(t, o)
    \/ \E r \in Refs : Cancel(t, r) \/ Deselect(t, r) \/ Release(t, r)
    \/ \E r \in Refs, o \in Objects, use \in {"call", "wait"} : Lookup(t, r, o, use)

Next == \E t \in Threads : Step(t)

Spec == Init /\ [][Next]_vars

\* A thread finishes what it began (every call returns, every handler too,
\* so every reference is dropped), and a mutex is not refused for ever to a
\* thread that asks for it.
FairSpec ==
    /\ Spec
    /\ \A t \in Threads :
         /\ SF_vars(Finish(t))
         /\ \A r \in Refs : SF_vars(Deselect(t, r)) /\ SF_vars(Release(t, r))

-----------------------------------------------------------------------------
\* Every variable stays within its type; who owns stockmx is walking the
\* table and who is inside object::wait owns lazemx.
TypeOK ==
    /\ life \in [Objects -> {"none", "live", "condemned", "gone"}]
    /\ refc \in [Objects -> Nat]
    /\ cancelled \in [Objects -> BOOLEAN]
    /\ selected \in [Objects -> BOOLEAN]
    /\ ref \in [Refs -> Holdings \cup {Free}]
    /\ pc \in [Threads -> {"run", "signal", "kill", "list", "pick",
                          "select", "enter", "sleep", "woken"}]
    /\ at \in [Threads -> Objects \cup {None}]
    /\ making \in [Threads -> Objects \cup {None}]
    /\ todo \in [Threads -> SUBSET Objects]
    /\ stockmx \in Threads \cup {None}
    /\ lazemx \in Threads \cup {None}
    /\ \A t \in Threads : pc[t] \in {"kill", "pick", "enter", "sleep", "woken"} => at[t] # None
    /\ \A t \in Threads : pc[t] \in {"list", "pick"} <=> stockmx = t
    /\ \A t \in Threads : pc[t] \in {"sleep", "woken"} <=> lazemx = t

\* refc counts the references in existence, through every interleaving of
\* lookups, picks and releases (object.h:103-106, object.cc:38-56).
RefcExact == \A o \in Objects : refc[o] = Cardinality(RefsTo(o))

\* No walk through the table ever meets an object that is gone: destructors
\* wait for the walk to end (object.cc:32-35, 68-83).
WalkMeetsNoDead ==
    \A t \in Threads : \A o \in todo[t] : life[o] # "gone"

\* One worker at a time handles the events of a connection
\* (connection.cc:241-247, 341-343).
OneWorkerEach ==
    \A o \in Objects, r, s \in Refs : Serves(r, o) /\ Serves(s, o) => r = s

\* "Release the connection to other threads" (connection.cc:341): a
\* connection that is marked as selected has a worker that serves it, so that
\* none is shut out of every later round.
SelectedIsServed ==
    \A o \in Objects : selected[o] => \E r \in Refs : Serves(r, o)

\* "The object implements a reference counter to ensure that objects are
\* only deleted when they are not used by the library" (object.h:14-15): an
\* object had no reference left when its deletion was decided, and any
\* there is was taken later.
DeletedUnused ==
    \A r \in Refs :
        ref[r] # Free /\ life[ref[r].obj] \in {"condemned", "gone"} => ref[r].late

\* "The object might have been released and deleted" (object.h:33-34) before
\* whoever found it by its id counted it; "To mitigate both of these problems, a
\* helper class `pobject' was introduced" (object.h:42-43): what a pobject has
\* found stays until it is released.  It does not: decref decides on deletion
\* under mx, and the object can be found until its destructor unregisters it
\* under object_stock.mx (object.cc:32-35, 54-64).
FoundAlive == \A r \in Refs : ref[r] # Free => life[ref[r].obj] # "gone"

\* A cancelled object is never forgotten: somebody still holds, or is about
\* to take, the reference whose release deletes it (object.cc:48-65).
CancelledNotForgotten ==
    \A o \in Objects : life[o] = "live" /\ cancelled[o] =>
        \/ \E r \in RefsTo(o) : ref[r].use # "lost"
        \/ \E t \in Threads : pc[t] = "pick" /\ at[t] = o

\* What the theorems of ObjectProofs rest on, beside the invariants above.
\* Only the owner of object_stock.mx is walking, and what it is about to pick
\* is one of the objects left to visit, which no other worker serves.
WalkLocked ==
    /\ \A t \in Threads : todo[t] # {} => stockmx = t
    /\ \A t \in Threads : pc[t] = "pick" => at[t] \in todo[t] /\ ~selected[at[t]]

ServedIsSelected == \A r \in Refs, o \in Objects : Serves(r, o) => selected[o]

\* No thread has to do with an object that was never created.
Born ==
    /\ \A o \in Objects : cancelled[o] \/ selected[o] => life[o] # "none"
    /\ \A r \in Refs : ref[r] # Free => life[ref[r].obj] # "none"
    /\ \A t \in Threads : making[t] # None => life[making[t]] # "none"
    /\ \A t \in Threads : \A o \in todo[t] : life[o] # "none"
    /\ \A t \in Threads : pc[t] = "kill" => life[at[t]] \in {"condemned", "gone"}

NothingLost == \A r \in Refs : ref[r] # Free => ref[r].use # "lost"

IInv ==
    /\ TypeOK /\ RefcExact
    /\ WalkLocked /\ WalkMeetsNoDead
    /\ Born
    /\ ServedIsSelected /\ OneWorkerEach
    /\ "interrupted" \notin Mishaps =>
          NothingLost /\ SelectedIsServed /\ CancelledNotForgotten
    /\ "declined" \notin Mishaps => DeletedUnused

\* "When an object that has been marked as cancelled is released and the
\* reference counter becomes zero, the object is automatically deleted"
\* (object.h:25-27): it dies in the end, unless calls go on finding it, or a
\* worker whose select failed forgot its reference (connection.cc:299-303).
CallsCease(o) ==
    <>[][\A r \in Refs :
            cancelled[o] /\ ref[r] = Free /\ ref'[r] # Free /\ ref'[r].obj = o
                => ref'[r].use = "work"]_vars

Mislaid(o) == \E r \in RefsTo(o) : ref[r].use = "lost"

CancelledDies ==
    \A o \in Objects : CallsCease(o) =>
        (life[o] = "live" /\ cancelled[o] ~> life[o] = "gone" \/ Mislaid(o))

\* rascal_wait "suspends the current thread until the request with the
\* specified id is finished" (app.funcref.docbook:574): a thread that waits
\* for a cancelled request returns in the end.
WaitReturns ==
    \A t \in Threads, o \in Objects :
        pc[t] = "sleep" /\ at[t] = o /\ cancelled[o] ~> pc[t] = "run"
=============================================================================

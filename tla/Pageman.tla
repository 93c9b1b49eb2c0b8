------------------------------- MODULE Pageman -------------------------------
(***************************************************************************)
(* pageman (common/util/memory.{h,cc}): the allocator of connections,      *)
(* requests, buffers and buffer items.  Pages are linked from head, each   *)
(* keeps its unused items on a stack in an array; an item knows its page.  *)
(*                                                                         *)
(* pmalloc and pmfree run under pageman::mx, so each is one action.  They  *)
(* are called by operator new and operator delete of a class and of the    *)
(* classes derived from it, which may be larger.                           *)
(***************************************************************************)
EXTENDS Integers, FiniteSets

CONSTANTS
    PageItems,   \* items in a page (100 in the code)
    Sizes,      \* the sizes of the classes that share the allocator
    MaxPages,   \* bound: pages for which there is memory
    None        \* the size of a page that does not exist

ASSUME PagemanAssumption ==
    PageItems \in Nat \ {0} /\ MaxPages \in Nat /\ None \notin Sizes

Items == 0 .. PageItems - 1
Pages == 1 .. MaxPages
Places == 1 .. PageItems
Blocks == Pages \X Items

VARIABLES
    count,      \* pages in the chain
    itemsize,   \* of each page
    available,  \* how many entries of a page's index are its stack
    index,      \* pagehead::index, the array
    live,       \* the blocks that the program was given and has not deleted
    most        \* history: how many of them there were at most

pagevars == <<count, itemsize, available, index, live, most>>

PagesInit ==
    /\ count = 0
    /\ itemsize = [p \in Pages |-> None]
    /\ available = [p \in Pages |-> 0]
    /\ index = [p \in Pages |-> [i \in Places |-> 0]]
    /\ live = {}
    /\ most = 0

Chain == 1 .. count

\* Mutant of Reached: only the page that was made last is looked at.
ReachedLast(p) == p \in Chain /\ p = count /\ available[p] # 0

\* pmalloc walks from head to the first page with something available ...
Reached(p) == p \in Chain /\ available[p] # 0 /\ \A q \in 1 .. p - 1 : available[q] = 0
Exhausted == ~\E p \in Pages : Reached(p)

\* Mutant of Take: the count goes down before the wrong entry is read.
TakeBelow(p, size, stack, left) ==
    LET b == <<p, stack[IF left[p] = 1 THEN 1 ELSE left[p] - 1]>>
    IN  /\ available' = [left EXCEPT ![p] = @ - 1]
        /\ live' = live \cup {b}
        /\ most' = IF Cardinality(live \cup {b}) > most THEN most + 1 ELSE most

\* ... whose alloc pops the stack.
Take(p, size, stack, left) ==
    LET b == <<p, stack[left[p]]>>
    IN  /\ available' = [left EXCEPT ![p] = @ - 1]
        /\ live' = live \cup {b}
        /\ most' = IF Cardinality(live \cup {b}) > most THEN most + 1 ELSE most

Alloc(p, size) ==
    /\ Reached(p)
    /\ itemsize[p] = size
    /\ Take(p, size, index[p], available)
    /\ UNCHANGED <<count, itemsize, index>>

\* A page of items of another size refuses, and the walk is over.
AllocRefused(p, size) ==
    /\ Reached(p)
    /\ itemsize[p] # size
    /\ UNCHANGED pagevars

\* All are full: a new page ends the chain.
AllocGrow(size) ==
    LET p == count + 1
        stack == [i \in Places |-> i - 1]
    IN  /\ Exhausted
        /\ p \in Pages
        /\ count' = p
        /\ itemsize' = [itemsize EXCEPT ![p] = size]
        /\ index' = [index EXCEPT ![p] = stack]
        /\ Take(p, size, stack, [available EXCEPT ![p] = PageItems])

\* One of the two arrays of the page cannot be had.
AllocFails ==
    /\ Exhausted
    /\ UNCHANGED pagevars

\* pmfree: the block's page is in front of it, its index is its distance from
\* the first, whatever size the caller names.
Free(b) ==
    LET p == b[1] IN
    /\ b \in live
    /\ live' = live \ {b}
    /\ available' = [available EXCEPT ![p] = @ + 1]
    /\ index' = [index EXCEPT ![p][available[p] + 1] = b[2]]
    /\ UNCHANGED <<count, itemsize, most>>

PagesNext ==
    \/ \E size \in Sizes :
         \/ AllocGrow(size)
         \/ \E p \in Pages : Alloc(p, size) \/ AllocRefused(p, size)
    \/ AllocFails
    \/ \E b \in Blocks : Free(b)

PagesSpec == PagesInit /\ [][PagesNext]_pagevars

-----------------------------------------------------------------------------
PagesTypeOK ==
    /\ count \in 0 .. MaxPages
    /\ itemsize \in [Pages -> Sizes \cup {None}]
    /\ available \in [Pages -> 0 .. PageItems]
    /\ index \in [Pages -> [Places -> Items]]
    /\ live \subseteq Chain \X Items
    /\ most \in Nat

Stack(p) == {index[p][i] : i \in 1 .. available[p]}

\* The stack of a page holds each item once that the program does not have,
\* and nothing else (memory.cc:58-61, 98): no block is given to two owners,
\* whatever the order of deletions, and none is lost.
StackExact ==
    \A p \in Pages :
        /\ \A i, j \in 1 .. available[p] : index[p][i] = index[p][j] => i = j
        /\ Stack(p) = {k \in Items : p \in Chain /\ <<p, k>> \notin live}

\* Another page is made only when all items of the others are in use at a time
\* (memory.cc:35-41): memory follows the highest demand, not the number of
\* calls, although pages never go away.
Thrifty == (count - 1) * PageItems < most \/ count = 0
=============================================================================

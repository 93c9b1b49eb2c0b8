------------------------------ MODULE SrvOrder ------------------------------
(***************************************************************************)
(* getsrv::sort (common/resolver/rascal_getsrv.cc): the order in which the *)
(* servers of a service are tried.  The list is already sorted by          *)
(* priority; among servers of one priority each next one is drawn at       *)
(* random, by weight (RFC 2782).                                           *)
(*                                                                         *)
(* A server is a record with a priority and a weight, both naturals.       *)
(***************************************************************************)
EXTENDS Integers, SequencesExt

CONSTANT
    Arc4        \* is HAVE_arc4random defined? (common/util/random.cc)

ASSUME Arc4 \in BOOLEAN

Servers == [priority : Nat, weight : Nat, host : STRING, of : STRING]

\* The servers at the head of the list that share its priority.
Group(list) == {i \in DOMAIN list : \A j \in 1 .. i : list[j].priority = list[1].priority}

\* What the weights before each place of the list, and behind it, come to.
Sums(list) ==
    LET sum[i \in 1 .. Len(list) + 1] == IF i = 1 THEN 0 ELSE sum[i - 1] + list[i - 1].weight
    IN  sum
Before(list, i) == Sums(list)[i]
Total(list) == Before(list, Cardinality(Group(list)) + 1)

\* faeutil_random(sum - 1), or 0 if all weights are: rand() scaled, which comes
\* to the limit only for RAND_MAX, or a remainder, which never does.  (With a
\* sum of one the remainder is taken by zero: there is no value.)
Draws(sum) ==
    IF sum = 0 THEN {0} ELSE IF Arc4 THEN 0 .. sum - 2 ELSE 0 .. sum - 1

\* Mutant of Drawn: the weights that were passed are not subtracted.
DrawnUnshifted(list, rnd) ==
    LET fits == {i \in Group(list) : rnd = 0 \/ rnd < list[i].weight}
    IN  IF fits = {} THEN 1 ELSE CHOOSE i \in fits : \A j \in fits : i <= j

\* The first server whose weight exceeds what is left of rnd, or that finds
\* nothing left of it; the head if there is none.
Drawn(list, rnd) ==
    LET left(i) == rnd - Before(list, i)
        fits == {i \in Group(list) : left(i) = 0 \/ left(i) < list[i].weight}
    IN  IF fits = {} THEN 1 ELSE CHOOSE i \in fits : \A j \in fits : i <= j

\* One turn of the loop: a server goes from the old list to the new one.
Move(lists, i) == [new |-> Append(lists.new, lists.old[i]), old |-> RemoveAt(lists.old, i)]
Turns(lists) == {Move(lists, Drawn(lists.old, rnd)) : rnd \in Draws(Total(lists.old))}

\* The lists there may be after each number of turns.
Sorting(servers) ==
    LET after[k \in 0 .. Len(servers)] ==
            IF k = 0 THEN {[new |-> <<>>, old |-> servers]}
            ELSE UNION {Turns(lists) : lists \in after[k - 1]}
    IN  after

\* All that sort may make of a list.
Orders(servers) == {lists.new : lists \in Sorting(servers)[Len(servers)]}
=============================================================================

------------------------------ MODULE HeaderMC ------------------------------
(***************************************************************************)
(* A finite instance of Header: up to three records of the kinds that an   *)
(* answer mixes, of names that are repeated, shared in part or written     *)
(* out, cut off at every octet, and of servers one whose name is longer    *)
(* than is kept of it.                                                     *)
(***************************************************************************)
EXTENDS Header

a == <<97>>
b == <<98, 98>>
c == [i \in 1 .. 40 |-> 99]
MCName == <<a>>
Addr(n) == [type |-> TYPE_A, class |-> CLASS_IN, addr |-> <<10, 0, 0, n>>]
Chaos == [type |-> TYPE_A, class |-> 3, addr |-> <<10, 0, 0, 9>>]
Alias == [type |-> TYPE_CNAME, class |-> CLASS_IN, host |-> <<b>>]
Pointer(name) == [type |-> TYPE_PTR, class |-> CLASS_IN, host |-> name]
Server(n, name) ==
    [type |-> TYPE_SRV, class |-> CLASS_IN, priority |-> n, weight |-> 300, port |-> 80, host |-> name]

UpTo(n, records) == UNION {[1 .. k -> records] : k \in 0 .. n}

MCZones ==
    [addrs |-> UpTo(3, {Addr(1), Addr(2), Chaos, Alias}),
     hosts |-> UpTo(2, {Pointer(<<b>>), Pointer(<<b, a>>), Pointer(<<>>), Alias}),
     srv   |-> UpTo(3, {Server(1, <<b>>), Server(2, <<b, a>>), Server(0, <<>>), Server(3, <<c, c>>), Addr(1)})]
=============================================================================

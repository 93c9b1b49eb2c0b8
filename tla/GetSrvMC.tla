------------------------------ MODULE GetSrvMC ------------------------------
(***************************************************************************)
(* A finite instance of GetSrv: no record, a service that is not available *)
(* (also after a record), one or two hosts, a host that is named twice,    *)
(* equal and different priorities, weights with and without zeros, and a   *)
(* host whose name is longer than is kept of it.                           *)
(***************************************************************************)
EXTENDS GetSrv

A(priority, weight) == [host |-> "a", priority |-> priority, weight |-> weight]
B(priority, weight) == [host |-> "b", priority |-> priority, weight |-> weight]
C(priority, weight) == [host |-> "ac", priority |-> priority, weight |-> weight]
Dot == [host |-> ".", priority |-> 0, weight |-> 0]

MCAnswers ==
    {<<>>, <<Dot>>, <<A(1, 1), C(1, 2)>>, <<B(2, 0), A(1, 1)>>, <<A(2, 1), B(1, 1), A(1, 2)>>,
     <<C(1, 1), A(2, 1), Dot>>}

MCKept(host) == IF host = "ac" THEN "a" ELSE host
=============================================================================

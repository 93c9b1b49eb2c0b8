----------------------------- MODULE HandleTable -----------------------------
(***************************************************************************)
(* What a handle table promises, whatever its layout: a set of entries     *)
(* <<handle, body>> in which a handle names at most one body.  Inserting   *)
(* adds one entry under a handle no other entry uses; deleting takes one   *)
(* entry away and disturbs no other.  Stock implements it.                 *)
(***************************************************************************)

CONSTANTS Handles, Bodies

VARIABLE table

Init == table = {}

\* The handle under which a body is entered is the table's choice, but it
\* may not be in use.
Insert(b) ==
    \E h \in Handles :
        /\ \A e \in table : e[1] # h /\ e[2] # b
        /\ table' = table \cup {<<h, b>>}

Delete(b) == \E e \in table : e[2] = b /\ table' = table \ {e}

Next == \E b \in Bodies : Insert(b) \/ Delete(b)

Spec == Init /\ [][Next]_table
=============================================================================

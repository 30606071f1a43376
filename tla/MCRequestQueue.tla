---------------------------- MODULE MCRequestQueue ----------------------------
(* TLC instance of RequestQueue. *)
EXTENDS RequestQueue

CONSTANTS login, getA, getB, post

\* getPriority of a login, of GETs and of a POST.
MCPrio == [r \in Request |-> IF r = login THEN 9 ELSE IF r = post THEN 3 ELSE 5]
=============================================================================

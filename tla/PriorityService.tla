--------------------------- MODULE PriorityService ---------------------------
(***************************************************************************)
(* What SimpleRequestQueue promises the requests of an API process: a      *)
(* waiting room of limited size, out of which always the first by priority *)
(* and then by arrival is let through, and one answer for each request     *)
(* that is never taken back.  There is no array, slot or timer here.       *)
(***************************************************************************)
EXTENDS Naturals, FiniteSets

CONSTANTS
    Request,
    Prio,   \* the priority of each request
    Room    \* how many may wait

VARIABLES
    stage,    \* how far each request has come
    answer,   \* the response of each request
    arrival   \* the place of each request in order of arrival

serviceVars == <<stage, answer, arrival>>

ServiceInit ==
    /\ stage = [r \in Request |-> "new"]
    /\ answer = [r \in Request |-> "none"]
    /\ arrival = [r \in Request |-> 0]

InRoom == {r \in Request : stage[r] = "waiting"}

GoesBefore(r, q) ==
    \/ Prio[r] > Prio[q]
    \/ Prio[r] = Prio[q] /\ arrival[r] < arrival[q]

Becomes(r, s) == stage' = [stage EXCEPT ![r] = s]

Answered(r, a) == answer' = [answer EXCEPT ![r] = a]

\* Only a full room turns a request away.
TurnAway(r) ==
    /\ stage[r] = "new"
    /\ Cardinality(InRoom) >= Room
    /\ Becomes(r, "over") /\ Answered(r, "503")
    /\ UNCHANGED arrival

Admit(r) ==
    /\ stage[r] = "new"
    /\ Cardinality(InRoom) < Room
    /\ Becomes(r, "waiting")
    /\ arrival' \in [Request -> Nat]
    /\ \A q \in Request \ {r} :
          arrival'[q] = arrival[q] /\ arrival'[q] < arrival'[r]
    /\ UNCHANGED answer

\* Whoever is let through goes before all others who wait.
LetThrough(r) ==
    /\ stage[r] = "waiting"
    /\ \A q \in InRoom \ {r} : GoesBefore(r, q)
    /\ Becomes(r, "running")
    /\ UNCHANGED <<answer, arrival>>

\* A request waits in vain, and no route ever runs for it.
GiveUp(r) ==
    /\ stage[r] = "waiting"
    /\ Becomes(r, "over") /\ Answered(r, "408")
    /\ UNCHANGED arrival

\* A route takes too long: it runs on without an answer to give.
Overdue(r) ==
    /\ stage[r] = "running" /\ answer[r] = "none"
    /\ Answered(r, "408")
    /\ UNCHANGED <<stage, arrival>>

RouteEnds(r) ==
    /\ stage[r] = "running"
    /\ Becomes(r, "over")
    /\ IF answer[r] = "none" THEN Answered(r, "route") ELSE UNCHANGED answer
    /\ UNCHANGED arrival

ServiceNext ==
    \E r \in Request :
        \/ TurnAway(r) \/ Admit(r) \/ LetThrough(r)
        \/ GiveUp(r) \/ Overdue(r) \/ RouteEnds(r)

ServiceSpec == ServiceInit /\ [][ServiceNext]_serviceVars
=============================================================================

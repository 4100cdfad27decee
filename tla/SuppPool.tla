------------------------------ MODULE SuppPool ------------------------------
(***************************************************************************)
(* What the authenticator promises about the supplicants it deals with at a *)
(* time: at most MaxActive are authenticated, at most WaitMax wait their    *)
(* turn, a supplicant that is being authenticated is never sent back to     *)
(* wait, one that waits is given up only for one that came later, and a     *)
(* place that becomes free may go to one that waits.                        *)
(***************************************************************************)
EXTENDS Integers, FiniteSets

CONSTANTS Supp, MaxActive, WaitMax

VARIABLES
    active,     \* supplicants being authenticated
    waiting     \* supplicants that wait

vars == <<active, waiting>>

Init == active = {} /\ waiting = {}

\* A message of a supplicant that is not active makes it active,
Admit(x) ==
    /\ x \notin active /\ Cardinality(active) < MaxActive
    /\ active' = active \cup {x}
    /\ waiting' = waiting \ {x}

\* or makes it wait, at the cost of another one if too many do.
Park(x) ==
    LET others == waiting \ {x}
    IN  /\ x \notin active
        /\ \E given \in SUBSET others :
              /\ Cardinality(given) = IF Cardinality(others) < WaitMax THEN 0 ELSE 1
              /\ waiting' = (others \ given) \cup {x}
        /\ UNCHANGED active

\* Some leave at a tick; every active one that leaves makes room for at most
\* one that waits.
Leave(done, promoted) ==
    /\ done # {}
    /\ promoted \subseteq waiting \ done
    /\ Cardinality(promoted) <= Cardinality(done \cap active)
    /\ active' = (active \ done) \cup promoted
    /\ waiting' = waiting \ (done \cup promoted)

\* The daemon is started again.
Restart == active' = {} /\ waiting' = {}

Next ==
    \/ \E x \in Supp : Admit(x) \/ Park(x)
    \/ \E done, promoted \in SUBSET (active \cup waiting) : Leave(done, promoted)
    \/ Restart

Spec == Init /\ [][Next]_vars
=============================================================================

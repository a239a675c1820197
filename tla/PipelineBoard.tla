---------------------------- MODULE PipelineBoard ----------------------------
(***************************************************************************)
(* What the sales pipeline promises its users, whatever the store keeps    *)
(* (GET and PUT /crm/pipeline): a board on which a lead stands at most at  *)
(* one stage.  A move puts it there; a qualification takes a lead that is  *)
(* on the board to "qualified" or off the board, and puts none onto it; a  *)
(* lead that was deleted, or lost at a restart, never comes back.          *)
(***************************************************************************)
CONSTANTS
    Leads,      \* ids of leads
    Stages      \* STAGES of sales_pipeline.py

VARIABLES
    life,       \* "unborn", "alive" or "gone"
    seen        \* the stage under which get_pipeline() shows a lead, or "off"

vars == <<life, seen>>

Init ==
    /\ life = [l \in Leads |-> "unborn"]
    /\ seen = [l \in Leads |-> "off"]

Birth(l) ==
    /\ life[l] = "unborn"
    /\ life' = [life EXCEPT ![l] = "alive"]
    /\ UNCHANGED seen

Move(l, s) ==
    /\ life[l] = "alive"
    /\ seen' = [seen EXCEPT ![l] = s]
    /\ UNCHANGED life

Qualify(l) ==
    /\ seen[l] \in Stages
    /\ \E s \in {"qualified", "off"} : seen' = [seen EXCEPT ![l] = s]
    /\ UNCHANGED life

\* The leads of S go, by a deletion or all of them by a restart.
Lose(S) ==
    /\ life' = [l \in Leads |-> IF l \in S THEN "gone" ELSE life[l]]
    /\ seen' = [l \in Leads |-> IF l \in S THEN "off" ELSE seen[l]]

Next ==
    \/ \E l \in Leads :
          \/ Birth(l)
          \/ \E s \in Stages : Move(l, s)
          \/ Qualify(l)
          \/ life[l] = "alive" /\ Lose({l})
    \/ Lose({l \in Leads : life[l] = "alive"})

Spec == Init /\ [][Next]_vars
=============================================================================

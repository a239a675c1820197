------------------------------ MODULE MCMemory ------------------------------
(***************************************************************************)
(* Memory and CRM on small instances.  They share no state in the model    *)
(* (the files of the CRM's namespaces are left out), and the two           *)
(* namespaces of Memory only their restarts, so a behaviour is one of one  *)
(* of the three: "part" says which, the rest stays as it is.               *)
(***************************************************************************)
EXTENDS Memory, CRM, TLC

CONSTANTS c1, c2, p1, p2, l1, l2

VARIABLE part

MCNameOf == (c1 :> p1) @@ (c2 :> p2)
MCStages == {"new", "qualified", "won"}
MCInfo == {"email", "industry"}
MCWeight == [email |-> 20, industry |-> 10]
MCLeadOf == [k \in {"f1"} |-> l1]

Init == part \in {"work_memory", "projects", "crm"} /\ MemoryInit /\ CRMInit
Next ==
    /\ part' = part
    /\ \/ part = "work_memory" /\ MemoryNext /\ UNCHANGED <<kept, projFile, crmVars>>
       \/ part = "projects" /\ MemoryNext /\ UNCHANGED <<held, workFile, log, todo, crmVars>>
       \/ part = "crm" /\ CRMNext /\ UNCHANGED memoryVars
Spec == Init /\ [][Next]_<<part, memoryVars, crmVars>>
=============================================================================

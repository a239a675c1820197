--------------------------- MODULE MCServiceRegistry ---------------------------
(***************************************************************************)
(* The parts of the kernel that keep names apart: ServiceRegistry, with    *)
(* every set of dependencies among three names, that of a service on       *)
(* itself included; and Container, the kernel's container with a scope and *)
(* a diamond of needs.  They share no state: a behaviour is one of the     *)
(* one or of the other, as "part" says.                                    *)
(***************************************************************************)
EXTENDS ServiceRegistry, Container, TLC

CONSTANTS db, log, web

VARIABLE part

MCNeeds == [app |-> {"api", "data"}, api |-> {"data"}, data |-> {}]
MCChain == ("kernel" :> <<"kernel">>) @@ ("scope" :> <<"scope", "kernel">>)

MCInit == part \in {"registry", "container"} /\ Init /\ ContainerInit
Search == part = "registry" /\ SearchStep /\ part' = part /\ UNCHANGED containerVars
MCNext ==
    /\ part' = part
    /\ \/ part = "registry" /\ Next /\ UNCHANGED containerVars
       \/ part = "container" /\ ContainerNext /\ UNCHANGED vars
MCSpec ==
    /\ MCInit
    /\ [][MCNext]_<<part, vars, containerVars>>
    /\ WF_<<part, vars, containerVars>>(Search)
=============================================================================

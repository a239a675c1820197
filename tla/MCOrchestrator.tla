---------------------------- MODULE MCOrchestrator ----------------------------
\* Two connections and three commands: of the first one a text whose user_id is
\* no string and a command without a shape, of the second one a command whose
\* task.completed a subscriber may cancel.
EXTENDS Orchestrator, TLC

CONSTANTS a, b, text, shapeless, plain, ann

MCFrom == text :> a @@ shapeless :> a @@ plain :> b
NoUsers == [c \in {text, shapeless, plain} |-> NoUser]
Named == [NoUsers EXCEPT ![plain] = ann]
=============================================================================

------------------------------ MODULE MCBackend ------------------------------
(***************************************************************************)
(* The parts of the backend whose requests suspend, each on an instance of *)
(* its own.  They share no state, so that a behaviour is one of one of     *)
(* them: "part" says which, the others stay as they begin.                 *)
(***************************************************************************)
EXTENDS Gateway, Browsing, FormFiller, Healing, Terminal, Messaging, TLC

CONSTANTS r1, r2, r3, r4, r5, r6, ann, bob, cyd, k1, k2, k3, m1, m2, w1, w2

VARIABLE part

Asks(k, c, n, m, b) == [kind |-> k, client |-> c, name |-> n, mail |-> m, bearer |-> b]

\* Two registrations of one name, one of another name with a mail address
\* that is known, a login, new tokens for its token, and a use of those.
MCForm == (r1 :> Asks("register", "x", "ann", "a@", r1)) @@
          (r2 :> Asks("register", "x", "ann", "b@", r2)) @@
          (r3 :> Asks("register", "x", "bob", "a@", r3)) @@
          (r4 :> Asks("login", "y", "ann", "", r4)) @@
          (r5 :> Asks("refresh", "x", "ann", "", r4)) @@
          (r6 :> Asks("me", "z", "ann", "", r5))
\* Four of them come: all of one client, of which one has no valid token, or
\* those that deal with tokens.
Stay(p) == IF p = "gateway" THEN {r4, r6} ELSE {r2, r3}
MCRunBy == (k1 :> ann) @@ (k2 :> ann) @@ (k3 :> bob)

Is(p) == part = p /\ part' = p

Init ==
    /\ part \in {"gateway", "tokens", "browser", "form", "healing", "terminal", "messaging"}
    /\ GatewayInit /\ BrowsingInit /\ FormInit /\ HealingInit /\ TerminalInit /\ MessagingInit
    \* The steps of a plan vary in the part that looks at them alone.
    /\ part # "healing" => \A s \in PlanSteps : validation[s] = "none"

InGateway ==
    /\ Is("gateway") \/ Is("tokens")
    /\ \A r \in Stay(part) : stage'[r] = "away"
    \* The rate limit is the business of the part "gateway".
    /\ part = "tokens" => now' = now
    /\ UNCHANGED <<browsingVars, formVars, healingVars, terminalVars, messagingVars>>

Next ==
    \/ GatewayNext /\ InGateway
    \/ /\ Is("browser") /\ BrowsingNext
       /\ UNCHANGED <<gatewayVars, formVars, healingVars, terminalVars, messagingVars>>
    \/ /\ Is("form") /\ FormNext
       \* The third one comes to launch a browser: its load fails.
       /\ step'[r3] # "idle"
       /\ UNCHANGED <<gatewayVars, browsingVars, healingVars, terminalVars, messagingVars>>
    \/ /\ Is("healing") /\ HealingNext
       /\ UNCHANGED <<gatewayVars, browsingVars, formVars, terminalVars, messagingVars>>
    \/ /\ Is("terminal") /\ TerminalNext
       /\ UNCHANGED <<gatewayVars, browsingVars, formVars, healingVars, messagingVars>>
    \/ /\ Is("messaging") /\ MessagingNext
       /\ UNCHANGED <<gatewayVars, browsingVars, formVars, healingVars, terminalVars>>

allVars == <<part, gatewayVars, browsingVars, formVars, healingVars, terminalVars,
             messagingVars>>

\* The fairness of GatewaySpec and of HealingSpec, in their parts.
Spec ==
    /\ Init /\ [][Next]_allVars
    /\ \A r \in Requests : WF_allVars(Serve(r) /\ InGateway)
    /\ WF_allVars(Is("healing") /\ Heal
             /\ UNCHANGED <<gatewayVars, browsingVars, formVars, terminalVars,
                            messagingVars>>)
=============================================================================

----------------------------- MODULE FormFiller -----------------------------
(***************************************************************************)
(* FormFillerService (form_filler.py) over BrowserService                  *)
(* (browser_service.py): POST /autonomous/fill-form and /create-account.   *)
(*                                                                         *)
(* All requests share one service, hence one browser, and every call of    *)
(* its page is an await.  Each call works on the page that _page held when *)
(* the call began: it goes on with a page that a second launch has         *)
(* replaced, and the calls after it use the new one.  The service does not *)
(* notice: fill() and click() return their errors, and the service looks   *)
(* for exceptions.  A step ends where a request is suspended.              *)
(***************************************************************************)
EXTENDS Naturals, FiniteSets

CONSTANTS
    Fills,      \* requests to fill a form, each at a URL of its own
    MaxFields   \* bound: fields the model finds in a form

ASSUME FormFillerAssumption ==
    MaxFields \in Nat /\ {"none", "blank"} \cap Fills = {}

VARIABLES
    step,      \* where a request is
    ready,     \* FormFillerService._initialized
    page,      \* BrowserService._page: the request whose launch opened it, or
               \* "none" while BrowserService._initialized is False
    shows,     \* of a page: the request whose form it shows, or "blank"
    works,     \* the page that the call a request awaits works on, or "none"
    left,      \* fields a request has yet to fill
    touched,   \* forms a request read, typed into or clicked on
    submitted, \* requests answered with "submitted": True
    rivals     \* history: what came onto _page, or under a call, since a request
               \* has its form there: forms of others, or a blank page

formVars == <<step, ready, page, shows, works, left, touched, submitted, rivals>>

FormSteps == {"away", "launch", "goto", "idle", "read", "analyse", "fill",
              "find", "click", "done"}
\* The steps after its form came onto the page that a request loaded, and
\* those of them that await a call which reads or changes the page.
OnPage == {"idle", "read", "analyse", "fill", "find", "click"}
InCall == {"read", "fill", "click"}

FormTypeOK ==
    /\ step \in [Fills -> FormSteps]
    /\ ready \in BOOLEAN
    /\ page \in Fills \cup {"none"}
    /\ shows \in [Fills -> Fills \cup {"blank"}]
    /\ works \in [Fills -> Fills \cup {"none"}]
    /\ left \in [Fills -> Nat]
    /\ touched \in [Fills -> SUBSET (Fills \cup {"blank"})]
    /\ submitted \subseteq Fills
    /\ rivals \in [Fills -> SUBSET (Fills \cup {"blank"})]

FormInit ==
    /\ step = [r \in Fills |-> "away"]
    /\ ready = FALSE /\ page = "none"
    /\ shows = [r \in Fills |-> "blank"]
    /\ works = [r \in Fills |-> "none"]
    /\ left = [r \in Fills |-> 0]
    /\ touched = [r \in Fills |-> {}]
    /\ submitted = {}
    /\ rivals = [r \in Fills |-> {}]

ToStep(r, s) == step' = [step EXCEPT ![r] = s]
\* Awaits a call of page g, or none.
Works(r, g) == works' = [works EXCEPT ![r] = g]

\* A request whose next call of the page relies on what _page shows.
Relies(r) == step[r] \in OnPage \/ (step[r] = "goto" /\ works[r] # page)
\* A request under which a form changes that comes onto page g.
Under(r, g) == (g = page /\ Relies(r)) \/ (step[r] \in InCall /\ works[r] = g)
\* The form x comes under those requests.
Rival(x, those) ==
    rivals' = [q \in Fills |-> IF q \in those THEN rivals[q] \cup {x} ELSE rivals[q]]

-----------------------------------------------------------------------------
(* Operations                                                              *)

\* navigate() begins: goto() takes the page g there is; an error when the
\* browser is not initialized ends the request.
BeginLoad(r, g) == ToStep(r, IF g = "none" THEN "done" ELSE "goto") /\ Works(r, g)

\* fill_form() begins; ensure_browser() launches a browser unless one request
\* has finished doing so, so two early requests launch two.
BeginFill(r) ==
    /\ step[r] = "away"
    /\ \/ ready /\ BeginLoad(r, page)
       \/ ~ready /\ ToStep(r, "launch") /\ UNCHANGED works
    /\ UNCHANGED <<ready, page, shows, left, touched, submitted, rivals>>

\* create_social_account() for a platform it has no URL of.
Unsupported(r) ==
    /\ step[r] = "away"
    /\ ToStep(r, "done")
    /\ UNCHANGED <<ready, page, shows, works, left, touched, submitted, rivals>>

\* initialize() ends: with a new page, which replaces that of a browser that
\* was launched meanwhile, or with an exception it logs.  Either way the
\* service counts as initialized, and the request goes on to its load.
Launch(r) ==
    /\ step[r] = "launch"
    /\ ready' = TRUE
    /\ \/ /\ page' = r
          /\ shows' = [shows EXCEPT ![r] = "blank"]
          /\ Rival("blank", {q \in Fills : step[q] \in OnPage \cup {"goto"}})
       \/ UNCHANGED <<page, shows, rivals>>
    /\ BeginLoad(r, page')
    /\ UNCHANGED <<left, touched, submitted>>

\* goto() has got its form onto its page, and waits for the network to be idle.
Commit(r) ==
    /\ step[r] = "goto"
    /\ ToStep(r, "idle")
    /\ shows' = [shows EXCEPT ![works[r]] = r]
    /\ Rival(r, {q \in Fills \ {r} : Under(q, works[r])})
    /\ UNCHANGED <<ready, page, works, left, touched, submitted>>

\* navigate() returns, and get_content() begins.
Loaded(r) ==
    /\ step[r] = "idle"
    /\ ToStep(r, "read") /\ Works(r, page)
    /\ UNCHANGED <<ready, page, shows, left, touched, submitted, rivals>>

\* Mutant: fill_form() goes on after an error of navigate().
LoadFails_GoesOn(r) ==
    /\ step[r] \in {"goto", "idle"}
    /\ ToStep(r, "read") /\ Works(r, page)
    /\ UNCHANGED <<ready, page, shows, left, touched, submitted, rivals>>

\* navigate() returns an error, before its form shows or after it, when another
\* load breaks in: the request ends.
LoadFails(r) ==
    /\ step[r] \in {"goto", "idle"}
    /\ ToStep(r, "done") /\ Works(r, "none")
    /\ UNCHANGED <<ready, page, shows, left, touched, submitted, rivals>>

\* A call has read, typed into or clicked on what its page shows, or returns an
\* error, which nobody looks at.
Touch(r) ==
    touched' \in {touched, [touched EXCEPT ![r] = @ \cup {shows[works[r]]}]}

\* get_content() returns, with whatever form its page showed, and the model is
\* asked for the fields.
Read(r) ==
    /\ step[r] = "read"
    /\ ToStep(r, "analyse") /\ Works(r, "none")
    /\ Touch(r)
    /\ UNCHANGED <<ready, page, shows, left, submitted, rivals>>

\* _match_field(): how many of the fields are given a value.
Matched == 0..MaxFields

\* With n fields left to fill: fill() of the next one begins; after the last one
\* the model is asked for the button, if the request wants to submit.
Go(r, n) ==
    /\ left' = [left EXCEPT ![r] = n]
    /\ IF n > 0 THEN ToStep(r, "fill") /\ Works(r, page)
                ELSE (\E s \in {"find", "done"} : ToStep(r, s)) /\ Works(r, "none")

\* The model names the fields; an answer that is no list has none, and one
\* that is not made of objects raises.
Analyse(r) ==
    /\ step[r] = "analyse"
    /\ \/ \E n \in Matched : Go(r, n)
       \/ ToStep(r, "done") /\ UNCHANGED <<left, works>>
    /\ UNCHANGED <<ready, page, shows, touched, submitted, rivals>>

\* fill() of a field returns.
FillField(r) ==
    /\ step[r] = "fill"
    /\ Touch(r)
    /\ Go(r, left[r] - 1)
    /\ UNCHANGED <<ready, page, shows, submitted, rivals>>

\* _find_submit_button(): found, and click() begins, or not.
FindButton(r) ==
    /\ step[r] = "find"
    /\ \/ ToStep(r, "click") /\ Works(r, page)
       \/ ToStep(r, "done") /\ UNCHANGED works
    /\ UNCHANGED <<ready, page, shows, left, touched, submitted, rivals>>

\* click() returns.
Click(r) ==
    /\ step[r] = "click"
    /\ ToStep(r, "done") /\ Works(r, "none")
    /\ Touch(r)
    /\ submitted' = submitted \cup {r}
    /\ UNCHANGED <<ready, page, shows, left, rivals>>

FillForm(r) ==
    \/ BeginFill(r) \/ Launch(r) \/ Commit(r) \/ Loaded(r) \/ LoadFails(r)
    \/ Read(r) \/ Analyse(r) \/ FillField(r) \/ FindButton(r) \/ Click(r)

\* The endpoints /autonomous/fill-form and /create-account.
FormNext == \E r \in Fills : FillForm(r) \/ Unsupported(r)

FormSpec == FormInit /\ [][FormNext]_formVars

-----------------------------------------------------------------------------
(* Properties                                                              *)

\* Values go astray only onto what came under a request at work: whatever
\* requests overlap, load onto each other, launch anew or fail, a request
\* reads, types into and clicks on its own form, or one that another request
\* loaded onto the page after it, or a page that a later launch opened.  It
\* never gets at a form that was there before its own, or after its load has
\* failed.
OwnForm == \A r \in Fills : touched[r] \subseteq {r} \cup rivals[r]

=============================================================================

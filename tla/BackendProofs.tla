--------------------------- MODULE BackendProofs ---------------------------
(***************************************************************************)
(* Proofs about the parts of the backend whose requests suspend: for any   *)
(* number of requests, steps, sessions and messages, and any bounds.       *)
(***************************************************************************)
EXTENDS Gateway, Browsing, FormFiller, Healing, Terminal, Messaging, FiniteSetTheorems, TLAPS

-----------------------------------------------------------------------------
(* Form filler                                                             *)

\* A request that relies on _page, or awaits a call, finds its form there or
\* what came since; a goto() has a page to work on.
FormInv ==
    /\ FormTypeOK
    /\ OwnForm
    /\ \A r \in Fills :
          /\ Relies(r) => page # "none" /\ shows[page] \in {r} \cup rivals[r]
          /\ step[r] \in InCall => works[r] # "none" /\ shows[works[r]] \in {r} \cup rivals[r]
          /\ step[r] = "goto" => page # "none" /\ works[r] # "none"
          /\ step[r] = "fill" => left[r] > 0

\* A step of a request to s that changes neither the page nor what it shows: it
\* goes on where it relies on the page, or ends, and touches what its call has.
Going(r, s) ==
    /\ s \in FormSteps \ {"goto"}
    /\ step' = [step EXCEPT ![r] = s]
    /\ step[r] \in OnPage \/ s \notin OnPage
    /\ \E g \in Fills \cup {"none"} : Works(r, g) /\ (s \in InCall => g = page)
    /\ UNCHANGED <<ready, page, shows, rivals>>
    /\ \/ touched' = touched
       \/ step[r] \in InCall /\ touched' = [touched EXCEPT ![r] = @ \cup {shows[works[r]]}]
    /\ left' \in [Fills -> Nat] /\ (s = "fill" => left'[r] > 0)
    /\ \A q \in Fills \ {r} : left'[q] = left[q]
    /\ submitted' \subseteq Fills

LEMMA GoesOn ==
    ASSUME FormInv, NEW r \in Fills, NEW s, Going(r, s)
    PROVE  FormInv'
  <1> USE DEF FormInv, FormTypeOK, Going
  <1>1. PICK g \in Fills \cup {"none"} :
           works' = [works EXCEPT ![r] = g] /\ (s \in InCall => g = page)
    BY DEF Works
  <1>2. touched' \in [Fills -> SUBSET (Fills \cup {"blank"})] /\ OwnForm'
    <2>1. CASE touched' = touched
      BY <2>1 DEF OwnForm
    <2>2. CASE step[r] \in InCall /\ touched' = [touched EXCEPT ![r] = @ \cup {shows[works[r]]}]
      <3>1. works[r] \in Fills /\ shows[works[r]] \in {r} \cup rivals[r]
        BY <2>2
      <3> QED BY <2>2, <3>1 DEF OwnForm
    <2> QED BY <2>1, <2>2
  <1>3. FormTypeOK'
    BY <1>1, <1>2
  <1>4. step[r] \in OnPage => page # "none" /\ shows[page] \in {r} \cup rivals[r]
    BY DEF Relies
  <1>5. /\ Relies(r)' => page' # "none" /\ shows'[page'] \in {r} \cup rivals'[r]
        /\ step'[r] \in InCall => works'[r] # "none" /\ shows'[works'[r]] \in {r} \cup rivals'[r]
        /\ step'[r] # "goto"
        /\ step'[r] = "fill" => left'[r] > 0
    <2>1. step'[r] = s /\ works'[r] = g
      BY <1>1
    <2>2. Relies(r)' => s \in OnPage
      BY <2>1 DEF Relies
    <2>3. s \in InCall => s \in OnPage /\ g = page
      BY <1>1 DEF InCall, OnPage
    <2> QED BY <1>4, <2>1, <2>2, <2>3
  <1>6. ASSUME NEW q \in Fills, q # r
        PROVE  /\ Relies(q)' => page' # "none" /\ shows'[page'] \in {q} \cup rivals'[q]
               /\ step'[q] \in InCall =>
                     works'[q] # "none" /\ shows'[works'[q]] \in {q} \cup rivals'[q]
               /\ step'[q] = "goto" => page' # "none" /\ works'[q] # "none"
               /\ step'[q] = "fill" => left'[q] > 0
    <2>1. step'[q] = step[q] /\ works'[q] = works[q] /\ left'[q] = left[q]
      BY <1>1, <1>6
    <2>2. Relies(q)' => Relies(q)
      BY <2>1 DEF Relies
    <2> QED BY <2>1, <2>2
  <1> QED BY <1>2, <1>3, <1>5, <1>6

\* A new page is blank, and comes under every request that has or loads one.
LEMMA LaunchStep ==
    ASSUME FormInv, NEW r \in Fills, Launch(r)
    PROVE  FormInv'
  <1> USE FormFillerAssumption DEF FormInv, FormTypeOK, FormSteps
  <1>1. CASE UNCHANGED <<page, shows, rivals>>
    <2>1. /\ step' = [step EXCEPT ![r] = IF page = "none" THEN "done" ELSE "goto"]
          /\ works' = [works EXCEPT ![r] = page]
          /\ step[r] = "launch" /\ ready' = TRUE /\ UNCHANGED <<left, touched, submitted>>
      BY <1>1 DEF Launch, BeginLoad, ToStep, Works
    <2>2. FormTypeOK'
      BY <1>1, <2>1
    <2>3. \A q \in Fills : Relies(q)' => Relies(q)
      BY <1>1, <2>1 DEF Relies, OnPage
    <2>4. \A q \in Fills : step'[q] \in InCall => q # r /\ step[q] \in InCall /\ works'[q] = works[q]
      BY <2>1 DEF InCall
    <2>5. \A q \in Fills : step'[q] = "goto" => page # "none" /\ works'[q] # "none"
      BY <2>1
    <2> QED BY <1>1, <2>1, <2>2, <2>3, <2>4, <2>5 DEF OwnForm
  <1>2. CASE /\ page' = r
             /\ shows' = [shows EXCEPT ![r] = "blank"]
             /\ Rival("blank", {q \in Fills : step[q] \in OnPage \cup {"goto"}})
    <2>1. /\ step' = [step EXCEPT ![r] = "goto"]
          /\ works' = [works EXCEPT ![r] = r]
          /\ step[r] = "launch" /\ ready' = TRUE /\ UNCHANGED <<left, touched, submitted>>
      BY <1>2 DEF Launch, BeginLoad, ToStep, Works
    <2>2. rivals' = [q \in Fills |-> IF step[q] \in OnPage \cup {"goto"}
                                     THEN rivals[q] \cup {"blank"} ELSE rivals[q]]
      BY <1>2 DEF Rival
    <2>3. FormTypeOK'
      BY <1>2, <2>1, <2>2
    <2>4. OwnForm'
      BY <2>1, <2>2 DEF OwnForm
    <2>5. ASSUME NEW q \in Fills, Relies(q)'
          PROVE  page' # "none" /\ shows'[page'] \in {q} \cup rivals'[q]
      <3>1. q # r
        BY <1>2, <2>1, <2>5 DEF Relies, OnPage
      <3>2. step[q] \in OnPage \cup {"goto"}
        BY <2>1, <2>5, <3>1 DEF Relies
      <3> QED BY <1>2, <2>2, <3>2
    <2>6. ASSUME NEW q \in Fills, step'[q] \in InCall
          PROVE  works'[q] # "none" /\ shows'[works'[q]] \in {q} \cup rivals'[q]
      <3>1. q # r /\ step[q] \in InCall /\ works'[q] = works[q]
        BY <2>1, <2>6 DEF InCall
      <3>2. works[q] \in Fills /\ shows[works[q]] \in {q} \cup rivals[q]
        BY <3>1
      <3>3. rivals'[q] = rivals[q] \cup {"blank"}
        BY <2>2, <3>1 DEF InCall, OnPage
      <3>4. shows'[works[q]] \in {"blank", shows[works[q]]}
        BY <1>2, <3>2
      <3> QED BY <3>1, <3>2, <3>3, <3>4
    <2>7. \A q \in Fills : /\ step'[q] = "goto" => page' # "none" /\ works'[q] # "none"
                           /\ step'[q] = "fill" => left'[q] > 0
      BY <1>2, <2>1
    <2> QED BY <2>3, <2>4, <2>5, <2>6, <2>7
  <1> QED BY <1>1, <1>2 DEF Launch

\* A form that comes onto a page is its request's own, and a rival to those
\* that rely on what was there, or work on it.
LEMMA CommitStep ==
    ASSUME FormInv, NEW r \in Fills, Commit(r)
    PROVE  FormInv'
  <1> USE FormFillerAssumption DEF FormInv, FormTypeOK, FormSteps
  <1> DEFINE g == works[r]
  <1>1. /\ step[r] = "goto" /\ step' = [step EXCEPT ![r] = "idle"]
        /\ shows' = [shows EXCEPT ![g] = r]
        /\ UNCHANGED <<ready, page, works, left, touched, submitted>>
        /\ g \in Fills /\ page \in Fills
    BY DEF Commit, ToStep
  <1>2. rivals' = [q \in Fills |-> IF q \in {x \in Fills \ {r} : Under(x, g)}
                                   THEN rivals[q] \cup {r} ELSE rivals[q]]
    BY DEF Commit, Rival
  <1> HIDE DEF g
  <1>3. FormTypeOK'
    BY <1>1, <1>2
  <1>4. \A q \in Fills : rivals[q] \subseteq rivals'[q]
    BY <1>2
  <1>5. OwnForm'
    BY <1>1, <1>4 DEF OwnForm
  <1>6. ASSUME NEW q \in Fills, q # r, NEW h \in Fills,
               shows[h] \in {q} \cup rivals[q], h = g => Under(q, g)
        PROVE  shows'[h] \in {q} \cup rivals'[q]
    <2>1. CASE h = g
      <3>1. rivals'[q] = rivals[q] \cup {r}
        BY <1>2, <1>6, <2>1
      <3>2. shows'[h] = r
        BY <1>1, <2>1
      <3> QED BY <3>1, <3>2
    <2>2. CASE h # g
      <3>1. shows'[h] = shows[h]
        BY <1>1, <2>2
      <3> QED BY <1>4, <1>6, <3>1
    <2> QED BY <2>1, <2>2
  <1>7. ASSUME NEW q \in Fills, Relies(q)'
        PROVE  shows'[page'] \in {q} \cup rivals'[q]
    <2>1. CASE q = r
      <3>1. CASE g = page
        BY <1>1, <2>1, <3>1
      <3>2. CASE g # page
        <4>1. Relies(r)
          BY <1>1, <3>2 DEF Relies, g
        <4>2. shows[page] \in {r} \cup rivals[r]
          BY <4>1
        <4>3. shows'[page] = shows[page] /\ page' = page
          BY <1>1, <3>2
        <4> QED BY <1>4, <2>1, <4>2, <4>3
      <3> QED BY <3>1, <3>2
    <2>2. CASE q # r
      <3>1. Relies(q)
        BY <1>1, <1>7, <2>2 DEF Relies
      <3>2. page = g => Under(q, g)
        BY <3>1 DEF Under
      <3>3. shows'[page] \in {q} \cup rivals'[q]
        BY <1>1, <1>6, <2>2, <3>1, <3>2
      <3> QED BY <1>1, <3>3
    <2> QED BY <2>1, <2>2
  <1>8. ASSUME NEW q \in Fills, step'[q] \in InCall
        PROVE  works'[q] # "none" /\ shows'[works'[q]] \in {q} \cup rivals'[q]
    <2>1. q # r /\ step[q] \in InCall /\ works'[q] = works[q]
      BY <1>1, <1>8 DEF InCall
    <2>2. works[q] \in Fills /\ shows[works[q]] \in {q} \cup rivals[q]
      BY <2>1
    <2>3. works[q] = g => Under(q, g)
      BY <2>1 DEF Under
    <2>4. shows'[works[q]] \in {q} \cup rivals'[q]
      BY <1>6, <2>1, <2>2, <2>3
    <2> QED BY <2>1, <2>2, <2>4
  <1>9. \A q \in Fills : /\ step'[q] = "goto" => page' # "none" /\ works'[q] # "none"
                         /\ step'[q] = "fill" => left'[q] > 0
    BY <1>1
  <1> QED BY <1>1, <1>3, <1>5, <1>7, <1>8, <1>9

LEMMA FormStep ==
    ASSUME FormInv, [FormNext]_formVars
    PROVE  FormInv'
  <1> USE DEF ToStep
  <1>1. ASSUME NEW r \in Fills, BeginFill(r) PROVE FormInv'
    <2>1. CASE ready /\ BeginLoad(r, page)
      <3> USE DEF FormInv, FormTypeOK, FormSteps
      <3>1. /\ step' = [step EXCEPT ![r] = IF page = "none" THEN "done" ELSE "goto"]
            /\ works' = [works EXCEPT ![r] = page]
            /\ step[r] = "away"
            /\ UNCHANGED <<ready, page, shows, left, touched, submitted, rivals>>
        BY <1>1, <2>1 DEF BeginFill, BeginLoad, Works
      <3>2. FormTypeOK'
        BY <3>1
      <3>3. \A q \in Fills : Relies(q)' => Relies(q)
        BY <3>1 DEF Relies, OnPage
      <3>4. \A q \in Fills :
               step'[q] \in InCall => step[q] \in InCall /\ works'[q] = works[q]
        BY <3>1 DEF InCall
      <3>5. \A q \in Fills : step'[q] = "goto" => page # "none" /\ works'[q] # "none"
        BY <3>1
      <3> QED BY <3>1, <3>2, <3>3, <3>4, <3>5 DEF OwnForm
    <2>2. CASE ~ready /\ ToStep(r, "launch") /\ UNCHANGED works
      <3>1. Works(r, works[r]) /\ works[r] \in Fills \cup {"none"}
        BY <2>2 DEF FormInv, FormTypeOK, Works
      <3>2. Going(r, "launch")
        BY <1>1, <2>2, <3>1 DEF BeginFill, Going, FormSteps, OnPage, InCall, FormInv, FormTypeOK
      <3> QED BY <3>2, GoesOn
    <2> QED BY <1>1, <2>1, <2>2 DEF BeginFill
  <1>2. ASSUME NEW r \in Fills, Launch(r) PROVE FormInv'
    BY <1>2, LaunchStep
  <1>3. ASSUME NEW r \in Fills, Commit(r) PROVE FormInv'
    BY <1>3, CommitStep
  <1>a. /\ step \in [Fills -> FormSteps] /\ left \in [Fills -> Nat] /\ submitted \subseteq Fills
        /\ page \in Fills \cup {"none"} /\ works \in [Fills -> Fills \cup {"none"}]
        /\ \A r \in Fills : step[r] = "fill" => left[r] > 0
    BY DEF FormInv, FormTypeOK
  <1>b. \A r \in Fills : UNCHANGED works => Works(r, works[r])
    BY <1>a DEF Works
  \* A step to s without a field to fill.
  <1>c. ASSUME NEW r \in Fills, NEW s \in {"read", "analyse", "find", "click", "done"},
               step' = [step EXCEPT ![r] = s], step[r] \in OnPage \/ s = "done",
               \E g \in Fills \cup {"none"} : Works(r, g) /\ (s \in InCall => g = page),
               UNCHANGED <<ready, page, shows, rivals>>,
               \/ touched' = touched
               \/ step[r] \in InCall /\ touched' = [touched EXCEPT ![r] = @ \cup {shows[works[r]]}],
               left' \in [Fills -> Nat], \A q \in Fills \ {r} : left'[q] = left[q],
               submitted' \subseteq Fills
        PROVE  FormInv'
    <2>1. Going(r, s)
      BY <1>c DEF Going, FormSteps, OnPage
    <2> QED BY <2>1, GoesOn
  \* Filling goes on with n fields, or is over.
  <1>d. ASSUME NEW r \in Fills, NEW n \in Nat, Go(r, n), step[r] \in OnPage,
               UNCHANGED <<ready, page, shows, rivals, submitted>>,
               \/ touched' = touched
               \/ step[r] \in InCall /\ touched' = [touched EXCEPT ![r] = @ \cup {shows[works[r]]}]
        PROVE  FormInv'
    <2>1. left' \in [Fills -> Nat] /\ left'[r] = n /\ \A q \in Fills \ {r} : left'[q] = left[q]
      BY <1>a, <1>d DEF Go
    <2>2. CASE n > 0
      <3>1. Going(r, "fill")
        BY <1>a, <1>d, <2>1, <2>2 DEF Go, Going, FormSteps
      <3> QED BY <3>1, GoesOn
    <2>3. CASE ~(n > 0)
      <3>1. PICK s \in {"find", "done"} : step' = [step EXCEPT ![r] = s] /\ Works(r, "none")
        BY <1>d, <2>3 DEF Go
      <3>2. Going(r, s)
        BY <1>a, <1>d, <2>1, <3>1 DEF Going, FormSteps, InCall
      <3> QED BY <3>2, GoesOn
    <2> QED BY <2>2, <2>3
  <1> USE DEF OnPage, InCall
  <1>4. ASSUME NEW r \in Fills, Loaded(r) PROVE FormInv'
    BY <1>a, <1>c, <1>4 DEF Loaded
  <1>5. ASSUME NEW r \in Fills, LoadFails(r) PROVE FormInv'
    BY <1>a, <1>c, <1>5 DEF LoadFails
  <1>6. ASSUME NEW r \in Fills, Read(r) PROVE FormInv'
    BY <1>a, <1>c, <1>6 DEF Read, Touch
  <1>7. ASSUME NEW r \in Fills, Analyse(r) PROVE FormInv'
    <2>1. CASE \E n \in Matched : Go(r, n)
      <3>1. PICK n \in Nat : Go(r, n)
        BY <2>1, FormFillerAssumption DEF Matched
      <3> QED BY <1>7, <1>d, <3>1 DEF Analyse
    <2>2. CASE ToStep(r, "done") /\ UNCHANGED <<left, works>>
      BY <1>a, <1>b, <1>c, <1>7, <2>2 DEF Analyse
    <2> QED BY <1>7, <2>1, <2>2 DEF Analyse
  <1>8. ASSUME NEW r \in Fills, FillField(r) PROVE FormInv'
    <2>1. left[r] - 1 \in Nat
      BY <1>a, <1>8 DEF FillField
    <2>2. Go(r, left[r] - 1) /\ step[r] = "fill"
      BY <1>8 DEF FillField
    <2> QED BY <1>8, <1>d, <2>1, <2>2 DEF FillField, Touch
  <1>9. ASSUME NEW r \in Fills, FindButton(r) PROVE FormInv'
    <2>1. CASE ToStep(r, "click") /\ Works(r, page)
      BY <1>a, <1>c, <1>9, <2>1 DEF FindButton
    <2>2. CASE ToStep(r, "done") /\ UNCHANGED works
      BY <1>a, <1>b, <1>c, <1>9, <2>2 DEF FindButton
    <2> QED BY <1>9, <2>1, <2>2 DEF FindButton
  <1>10. ASSUME NEW r \in Fills, Click(r) PROVE FormInv'
    BY <1>a, <1>c, <1>10 DEF Click, Touch
  <1>11. ASSUME NEW r \in Fills, Unsupported(r) PROVE FormInv'
    BY <1>a, <1>b, <1>c, <1>11 DEF Unsupported
  <1>12. CASE UNCHANGED formVars
    BY <1>12 DEF formVars, FormInv, FormTypeOK, OwnForm, Relies
  <1> QED BY <1>1, <1>2, <1>3, <1>4, <1>5, <1>6, <1>7, <1>8, <1>9, <1>10, <1>11, <1>12
          DEF FormNext, FillForm

\* However requests overlap, launch and load onto each other: what is not a
\* request's own form, and it gets at, came onto the page under it.
THEOREM FormsAreOwn == FormSpec => []OwnForm
  <1>1. FormInit => FormInv
    <2> SUFFICES ASSUME FormInit PROVE FormInv
      OBVIOUS
    <2>1. FormTypeOK
      BY DEF FormInit, FormTypeOK, FormSteps
    <2>2. \A r \in Fills : step[r] = "away" /\ touched[r] = {}
      BY DEF FormInit
    <2>3. \A r \in Fills : ~Relies(r) /\ step[r] \notin InCall \cup {"goto", "fill"}
      BY <2>2 DEF Relies, OnPage, InCall
    <2> QED BY <2>1, <2>2, <2>3 DEF FormInv, OwnForm
  <1>2. FormInv /\ [FormNext]_formVars => FormInv'
    BY FormStep
  <1>3. FormInv => OwnForm
    BY DEF FormInv
  <1> QED BY <1>1, <1>2, <1>3, PTL DEF FormSpec

-----------------------------------------------------------------------------
(* The browser of /browser                                                 *)

\* Only one request launches, after the one launch began and while it lasts;
\* nobody operates a browser that is not ready.
BrowsingInv ==
    /\ BrowsingTypeOK
    /\ OneBrowser
    /\ browser = "absent" => /\ launches = 0 /\ early = {}
                             /\ \A r \in Visits : visit[r] = "away"
    /\ \A q, r \in Visits : visit[q] = "launch" /\ visit[r] = "launch" => q = r
    /\ \A r \in Visits :
          /\ visit[r] = "operate" => browser = "ready" /\ r \notin early
          /\ visit[r] \in {"away", "launch"} => r \notin early /\ reply[r] = "none"

LEMMA BrowsingStep ==
    ASSUME BrowsingInv, [BrowsingNext]_browsingVars
    PROVE  BrowsingInv'
  <1> USE DEF BrowsingInv, BrowsingTypeOK, OneBrowser
  <1>1. ASSUME NEW r \in Visits, GetBrowser(r) PROVE BrowsingInv'
    <2>1. CASE browser = "absent"
      <3>1. /\ browser' = "starting" /\ launches' = 1 /\ early' = early /\ reply' = reply
            /\ visit[r] = "away" /\ visit' = [visit EXCEPT ![r] = "launch"]
        BY <1>1, <2>1 DEF GetBrowser
      <3>2. \A q \in Visits : visit[q] # "launch" /\ reply[q] = "none"
        BY <2>1
      <3>3. visit'[r] = "launch"
        BY <3>1
      <3> QED BY <2>1, <3>1, <3>2, <3>3
    <2>2. CASE browser # "absent"
      BY <1>1, <2>2 DEF GetBrowser, Begin
    <2> QED BY <2>1, <2>2
  <1>2. ASSUME NEW r \in Visits, Launched(r) PROVE BrowsingInv'
    BY <1>2 DEF Launched, Begin
  <1>3. ASSUME NEW r \in Visits, Operate(r) PROVE BrowsingInv'
    BY <1>3 DEF Operate
  <1>4. ASSUME NEW r \in Visits, VisitCancelled(r) PROVE BrowsingInv'
    BY <1>4 DEF VisitCancelled
  <1>5. CASE UNCHANGED browsingVars
    BY <1>5 DEF browsingVars
  <1> QED BY <1>1, <1>2, <1>3, <1>4, <1>5 DEF BrowsingNext

\* One launch, and nobody is turned away for good but by its failure.
THEOREM BrowserIsOne == BrowsingSpec => []OneBrowser
  <1>1. BrowsingInit => BrowsingInv
    <2> SUFFICES ASSUME BrowsingInit PROVE BrowsingInv
      OBVIOUS
    <2>1. BrowsingTypeOK
      BY DEF BrowsingInit, BrowsingTypeOK
    <2>2. /\ browser = "absent" /\ launches = 0 /\ early = {}
          /\ \A r \in Visits : visit[r] = "away" /\ reply[r] = "none"
      BY DEF BrowsingInit
    <2>3. OneBrowser
      BY <2>2 DEF OneBrowser
    <2> QED BY <2>1, <2>2, <2>3 DEF BrowsingInv
  <1>2. BrowsingInv /\ [BrowsingNext]_browsingVars => BrowsingInv'
    BY BrowsingStep
  <1>3. BrowsingInv => OneBrowser
    BY DEF BrowsingInv
  <1> QED BY <1>1, <1>2, <1>3, PTL DEF BrowsingSpec

-----------------------------------------------------------------------------
(* Self-healing                                                            *)

\* Where the step at hand is: what it counted agrees with its calls, and
\* within the budget.
StepAtHand ==
    /\ doing = "left" <=> at = NSteps + 1
    /\ at <= NSteps =>
          /\ health[at] \in {"running", "fixed"}
          /\ retries[at] <= MaxRetries
          /\ doing \in {"call", "fix"} => calls[at] = retries[at]
          /\ doing = "validate" => calls[at] = retries[at] + 1 /\ validation[at] = "given"
          /\ calls[at] <= MaxRetries + 1
    /\ \A s \in PlanSteps : s > at => retries[s] = 0

HealingInv == HealingTypeOK /\ HealingBudget /\ StepAtHand

LEMMA HealingStep ==
    ASSUME HealingInv, [HealingNext]_healingVars
    PROVE  HealingInv'
  <1> USE HealingAssumption
      DEF HealingInv, HealingTypeOK, HealingBudget, StepAtHand, PlanSteps
  <1>1. CASE Call
    <2>1. at \in PlanSteps /\ at <= NSteps
      BY <1>1 DEF Call
    <2>2. CASE validation[at] = "none" /\ Settle("passed") /\ UNCHANGED retries
      BY <1>1, <2>1, <2>2 DEF Call, Settle
    <2>3. CASE validation[at] = "given" /\ doing' = "validate"
               /\ UNCHANGED <<at, health, retries, history>>
      BY <1>1, <2>1, <2>3 DEF Call
    <2>4. CASE Fault
      <3>1. CASE retries[at] + 1 <= MaxRetries /\ doing' = "fix"
                 /\ UNCHANGED <<at, health, history>>
        BY <1>1, <2>1, <2>4, <3>1 DEF Call, Fault
      <3>2. CASE retries[at] + 1 > MaxRetries /\ Settle("failed")
        BY <1>1, <2>1, <2>4, <3>2 DEF Call, Fault, Settle
      <3> QED BY <2>4, <3>1, <3>2 DEF Fault
    <2> QED BY <1>1, <2>2, <2>3, <2>4 DEF Call
  <1>2. CASE Validate
    <2>1. at \in PlanSteps /\ at <= NSteps
      BY <1>2 DEF Validate
    <2>2. CASE Settle("passed") /\ UNCHANGED retries
      BY <1>2, <2>1, <2>2 DEF Validate, Settle
    <2>3. CASE Fault
      <3>1. CASE retries[at] + 1 <= MaxRetries /\ doing' = "fix"
                 /\ UNCHANGED <<at, health, history>>
        BY <1>2, <2>1, <2>3, <3>1 DEF Validate, Fault
      <3>2. CASE retries[at] + 1 > MaxRetries /\ Settle("failed")
        BY <1>2, <2>1, <2>3, <3>2 DEF Validate, Fault, Settle
      <3> QED BY <2>3, <3>1, <3>2 DEF Fault
    <2> QED BY <1>2, <2>2, <2>3 DEF Validate
  <1>3. CASE Fix
    <2>1. at \in PlanSteps /\ at <= NSteps
      BY <1>3 DEF Fix
    <2> QED BY <1>3, <2>1 DEF Fix
  <1>4. CASE Abort
    BY <1>4 DEF Abort
  <1>5. CASE UNCHANGED healingVars
    BY <1>5 DEF healingVars
  <1> QED BY <1>1, <1>2, <1>3, <1>4, <1>5 DEF HealingNext, Heal

\* The budget of retries is kept, for plans of any length.
THEOREM BudgetIsKept == HealingSpec => []HealingBudget
  <1>1. HealingInit => HealingInv
    BY HealingAssumption DEF HealingInit, HealingInv, HealingTypeOK,
       HealingBudget, StepAtHand, PlanSteps
  <1>2. HealingInv /\ [HealingNext]_healingVars => HealingInv'
    BY HealingStep
  <1>3. HealingInv => HealingBudget
    BY DEF HealingInv
  <1> QED BY <1>1, <1>2, <1>3, PTL DEF HealingSpec

-----------------------------------------------------------------------------
(* Terminal                                                                *)

\* A session in which no two commands ran at once has at most one.
OneEach ==
    /\ \A k \in Commands : phase[k] = "runs" => k \in DOMAIN target
    /\ \A u \in Users \ overlapped : \A j, k \in InSession(u) : j = k

\* A session lives under the number of its client, until it is deleted or its
\* number is taken; the numbers are 1, ..., n as long as only the last goes.
Numbered ==
    /\ \A u \in Users : handle[u] # 0 /\ u \notin ended \cup replaced =>
          handle[u] \in DOMAIN sessions /\ sessions[handle[u]] = u
    /\ ~skewed => DOMAIN sessions = 1..Cardinality(DOMAIN sessions)

TerminalInv == TerminalTypeOK /\ OwnSession /\ OneEach /\ Numbered

\* The next number after 1, ..., n, and the last of them.
LEMMA Numbers ==
    ASSUME NEW S, S = 1..Cardinality(S), IsFiniteSet(S)
    PROVE  /\ Cardinality(S) \in Nat
           /\ S \cup {Cardinality(S) + 1} = 1..Cardinality(S \cup {Cardinality(S) + 1})
           /\ \A n \in S : n = Cardinality(S) =>
                 S \ {n} = 1..Cardinality(S \ {n})
  <1> DEFINE n == Cardinality(S)
  <1>1. n \in Nat
    BY FS_CardinalityType
  <1>2. Cardinality(1..(n + 1)) = n + 1 /\ Cardinality(1..(n - 1)) = IF n = 0 THEN 0 ELSE n - 1
    BY <1>1, FS_Interval
  <1>3. S \cup {n + 1} = 1..(n + 1) /\ S \ {n} = 1..(n - 1)
    BY <1>1
  <1>4. n \in S => n # 0
    BY <1>1
  <1> QED BY <1>1, <1>2, <1>3, <1>4

\* A command that ends or is cancelled leaves its session.
Leaves(k, p) ==
    /\ p \in {"answered", "raised", "cancelled"}
    /\ phase[k] = "runs" /\ phase' = [phase EXCEPT ![k] = p]
    /\ \/ running' = [running EXCEPT ![target[k]] = FALSE]
       \/ UNCHANGED running /\ p = "cancelled"
    /\ \/ shells' = shells /\ p # "answered"
       \/ shells' = shells \ {k}
    /\ UNCHANGED <<sessions, handle, target, ended, replaced, skewed, overlapped>>

LEMMA LeavesStep ==
    ASSUME TerminalInv, NEW k \in Commands, NEW p, Leaves(k, p)
    PROVE  TerminalInv'
  <1> USE DEF TerminalInv, TerminalTypeOK, OneEach, Leaves
  <1>1. k \in DOMAIN target /\ target[k] \in Users
    OBVIOUS
  <1>2. TerminalTypeOK'
    BY <1>1
  <1>3. \A v \in Users : InSession(v)' = InSession(v) \ {k}
    BY DEF InSession
  <1>4. k \in InSession(target[k])
    BY <1>1 DEF InSession
  <1>5. OneEach'
    BY <1>3
  <1>6. Numbered'
    BY DEF Numbered
  <1>7. ASSUME NEW v \in Users, v \notin overlapped', ~running'[v]
        PROVE  InSession(v)' = {}
    <2>1. CASE running[v]
      <3>1. v = target[k]
        BY <1>7, <2>1
      <3>2. \A j \in InSession(v) : j = k
        BY <1>4, <1>7, <3>1
      <3> QED BY <1>3, <3>2
    <2>2. CASE ~running[v]
      BY <1>3, <1>7, <2>2 DEF OwnSession
    <2> QED BY <2>1, <2>2
  <1>8. ASSUME NEW v \in Users, running'[v]
        PROVE  \E j \in DOMAIN target' : target'[j] = v /\ phase'[j] \in {"runs", "cancelled"}
    <2>1. running[v]
      BY <1>1, <1>8
    <2>2. PICK j \in DOMAIN target : target[j] = v /\ phase[j] \in {"runs", "cancelled"}
      BY <2>1 DEF OwnSession
    <2>3. j = k => p = "cancelled"
      BY <1>1, <1>8, <2>2
    <2>4. phase'[j] \in {"runs", "cancelled"}
      BY <2>2, <2>3
    <2> QED BY <2>2, <2>4
  <1>9. \A j \in shells' : phase'[j] \in {"runs", "raised", "cancelled"}
    BY DEF OwnSession
  <1>10. /\ \A j \in DOMAIN target' : target'[j] # RunBy[j] => RunBy[j] \in ended' \cup replaced'
         /\ replaced' # {} => skewed'
    BY DEF OwnSession
  <1>11. OwnSession'
    BY <1>7, <1>8, <1>9, <1>10 DEF OwnSession
  <1> QED BY <1>2, <1>5, <1>6, <1>11

LEMMA TerminalStep ==
    ASSUME TerminalInv, [TerminalNext]_terminalVars
    PROVE  TerminalInv'
  <1> USE TerminalAssumption DEF TerminalInv, TerminalTypeOK, OneEach
  <1> DEFINE Names == DOMAIN sessions
  <1>0. IsFiniteSet(Names) /\ (~skewed => Names = 1..Cardinality(Names))
    BY DEF Numbered
  <1>1. ASSUME NEW u \in Users, CreateSession(u) PROVE TerminalInv'
    <2> DEFINE id == Cardinality(DOMAIN sessions) + 1
    <2>1. id \in Nat \ {0}
      BY FS_CardinalityType
    <2>2. /\ DOMAIN sessions' = DOMAIN sessions \cup {id}
          /\ \A n \in DOMAIN sessions' :
                sessions'[n] = IF n = id THEN u ELSE sessions[n]
      BY <1>1 DEF CreateSession, Bind
    <2>3. IsFiniteSet(DOMAIN sessions')
      <3> HIDE DEF id, Names
      <3>1. IsFiniteSet(Names \cup {id})
        BY <1>0, FS_AddElement
      <3> QED BY <2>2, <3>1 DEF Names
    <2>4. /\ replaced' = replaced \cup {sessions[n] : n \in {id} \cap DOMAIN sessions}
          /\ handle[u] = 0 /\ handle' = [handle EXCEPT ![u] = id]
          /\ UNCHANGED <<running, phase, target, shells, ended, skewed, overlapped>>
      BY <1>1 DEF CreateSession
    <2>5. replaced' \subseteq Users
      BY <2>4
    <2>6. TerminalTypeOK'
      <3>1. sessions' \in [DOMAIN sessions' -> Users]
        BY <1>1, <2>2 DEF CreateSession, Bind
      <3> QED BY <2>1, <2>2, <2>3, <2>4, <2>5, <3>1
    <2>7. ~skewed' => DOMAIN sessions' = 1..Cardinality(DOMAIN sessions')
      <3>1. ~skewed => Names \cup {id} = 1..Cardinality(Names \cup {id})
        <4>1. id = Cardinality(Names) + 1
          OBVIOUS
        <4> HIDE DEF id, Names
        <4> QED BY <1>0, <4>1, Numbers
      <3> QED BY <2>2, <2>4, <3>1
    <2>8. ~skewed => id \notin DOMAIN sessions
      <3>1. Cardinality(Names) \in Nat
        BY <1>0, FS_CardinalityType
      <3>2. \A m \in Nat : m + 1 \notin 1..m
        OBVIOUS
      <3>3. id = Cardinality(Names) + 1
        OBVIOUS
      <3> HIDE DEF id, Names
      <3>4. ~skewed => id \notin Names
        BY <1>0, <3>1, <3>2, <3>3
      <3> QED BY <3>4 DEF Names
    <2>9. ASSUME NEW v \in Users, handle'[v] # 0, v \notin ended' \cup replaced'
          PROVE  handle'[v] \in DOMAIN sessions' /\ sessions'[handle'[v]] = v
      <3>1. CASE v = u
        BY <2>2, <2>4, <3>1
      <3>2. CASE v # u
        <4>1. handle'[v] = handle[v] /\ v \notin ended \cup replaced
          BY <2>4, <2>9, <3>2
        <4>2. handle[v] \in DOMAIN sessions /\ sessions[handle[v]] = v
          BY <2>9, <4>1 DEF Numbered
        <4>3. handle[v] # id
          BY <2>4, <2>9, <4>2
        <4> QED BY <2>2, <4>1, <4>2, <4>3
      <3> QED BY <3>1, <3>2
    <2>10. Numbered'
      BY <2>7, <2>9 DEF Numbered
    <2>11. OwnSession'
      <3>1. replaced' # {} => skewed'
        BY <2>4, <2>8 DEF OwnSession
      <3>2. replaced \subseteq replaced' /\ \A v \in Users : InSession(v)' = InSession(v)
        BY <2>4 DEF InSession
      <3> QED BY <2>4, <3>1, <3>2 DEF OwnSession
    <2>12. OneEach'
      BY <2>4 DEF InSession
    <2> QED BY <2>6, <2>10, <2>11, <2>12
  <1>2. ASSUME NEW u \in Users, DeleteSession(u) PROVE TerminalInv'
    <2>1. /\ DOMAIN sessions' = DOMAIN sessions \ {handle[u]}
          /\ \A n \in DOMAIN sessions' : sessions'[n] = sessions[n]
          /\ handle[u] \in DOMAIN sessions
          /\ ended' = ended \cup {sessions[handle[u]]}
          /\ UNCHANGED <<handle, running, phase, target, shells, replaced, overlapped>>
      BY <1>2 DEF DeleteSession
    <2>2. IsFiniteSet(DOMAIN sessions')
      <3> HIDE DEF Names
      <3>1. IsFiniteSet(Names \ {handle[u]})
        BY <1>0, FS_RemoveElement
      <3> QED BY <2>1, <3>1 DEF Names
    <2>3. TerminalTypeOK'
      BY <1>2, <2>1, <2>2 DEF DeleteSession
    <2>4. ~skewed' => DOMAIN sessions' = 1..Cardinality(DOMAIN sessions')
      <3>1. ~skewed /\ handle[u] = Cardinality(Names) =>
               Names \ {handle[u]} = 1..Cardinality(Names \ {handle[u]})
        <4>1. handle[u] \in Names
          BY <2>1
        <4> HIDE DEF Names
        <4> QED BY <1>0, <4>1, Numbers
      <3> QED BY <1>2, <2>1, <3>1 DEF DeleteSession
    <2>5. ASSUME NEW v \in Users, handle'[v] # 0, v \notin ended' \cup replaced'
          PROVE  handle'[v] \in DOMAIN sessions' /\ sessions'[handle'[v]] = v
      <3>1. handle[v] \in DOMAIN sessions /\ sessions[handle[v]] = v
        BY <2>1, <2>5 DEF Numbered
      <3>2. handle[v] # handle[u]
        BY <2>1, <2>5, <3>1
      <3> QED BY <2>1, <3>1, <3>2
    <2>6. Numbered'
      BY <2>4, <2>5 DEF Numbered
    <2>7. skewed => skewed'
      BY <1>2 DEF DeleteSession
    <2>8. \A v \in Users : InSession(v)' = InSession(v)
      BY <2>1 DEF InSession
    <2>9. OwnSession'
      BY <2>1, <2>7, <2>8 DEF OwnSession
    <2>10. OneEach'
      BY <2>1, <2>8
    <2> QED BY <2>3, <2>6, <2>9, <2>10
  <1>3. ASSUME NEW k \in Commands, Execute(k) PROVE TerminalInv'
    <2> DEFINE n == handle[RunBy[k]]
    <2>0. Numbered'
      BY <1>3 DEF Execute, Numbered
    <2>1. CASE n \notin DOMAIN sessions /\ phase' = [phase EXCEPT ![k] = "refused"]
               /\ UNCHANGED <<running, target, shells, overlapped>>
      <3>1. /\ phase[k] = "idle" /\ UNCHANGED <<sessions, handle, ended, replaced, skewed>>
            /\ k \notin shells
        BY <1>3 DEF Execute, OwnSession
      <3>2. \A v \in Users : InSession(v)' = InSession(v)
        BY <2>1, <3>1 DEF InSession
      <3>3. ASSUME NEW v \in Users, running[v]
            PROVE  \E j \in DOMAIN target : target[j] = v /\ phase'[j] \in {"runs", "cancelled"}
        <4>1. PICK j \in DOMAIN target : target[j] = v /\ phase[j] \in {"runs", "cancelled"}
          BY <3>3 DEF OwnSession
        <4>2. phase'[j] = phase[j]
          BY <2>1, <3>1, <4>1
        <4> QED BY <4>1, <4>2
      <3>4. \A j \in shells : phase'[j] \in {"runs", "raised", "cancelled"}
        BY <2>1, <3>1 DEF OwnSession
      <3>5. OwnSession'
        BY <2>1, <3>1, <3>2, <3>3, <3>4 DEF OwnSession
      <3>6. TerminalTypeOK' /\ OneEach'
        BY <2>1, <3>1, <3>2
      <3> QED BY <2>0, <3>5, <3>6
    <2>2. CASE n \in DOMAIN sessions /\ RunIn(k, sessions[n])
      <3> DEFINE o == sessions[n]
      <3> USE DEF RunIn
      <3>1. /\ o \in Users /\ phase[k] = "idle" /\ n # 0
            /\ UNCHANGED <<sessions, handle, ended, replaced, skewed>>
        BY <1>3, <2>2 DEF Execute
      <3>2. /\ DOMAIN target' = DOMAIN target \cup {k} /\ target'[k] = o
            /\ \A j \in DOMAIN target : j # k => target'[j] = target[j]
            /\ target' \in [DOMAIN target' -> Users]
        BY <2>2, <3>1 DEF Bind
      <3>3. TerminalTypeOK'
        BY <2>2, <3>1, <3>2
      <3>4. \A v \in Users :
               InSession(v)' = IF v = o THEN InSession(v) \cup {k} ELSE InSession(v)
        BY <2>2, <3>1, <3>2 DEF InSession
      <3>5. OneEach'
        <4>1. \A j \in Commands : phase'[j] = "runs" => j \in DOMAIN target'
          BY <2>2, <3>1, <3>2
        <4>2. \A v \in Users \ overlapped' : \A i, j \in InSession(v)' : i = j
          <5> SUFFICES ASSUME NEW v \in Users \ overlapped' PROVE \A i, j \in InSession(v)' : i = j
            OBVIOUS
          <5>1. CASE v = o
            <6>1. InSession(o) = {}
              BY <2>2, <5>1
            <6> QED BY <3>4, <5>1, <6>1
          <5>2. CASE v # o
            <6>1. v \in Users \ overlapped
              BY <2>2
            <6>2. \A i, j \in InSession(v) : i = j
              BY <6>1
            <6> QED BY <3>4, <5>2, <6>2
          <5> QED BY <5>1, <5>2
        <4> QED BY <4>1, <4>2
      <3>6. OwnSession'
        <4>1. \A v \in Users : v \notin overlapped' /\ ~running'[v] => InSession(v)' = {}
          BY <2>2, <3>1, <3>4 DEF OwnSession
        <4>2. \A j \in shells' : phase'[j] \in {"runs", "raised", "cancelled"}
          BY <2>2, <3>1 DEF OwnSession
        <4>3. ASSUME NEW v \in Users, running'[v]
              PROVE  \E j \in DOMAIN target' :
                        target'[j] = v /\ phase'[j] \in {"runs", "cancelled"}
          <5>1. CASE v = o
            <6>1. phase'[k] = "runs" /\ k \in DOMAIN target' /\ target'[k] = v
              BY <2>2, <3>2, <5>1
            <6> QED BY <6>1
          <5>2. CASE v # o
            <6>1. PICK j \in DOMAIN target :
                     target[j] = v /\ phase[j] \in {"runs", "cancelled"}
              BY <2>2, <4>3, <5>2 DEF OwnSession
            <6>2. j # k /\ j \in DOMAIN target' /\ target'[j] = v /\ phase'[j] = phase[j]
              BY <2>2, <3>1, <3>2, <6>1
            <6> QED BY <6>1, <6>2
          <5> QED BY <5>1, <5>2
        <4>4. o # RunBy[k] => RunBy[k] \in ended \cup replaced
          BY <3>1 DEF Numbered
        <4>5. \A j \in DOMAIN target' :
                 target'[j] # RunBy[j] => RunBy[j] \in ended' \cup replaced'
          BY <3>1, <3>2, <4>4 DEF OwnSession
        <4>6. replaced' # {} => skewed'
          BY <3>1 DEF OwnSession
        <4> QED BY <4>1, <4>2, <4>3, <4>5, <4>6 DEF OwnSession
      <3> QED BY <2>0, <3>3, <3>5, <3>6
    <2> QED BY <1>3, <2>1, <2>2 DEF Execute
  <1> USE DEF Leaves, Answers
  <1>4. ASSUME NEW k \in Commands, CommandEnds(k) PROVE TerminalInv'
    <2>1. Leaves(k, "answered")
      BY <1>4 DEF CommandEnds
    <2> HIDE DEF Leaves
    <2> QED BY <2>1, LeavesStep
  <1>5. ASSUME NEW k \in Commands, TimedOut(k) PROVE TerminalInv'
    <2>1. Leaves(k, "answered")
      BY <1>5 DEF TimedOut
    <2> HIDE DEF Leaves
    <2> QED BY <2>1, LeavesStep
  <1>6. ASSUME NEW k \in Commands, Raised(k) PROVE TerminalInv'
    <2>1. Leaves(k, "raised")
      BY <1>6 DEF Raised
    <2> HIDE DEF Leaves
    <2> QED BY <2>1, LeavesStep
  <1>7. ASSUME NEW k \in Commands, Cancelled(k) PROVE TerminalInv'
    <2>1. Leaves(k, "cancelled")
      BY <1>7 DEF Cancelled
    <2> HIDE DEF Leaves
    <2> QED BY <2>1, LeavesStep
  <1>8. CASE UNCHANGED terminalVars
    BY <1>8 DEF terminalVars, OwnSession, Numbered, InSession
  <1> QED BY <1>1, <1>2, <1>3, <1>4, <1>5, <1>6, <1>7, <1>8 DEF TerminalNext

\* A command strays into the session of another only after deletions, a name
\* is taken only after one out of order, the list of running sessions is right
\* where no commands overlapped, and only an exception leaves a shell behind.
THEOREM SessionsAreOwn == TerminalSpec => []OwnSession
  <1>1. TerminalInit => TerminalInv
    <2> SUFFICES ASSUME TerminalInit PROVE TerminalInv
      OBVIOUS
    <2>1. DOMAIN sessions = {} /\ IsFiniteSet(DOMAIN sessions)
          /\ DOMAIN sessions = 1..Cardinality(DOMAIN sessions)
      BY FS_EmptySet DEF TerminalInit
    <2>2. TerminalTypeOK
      <3>1. sessions \in [DOMAIN sessions -> Users] /\ target \in [DOMAIN target -> Users]
            /\ DOMAIN target = {}
        BY DEF TerminalInit
      <3> QED BY <2>1, <3>1 DEF TerminalInit, TerminalTypeOK
    <2> QED BY <2>1, <2>2 DEF TerminalInit, TerminalInv, OwnSession, OneEach, Numbered, InSession
  <1>2. TerminalInv /\ [TerminalNext]_terminalVars => TerminalInv'
    BY TerminalStep
  <1>3. TerminalInv => OwnSession
    BY DEF TerminalInv
  <1> QED BY <1>1, <1>2, <1>3, PTL DEF TerminalSpec

-----------------------------------------------------------------------------
(* Messages                                                                *)

\* A message that is not settled has not been delivered, and only one of
\* WhatsApp is ever on its way.
Underway ==
    \A m \in Messages :
       /\ state[m] \in {"new", "posting", "scheduled"} => delivered[m] = 0
       /\ state[m] = "posting" => m \in Chats

MessagingInv == MessagingTypeOK /\ LoggedOnce /\ Underway

LEMMA MessagingStep ==
    ASSUME MessagingInv, [MessagingNext]_messagingVars
    PROVE  MessagingInv'
  <1> USE MessagingAssumption
      DEF MessagingInv, MessagingTypeOK, LoggedOnce, Underway, Conclude, Delivery
  <1>1. CASE ConfigureMail \/ ConfigureChat
    BY <1>1 DEF ConfigureMail, ConfigureChat
  <1>2. ASSUME NEW m \in Mails, SendMail(m) PROVE MessagingInv'
    <2>1. m \in Messages /\ m \notin Chats
      BY DEF Messages
    <2> QED BY <1>2, <2>1 DEF SendMail
  <1>3. ASSUME NEW m \in Chats, PostChat(m) PROVE MessagingInv'
    <2>1. m \in Messages /\ m \notin Mails
      BY DEF Messages
    <2> QED BY <1>3, <2>1 DEF PostChat
  <1>4. ASSUME NEW m \in Chats, PostDone(m) PROVE MessagingInv'
    <2>1. m \in Messages /\ m \notin Mails
      BY DEF Messages
    <2> QED BY <1>4, <2>1 DEF PostDone
  <1>5. ASSUME NEW m \in Chats, PostCancelled(m) \/ ScheduleChat(m) PROVE MessagingInv'
    <2>1. m \in Messages /\ m \notin Mails
      BY DEF Messages
    <2> QED BY <1>5, <2>1 DEF PostCancelled, ScheduleChat
  <1>6. ASSUME NEW p \in Products, Catalogue(p) PROVE MessagingInv'
    BY <1>6 DEF Catalogue
  <1>7. CASE UNCHANGED messagingVars
    BY <1>7 DEF messagingVars
  <1> QED BY <1>1, <1>2, <1>3, <1>4, <1>5, <1>6, <1>7 DEF MessagingNext, MailNext, ChatNext

\* The fallback sends nothing twice and logs nothing twice.
THEOREM FallbackIsSingle == MessagingSpec => []LoggedOnce
  <1>1. MessagingInit => MessagingInv
    <2> SUFFICES ASSUME MessagingInit PROVE MessagingInv
      OBVIOUS
    <2>1. MessagingTypeOK
      BY DEF MessagingInit, ChatInit, MessagingTypeOK
    <2>2. \A m \in Messages : state[m] = "new" /\ delivered[m] = 0 /\ logged[m] = 0
      BY DEF MessagingInit, ChatInit
    <2>3. dry = {}
      BY DEF MessagingInit, ChatInit
    <2>4. LoggedOnce
      BY <2>2, <2>3 DEF LoggedOnce
    <2>5. Underway
      BY <2>2 DEF Underway
    <2> QED BY <2>1, <2>4, <2>5 DEF MessagingInv
  <1>2. MessagingInv /\ [MessagingNext]_messagingVars => MessagingInv'
    BY MessagingStep
  <1>3. MessagingInv => LoggedOnce
    BY DEF MessagingInv
  <1> QED BY <1>1, <1>2, <1>3, PTL DEF MessagingSpec

-----------------------------------------------------------------------------
(* Registration                                                            *)

\* A request has an answer only when it is through, none has its row before
\* it inserted it, a registration that is read back has it, and a token that
\* was checked is that of a user.
Progress ==
    /\ stage \in [Requests -> StageNames]
    /\ code \in [Requests -> {0, 200, 400, 401, 404, 429, 500}]
    /\ rows \subseteq Requests
    /\ \A r \in Requests :
          /\ stage[r] \in {"away", "token", "lookup", "insert", "refresh"} => code[r] = 0
          /\ stage[r] \in {"away", "token", "lookup", "insert"} => r \notin rows
          /\ stage[r] = "refresh" => r \in rows
          /\ stage[r] = "lookup" /\ Form[r].kind = "me" => NameTaken(r)

RegisterInv == Progress /\ RegisterIsSound

LEMMA RegisterStep ==
    ASSUME RegisterInv, [GatewayNext]_gatewayVars
    PROVE  RegisterInv'
  <1> USE GatewayAssumption
      DEF RegisterInv, Progress, RegisterIsSound, StageNames, NameTaken, MailTaken,
          Goto, Answer
  <1>1. ASSUME NEW r \in Requests, Arrive(r) PROVE RegisterInv'
    <2>1. /\ stage[r] = "away" /\ UNCHANGED rows
          /\ \/ Answer(r, 429, "record")
             \/ Goto(r, "token")
             \/ Goto(r, "lookup") /\ Form[r].kind # "me"
      BY <1>1 DEF Arrive
    <2> QED BY <2>1
  <1>2. ASSUME NEW r \in Requests, Record(r) PROVE RegisterInv'
    BY <1>2 DEF Record
  <1>3. ASSUME NEW r \in Requests, Lookup(r) PROVE RegisterInv'
    BY <1>3 DEF Lookup, RegisterFinds, LoginFinds, MeFinds
  <1>4. ASSUME NEW r \in Requests, Insert(r) PROVE RegisterInv'
    <2>1. CASE ~NameTaken(r) /\ ~MailTaken(r)
      <3>1. rows' = rows \cup {r} /\ Goto(r, "refresh") /\ code[r] = 0
        BY <1>4, <2>1 DEF Insert
      <3>2. Progress'
        BY <1>4, <3>1 DEF Insert
      <3>3. \A u, v \in rows' : u # v =>
               Form[u].name # Form[v].name /\ Form[u].mail # Form[v].mail
        BY <2>1, <3>1
      <3> QED BY <1>4, <3>1, <3>2, <3>3 DEF Insert
    <2>2. CASE NameTaken(r) \/ MailTaken(r)
      BY <1>4, <2>2 DEF Insert
    <2> QED BY <2>1, <2>2
  <1>5. ASSUME NEW r \in Requests, Refresh(r) PROVE RegisterInv'
    BY <1>5 DEF Refresh
  <1>6. ASSUME NEW r \in Requests, DatabaseFails(r) PROVE RegisterInv'
    BY <1>6 DEF DatabaseFails
  <1>7. ASSUME NEW r \in Requests, Close(r) PROVE RegisterInv'
    BY <1>7 DEF Close
  <1>8. CASE Tick \/ UNCHANGED gatewayVars
    BY <1>8 DEF Tick, gatewayVars
  <1>9. ASSUME NEW r \in Requests, CheckToken(r) PROVE RegisterInv'
    <2>1. TokenValid(r) => NameTaken(r)
      BY DEF TokenValid
    <2>2. stage[r] = "token" /\ code[r] = 0 /\ r \notin rows /\ UNCHANGED rows
      BY <1>9 DEF CheckToken
    <2>3. CASE RefreshTokens(r)
      BY <2>1, <2>2, <2>3 DEF RefreshTokens
    <2>4. CASE CurrentUser(r)
      BY <2>1, <2>2, <2>4 DEF CurrentUser
    <2> QED BY <1>9, <2>3, <2>4 DEF CheckToken
  <1> QED BY <1>1, <1>2, <1>3, <1>4, <1>5, <1>6, <1>7, <1>8, <1>9
          DEF GatewayNext, Serve

\* Registrations stay sound however they race with each other and with the
\* failures of the database.
THEOREM RegistersSoundly == GatewaySpec => []RegisterIsSound
  <1>1. GatewayInit => RegisterInv
    BY DEF GatewayInit, RegisterInv, Progress, RegisterIsSound, StageNames, NameTaken
  <1>2. RegisterInv /\ [GatewayNext]_gatewayVars => RegisterInv'
    BY RegisterStep
  <1>3. RegisterInv => RegisterIsSound
    BY DEF RegisterInv
  <1> QED BY <1>1, <1>2, <1>3, PTL DEF GatewaySpec

-----------------------------------------------------------------------------
(* The rate limit.                                                         *)

CameIn == {r \in Requests : stage[r] # "away"}
IsServed(r) == stage[r] # "away" /\ code[r] # 429

\* The stamps of a client are requests of its own that were served, among them
\* all whose window has not ended.
StampsInv ==
    /\ DOMAIN stamps = Clients
    /\ \A c \in Clients : \A r \in stamps[c] :
          r \in Requests /\ IsServed(r) /\ Form[r].client = c
    /\ \A r \in Requests :
          IsServed(r) /\ arrival[r] + Window > now => r \in stamps[Form[r].client]

ArrivalInv ==
    /\ now \in Nat
    /\ stage \in [Requests -> StageNames]
    /\ code \in [Requests -> {0, 200, 400, 401, 404, 429, 500}]
    /\ arrival \in [Requests -> Nat]
    /\ IsFiniteSet(CameIn)
    /\ \A r \in Requests :
          /\ stage[r] \in {"away", "token", "lookup", "insert", "refresh"} => code[r] = 0
          /\ stage[r] \in {"close", "drop"} => code[r] # 429
          /\ stage[r] # "away" => arrival[r] <= now

RateInv == ArrivalInv /\ StampsInv /\ RateIsExact

\* Finitely many requests have come in, so that they can be counted.
LEMMA ServedFinite ==
    ASSUME IsFiniteSet(CameIn), NEW c, NEW t
    PROVE  IsFiniteSet(Served(c, t)) /\ Cardinality(Served(c, t)) \in Nat
  <1>1. Served(c, t) \subseteq CameIn
    BY DEF Served, CameIn
  <1> QED BY <1>1, FS_Subset, FS_CardinalityType

\* What the rate limit counts are the requests of the window that ends now.
LEMMA RecentIsServed ==
    ASSUME ArrivalInv, StampsInv, NEW c \in Clients
    PROVE  Recent(c) = Served(c, now)
  <1>1. ASSUME NEW r \in Recent(c) PROVE r \in Served(c, now)
    <2>1. r \in stamps[c] /\ arrival[r] + Window > now
      BY DEF Recent
    <2>2. r \in Requests /\ IsServed(r) /\ Form[r].client = c
      BY <2>1 DEF StampsInv
    <2>3. arrival[r] \in Nat /\ now \in Nat /\ arrival[r] <= now /\ Window \in Nat
      BY <2>2, GatewayAssumption DEF ArrivalInv, IsServed, GatewayAssumption
    <2>4. now < arrival[r] + Window
      BY <2>1, <2>3
    <2> QED BY <2>2, <2>3, <2>4 DEF Served, IsServed
  <1>2. ASSUME NEW r \in Served(c, now) PROVE r \in Recent(c)
    <2>1. /\ r \in Requests /\ IsServed(r) /\ Form[r].client = c
          /\ now < arrival[r] + Window
      BY DEF Served, IsServed
    <2>2. arrival[r] + Window > now
      BY <2>1, GatewayAssumption DEF ArrivalInv, GatewayAssumption
    <2> QED BY <2>1, <2>2 DEF StampsInv, Recent
  <1> QED BY <1>1, <1>2

\* A step of a request that is in and stays served, or stays refused, is none
\* of the rate limit.
LEMMA RateQuiet ==
    ASSUME RateInv, UNCHANGED <<now, arrival, stamps>>,
           \A q \in Requests : /\ stage'[q] = "away" <=> stage[q] = "away"
                               /\ code'[q] = 429 <=> code[q] = 429
    PROVE  /\ IsFiniteSet(CameIn') /\ StampsInv' /\ RateIsExact'
  <1>1. CameIn' = CameIn
    BY DEF CameIn
  <1>2. \A c, t : Served(c, t)' = Served(c, t)
    BY DEF Served
  <1>3. StampsInv'
    BY DEF RateInv, StampsInv, IsServed
  <1>4. RateIsExact'
    <2>1. \A c \in Clients : \A t \in 0..now' : Cardinality(Served(c, t)') <= MaxRequests
      BY <1>2 DEF RateInv, RateIsExact
    <2>2. ASSUME NEW q \in Requests, code'[q] = 429
          PROVE  Cardinality(Served(Form[q].client, arrival[q])') = MaxRequests
      <3>1. Served(Form[q].client, arrival[q])' = Served(Form[q].client, arrival[q])
        BY DEF Served
      <3> QED BY <2>2, <3>1 DEF RateInv, RateIsExact
    <2> QED BY <2>1, <2>2 DEF RateIsExact
  <1> QED BY <1>1, <1>3, <1>4 DEF RateInv, ArrivalInv

\* What the steps after the rate limit do to the stage and the code of a request.
LEMMA ServeFacts ==
    ASSUME RateInv, NEW r \in Requests, Serve(r) \/ DatabaseFails(r)
    PROVE  /\ stage[r] # "away" /\ UNCHANGED <<now, arrival, stamps>>
           /\ \/ /\ code[r] = 0
                 /\ \E s \in {"lookup", "insert", "refresh"} : Goto(r, s)
              \/ /\ code[r] # 429
                 /\ \E s \in {"close", "drop", "record"} :
                       Goto(r, s) \/ \E a \in {200, 400, 401, 404, 500} : Answer(r, a, s)
              \/ Goto(r, "done")
  <1> USE DEF RateInv, ArrivalInv
  <1>1. CASE CheckToken(r)
    BY <1>1 DEF CheckToken, RefreshTokens, CurrentUser
  <1>2. CASE Lookup(r)
    BY <1>2 DEF Lookup, RegisterFinds, LoginFinds, MeFinds
  <1>3. CASE Insert(r)
    BY <1>3 DEF Insert
  <1>4. CASE Refresh(r)
    BY <1>4 DEF Refresh
  <1>5. CASE Close(r)
    BY <1>5 DEF Close
  <1>6. CASE Record(r)
    BY <1>6 DEF Record
  <1>7. CASE DatabaseFails(r)
    BY <1>7 DEF DatabaseFails
  <1> QED BY <1>1, <1>2, <1>3, <1>4, <1>5, <1>6, <1>7 DEF Serve

LEMMA ServeStep ==
    ASSUME RateInv, NEW r \in Requests, Serve(r) \/ DatabaseFails(r)
    PROVE  RateInv'
  <1> USE DEF Goto, Answer
  <1>1. /\ stage[r] # "away" /\ UNCHANGED <<now, arrival, stamps>>
        /\ \/ /\ code[r] = 0
              /\ \E s \in {"lookup", "insert", "refresh"} : Goto(r, s)
           \/ /\ code[r] # 429
              /\ \E s \in {"close", "drop", "record"} :
                    Goto(r, s) \/ \E a \in {200, 400, 401, 404, 500} : Answer(r, a, s)
           \/ Goto(r, "done")
    BY ServeFacts
  <1>2. /\ stage \in [Requests -> StageNames]
        /\ code \in [Requests -> {0, 200, 400, 401, 404, 429, 500}]
    BY DEF RateInv, ArrivalInv
  <1>3. /\ \A q \in Requests : stage'[q] = "away" <=> stage[q] = "away"
        /\ \A q \in Requests : code'[q] = 429 <=> code[q] = 429
    BY <1>1, <1>2
  <1>4. IsFiniteSet(CameIn') /\ StampsInv' /\ RateIsExact'
    BY <1>1, <1>3, RateQuiet
  <1>5. stage' \in [Requests -> StageNames]
    BY <1>1, <1>2 DEF StageNames
  <1>6. code' \in [Requests -> {0, 200, 400, 401, 404, 429, 500}]
    BY <1>1, <1>2
  <1>7. \A q \in Requests :
          /\ stage'[q] \in {"away", "token", "lookup", "insert", "refresh"} => code'[q] = 0
          /\ stage'[q] \in {"close", "drop"} => code'[q] # 429
    BY <1>1, <1>2 DEF RateInv, ArrivalInv
  <1>8. \A q \in Requests : stage'[q] # "away" => arrival'[q] <= now'
    BY <1>1, <1>3 DEF RateInv, ArrivalInv
  <1> QED BY <1>1, <1>4, <1>5, <1>6, <1>7, <1>8 DEF RateInv, ArrivalInv

\* The clock goes on: a window that ends later has no request that the window
\* which ended now had not.
LEMMA TickStep ==
    ASSUME RateInv, Tick
    PROVE  RateInv'
  <1>1. /\ now \in Nat /\ now' = now + 1 /\ UNCHANGED <<stage, code, arrival, stamps>>
    BY DEF Tick, RateInv, ArrivalInv
  <1>2. \A c, t : Served(c, t)' = Served(c, t)
    BY <1>1 DEF Served
  <1>3. CameIn' = CameIn
    BY <1>1 DEF CameIn
  <1>4. ArrivalInv'
    BY <1>1, <1>3 DEF RateInv, ArrivalInv
  <1>5. StampsInv'
    BY <1>1, GatewayAssumption DEF RateInv, StampsInv, IsServed, ArrivalInv, GatewayAssumption
  <1>6. ASSUME NEW c \in Clients, NEW t \in 0..now'
        PROVE  Cardinality(Served(c, t)) <= MaxRequests
    <2>1. CASE t \in 0..now
      BY <2>1 DEF RateInv, RateIsExact
    <2>2. CASE t = now + 1
      <3>1. Served(c, t) \subseteq Served(c, now)
        BY <1>1, <2>2, GatewayAssumption DEF Served, RateInv, ArrivalInv, GatewayAssumption
      <3>2. Cardinality(Served(c, t)) <= Cardinality(Served(c, now))
        BY <3>1, ServedFinite, FS_Subset DEF RateInv, ArrivalInv
      <3>3. Cardinality(Served(c, now)) <= MaxRequests
        BY <1>1 DEF RateInv, RateIsExact
      <3>4. /\ Cardinality(Served(c, t)) \in Nat /\ Cardinality(Served(c, now)) \in Nat
            /\ MaxRequests \in Nat
        BY ServedFinite, GatewayAssumption DEF RateInv, ArrivalInv, GatewayAssumption
      <3> QED BY <3>2, <3>3, <3>4
    <2> QED BY <1>1, <2>1, <2>2
  <1>7. ASSUME NEW q \in Requests, code[q] = 429
        PROVE  Cardinality(Served(Form[q].client, arrival[q])) = MaxRequests
    BY <1>7 DEF RateInv, RateIsExact
  <1>8. RateIsExact'
    BY <1>1, <1>2, <1>6, <1>7 DEF RateIsExact
  <1> QED BY <1>4, <1>5, <1>8 DEF RateInv

\* What a request that comes in adds to the windows: nothing, but for itself to
\* the window that ends now.
LEMMA ArriveStep ==
    ASSUME RateInv, NEW r \in Requests, Arrive(r)
    PROVE  RateInv'
  <1> DEFINE c == Form[r].client
  <1>1. /\ now \in Nat /\ stage[r] = "away" /\ code[r] = 0 /\ c \in Clients
        /\ arrival \in [Requests -> Nat] /\ stage \in [Requests -> StageNames]
        /\ code \in [Requests -> {0, 200, 400, 401, 404, 429, 500}]
        /\ DOMAIN stamps = Clients
        /\ IsFiniteSet(CameIn) /\ Window \in Nat /\ Window >= 1 /\ MaxRequests \in Nat
    BY GatewayAssumption
       DEF Arrive, RateInv, ArrivalInv, StampsInv, Clients, GatewayAssumption
  <1>2. now' = now /\ arrival' = [arrival EXCEPT ![r] = now]
    BY DEF Arrive
  <1>3. Recent(c) = Served(c, now)
    BY <1>1, RecentIsServed DEF RateInv
  <1>4. PICK s \in {"record", "token", "lookup"} : stage' = [stage EXCEPT ![r] = s]
    BY DEF Arrive, Answer, Goto
  <1>5. \/ /\ Cardinality(Recent(c)) >= MaxRequests /\ s = "record"
           /\ code' = [code EXCEPT ![r] = 429]
           /\ stamps' = [stamps EXCEPT ![c] = Recent(c)]
        \/ /\ Cardinality(Recent(c)) < MaxRequests /\ s # "record" /\ code' = code
           /\ stamps' = [stamps EXCEPT ![c] = Recent(c) \cup {r}]
    BY <1>1, <1>4 DEF Arrive, Answer, Goto
  <1> HIDE DEF c
  <1>6. /\ stage'[r] # "away" /\ arrival'[r] = now
        /\ \A q \in Requests \ {r} :
             stage'[q] = stage[q] /\ code'[q] = code[q] /\ arrival'[q] = arrival[q]
        /\ code'[r] = 429 <=> Cardinality(Recent(c)) >= MaxRequests
    <2>1. Cardinality(Recent(c)) \in Nat
      BY <1>1, <1>3, ServedFinite
    <2> QED BY <1>1, <1>2, <1>4, <1>5, <2>1
  <1>7. ArrivalInv'
    <2>1. CameIn' = CameIn \cup {r}
      BY <1>1, <1>6 DEF CameIn
    <2>2. IsFiniteSet(CameIn')
      BY <1>1, <2>1, FS_AddElement
    <2>3. stage' \in [Requests -> StageNames] /\ arrival' \in [Requests -> Nat]
      BY <1>1, <1>2, <1>4 DEF StageNames
    <2>4. code' \in [Requests -> {0, 200, 400, 401, 404, 429, 500}]
      BY <1>1, <1>5
    <2>5. stage'[r] = s /\ (s # "record" => code'[r] = 0)
      BY <1>1, <1>4, <1>5
    <2>6. \A q \in Requests :
            /\ stage'[q] \in {"away", "token", "lookup", "insert", "refresh"} => code'[q] = 0
            /\ stage'[q] \in {"close", "drop"} => code'[q] # 429
            /\ stage'[q] # "away" => arrival'[q] <= now'
      BY <1>1, <1>2, <1>6, <2>5 DEF RateInv, ArrivalInv
    <2> QED BY <1>1, <1>2, <2>2, <2>3, <2>4, <2>6 DEF ArrivalInv
  <1>8. StampsInv'
    <2>1. /\ DOMAIN stamps' = Clients
          /\ \A b \in Clients \ {c} : stamps'[b] = stamps[b]
          /\ code'[r] = 429 => stamps'[c] = Recent(c)
          /\ code'[r] # 429 => stamps'[c] = Recent(c) \cup {r}
      <3>1. CASE code' = [code EXCEPT ![r] = 429] /\ stamps' = [stamps EXCEPT ![c] = Recent(c)]
        BY <1>1, <3>1
      <3>2. CASE code' = code /\ stamps' = [stamps EXCEPT ![c] = Recent(c) \cup {r}]
        BY <1>1, <3>2
      <3> QED BY <1>5, <3>1, <3>2
    <2>2. \A q \in Requests : q # r => (IsServed(q)' <=> IsServed(q))
      BY <1>6 DEF IsServed
    <2>3. IsServed(r)' <=> code'[r] # 429
      BY <1>6 DEF IsServed
    <2>4. /\ \A b \in Clients : \A q \in stamps[b] :
               q \in Requests /\ q # r /\ IsServed(q) /\ Form[q].client = b
          /\ \A q \in Requests :
               IsServed(q) /\ arrival[q] + Window > now => q \in stamps[Form[q].client]
      BY <1>1 DEF RateInv, StampsInv, IsServed
    <2>5. \A b \in Clients : \A q \in stamps'[b] :
            q \in Requests /\ IsServed(q)' /\ Form[q].client = b
      BY <2>1, <2>2, <2>3, <2>4 DEF Recent, c
    <2>6. ASSUME NEW q \in Requests, IsServed(q)', arrival'[q] + Window > now'
          PROVE  q \in stamps'[Form[q].client]
      <3>1. CASE q = r
        BY <2>1, <2>3, <2>6, <3>1 DEF c
      <3>2. CASE q # r
        <4>1. q \in stamps[Form[q].client] /\ arrival[q] + Window > now
          BY <1>2, <1>6, <2>2, <2>4, <2>6, <3>2
        <4>2. Form[q].client \in Clients
          BY DEF Clients
        <4> QED BY <2>1, <4>1, <4>2 DEF Recent
      <3> QED BY <3>1, <3>2
    <2> QED BY <2>1, <2>5, <2>6 DEF StampsInv
  <1>9. ASSUME NEW b \in Clients, NEW t \in Nat, t < now \/ b # c \/ code'[r] = 429
        PROVE  Served(b, t)' = Served(b, t)
    BY <1>1, <1>6, <1>9 DEF Served, c
  <1>10. ASSUME NEW b, NEW t, b = c, t = now, code'[r] # 429
         PROVE  Served(b, t)' = Served(b, t) \cup {r}
    BY <1>1, <1>2, <1>6, <1>10 DEF Served, c
  <1>11. ASSUME NEW b \in Clients, NEW t \in 0..now
         PROVE  Cardinality(Served(b, t)') <= MaxRequests
    <2>1. Cardinality(Served(b, t)) <= MaxRequests
      BY DEF RateInv, RateIsExact
    <2>2. CASE t < now \/ b # c \/ code'[r] = 429
      BY <1>9, <2>1, <2>2
    <2>3. CASE t = now /\ b = c /\ code'[r] # 429
      <3>1. Cardinality(Served(c, now)) < MaxRequests /\ Cardinality(Served(c, now)) \in Nat
        BY <1>1, <1>3, <1>6, <2>3, ServedFinite
      <3>2. IsFiniteSet(Served(c, now)) /\ r \notin Served(c, now)
        <4>1. IsFiniteSet(Served(c, now))
          BY <1>1, ServedFinite
        <4>2. r \notin Served(c, now)
          BY <1>1 DEF Served
        <4> QED BY <4>1, <4>2
      <3>3. Cardinality(Served(c, now) \cup {r}) = Cardinality(Served(c, now)) + 1
        BY <3>2, FS_AddElement
      <3>4. Cardinality(Served(c, now) \cup {r}) <= MaxRequests
        BY <1>1, <3>1, <3>3
      <3>5. Served(b, t)' = Served(b, t) \cup {r}
        BY <1>10, <2>3
      <3> QED BY <2>3, <3>4, <3>5
    <2> QED BY <1>1, <2>2, <2>3
  <1>12. ASSUME NEW q \in Requests, code'[q] = 429
         PROVE  Cardinality(Served(Form[q].client, arrival[q])') = MaxRequests
    <2>1. CASE q = r
      <3>1. Served(c, now)' = Served(c, now)
        BY <1>1, <1>2, <1>9, <1>12, <2>1
      <3>2. /\ Cardinality(Served(c, now)) >= MaxRequests
            /\ Cardinality(Served(c, now)) <= MaxRequests
            /\ Cardinality(Served(c, now)) \in Nat
        BY <1>1, <1>3, <1>6, <1>12, <2>1, ServedFinite DEF RateInv, RateIsExact
      <3>3. Served(Form[q].client, arrival[q])' = Served(c, now)'
        BY <1>2, <1>6, <2>1 DEF Served, c
      <3> QED BY <1>1, <3>1, <3>2, <3>3
    <2>2. CASE q # r
      <3> DEFINE b == Form[q].client
                 t == arrival[q]
      <3>1. code[q] = 429 /\ arrival'[q] = t /\ t \in Nat /\ t <= now /\ b \in Clients
        BY <1>1, <1>6, <1>12, <2>2 DEF RateInv, ArrivalInv, Clients
      <3>2. Cardinality(Served(b, t)) = MaxRequests
        BY <3>1 DEF RateInv, RateIsExact
      <3> HIDE DEF b, t
      <3>3. t < now \/ b # c \/ code'[r] = 429
        <4> SUFFICES ASSUME t = now, b = c PROVE code'[r] = 429
          BY <1>1, <3>1
        <4> QED BY <1>1, <1>3, <1>6, <3>2
      <3>4. Served(Form[q].client, arrival[q])' = Served(b, t)
        <4>1. \A u \in Requests :
                 /\ stage'[u] # "away" /\ code'[u] # 429 /\ Form[u].client = b
                 /\ arrival'[u] <= t /\ t < arrival'[u] + Window
                 <=>
                 /\ stage[u] # "away" /\ code[u] # 429 /\ Form[u].client = b
                 /\ arrival[u] <= t /\ t < arrival[u] + Window
          BY <1>1, <1>6, <3>1, <3>3 DEF c
        <4>2. Form[q].client = b /\ arrival'[q] = t
          BY <3>1 DEF b
        <4> QED BY <4>1, <4>2 DEF Served
      <3> QED BY <3>2, <3>4
    <2> QED BY <2>1, <2>2
  <1>13. RateIsExact'
    BY <1>2, <1>11, <1>12 DEF RateIsExact
  <1> QED BY <1>7, <1>8, <1>13 DEF RateInv

\* No window of one client has more than MaxRequests that were served, and a
\* request is refused only when that many were.
THEOREM RateLimitIsExact == GatewaySpec => []RateIsExact
  <1>1. GatewayInit => RateInv
    <2> SUFFICES ASSUME GatewayInit PROVE RateInv
      OBVIOUS
    <2>1. CameIn = {} /\ \A c, t : Served(c, t) = {}
      BY DEF GatewayInit, CameIn, Served
    <2>2. ArrivalInv /\ StampsInv
      BY <2>1, FS_EmptySet DEF GatewayInit, ArrivalInv, StampsInv, StageNames, IsServed
    <2>3. RateIsExact
      <3>1. MaxRequests \in Nat /\ Cardinality({}) = 0 /\ \A r \in Requests : code[r] = 0
        BY FS_EmptySet, GatewayAssumption DEF GatewayInit, GatewayAssumption
      <3>2. \A c, t : Cardinality(Served(c, t)) <= MaxRequests
        BY <2>1, <3>1
      <3> QED BY <3>1, <3>2 DEF RateIsExact
    <2> QED BY <2>2, <2>3 DEF RateInv
  <1>2. RateInv /\ [GatewayNext]_gatewayVars => RateInv'
    <2> SUFFICES ASSUME RateInv, [GatewayNext]_gatewayVars PROVE RateInv'
      OBVIOUS
    <2>1. ASSUME NEW r \in Requests, Arrive(r) PROVE RateInv'
      BY <2>1, ArriveStep
    <2>2. ASSUME NEW r \in Requests, Serve(r) \/ DatabaseFails(r) PROVE RateInv'
      BY <2>2, ServeStep
    <2>3. CASE Tick
      BY <2>3, TickStep
    <2>4. CASE UNCHANGED gatewayVars
      <3>1. ArrivalInv'
        BY <2>4 DEF gatewayVars, RateInv, ArrivalInv, CameIn
      <3> QED BY <2>4, <3>1, RateQuiet DEF gatewayVars, RateInv
    <2> QED BY <2>1, <2>2, <2>3, <2>4 DEF GatewayNext
  <1>3. RateInv => RateIsExact
    BY DEF RateInv
  <1> QED BY <1>1, <1>2, <1>3, PTL DEF GatewaySpec
-----------------------------------------------------------------------------
(* The connections of the pool and the counters of the monitor             *)

\* The requests that hold a connection, and those that have been answered.
Holding == {"insert", "close"}
Holders == {r \in Requests : stage[r] \in Holding}
Answered == {r \in Requests : stage[r] = "done"}
Failed == {r \in Answered : code[r] >= 500}

\* The pool has handed out as many connections as requests hold, and no more
\* than it has; the monitor has counted the answers, and those of them that
\* are errors.
AccountsBalance ==
    /\ inUse = Cardinality(Holders) /\ inUse <= PoolSize
    /\ total = Cardinality(Answered)
    /\ errors = Cardinality(Failed)

\* Finitely many requests have come in; what is counted is among them.
AccountInv ==
    /\ stage \in [Requests -> StageNames]
    /\ code \in [Requests -> {0, 200, 400, 401, 404, 429, 500}]
    /\ IsFiniteSet(CameIn)
    /\ AccountsBalance

LEMMA CountedFinite ==
    ASSUME IsFiniteSet(CameIn)
    PROVE  /\ IsFiniteSet(Holders) /\ IsFiniteSet(Answered) /\ IsFiniteSet(Failed)
           /\ Cardinality(Holders) \in Nat /\ Cardinality(Answered) \in Nat
           /\ Cardinality(Failed) \in Nat
  <1>1. Holders \subseteq CameIn /\ Answered \subseteq CameIn /\ Failed \subseteq CameIn
    BY DEF Holders, Holding, Answered, Failed, CameIn
  <1> QED BY <1>1, FS_Subset, FS_CardinalityType

\* What an action does to the books: a connection is taken when one is free and
\* goes back when its request leaves; an answer is counted as it is given.
Books(r, s) ==
    /\ stage' = [stage EXCEPT ![r] = s]
    /\ stage[r] # "done" /\ s # "away"
    /\ \A q \in Requests \ {r} : code'[q] = code[q]
    /\ \/ /\ stage[r] \in Holding <=> s \in Holding
          /\ inUse' = inUse
       \/ /\ stage[r] \notin Holding /\ s \in Holding
          /\ inUse < PoolSize /\ inUse' = inUse + 1
       \/ /\ stage[r] \in Holding /\ s \notin Holding
          /\ inUse' = inUse - 1
    /\ \/ s # "done" /\ UNCHANGED <<total, errors>>
       \/ /\ s = "done" /\ code' = code
          /\ total' = total + 1
          /\ errors' = errors + IF code[r] >= 500 THEN 1 ELSE 0

LEMMA StepKeepsBooks ==
    ASSUME AccountInv, NEW r \in Requests, Arrive(r) \/ Serve(r) \/ DatabaseFails(r)
    PROVE  /\ code' \in [Requests -> {0, 200, 400, 401, 404, 429, 500}]
           /\ \E s \in StageNames : Books(r, s)
  <1> USE DEF AccountInv, Books, Holding, StageNames, Goto, Answer
  <1>1. CASE Arrive(r)
    BY <1>1 DEF Arrive
  <1>2. CASE CheckToken(r)
    BY <1>2 DEF CheckToken, RefreshTokens, CurrentUser
  <1>3. CASE Lookup(r)
    BY <1>3 DEF Lookup, RegisterFinds, LoginFinds, MeFinds
  <1>4. CASE Insert(r)
    BY <1>4 DEF Insert
  <1>5. CASE Refresh(r)
    BY <1>5 DEF Refresh
  <1>6. CASE Close(r)
    BY <1>6 DEF Close
  <1>7. CASE Record(r)
    BY <1>7 DEF Record
  <1>8. CASE DatabaseFails(r)
    BY <1>8 DEF DatabaseFails
  <1> QED BY <1>1, <1>2, <1>3, <1>4, <1>5, <1>6, <1>7, <1>8 DEF Serve

LEMMA BooksBalance ==
    ASSUME AccountInv, NEW r \in Requests, NEW s \in StageNames, Books(r, s),
           code' \in [Requests -> {0, 200, 400, 401, 404, 429, 500}]
    PROVE  AccountInv'
  <1>1. /\ stage'[r] = s /\ \A q \in Requests \ {r} : stage'[q] = stage[q]
        /\ \A q \in Requests \ {r} : code'[q] = code[q]
        /\ stage[r] # "done" /\ s # "away"
    BY DEF Books, AccountInv
  <1>2. stage' \in [Requests -> StageNames]
    BY DEF Books, AccountInv
  <1>3. IsFiniteSet(CameIn')
    <2>1. CameIn' = CameIn \cup {r}
      BY <1>1 DEF CameIn
    <2> QED BY <2>1, FS_AddElement DEF AccountInv
  <1>4. /\ IsFiniteSet(Holders) /\ IsFiniteSet(Answered) /\ IsFiniteSet(Failed)
        /\ Cardinality(Holders) \in Nat /\ Cardinality(Answered) \in Nat
        /\ Cardinality(Failed) \in Nat
    BY CountedFinite DEF AccountInv
  <1>5. inUse' = Cardinality(Holders') /\ inUse' <= PoolSize
    <2>1. CASE (stage[r] \in Holding <=> s \in Holding) /\ inUse' = inUse
      <3>1. Holders' = Holders
        BY <1>1, <2>1 DEF Holders
      <3> QED BY <2>1, <3>1 DEF AccountInv, AccountsBalance
    <2>2. CASE /\ stage[r] \notin Holding /\ s \in Holding
               /\ inUse < PoolSize /\ inUse' = inUse + 1
      <3>1. Holders' = Holders \cup {r} /\ r \notin Holders
        BY <1>1, <2>2 DEF Holders
      <3>2. Cardinality(Holders') = Cardinality(Holders) + 1
        BY <1>4, <3>1, FS_AddElement
      <3> QED BY <1>4, <2>2, <3>2, GatewayAssumption
              DEF AccountInv, AccountsBalance, GatewayAssumption
    <2>3. CASE stage[r] \in Holding /\ s \notin Holding /\ inUse' = inUse - 1
      <3>1. Holders' = Holders \ {r} /\ r \in Holders
        BY <1>1, <2>3 DEF Holders
      <3>2. Cardinality(Holders') = Cardinality(Holders) - 1
        BY <1>4, <3>1, FS_RemoveElement
      <3> QED BY <1>4, <2>3, <3>2, GatewayAssumption
              DEF AccountInv, AccountsBalance, GatewayAssumption
    <2> QED BY <2>1, <2>2, <2>3 DEF Books
  <1>6. total' = Cardinality(Answered') /\ errors' = Cardinality(Failed')
    <2>1. CASE s # "done" /\ UNCHANGED <<total, errors>>
      <3>1. Answered' = Answered
        BY <1>1, <2>1 DEF Answered
      <3>2. Failed' = Failed
        BY <1>1, <3>1 DEF Failed, Answered
      <3> QED BY <2>1, <3>1, <3>2 DEF AccountInv, AccountsBalance
    <2>2. CASE /\ s = "done" /\ code' = code
               /\ total' = total + 1
               /\ errors' = errors + IF code[r] >= 500 THEN 1 ELSE 0
      <3>1. Answered' = Answered \cup {r} /\ r \notin Answered
        BY <1>1, <2>2 DEF Answered
      <3>2. total' = Cardinality(Answered')
        BY <1>4, <2>2, <3>1, FS_AddElement DEF AccountInv, AccountsBalance
      <3>3. CASE code[r] >= 500
        <4>1. Failed' = Failed \cup {r} /\ r \notin Failed
          BY <2>2, <3>1, <3>3 DEF Failed
        <4> QED BY <1>4, <2>2, <3>2, <3>3, <4>1, FS_AddElement
                DEF AccountInv, AccountsBalance
      <3>4. CASE ~(code[r] >= 500)
        <4>1. Failed' = Failed
          BY <2>2, <3>1, <3>4 DEF Failed
        <4> QED BY <1>4, <2>2, <3>2, <3>4, <4>1 DEF AccountInv, AccountsBalance
      <3> QED BY <3>3, <3>4
    <2> QED BY <2>1, <2>2 DEF Books
  <1> QED BY <1>2, <1>3, <1>5, <1>6 DEF AccountInv, AccountsBalance

\* get_db() gives back every connection it has taken, whatever fails, the pool
\* never hands out one that it does not have, and the monitor's figures are
\* the numbers of answers and of errors.
THEOREM AccountsAreKept == GatewaySpec => []AccountsBalance
  <1>1. GatewayInit => AccountInv
    <2> SUFFICES ASSUME GatewayInit PROVE AccountInv
      OBVIOUS
    <2>1. Holders = {} /\ Answered = {} /\ Failed = {} /\ CameIn = {}
      BY DEF GatewayInit, Holders, Holding, Answered, Failed, CameIn
    <2> QED BY <2>1, FS_EmptySet, GatewayAssumption
            DEF GatewayInit, AccountInv, AccountsBalance, StageNames, GatewayAssumption
  <1>2. AccountInv /\ [GatewayNext]_gatewayVars => AccountInv'
    <2> SUFFICES ASSUME AccountInv, [GatewayNext]_gatewayVars PROVE AccountInv'
      OBVIOUS
    <2>1. ASSUME NEW r \in Requests, Arrive(r) \/ Serve(r) \/ DatabaseFails(r)
          PROVE  AccountInv'
      BY <2>1, StepKeepsBooks, BooksBalance
    <2>2. CASE Tick \/ UNCHANGED gatewayVars
      <3>1. UNCHANGED <<stage, code, inUse, total, errors>>
        BY <2>2 DEF Tick, gatewayVars
      <3>2. /\ Holders' = Holders /\ Answered' = Answered /\ Failed' = Failed
            /\ CameIn' = CameIn
        BY <3>1 DEF Holders, Answered, Failed, CameIn
      <3> QED BY <3>1, <3>2 DEF AccountInv, AccountsBalance
    <2> QED BY <2>1, <2>2 DEF GatewayNext
  <1>3. AccountInv => AccountsBalance
    BY DEF AccountInv
  <1> QED BY <1>1, <1>2, <1>3, PTL DEF GatewaySpec
=============================================================================

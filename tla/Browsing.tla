------------------------------ MODULE Browsing ------------------------------
(***************************************************************************)
(* The endpoints of /browser (api/browser.py) over one BrowserService      *)
(* (browser_service.py) that the first request launches.  The service is   *)
(* put into _browser before its launch is awaited, so a request that comes *)
(* during the launch finds a browser that is not initialized, and a launch *)
(* that failed is never tried again.                                       *)
(*                                                                         *)
(* It is another browser than the one of FormFiller, which launches its    *)
(* own the other way round: there two early requests launch two.           *)
(***************************************************************************)
EXTENDS Naturals

CONSTANTS Visits    \* requests to /browser

VARIABLES
    browser,    \* _browser: "absent", "starting", "ready", or "broken" when
                \* its initialize() ended without _initialized
    visit,      \* where a request is
    reply,      \* what it was answered, "none" while it was not
    launches,   \* history: calls of initialize()
    early       \* history: requests that came during the launch of another

browsingVars == <<browser, visit, reply, launches, early>>

BrowsingTypeOK ==
    /\ browser \in {"absent", "starting", "ready", "broken"}
    /\ visit \in [Visits -> {"away", "launch", "operate", "done", "cancelled"}]
    /\ reply \in [Visits -> {"none", "refused", "result", "error"}]
    /\ launches \in Nat
    /\ early \subseteq Visits

BrowsingInit ==
    /\ browser = "absent" /\ launches = 0 /\ early = {}
    /\ visit = [r \in Visits |-> "away"]
    /\ reply = [r \in Visits |-> "none"]

-----------------------------------------------------------------------------
\* The operation is called on a browser b: each looks at _initialized first,
\* and awaits the page only then.
Begin(r, b) ==
    \/ /\ b = "ready"
       /\ visit' = [visit EXCEPT ![r] = "operate"]
       /\ UNCHANGED reply
    \/ /\ b # "ready"
       /\ visit' = [visit EXCEPT ![r] = "done"]
       /\ reply' = [reply EXCEPT ![r] = "refused"]

\* Mutant: _browser is set when initialize() has returned.
GetBrowser_Mutation(r) ==
    /\ visit[r] = "away"
    /\ \/ /\ browser \in {"absent", "starting"}
          /\ browser' = "starting"
          /\ launches' = launches + 1
          /\ visit' = [visit EXCEPT ![r] = "launch"]
          /\ UNCHANGED <<reply, early>>
       \/ /\ browser \in {"ready", "broken"}
          /\ Begin(r, browser)
          /\ UNCHANGED <<browser, launches, early>>

\* get_browser(): the first request launches, every other one takes _browser
\* as it is and goes on without a pause.
GetBrowser(r) ==
    /\ visit[r] = "away"
    /\ \/ /\ browser = "absent"
          /\ browser' = "starting"
          /\ launches' = launches + 1
          /\ visit' = [visit EXCEPT ![r] = "launch"]
          /\ UNCHANGED <<reply, early>>
       \/ /\ browser # "absent"
          /\ Begin(r, browser)
          /\ early' = early \cup {q \in {r} : browser = "starting"}
          /\ UNCHANGED <<browser, launches>>

\* initialize() returns; what it raised inside is only logged.
Launched(r) ==
    /\ visit[r] = "launch"
    /\ browser' \in {"ready", "broken"}
    /\ Begin(r, browser')
    /\ UNCHANGED <<launches, early>>

\* navigate(), get_content(), screenshot(), click(), fill() or evaluate()
\* returns what the page did, or its exception as an error.
Operate(r) ==
    /\ visit[r] = "operate"
    /\ visit' = [visit EXCEPT ![r] = "done"]
    /\ \E a \in {"result", "error"} : reply' = [reply EXCEPT ![r] = a]
    /\ UNCHANGED <<browser, launches, early>>

\* The request is cancelled at an await: during the launch it leaves a
\* browser behind that nobody initializes.
VisitCancelled(r) ==
    /\ visit[r] \in {"launch", "operate"}
    /\ visit' = [visit EXCEPT ![r] = "cancelled"]
    /\ browser' = IF visit[r] = "launch" THEN "broken" ELSE browser
    /\ UNCHANGED <<reply, launches, early>>

BrowsingNext ==
    \E r \in Visits :
       GetBrowser(r) \/ Launched(r) \/ Operate(r) \/ VisitCancelled(r)

BrowsingSpec == BrowsingInit /\ [][BrowsingNext]_browsingVars

-----------------------------------------------------------------------------
(* Properties                                                              *)

\* However requests overlap, there is one launch and one request behind it
\* while it lasts; those that come during it, and only those, are turned away
\* from a browser that gets ready; and after a launch that failed or was
\* cancelled none is ever served.
OneBrowser ==
    /\ launches <= 1
    /\ (browser = "starting") <=> (\E r \in Visits : visit[r] = "launch")
    /\ \A r \in Visits :
          /\ reply[r] = "refused" => r \in early \/ browser = "broken"
          /\ reply[r] \in {"result", "error"} => r \notin early /\ browser = "ready"

=============================================================================

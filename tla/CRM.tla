-------------------------------- MODULE CRM --------------------------------
(***************************************************************************)
(* The CRM of the backend: leads, sales pipeline, follow-ups, client       *)
(* workspaces, calendar and generated leads (api/crm.py, api/leadgen.py,   *)
(* services/crm).  Each keeps its entries in a namespace of a              *)
(* MemoryManager; nothing relates the namespaces but the code of the       *)
(* operations: a deleted lead leaves its pipeline entry and its follow-ups *)
(* behind, the status of a lead and the stage of its entry are written     *)
(* apart, and qualify_lead() writes a status that is no stage.             *)
(*                                                                         *)
(* No operation suspends between its first read and its last write, so     *)
(* each is one action.  The files of the namespaces are those of Memory;   *)
(* nothing reads them, and they are left out here.                         *)
(***************************************************************************)
EXTENDS Naturals, Sequences, SequencesExt, FiniteSetsExt

CONSTANTS
    Leads,       \* ids of leads, each a time stamp of its own
    Stages,      \* STAGES of sales_pipeline.py
    Info,        \* what a lead may hold: email, phone, website, industry
    Weight,      \* the points qualify_lead() gives for each
    Threshold,   \* the points of a qualified lead: 30
    Companies,   \* names of companies
    FollowUps,   \* keys of follow-ups: a lead and a time stamp
    LeadOf,      \* the lead of a follow-up
    Events,      \* ids of calendar events
    MaxNotes     \* bound: notes, and tasks, of a workspace

ASSUME CRMAssumption ==
    /\ {"new", "qualified"} \subseteq Stages
    /\ "contact" \notin Stages /\ "off" \notin Stages
    /\ LeadOf \in [FollowUps -> Leads]
    /\ Leads \cap Events = {}

VARIABLES
    status,      \* crm_leads: status[l] of the leads that are stored
    known,       \* and what they hold
    entry,       \* crm_pipeline: the stage stored for a lead
    followUp,    \* crm_followups: "pending" or "completed"
    workspace,   \* crm_workspaces: the numbers of notes and of tasks
    events,      \* crm_calendar: the ids of the events
    generated,   \* leads_generated: the companies stored
    enriched,    \* leads_generated_enriched: the companies stored
    born         \* history: the ids given to leads and events so far

crmVars == <<status, known, entry, followUp, workspace, events, generated,
             enriched, born>>
others == <<followUp, workspace, events, generated, enriched>>

CRMTypeOK ==
    /\ DOMAIN status \subseteq born \cap Leads
    /\ status \in [DOMAIN status -> Stages \cup {"contact"}]
    /\ known \in [DOMAIN status -> SUBSET Info]
    /\ DOMAIN entry \subseteq born \cap Leads
    /\ entry \in [DOMAIN entry -> Stages]
    /\ DOMAIN followUp \subseteq FollowUps
    /\ followUp \in [DOMAIN followUp -> {"pending", "completed"}]
    /\ DOMAIN workspace \subseteq Companies
    /\ workspace \in [DOMAIN workspace -> [notes : Nat, tasks : Nat]]
    /\ events \subseteq Events \cap born
    /\ generated \subseteq Companies /\ enriched \subseteq Companies
    /\ born \subseteq Leads \cup Events

CRMInit ==
    /\ status = << >> /\ known = << >> /\ entry = << >>
    /\ followUp = << >> /\ workspace = << >>
    /\ events = {} /\ generated = {} /\ enriched = {} /\ born = {}

\* MemoryManager.store() and delete() on one namespace.
Stored(f, k, v) == [x \in DOMAIN f \cup {k} |-> IF x = k THEN v ELSE f[x]]
Deleted(f, k) == [x \in DOMAIN f \ {k} |-> f[x]]

-----------------------------------------------------------------------------
(* Leads and pipeline                                                      *)

\* create_lead(): the id is the time of creation, so it is new.
CreateLead(l, info) ==
    /\ l \notin born
    /\ born' = born \cup {l}
    /\ status' = Stored(status, l, "new")
    /\ known' = Stored(known, l, info)
    /\ UNCHANGED <<entry, others>>

\* delete_lead(): the entry in the pipeline stays.
DeleteLead(l) ==
    /\ l \in DOMAIN status
    /\ status' = Deleted(status, l)
    /\ known' = Deleted(known, l)
    /\ UNCHANGED <<entry, others, born>>

\* The score of qualify_lead(), from what a lead holds.
Score(info) == MapThenSumSet(LAMBDA i : Weight[i], info)
Qualifies(info) == Score(info) >= Threshold

\* qualify_lead(): the stage of the entry is not touched.
QualifyLead(l) ==
    /\ l \in DOMAIN status
    /\ status' = Stored(status, l, IF Qualifies(known[l])
                                   THEN "qualified" ELSE "contact")
    /\ UNCHANGED <<known, entry, others, born>>

\* move_stage(): first the lead, then the entry.
MoveStage(l, s) ==
    /\ s \in Stages
    /\ l \in DOMAIN status
    /\ status' = Stored(status, l, s)
    /\ entry' = Stored(entry, l, s)
    /\ UNCHANGED <<known, others, born>>

\* Mutant: the board is made of the entries alone.
Shown_Mutation(l) == IF l \in DOMAIN entry THEN entry[l] ELSE "off"

\* get_pipeline(): the leads that have an entry, each under its own status if
\* that is a stage.
Shown(l) ==
    IF l \in DOMAIN entry /\ l \in DOMAIN status /\ status[l] \in Stages
    THEN status[l] ELSE "off"

\* What became of a lead.
LifeOf(l) == IF l \notin born THEN "unborn"
             ELSE IF l \in DOMAIN status THEN "alive" ELSE "gone"

-----------------------------------------------------------------------------
(* Follow-ups, workspaces, calendar, generated leads                       *)

\* schedule(): nobody asks whether the lead exists.
ScheduleFollowUp(k) ==
    /\ k \notin DOMAIN followUp
    /\ followUp' = Stored(followUp, k, "pending")
    /\ UNCHANGED <<status, known, entry, workspace, events, generated, enriched, born>>

\* mark_done()
MarkDone(k) ==
    /\ k \in DOMAIN followUp
    /\ followUp' = Stored(followUp, k, "completed")
    /\ UNCHANGED <<status, known, entry, workspace, events, generated, enriched, born>>

\* create_workspace(): replaces one of the same name and all it holds.
CreateWorkspace(c) ==
    /\ workspace' = Stored(workspace, c, [notes |-> 0, tasks |-> 0])
    /\ UNCHANGED <<status, known, entry, followUp, events, generated, enriched, born>>

\* add_note() and add_task()
AddItem(c, list) ==
    /\ c \in DOMAIN workspace
    /\ workspace[c][list] < MaxNotes
    /\ workspace' = [workspace EXCEPT ![c][list] = @ + 1]
    /\ UNCHANGED <<status, known, entry, followUp, events, generated, enriched, born>>

\* create_event() and delete_event()
CreateEvent(e) ==
    /\ e \notin born
    /\ born' = born \cup {e}
    /\ events' = events \cup {e}
    /\ UNCHANGED <<status, known, entry, followUp, workspace, generated, enriched>>
DeleteEvent(e) ==
    /\ e \in events
    /\ events' = events \ {e}
    /\ UNCHANGED <<status, known, entry, followUp, workspace, generated, enriched, born>>

\* search_businesses(): the answer of the model is a list of objects, each of
\* a company, or of something else; the first that is no object raises, and
\* those before it are stored.
SearchBusinesses(answer) ==
    /\ generated' = generated \cup
          {answer[i] : i \in {n \in DOMAIN answer :
                                \A m \in 1..n : answer[m] \in Companies}}
    /\ UNCHANGED <<status, known, entry, followUp, workspace, events, enriched, born>>

\* enrich_lead()
EnrichLead(c) ==
    /\ enriched' = enriched \cup {c}
    /\ UNCHANGED <<status, known, entry, followUp, workspace, events, generated, born>>

\* The process starts again: the memory is empty, and the ids are new ones.
RestartCRM ==
    /\ status' = << >> /\ known' = << >> /\ entry' = << >>
    /\ followUp' = << >> /\ workspace' = << >>
    /\ events' = {} /\ generated' = {} /\ enriched' = {}
    /\ UNCHANGED born

Answers == SeqOf(Companies \cup {"no object"}, 2)

\* The endpoints of /leadgen, and those of /crm.
LeadGenNext ==
    \/ \E answer \in Answers : SearchBusinesses(answer)
    \/ \E c \in Companies : EnrichLead(c)

CRMNext ==
    \/ \E l \in Leads :
          \/ \E info \in SUBSET Info : CreateLead(l, info)
          \/ DeleteLead(l)
          \/ QualifyLead(l)
          \/ \E s \in Stages : MoveStage(l, s)
    \/ \E k \in FollowUps : ScheduleFollowUp(k) \/ MarkDone(k)
    \/ \E c \in Companies :
          \/ CreateWorkspace(c)
          \/ \E list \in {"notes", "tasks"} : AddItem(c, list)
    \/ \E e \in Events : CreateEvent(e) \/ DeleteEvent(e)
    \/ LeadGenNext
    \/ RestartCRM

CRMSpec == CRMInit /\ [][CRMNext]_crmVars

-----------------------------------------------------------------------------
(* Properties                                                              *)

\* The pipeline is the board of PipelineBoard: what get_pipeline() puts
\* together from two namespaces moves as the operations say, and neither the
\* entry a deleted lead leaves behind nor the stale stage in the entry of a
\* lead that was qualified later ever shows.
Board == INSTANCE PipelineBoard
         WITH seen <- [l \in Leads |-> Shown(l)],
              life <- [l \in Leads |-> LifeOf(l)]
ImplementsBoard == Board!Spec

=============================================================================

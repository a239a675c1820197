----------------------------- MODULE Messaging -----------------------------
(***************************************************************************)
(* EmailService (email_service.py) and WhatsAppService                     *)
(* (whatsapp_service.py).  Each sends through a provider once it is        *)
(* configured and falls back on a simulated delivery when anything raises, *)
(* also after the provider has taken the message; each logs what it        *)
(* answered in a namespace of its MemoryManager.                           *)
(*                                                                         *)
(* smtplib blocks the event loop, so sending an e-mail is one action; a    *)
(* WhatsApp message is posted with an await in between.                    *)
(***************************************************************************)
EXTENDS Naturals, FiniteSets

CONSTANTS
    Mails,      \* e-mails that may be sent
    Chats,      \* WhatsApp messages that may be sent or scheduled
    Products    \* products of the WhatsApp catalogue

ASSUME MessagingAssumption == Mails \cap Chats = {}

Messages == Mails \cup Chats

VARIABLES
    mailReady,   \* EmailService.configure() was called
    chatReady,   \* WhatsAppService.configure() was called
    state,       \* of a message: "new", "posting", "sent", "simulated",
                 \* "cancelled" or "scheduled"
    delivered,   \* how often the provider took a message
    logged,      \* how many entries of the log tell of a message
    dry,         \* history: messages sent while there was no configuration
    catalog      \* namespace "whatsapp_catalog"

messagingVars == <<mailReady, chatReady, state, delivered, logged, dry, catalog>>

MessagingTypeOK ==
    /\ mailReady \in BOOLEAN /\ chatReady \in BOOLEAN
    /\ state \in [Messages -> {"new", "posting", "sent", "simulated",
                               "cancelled", "scheduled"}]
    /\ delivered \in [Messages -> Nat] /\ logged \in [Messages -> Nat]
    /\ dry \subseteq Messages /\ catalog \subseteq Products

ChatInit == chatReady = FALSE /\ catalog = {}
MessagingInit ==
    /\ mailReady = FALSE /\ ChatInit
    /\ state = [m \in Messages |-> "new"]
    /\ delivered = [m \in Messages |-> 0]
    /\ logged = [m \in Messages |-> 0]
    /\ dry = {}

-----------------------------------------------------------------------------
\* The answer to a request, with its entry in the log.
Conclude(m, s) ==
    /\ state' = [state EXCEPT ![m] = s]
    /\ logged' = [logged EXCEPT ![m] = @ + 1]
\* What the provider made of it: n is 1 when it took the message.
Delivery(m, n) == delivered' = [delivered EXCEPT ![m] = @ + n]

ConfigureMail ==
    /\ mailReady' = TRUE
    /\ UNCHANGED <<chatReady, state, delivered, logged, dry, catalog>>
ConfigureChat ==
    /\ chatReady' = TRUE
    /\ UNCHANGED <<mailReady, state, delivered, logged, dry, catalog>>

\* send_email(): the server may take the mail and the end of the session
\* fail, which is then called simulated.
SendMail(m) ==
    /\ state[m] = "new"
    /\ \/ ~mailReady /\ Conclude(m, "simulated") /\ Delivery(m, 0) /\ dry' = dry \cup {m}
       \/ mailReady /\ Conclude(m, "sent") /\ Delivery(m, 1) /\ UNCHANGED dry
       \/ /\ mailReady /\ Conclude(m, "simulated") /\ UNCHANGED dry
          /\ \E n \in {0, 1} : Delivery(m, n)
    /\ UNCHANGED <<mailReady, chatReady, catalog>>

\* send_message() of WhatsApp up to the await of the post.
PostChat(m) ==
    /\ state[m] = "new"
    /\ \/ ~chatReady /\ Conclude(m, "simulated") /\ dry' = dry \cup {m}
       \/ /\ chatReady
          /\ state' = [state EXCEPT ![m] = "posting"]
          /\ UNCHANGED <<logged, dry>>
    /\ UNCHANGED <<mailReady, chatReady, delivered, catalog>>

\* Mutant: the message is logged before the answer is known to be readable.
PostDone_Mutation(m) ==
    /\ state[m] = "posting"
    /\ \E n \in {0, 1} : Delivery(m, n)
    /\ \E s \in {"sent", "simulated"} :
          /\ state' = [state EXCEPT ![m] = s]
          /\ logged' = [logged EXCEPT ![m] = @ + IF s = "sent" THEN 1 ELSE 2]
    /\ UNCHANGED <<mailReady, chatReady, dry, catalog>>

\* The post returns or raises.  Nobody looks at the HTTP status: a refusal is
\* "sent", and a message that was taken "simulated" if its answer is no JSON.
PostDone(m) ==
    /\ state[m] = "posting"
    /\ \E n \in {0, 1} : Delivery(m, n)
    /\ \E s \in {"sent", "simulated"} : Conclude(m, s)
    /\ UNCHANGED <<mailReady, chatReady, dry, catalog>>

\* The request is cancelled during the post: CancelledError is no Exception.
PostCancelled(m) ==
    /\ state[m] = "posting"
    /\ state' = [state EXCEPT ![m] = "cancelled"]
    /\ \E n \in {0, 1} : Delivery(m, n)
    /\ UNCHANGED <<mailReady, chatReady, logged, dry, catalog>>

\* schedule_message(): an entry that nothing reads.
ScheduleChat(m) ==
    /\ state[m] = "new"
    /\ state' = [state EXCEPT ![m] = "scheduled"]
    /\ UNCHANGED <<mailReady, chatReady, delivered, logged, dry, catalog>>

\* manage_catalog(): "add" and "delete"
Catalogue(p) ==
    /\ catalog' \in {catalog \cup {p}, catalog \ {p}}
    /\ UNCHANGED <<mailReady, chatReady, state, delivered, logged, dry>>

\* The endpoints of /email and of /whatsapp.
MailNext == ConfigureMail \/ \E m \in Mails : SendMail(m)
ChatNext ==
    \/ ConfigureChat
    \/ \E m \in Chats :
          PostChat(m) \/ PostDone(m) \/ PostCancelled(m) \/ ScheduleChat(m)
    \/ \E p \in Products : Catalogue(p)

MessagingNext == MailNext \/ ChatNext

MessagingSpec == MessagingInit /\ [][MessagingNext]_messagingVars

-----------------------------------------------------------------------------
(* Properties                                                              *)

\* The fallback never sends a second time nor logs a second time: a message
\* that was answered, whichever way the provider failed, has one entry in the
\* log and reached the provider at most once; one that was cancelled has
\* none.  Sent without a configuration, a message never left the house, and
\* an e-mail called sent did.
LoggedOnce ==
    \A m \in Messages :
       /\ logged[m] = IF state[m] \in {"sent", "simulated"} THEN 1 ELSE 0
       /\ delivered[m] <= 1
       /\ m \in dry => delivered[m] = 0 /\ state[m] = "simulated"
       /\ m \in Mails /\ state[m] = "sent" => delivered[m] = 1

=============================================================================

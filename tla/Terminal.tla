------------------------------ MODULE Terminal ------------------------------
(***************************************************************************)
(* TerminalService and TerminalSession (terminal_service.py), behind       *)
(* /developer/terminal: sessions named "term_<n>", n being the number of   *)
(* sessions plus one, and commands, each in a shell for at most 30         *)
(* seconds, awaited while other requests come in.                          *)
(***************************************************************************)
EXTENDS Naturals, FiniteSets

CONSTANTS
    Users,      \* clients, each of which creates one session
    Commands,   \* commands they may run
    RunBy       \* the client of a command

ASSUME TerminalAssumption == IsFiniteSet(Users) /\ RunBy \in [Commands -> Users]

VARIABLES
    sessions,   \* _sessions: the client that created session n; partial
    handle,     \* the number a client was given, 0 if none yet
    running,    \* TerminalSession._running of the session of a client
    phase,      \* of a command: "idle", "runs", "answered", "raised" (answered
                \* with an exception), "refused" or "cancelled"
    target,     \* the client whose session a command runs in; partial
    shells,     \* commands whose shell lives
    ended,      \* history: clients whose session was deleted
    replaced,   \* history: clients whose session another one took the name of
    skewed,     \* history: a session was deleted that was not the last
    overlapped  \* history: clients in whose session two commands ran at once

terminalVars == <<sessions, handle, running, phase, target, shells, ended, replaced,
                  skewed, overlapped>>

TerminalTypeOK ==
    /\ DOMAIN sessions \subseteq Nat \ {0}
    /\ IsFiniteSet(DOMAIN sessions)
    /\ sessions \in [DOMAIN sessions -> Users]
    /\ handle \in [Users -> Nat]
    /\ running \in [Users -> BOOLEAN]
    /\ phase \in [Commands -> {"idle", "runs", "answered", "raised", "refused", "cancelled"}]
    /\ DOMAIN target \subseteq Commands /\ target \in [DOMAIN target -> Users]
    /\ shells \subseteq Commands
    /\ ended \subseteq Users /\ replaced \subseteq Users
    /\ skewed \in BOOLEAN /\ overlapped \subseteq Users

TerminalInit ==
    /\ sessions = << >> /\ target = << >>
    /\ handle = [u \in Users |-> 0]
    /\ running = [u \in Users |-> FALSE]
    /\ phase = [k \in Commands |-> "idle"]
    /\ shells = {} /\ ended = {} /\ replaced = {}
    /\ skewed = FALSE /\ overlapped = {}

Bind(f, x, v) == [y \in DOMAIN f \cup {x} |-> IF y = x THEN v ELSE f[y]]

-----------------------------------------------------------------------------
\* create_session(): the name may be that of a session that lives.
CreateSession(u) ==
    LET id == Cardinality(DOMAIN sessions) + 1 IN
    /\ handle[u] = 0
    /\ handle' = [handle EXCEPT ![u] = id]
    /\ sessions' = Bind(sessions, id, u)
    /\ replaced' = replaced \cup {sessions[n] : n \in {id} \cap DOMAIN sessions}
    /\ UNCHANGED <<running, phase, target, shells, ended, skewed, overlapped>>

\* delete_session(), of whatever session has the name: it is forgotten, what
\* runs in it goes on.
DeleteSession(u) ==
    /\ handle[u] \in DOMAIN sessions
    /\ sessions' = [n \in DOMAIN sessions \ {handle[u]} |-> sessions[n]]
    /\ ended' = ended \cup {sessions[handle[u]]}
    /\ skewed' = (skewed \/ handle[u] # Cardinality(DOMAIN sessions))
    /\ UNCHANGED <<handle, running, phase, target, shells, replaced, overlapped>>

InSession(u) == {k \in Commands : phase[k] = "runs" /\ target[k] = u}

\* execute() of the session of u: sets the flag and starts the shell, which may
\* fail.
RunIn(k, u) ==
    /\ phase' = [phase EXCEPT ![k] = "runs"]
    /\ target' = Bind(target, k, u)
    /\ running' = [running EXCEPT ![u] = TRUE]
    /\ shells' \in {shells, shells \cup {k}}
    /\ overlapped' = IF InSession(u) = {} THEN overlapped ELSE overlapped \cup {u}

\* execute(): looks the session up.
Execute(k) ==
    LET n == handle[RunBy[k]] IN
    /\ phase[k] = "idle"
    /\ n # 0
    /\ \/ /\ n \notin DOMAIN sessions
          /\ phase' = [phase EXCEPT ![k] = "refused"]
          /\ UNCHANGED <<running, target, shells, overlapped>>
       \/ n \in DOMAIN sessions /\ RunIn(k, sessions[n])
    /\ UNCHANGED <<sessions, handle, ended, replaced, skewed>>

\* An answer: every path to one but a cancellation clears the flag of the
\* session, of other commands that run in it too.
Answers(k, p) ==
    /\ phase[k] = "runs"
    /\ phase' = [phase EXCEPT ![k] = p]
    /\ running' = [running EXCEPT ![target[k]] = FALSE]
    /\ UNCHANGED <<sessions, handle, target, ended, replaced, skewed, overlapped>>

\* communicate() returns: the pipes are closed and the shell is over.
CommandEnds(k) ==
    /\ k \in shells
    /\ Answers(k, "answered")
    /\ shells' = shells \ {k}

\* After 30 seconds kill() ends the shell; what the shell started lives on, and
\* nobody waits for it.
TimedOut(k) ==
    /\ k \in shells
    /\ Answers(k, "answered")
    /\ shells' = shells \ {k}

\* Mutant: the path of an exception does not clear the flag.
Raised_KeepsFlag(k) ==
    /\ phase[k] = "runs"
    /\ phase' = [phase EXCEPT ![k] = "raised"]
    /\ UNCHANGED <<sessions, handle, running, target, shells, ended, replaced, skewed,
                   overlapped>>

\* The start or the wait raised: its message is the answer, and a shell that
\* was started goes on.
Raised(k) ==
    /\ Answers(k, "raised")
    /\ UNCHANGED shells

\* The request is cancelled: no clause catches a CancelledError, so the flag
\* stays and the shell goes on.  So it does when the start itself times out:
\* the clause then finds no proc.
Cancelled(k) ==
    /\ phase[k] = "runs"
    /\ phase' = [phase EXCEPT ![k] = "cancelled"]
    /\ UNCHANGED <<sessions, handle, running, target, shells, ended, replaced, skewed,
                   overlapped>>

TerminalNext ==
    \/ \E u \in Users : CreateSession(u) \/ DeleteSession(u)
    \/ \E k \in Commands :
          Execute(k) \/ CommandEnds(k) \/ TimedOut(k) \/ Raised(k) \/ Cancelled(k)

TerminalSpec == TerminalInit /\ [][TerminalNext]_terminalVars

-----------------------------------------------------------------------------
(* Properties                                                              *)

\* A command runs in the session of another client only after the session of
\* its own client was deleted or another one took its name, and names are
\* taken only once a session was deleted that was not the last.  The list of
\* sessions is right: one that is not running runs no command, unless two ran
\* in it at once, and one that is running runs one, or had one cancelled.  A
\* shell outlives the answer to its command only where an exception ended the
\* wait for it.
OwnSession ==
    /\ \A k \in DOMAIN target : target[k] # RunBy[k] => RunBy[k] \in ended \cup replaced
    /\ replaced # {} => skewed
    /\ \A u \in Users :
          /\ u \notin overlapped /\ ~running[u] => InSession(u) = {}
          /\ running[u] => \E k \in DOMAIN target :
                target[k] = u /\ phase[k] \in {"runs", "cancelled"}
    /\ \A k \in shells : phase[k] \in {"runs", "raised", "cancelled"}

=============================================================================

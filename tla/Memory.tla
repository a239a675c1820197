------------------------------- MODULE Memory -------------------------------
(***************************************************************************)
(* MemoryManager (memory_manager.py) and WorkMemory (work_memory.py): two  *)
(* namespaces of entries kept in memory, each written as a whole to a file *)
(* of its own after every change of it.                                    *)
(*                                                                         *)
(* Nothing here ever suspends (no await reaches the event loop), so every  *)
(* operation is one action.  What makes the classes hard is elsewhere:     *)
(*  - a write that fails is logged and swallowed, and one that is cut off  *)
(*    leaves a torn file, for write_text truncates first;                  *)
(*  - an entry of WorkMemory shares its lists with the ProjectContext it   *)
(*    was made from and with every context opened from it;                 *)
(*  - an opened context has text for created_at, so that saving it raises, *)
(*    after the shared list was changed;                                   *)
(*  - nothing is read back after a restart.                                *)
(***************************************************************************)
EXTENDS Naturals, Sequences, SequencesExt

CONSTANTS
    Projects,   \* names of projects
    Contexts,   \* ProjectContext objects made by callers
    NameOf,     \* the project a context is about
    Facts,      \* decisions, fixed bugs and tasks
    Fields,     \* keys of the dictionaries given to store_project_context
    MaxLog      \* bound: length of a list of a context

ASSUME MemoryAssumption == NameOf \in [Contexts -> Projects] /\ MaxLog \in Nat

VARIABLES
    held,      \* namespace "work_memory": the context whose lists the entry
               \* of a project shares; a partial function
    log,       \* log[c]: decisions and fixed bugs of a context, in order
    todo,      \* todo[c]: its pending tasks
    kept,      \* namespace "projects": the keys of a project's dictionary
    workFile,  \* work_memory.json: the set of the one image in it, the lists
               \* of the projects; {} when it is absent or torn
    projFile,  \* projects.json: likewise
    unsaved,   \* history: unsaved[ns]: projects whose entry was changed since
               \* the last write of the namespace that worked
    late,      \* history: late[c]: decisions added to the log of a context
               \* since the last write of work_memory.json that worked
    retouched, \* history: contexts whose tasks were changed since then
    durable    \* history: projects whose dictionary was written to the file
               \* and that nobody deleted since

memoryVars == <<held, log, todo, kept, workFile, projFile,
                unsaved, late, retouched, durable>>

Namespaces == {"work_memory", "projects"}

MemoryTypeOK ==
    /\ DOMAIN held \subseteq Projects
    /\ \A p \in DOMAIN held : held[p] \in Contexts /\ NameOf[held[p]] = p
    /\ log \in [Contexts -> Seq(Facts)]
    /\ todo \in [Contexts -> Seq(Facts)]
    /\ DOMAIN kept \subseteq Projects
    /\ kept \in [DOMAIN kept -> SUBSET Fields]
    /\ \A image \in workFile :
          image \in [DOMAIN image -> [log : Seq(Facts), todo : Seq(Facts)]]
    /\ unsaved \in [Namespaces -> SUBSET Projects]
    /\ late \in [Contexts -> Nat]
    /\ retouched \subseteq Contexts
    /\ durable \subseteq Projects

MemoryInit ==
    /\ held = << >> /\ kept = << >>
    /\ log = [c \in Contexts |-> << >>]
    /\ todo = [c \in Contexts |-> << >>]
    /\ workFile = {} /\ projFile = {}
    /\ unsaved = [ns \in Namespaces |-> {}]
    /\ late = [c \in Contexts |-> 0] /\ retouched = {}
    /\ durable = {}

-----------------------------------------------------------------------------
(* _persist: the whole namespace is written, refused by the system (the    *)
(* file stays) or cut off (the file is torn); store() returns all the same.*)

Entries(f, p, v) == [q \in DOMAIN f \cup {p} |-> IF q = p THEN v ELSE f[q]]
Drop(f, p) == [q \in DOMAIN f \ {p} |-> f[q]]
ListsOf(h) == [p \in DOMAIN h |-> [log |-> log[h[p]], todo |-> todo[h[p]]]]

\* The entry of p changed, and the namespace becomes h.
PersistWork(h, p) ==
    \/ /\ workFile' = {ListsOf(h)}
       /\ unsaved' = [unsaved EXCEPT !["work_memory"] = {}]
       /\ late' = [c \in Contexts |-> 0] /\ retouched' = {}
    \/ /\ workFile' \in {workFile, {}}
       /\ unsaved' = [unsaved EXCEPT !["work_memory"] = @ \cup {p}]
       /\ UNCHANGED <<late, retouched>>

PersistProjects(k, p) ==
    \/ /\ projFile' = {k}
       /\ unsaved' = [unsaved EXCEPT !["projects"] = {}]
       /\ durable' = DOMAIN k
    \/ /\ projFile' \in {projFile, {}}
       /\ unsaved' = [unsaved EXCEPT !["projects"] = @ \cup {p}]
       /\ durable' = IF projFile' = {} THEN {} ELSE durable \cap DOMAIN k

-----------------------------------------------------------------------------
(* WorkMemory                                                              *)

\* open_project(): a new context, with the lists of the one that was saved.
Opened(p) == held[p]

\* save_project() of a context its caller made: the entry gets its lists.
SaveProject(c) ==
    /\ held' = Entries(held, NameOf[c], c)
    /\ PersistWork(held', NameOf[c])
    /\ UNCHANGED <<log, todo, kept, projFile, durable>>

\* add_decision() and add_bug_fix(): the list of the opened context is the
\* one of the entry; save_project() then raises in to_dict(), before store().
AddDecision(p, f) ==
    /\ p \in DOMAIN held
    /\ Len(log[Opened(p)]) < MaxLog
    /\ log' = [log EXCEPT ![Opened(p)] = Append(@, f)]
    /\ late' = [late EXCEPT ![Opened(p)] = @ + 1]
    /\ UNCHANGED <<held, todo, kept, workFile, projFile, unsaved, retouched, durable>>

\* add_pending_task()
AddTask(p, f) ==
    /\ p \in DOMAIN held
    /\ Len(todo[Opened(p)]) < MaxLog
    /\ todo' = [todo EXCEPT ![Opened(p)] = Append(@, f)]
    /\ retouched' = retouched \cup {Opened(p)}
    /\ UNCHANGED <<held, log, kept, workFile, projFile, unsaved, late, durable>>

\* complete_task(): the first task of that text.
CompleteTask(p, f) ==
    /\ p \in DOMAIN held
    /\ \E i \in DOMAIN todo[Opened(p)] :
          /\ todo[Opened(p)][i] = f
          /\ \A j \in 1..(i - 1) : todo[Opened(p)][j] # f
          /\ todo' = [todo EXCEPT ![Opened(p)] = RemoveAt(@, i)]
    /\ retouched' = retouched \cup {Opened(p)}
    /\ UNCHANGED <<held, log, kept, workFile, projFile, unsaved, late, durable>>

\* delete() of the entry of a project.
DeleteContext(p) ==
    /\ p \in DOMAIN held
    /\ held' = Drop(held, p)
    /\ PersistWork(held', p)
    /\ UNCHANGED <<log, todo, kept, projFile, durable>>

-----------------------------------------------------------------------------
(* MemoryManager, namespace "projects"                                     *)

\* store_project_context(): merges into the dictionary stored before.
StoreProjectContext(p, keys) ==
    /\ kept' = Entries(kept, p, keys \cup IF p \in DOMAIN kept THEN kept[p]
                                                               ELSE {})
    /\ PersistProjects(kept', p)
    /\ UNCHANGED <<held, log, todo, workFile, late, retouched>>

\* Mutant: delete() forgets to write the namespace.
DeleteProject_Mutation(p) ==
    /\ p \in DOMAIN kept
    /\ kept' = Drop(kept, p)
    /\ UNCHANGED <<held, log, todo, workFile, projFile, unsaved, late, retouched, durable>>

\* delete() of the dictionary of a project.
DeleteProject(p) ==
    /\ p \in DOMAIN kept
    /\ kept' = Drop(kept, p)
    /\ PersistProjects(kept', p)
    /\ UNCHANGED <<held, log, todo, workFile, late, retouched>>

\* The process ends, by shutdown() or by a crash between two operations, and
\* starts again: initialize() makes the directory and reads no file.
Restart ==
    /\ held' = << >> /\ kept' = << >>
    /\ log' = [c \in Contexts |-> << >>]
    /\ todo' = [c \in Contexts |-> << >>]
    /\ unsaved' = [ns \in Namespaces |-> Projects]
    /\ late' = [c \in Contexts |-> 0] /\ retouched' = {}
    /\ UNCHANGED <<workFile, projFile, durable>>

MemoryNext ==
    \/ \E c \in Contexts : SaveProject(c)
    \/ \E p \in Projects :
          \/ \E f \in Facts :
                AddDecision(p, f) \/ AddTask(p, f) \/ CompleteTask(p, f)
          \/ \E keys \in SUBSET Fields : StoreProjectContext(p, keys)
          \/ DeleteContext(p)
          \/ DeleteProject(p)
    \/ Restart

MemorySpec == MemoryInit /\ [][MemoryNext]_memoryVars

-----------------------------------------------------------------------------
(* Properties                                                              *)

\* A file that is not torn tells of every project what memory holds of it, or
\* that there is none, unless the project's entry was changed by an operation
\* whose own write failed (or that a process before this one made) and no write
\* of the namespace worked since: a failed write never costs another project,
\* and the next one that works brings everything up to date.  What is missing
\* of the lists are exactly the decisions added through an opened context
\* since, whose save_project() raised, and the tasks changed like that.
DiskFollowsMemory ==
    /\ \A image \in projFile : \A p \in Projects \ unsaved["projects"] :
          /\ p \in DOMAIN image <=> p \in DOMAIN kept
          /\ p \in DOMAIN kept => image[p] = kept[p]
    /\ \A image \in workFile : \A p \in Projects \ unsaved["work_memory"] :
          /\ p \in DOMAIN image <=> p \in DOMAIN held
          /\ p \in DOMAIN held =>
                LET c == held[p] IN
                  /\ image[p].log = SubSeq(log[c], 1, Len(log[c]) - late[c])
                  /\ c \notin retouched => image[p].todo = todo[c]

\* SRS.md promises a project context that persists across sessions: what was
\* written to the file, and never deleted, should be there after a restart.
ContextsSurvive == durable \subseteq DOMAIN kept

=============================================================================

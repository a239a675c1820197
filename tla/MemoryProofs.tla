---------------------------- MODULE MemoryProofs ----------------------------
(***************************************************************************)
(* Memory and CRM, for any set of projects, contexts and leads: the files  *)
(* follow the memory, and the sales pipeline implements PipelineBoard.     *)
(***************************************************************************)
EXTENDS Memory, CRM, TLAPS

-----------------------------------------------------------------------------
(* Memory                                                                  *)

\* The decisions that are late are decisions of the log.
LateOk == \A c \in Contexts : late[c] <= Len(log[c])

MemoryInv == MemoryTypeOK /\ LateOk /\ DiskFollowsMemory

\* A decision that is added and late leaves what is not late as it was.
LEMMA PunctualPart ==
    ASSUME NEW S, NEW s \in Seq(S), NEW x \in S, NEW n \in Nat, n <= Len(s)
    PROVE  SubSeq(Append(s, x), 1, Len(Append(s, x)) - (n + 1)) = SubSeq(s, 1, Len(s) - n)
  <1>1. Len(Append(s, x)) - (n + 1) = Len(s) - n
    OBVIOUS
  <1>2. \A i \in 1..(Len(s) - n) : Append(s, x)[i] = s[i]
    OBVIOUS
  <1> QED BY <1>1, <1>2

LEMMA WholeSequence ==
    ASSUME NEW S, NEW s \in Seq(S)
    PROVE  SubSeq(s, 1, Len(s) - 0) = s
  OBVIOUS

\* A sequence without its i-th element.
LEMMA RemoveAtType ==
    ASSUME NEW S, NEW s \in Seq(S), NEW i \in DOMAIN s
    PROVE  RemoveAt(s, i) \in Seq(S)
  <1>1. i \in 1..Len(s) /\ Len(s) \in Nat
    OBVIOUS
  <1>2. SubSeq(s, 1, i - 1) \in Seq(S)
    BY <1>1
  <1>3. SubSeq(s, i + 1, Len(s)) \in Seq(S)
    BY <1>1
  <1> QED BY <1>2, <1>3 DEF RemoveAt

\* What DiskFollowsMemory says of one image and one project.
ProjectsRight(image, p) ==
    /\ p \in DOMAIN image <=> p \in DOMAIN kept
    /\ p \in DOMAIN kept => image[p] = kept[p]

WorkRight(image, p) ==
    /\ p \in DOMAIN image <=> p \in DOMAIN held
    /\ p \in DOMAIN held =>
          LET c == held[p] IN
            /\ image[p].log = SubSeq(log[c], 1, Len(log[c]) - late[c])
            /\ c \notin retouched => image[p].todo = todo[c]

\* A write of work_memory.json, of the entry of p that changed, whether it works
\* or not: what it says of other projects does not change.
LEMMA PersistWorkFollows ==
    ASSUME MemoryInv, MemoryTypeOK', NEW p \in Projects, PersistWork(held', p),
           UNCHANGED <<log, todo, kept, projFile>>,
           \A q \in Projects \ {p} : /\ q \in DOMAIN held' <=> q \in DOMAIN held
                                     /\ q \in DOMAIN held => held'[q] = held[q]
    PROVE  LateOk' /\ DiskFollowsMemory'
  <1> USE DEF MemoryInv, MemoryTypeOK, Namespaces
  <1>1. unsaved'["projects"] = unsaved["projects"]
    BY DEF PersistWork
  <1>2. LateOk'
    BY DEF LateOk, PersistWork
  <1>3. \A image \in projFile' : \A q \in Projects \ unsaved'["projects"] :
          ProjectsRight(image, q)'
    BY <1>1 DEF DiskFollowsMemory, ProjectsRight
  <1>4. CASE /\ workFile' = {ListsOf(held')}
             /\ late' = [c \in Contexts |-> 0]
    <2> SUFFICES ASSUME NEW image \in workFile', NEW q \in Projects
                 PROVE  WorkRight(image, q)'
      BY <1>2, <1>3 DEF DiskFollowsMemory, ProjectsRight, WorkRight
    <2>1. image = ListsOf(held') /\ DOMAIN image = DOMAIN held'
      BY <1>4 DEF ListsOf
    <2>2. ASSUME q \in DOMAIN held'
          PROVE  /\ image[q] = [log |-> log[held'[q]], todo |-> todo[held'[q]]]
                 /\ log[held'[q]] \in Seq(Facts) /\ late'[held'[q]] = 0
      BY <1>4, <2>1, <2>2 DEF ListsOf
    <2>3. ASSUME q \in DOMAIN held'
          PROVE  SubSeq(log[held'[q]], 1, Len(log[held'[q]]) - late'[held'[q]]) = log[held'[q]]
      BY <2>2, <2>3, WholeSequence
    <2> QED BY <2>1, <2>2, <2>3 DEF WorkRight
  <1>5. CASE /\ workFile' \in {workFile, {}}
             /\ unsaved' = [unsaved EXCEPT !["work_memory"] = @ \cup {p}]
             /\ UNCHANGED <<late, retouched>>
    <2> SUFFICES ASSUME NEW image \in workFile',
                        NEW q \in Projects \ unsaved'["work_memory"]
                 PROVE  WorkRight(image, q)'
      BY <1>3, <1>2 DEF DiskFollowsMemory, ProjectsRight, WorkRight
    <2>1. image \in workFile /\ q \in Projects \ unsaved["work_memory"] /\ q # p
      BY <1>5
    <2>2. WorkRight(image, q)
      BY <2>1 DEF DiskFollowsMemory, WorkRight
    <2>3. /\ q \in DOMAIN held' <=> q \in DOMAIN held
          /\ q \in DOMAIN held => held'[q] = held[q]
      BY <2>1
    <2> QED BY <1>5, <2>2, <2>3 DEF WorkRight
  <1> QED BY <1>4, <1>5 DEF PersistWork

\* The same of projects.json.
LEMMA PersistProjectsFollows ==
    ASSUME MemoryInv, MemoryTypeOK', NEW p \in Projects, PersistProjects(kept', p),
           UNCHANGED <<held, log, todo, workFile, late, retouched>>,
           \A q \in Projects \ {p} : /\ q \in DOMAIN kept' <=> q \in DOMAIN kept
                                     /\ q \in DOMAIN kept => kept'[q] = kept[q]
    PROVE  LateOk' /\ DiskFollowsMemory'
  <1> USE DEF MemoryInv, MemoryTypeOK, Namespaces
  <1>1. unsaved'["work_memory"] = unsaved["work_memory"]
    BY DEF PersistProjects
  <1>2. \A image \in workFile' : \A q \in Projects \ unsaved'["work_memory"] :
          WorkRight(image, q)'
    BY <1>1 DEF DiskFollowsMemory, WorkRight
  <1>3. \A image \in projFile' : \A q \in Projects \ unsaved'["projects"] :
          ProjectsRight(image, q)'
    <2>1. CASE projFile' = {kept'}
      BY <2>1 DEF ProjectsRight
    <2>2. CASE /\ projFile' \in {projFile, {}}
               /\ unsaved' = [unsaved EXCEPT !["projects"] = @ \cup {p}]
      BY <2>2 DEF ProjectsRight, DiskFollowsMemory
    <2> QED BY <2>1, <2>2 DEF PersistProjects
  <1> QED BY <1>2, <1>3 DEF DiskFollowsMemory, ProjectsRight, WorkRight, LateOk

\* What work_memory.json holds are the lists of projects.
LEMMA ImageType ==
    ASSUME MemoryTypeOK, NEW p \in Projects, PersistWork(held', p),
           \A q \in DOMAIN held' : held'[q] \in Contexts
    PROVE  /\ \A image \in workFile' :
                image \in [DOMAIN image -> [log : Seq(Facts), todo : Seq(Facts)]]
           /\ unsaved' \in [Namespaces -> SUBSET Projects]
           /\ late' \in [Contexts -> Nat] /\ retouched' \subseteq Contexts
  <1> USE DEF MemoryTypeOK
  <1>1. ListsOf(held') \in [DOMAIN held' -> [log : Seq(Facts), todo : Seq(Facts)]]
    BY DEF ListsOf
  <1>2. DOMAIN ListsOf(held') = DOMAIN held'
    BY DEF ListsOf
  <1>3. \A image \in workFile' :
           image \in [DOMAIN image -> [log : Seq(Facts), todo : Seq(Facts)]]
    BY <1>1, <1>2 DEF PersistWork
  <1>4. unsaved' \in [Namespaces -> SUBSET Projects]
    BY DEF PersistWork, Namespaces
  <1>5. late' \in [Contexts -> Nat] /\ retouched' \subseteq Contexts
    BY DEF PersistWork
  <1> QED BY <1>3, <1>4, <1>5

\* What is noted of a write of projects.json.
LEMMA ProjectNotes ==
    ASSUME unsaved \in [Namespaces -> SUBSET Projects], NEW p \in Projects,
           PersistProjects(kept', p)
    PROVE  unsaved' \in [Namespaces -> SUBSET Projects]
  BY DEF PersistProjects, Namespaces

\* Every step keeps the types.
LEMMA MemoryTypeStep ==
    ASSUME MemoryTypeOK, [MemoryNext]_memoryVars
    PROVE  MemoryTypeOK'
  <1> USE MemoryAssumption DEF MemoryTypeOK
  <1>1. ASSUME NEW c \in Contexts, SaveProject(c) PROVE MemoryTypeOK'
    <2>1. NameOf[c] \in Projects
      OBVIOUS
    <2>2. /\ DOMAIN held' = DOMAIN held \cup {NameOf[c]}
          /\ \A p \in DOMAIN held' :
                held'[p] = IF p = NameOf[c] THEN c ELSE held[p]
      BY <1>1 DEF SaveProject, Entries
    <2>3. \A p \in DOMAIN held' : held'[p] \in Contexts /\ NameOf[held'[p]] = p
      BY <2>2
    <2>4. PersistWork(held', NameOf[c])
      BY <1>1 DEF SaveProject
    <2> QED BY <1>1, <2>1, <2>2, <2>3, <2>4, ImageType DEF SaveProject
  <1>2. ASSUME NEW p \in Projects, NEW f \in Facts,
               AddDecision(p, f) \/ AddTask(p, f) PROVE MemoryTypeOK'
    <2>1. held[p] \in Contexts
      BY <1>2 DEF Opened, AddDecision, AddTask
    <2>2. /\ Append(log[held[p]], f) \in Seq(Facts)
          /\ Append(todo[held[p]], f) \in Seq(Facts)
      BY <2>1
    <2>3. /\ log' \in [Contexts -> Seq(Facts)]
          /\ todo' \in [Contexts -> Seq(Facts)]
          /\ late' \in [Contexts -> Nat] /\ retouched' \subseteq Contexts
      <3>1. CASE AddDecision(p, f)
        BY <2>1, <2>2, <3>1 DEF Opened, AddDecision
      <3>2. CASE AddTask(p, f)
        BY <2>1, <2>2, <3>2 DEF Opened, AddTask
      <3> QED BY <1>2, <3>1, <3>2
    <2> QED BY <1>2, <2>3 DEF Opened, AddDecision, AddTask
  <1>3. ASSUME NEW p \in Projects, NEW f \in Facts, CompleteTask(p, f)
        PROVE MemoryTypeOK'
    <2>1. held[p] \in Contexts /\ todo[held[p]] \in Seq(Facts)
      BY <1>3 DEF Opened, CompleteTask
    <2>2. PICK i \in DOMAIN todo[held[p]] :
             todo' = [todo EXCEPT ![held[p]] = RemoveAt(@, i)]
      BY <1>3 DEF Opened, CompleteTask
    <2>3. RemoveAt(todo[held[p]], i) \in Seq(Facts)
      BY <2>1, RemoveAtType
    <2>4. todo' \in [Contexts -> Seq(Facts)]
      BY <2>1, <2>2, <2>3
    <2> QED BY <1>3, <2>1, <2>4 DEF Opened, CompleteTask
  <1>4. ASSUME NEW p \in Projects, DeleteContext(p) PROVE MemoryTypeOK'
    <2>1. /\ DOMAIN held' = DOMAIN held \ {p}
          /\ \A q \in DOMAIN held' : held'[q] = held[q]
      BY <1>4 DEF DeleteContext, Drop
    <2>2. \A q \in DOMAIN held' : held'[q] \in Contexts /\ NameOf[held'[q]] = q
      BY <2>1
    <2>3. PersistWork(held', p)
      BY <1>4 DEF DeleteContext
    <2> QED BY <1>4, <2>1, <2>2, <2>3, ImageType DEF DeleteContext
  <1>5. ASSUME NEW p \in Projects, NEW keys \in SUBSET Fields,
               StoreProjectContext(p, keys) PROVE MemoryTypeOK'
    <2>1. /\ DOMAIN kept' = DOMAIN kept \cup {p}
          /\ kept' \in [DOMAIN kept' -> SUBSET Fields]
      BY <1>5 DEF StoreProjectContext, Entries
    <2>2. PersistProjects(kept', p)
      BY <1>5 DEF StoreProjectContext
    <2>3. unsaved' \in [Namespaces -> SUBSET Projects]
      BY <2>2, ProjectNotes
    <2>4. durable' \subseteq Projects
      BY <2>1, <2>2 DEF PersistProjects
    <2> QED BY <1>5, <2>1, <2>3, <2>4 DEF StoreProjectContext
  <1>6. ASSUME NEW p \in Projects, DeleteProject(p) PROVE MemoryTypeOK'
    <2>1. /\ DOMAIN kept' = DOMAIN kept \ {p}
          /\ kept' \in [DOMAIN kept' -> SUBSET Fields]
      BY <1>6 DEF DeleteProject, Drop
    <2>2. unsaved' \in [Namespaces -> SUBSET Projects] /\ durable' \subseteq Projects
      BY <1>6, <2>1 DEF DeleteProject, PersistProjects
    <2> QED BY <1>6, <2>1, <2>2 DEF DeleteProject
  <1>7. CASE Restart
    BY <1>7 DEF Restart
  <1>8. CASE UNCHANGED memoryVars
    BY <1>8 DEF memoryVars
  <1> QED BY <1>1, <1>2, <1>3, <1>4, <1>5, <1>6, <1>7, <1>8 DEF MemoryNext

\* A decision is added to the list that an opened context shares, and comes late.
LEMMA DecisionStep ==
    ASSUME MemoryInv, NEW p \in Projects, NEW f \in Facts, AddDecision(p, f)
    PROVE  LateOk' /\ DiskFollowsMemory'
  <1> USE DEF MemoryInv, MemoryTypeOK
  <1> DEFINE c == held[p]
  <1>1. /\ p \in DOMAIN held /\ c \in Contexts /\ log[c] \in Seq(Facts)
        /\ log' = [log EXCEPT ![c] = Append(@, f)]
        /\ late' = [late EXCEPT ![c] = @ + 1]
        /\ UNCHANGED <<held, todo, kept, workFile, projFile, unsaved, retouched>>
    BY DEF Opened, AddDecision
  <1>2. late[c] \in Nat /\ late[c] <= Len(log[c])
    BY <1>1 DEF LateOk
  <1>3. LateOk'
    <2> SUFFICES ASSUME NEW d \in Contexts
                 PROVE  late'[d] <= Len(log'[d])
      BY DEF LateOk
    <2>1. CASE d = c
      BY <1>1, <1>2, <2>1
    <2>2. CASE d # c
      BY <1>1, <2>2 DEF LateOk
    <2> QED BY <2>1, <2>2
  <1>4. ASSUME NEW d \in Contexts
        PROVE  SubSeq(log'[d], 1, Len(log'[d]) - late'[d])
                 = SubSeq(log[d], 1, Len(log[d]) - late[d])
    <2>1. CASE d = c
      <3>1. log'[d] = Append(log[c], f) /\ late'[d] = late[c] + 1
        BY <1>1, <2>1
      <3> HIDE DEF c
      <3>2. SubSeq(Append(log[c], f), 1, Len(Append(log[c], f)) - (late[c] + 1))
              = SubSeq(log[c], 1, Len(log[c]) - late[c])
        BY <1>1, <1>2, PunctualPart
      <3> QED BY <2>1, <3>1, <3>2
    <2>2. CASE d # c
      BY <1>1, <2>2
    <2> QED BY <2>1, <2>2
  <1>5. ASSUME NEW image \in workFile, NEW q \in Projects \ unsaved["work_memory"]
        PROVE  WorkRight(image, q)'
    <2>1. WorkRight(image, q)
      BY DEF DiskFollowsMemory, WorkRight
    <2>2. q \in DOMAIN held => held[q] \in Contexts
      OBVIOUS
    <2> HIDE DEF c
    <2> QED BY <1>1, <1>4, <2>1, <2>2 DEF WorkRight
  <1> QED BY <1>1, <1>3, <1>5 DEF DiskFollowsMemory, WorkRight

\* The tasks of the list that an opened context shares.
LEMMA TaskStep ==
    ASSUME MemoryInv, NEW p \in Projects, NEW f \in Facts,
           AddTask(p, f) \/ CompleteTask(p, f)
    PROVE  LateOk' /\ DiskFollowsMemory'
  <1> USE DEF MemoryInv, MemoryTypeOK
  <1> DEFINE c == held[p]
  <1>1. /\ p \in DOMAIN held /\ c \in Contexts
        /\ \A d \in Contexts : d # c => todo'[d] = todo[d]
        /\ retouched' = retouched \cup {c}
        /\ UNCHANGED <<held, log, kept, workFile, projFile, unsaved, late>>
    BY DEF Opened, AddTask, CompleteTask
  <1>2. LateOk'
    BY <1>1 DEF LateOk
  <1>3. ASSUME NEW image \in workFile, NEW q \in Projects \ unsaved["work_memory"]
        PROVE  WorkRight(image, q)'
    <2>1. WorkRight(image, q)
      BY DEF DiskFollowsMemory, WorkRight
    <2>2. q \in DOMAIN held => held[q] \in Contexts
      OBVIOUS
    <2> QED BY <1>1, <2>1, <2>2 DEF WorkRight
  <1> QED BY <1>1, <1>2, <1>3 DEF DiskFollowsMemory, WorkRight

\* Every step keeps the invariant.
LEMMA MemoryStep ==
    ASSUME MemoryInv, [MemoryNext]_memoryVars
    PROVE  MemoryInv'
  <1> USE DEF MemoryInv
  <1>0. MemoryTypeOK'
    BY MemoryTypeStep
  <1>1. ASSUME NEW c \in Contexts, SaveProject(c) PROVE LateOk' /\ DiskFollowsMemory'
    <2>1. NameOf[c] \in Projects /\ PersistWork(held', NameOf[c])
      BY <1>1, MemoryAssumption DEF SaveProject
    <2>2. \A q \in Projects \ {NameOf[c]} : /\ q \in DOMAIN held' <=> q \in DOMAIN held
                                            /\ q \in DOMAIN held => held'[q] = held[q]
      BY <1>1 DEF SaveProject, Entries
    <2> QED BY <1>0, <1>1, <2>1, <2>2, PersistWorkFollows DEF SaveProject
  <1>2. ASSUME NEW p \in Projects, NEW f \in Facts,
               AddDecision(p, f) \/ AddTask(p, f) \/ CompleteTask(p, f)
        PROVE LateOk' /\ DiskFollowsMemory'
    BY <1>2, DecisionStep, TaskStep
  <1>3. ASSUME NEW p \in Projects, DeleteContext(p) PROVE LateOk' /\ DiskFollowsMemory'
    <2>1. \A q \in Projects \ {p} : /\ q \in DOMAIN held' <=> q \in DOMAIN held
                                    /\ q \in DOMAIN held => held'[q] = held[q]
      BY <1>3 DEF DeleteContext, Drop
    <2> QED BY <1>0, <1>3, <2>1, PersistWorkFollows DEF DeleteContext
  <1>4. ASSUME NEW p \in Projects, NEW keys \in SUBSET Fields,
               StoreProjectContext(p, keys) PROVE LateOk' /\ DiskFollowsMemory'
    <2>1. \A q \in Projects \ {p} : /\ q \in DOMAIN kept' <=> q \in DOMAIN kept
                                    /\ q \in DOMAIN kept => kept'[q] = kept[q]
      BY <1>4 DEF StoreProjectContext, Entries
    <2> QED BY <1>0, <1>4, <2>1, PersistProjectsFollows DEF StoreProjectContext
  <1>5. ASSUME NEW p \in Projects, DeleteProject(p) PROVE LateOk' /\ DiskFollowsMemory'
    <2>1. \A q \in Projects \ {p} : /\ q \in DOMAIN kept' <=> q \in DOMAIN kept
                                    /\ q \in DOMAIN kept => kept'[q] = kept[q]
      BY <1>5 DEF DeleteProject, Drop
    <2> QED BY <1>0, <1>5, <2>1, PersistProjectsFollows DEF DeleteProject
  <1>6. CASE Restart
    <2>1. unsaved'["work_memory"] = Projects /\ unsaved'["projects"] = Projects
      BY <1>6 DEF Restart, Namespaces
    <2>2. DiskFollowsMemory'
      BY <2>1 DEF DiskFollowsMemory
    <2>3. \A c \in Contexts : late'[c] = 0 /\ log'[c] = << >>
      BY <1>6 DEF Restart
    <2>4. LateOk'
      BY <2>3 DEF LateOk
    <2> QED BY <1>0, <2>2, <2>4
  <1>7. CASE UNCHANGED memoryVars
    <2>1. UNCHANGED <<held, log, todo, kept, workFile, projFile, unsaved, late, retouched>>
      BY <1>7 DEF memoryVars
    <2>2. LateOk'
      BY <2>1 DEF LateOk
    <2>3. DiskFollowsMemory'
      BY <2>1 DEF DiskFollowsMemory
    <2> QED BY <1>0, <2>2, <2>3
  <1>8. LateOk' /\ DiskFollowsMemory'
    BY <1>1, <1>2, <1>3, <1>4, <1>5, <1>6, <1>7 DEF MemoryNext
  <1> QED BY <1>0, <1>8

\* What an intact file says of a project is what memory holds of it, but for the
\* changes whose own write failed and those made through an opened context since.
THEOREM FilesFollow == MemorySpec => []DiskFollowsMemory
  <1>1. MemoryInit => MemoryInv
    BY DEF MemoryInit, MemoryInv, MemoryTypeOK, LateOk, DiskFollowsMemory
  <1>2. MemoryInv /\ [MemoryNext]_memoryVars => MemoryInv'
    BY MemoryStep
  <1>3. MemoryInv => DiskFollowsMemory
    BY DEF MemoryInv
  <1> QED BY <1>1, <1>2, <1>3, PTL DEF MemorySpec

-----------------------------------------------------------------------------
(* CRM                                                                     *)

\* What the refinement needs: the types, and that a lead which a
\* qualification hid is one that no qualification brings back.
CRMInv ==
    /\ CRMTypeOK
    /\ \A l \in DOMAIN status : status[l] = "contact" => ~Qualifies(known[l])

\* The operations on leads keep the invariant.
LEMMA LeadStep ==
    ASSUME CRMInv, NEW l \in Leads,
           \/ \E info \in SUBSET Info : CreateLead(l, info)
           \/ DeleteLead(l)
           \/ QualifyLead(l)
           \/ \E s \in Stages : MoveStage(l, s)
    PROVE  CRMInv'
  <1> USE CRMAssumption DEF CRMInv, CRMTypeOK, others
  <1>1. ASSUME NEW info \in SUBSET Info, CreateLead(l, info) PROVE CRMInv'
    <2>1. status' = Stored(status, l, "new") /\ known' = Stored(known, l, info)
      BY <1>1 DEF CreateLead
    <2>2. /\ DOMAIN status' = DOMAIN status \cup {l} /\ status'[l] = "new"
          /\ \A x \in DOMAIN status : x # l => status'[x] = status[x]
          /\ status' \in [DOMAIN status' -> Stages \cup {"contact"}]
      BY <2>1 DEF Stored, Deleted
    <2>3. /\ \A x \in DOMAIN status : x # l => known'[x] = known[x]
          /\ known' \in [DOMAIN status' -> SUBSET Info]
      <3>1. DOMAIN known = DOMAIN status
        OBVIOUS
      <3> QED BY <2>1, <2>2, <3>1 DEF Stored, Deleted
    <2>4. CRMTypeOK'
      BY <1>1, <2>2, <2>3 DEF CreateLead
    <2> QED BY <2>2, <2>3, <2>4
  <1>2. CASE DeleteLead(l)
    <2>1. status' = Deleted(status, l) /\ known' = Deleted(known, l)
      BY <1>2 DEF DeleteLead
    <2>2. /\ DOMAIN status' = DOMAIN status \ {l}
          /\ \A x \in DOMAIN status : x # l => status'[x] = status[x]
          /\ status' \in [DOMAIN status' -> Stages \cup {"contact"}]
      BY <2>1 DEF Stored, Deleted
    <2>3. /\ \A x \in DOMAIN status : x # l => known'[x] = known[x]
          /\ known' \in [DOMAIN status' -> SUBSET Info]
      <3>1. DOMAIN known = DOMAIN status
        OBVIOUS
      <3> QED BY <2>1, <2>2, <3>1 DEF Stored, Deleted
    <2>4. CRMTypeOK'
      BY <1>2, <2>2, <2>3 DEF DeleteLead
    <2> QED BY <2>2, <2>3, <2>4
  <1>3. CASE QualifyLead(l)
    <2> DEFINE v == IF Qualifies(known[l]) THEN "qualified" ELSE "contact"
    <2>1. status' = Stored(status, l, v) /\ l \in DOMAIN status
      BY <1>3 DEF QualifyLead
    <2>2. v \in Stages \cup {"contact"} /\ (v = "contact" => ~Qualifies(known[l]))
      OBVIOUS
    <2> HIDE DEF v
    <2>3. /\ DOMAIN status' = DOMAIN status /\ status'[l] = v
          /\ \A x \in DOMAIN status : x # l => status'[x] = status[x]
          /\ status' \in [DOMAIN status' -> Stages \cup {"contact"}]
      BY <2>1, <2>2 DEF Stored, Deleted
    <2>4. CRMTypeOK'
      BY <1>3, <2>3 DEF QualifyLead
    <2> QED BY <1>3, <2>2, <2>3, <2>4 DEF QualifyLead
  <1>4. ASSUME NEW s \in Stages, MoveStage(l, s) PROVE CRMInv'
    <2>1. status' = Stored(status, l, s) /\ entry' = Stored(entry, l, s)
          /\ l \in DOMAIN status
      BY <1>4 DEF MoveStage
    <2>2. /\ DOMAIN status' = DOMAIN status /\ status'[l] = s
          /\ \A x \in DOMAIN status : x # l => status'[x] = status[x]
          /\ status' \in [DOMAIN status' -> Stages \cup {"contact"}]
      BY <2>1 DEF Stored, Deleted
    <2>3. /\ DOMAIN entry' = DOMAIN entry \cup {l}
          /\ entry' \in [DOMAIN entry' -> Stages]
      BY <2>1 DEF Stored, Deleted
    <2>4. CRMTypeOK'
      BY <1>4, <2>1, <2>2, <2>3 DEF MoveStage
    <2> QED BY <1>4, <2>2, <2>4 DEF MoveStage
  <1> QED BY <1>1, <1>2, <1>3, <1>4

\* The other operations touch neither leads nor pipeline.
Elsewhere ==
    \/ \E k \in FollowUps : ScheduleFollowUp(k) \/ MarkDone(k)
    \/ \E c \in Companies :
          \/ CreateWorkspace(c)
          \/ \E list \in {"notes", "tasks"} : AddItem(c, list)
          \/ EnrichLead(c)
    \/ \E e \in Events : CreateEvent(e) \/ DeleteEvent(e)
    \/ \E answer \in Answers : SearchBusinesses(answer)

LEMMA ElsewhereStep ==
    ASSUME CRMInv, Elsewhere
    PROVE  /\ CRMInv'
           /\ UNCHANGED <<status, known, entry>>
           /\ born' \cap Leads = born \cap Leads
  <1> USE CRMAssumption DEF CRMInv, CRMTypeOK
  <1>1. ASSUME NEW k \in FollowUps, ScheduleFollowUp(k) \/ MarkDone(k)
        PROVE  CRMInv' /\ UNCHANGED <<status, known, entry, born>>
    <2>1. \E v \in {"pending", "completed"} : followUp' = Stored(followUp, k, v)
      BY <1>1 DEF ScheduleFollowUp, MarkDone
    <2>2. /\ DOMAIN followUp' \subseteq FollowUps
          /\ followUp' \in [DOMAIN followUp' -> {"pending", "completed"}]
      BY <2>1 DEF Stored, Deleted
    <2> QED BY <1>1, <2>2 DEF ScheduleFollowUp, MarkDone
  <1>2. ASSUME NEW c \in Companies, CreateWorkspace(c)
        PROVE  CRMInv' /\ UNCHANGED <<status, known, entry, born>>
    <2>1. workspace' = Stored(workspace, c, [notes |-> 0, tasks |-> 0])
      BY <1>2 DEF CreateWorkspace
    <2>2. /\ DOMAIN workspace' \subseteq Companies
          /\ workspace' \in [DOMAIN workspace' -> [notes : Nat, tasks : Nat]]
      BY <2>1 DEF Stored, Deleted
    <2> QED BY <1>2, <2>2 DEF CreateWorkspace
  <1>3. ASSUME NEW c \in Companies, NEW list \in {"notes", "tasks"}, AddItem(c, list)
        PROVE  CRMInv' /\ UNCHANGED <<status, known, entry, born>>
    <2>1. /\ DOMAIN workspace' \subseteq Companies
          /\ workspace' \in [DOMAIN workspace' -> [notes : Nat, tasks : Nat]]
      BY <1>3 DEF AddItem
    <2> QED BY <1>3, <2>1 DEF AddItem
  <1>4. ASSUME NEW c \in Companies, EnrichLead(c)
        PROVE  CRMInv' /\ UNCHANGED <<status, known, entry, born>>
    BY <1>4 DEF EnrichLead
  <1>5. ASSUME NEW e \in Events, CreateEvent(e) \/ DeleteEvent(e)
        PROVE  /\ CRMInv' /\ UNCHANGED <<status, known, entry>>
               /\ born' \cap Leads = born \cap Leads
    BY <1>5 DEF CreateEvent, DeleteEvent
  <1>6. ASSUME NEW answer \in Answers, SearchBusinesses(answer)
        PROVE  CRMInv' /\ UNCHANGED <<status, known, entry, born>>
    <2>1. PICK n \in 0..2 : answer \in [1..n -> Companies \cup {"no object"}]
      BY <1>6 DEF Answers, SeqOf
    <2>2. generated' \subseteq Companies
      <3> SUFFICES ASSUME NEW i \in DOMAIN answer,
                          \A m \in 1..i : answer[m] \in Companies
                   PROVE  answer[i] \in Companies
        BY <1>6 DEF SearchBusinesses
      <3>1. DOMAIN answer = 1..n
        BY <2>1
      <3>2. i \in 1..i
        BY <3>1
      <3> QED BY <3>2
    <2> QED BY <1>6, <2>2 DEF SearchBusinesses
  <1> QED BY <1>1, <1>2, <1>3, <1>4, <1>5, <1>6 DEF Elsewhere

\* The invariant of the CRM holds.
THEOREM CRMInvariance == CRMSpec => []CRMInv
  <1>1. CRMInit => CRMInv
    BY DEF CRMInit, CRMInv, CRMTypeOK
  <1>2. CRMInv /\ [CRMNext]_crmVars => CRMInv'
    <2> SUFFICES ASSUME CRMInv, [CRMNext]_crmVars PROVE CRMInv'
      OBVIOUS
    <2>1. CASE RestartCRM
      BY <2>1 DEF RestartCRM, CRMInv, CRMTypeOK
    <2>2. CASE UNCHANGED crmVars
      BY <2>2 DEF crmVars, CRMInv, CRMTypeOK
    <2> QED BY <2>1, <2>2, LeadStep, ElsewhereStep DEF CRMNext, LeadGenNext, Elsewhere
  <1> QED BY <1>1, <1>2, PTL DEF CRMSpec

\* Every step of the CRM moves the board as PipelineBoard allows, or not at all.
LEMMA BoardStep ==
    ASSUME CRMInv, CRMInv', [CRMNext]_crmVars
    PROVE  [Board!Next]_(Board!vars)
  <1> USE CRMAssumption DEF CRMInv, CRMTypeOK
  <1> DEFINE seen == [x \in Leads |-> Shown(x)]
             life == [x \in Leads |-> LifeOf(x)]
  <1>1. ASSUME NEW l \in Leads, NEW info \in SUBSET Info, CreateLead(l, info)
        PROVE  Board!Birth(l)
    <2>1. \A x \in Leads : LifeOf(x)' = IF x = l THEN "alive" ELSE LifeOf(x)
      BY <1>1 DEF CreateLead, LifeOf, Stored
    <2>2. \A x \in Leads : Shown(x)' = Shown(x)
      BY <1>1 DEF CreateLead, Shown, Stored
    <2>3. LifeOf(l) = "unborn"
      BY <1>1 DEF CreateLead, LifeOf
    <2> QED BY <2>1, <2>2, <2>3 DEF Board!Birth
  <1>2. ASSUME NEW l \in Leads, DeleteLead(l)
        PROVE  life[l] = "alive" /\ Board!Lose({l})
    <2>1. \A x \in Leads : LifeOf(x)' = IF x = l THEN "gone" ELSE LifeOf(x)
      BY <1>2 DEF DeleteLead, LifeOf, Deleted
    <2>2. \A x \in Leads : Shown(x)' = IF x = l THEN "off" ELSE Shown(x)
      BY <1>2 DEF DeleteLead, Shown, Deleted, others
    <2>3. LifeOf(l) = "alive"
      BY <1>2 DEF DeleteLead, LifeOf
    <2> QED BY <2>1, <2>2, <2>3 DEF Board!Lose
  <1>3. ASSUME NEW l \in Leads, QualifyLead(l)
        PROVE  Board!Qualify(l) \/ UNCHANGED <<life, seen>>
    <2>1. \A x \in Leads : LifeOf(x)' = LifeOf(x)
      BY <1>3 DEF QualifyLead, LifeOf, Stored
    <2>2. \A x \in Leads : x # l => Shown(x)' = Shown(x)
      BY <1>3 DEF QualifyLead, Shown, Stored, others
    <2>3. CASE Shown(l) \in Stages
      <3>1. Shown(l)' \in {"qualified", "off"}
        BY <1>3 DEF QualifyLead, Shown, Stored, others
      <3> QED BY <2>1, <2>2, <2>3, <3>1 DEF Board!Qualify
    <2>4. CASE Shown(l) \notin Stages
      <3>1. Shown(l)' = Shown(l)
        BY <1>3, <2>4 DEF QualifyLead, Shown, Stored, others
      <3> QED BY <2>1, <2>2, <3>1
    <2> QED BY <2>3, <2>4
  <1>4. ASSUME NEW l \in Leads, NEW s \in Stages, MoveStage(l, s)
        PROVE  Board!Move(l, s)
    <2>1. \A x \in Leads : LifeOf(x)' = LifeOf(x)
      BY <1>4 DEF MoveStage, LifeOf, Stored
    <2>2. \A x \in Leads : Shown(x)' = IF x = l THEN s ELSE Shown(x)
      BY <1>4 DEF MoveStage, Shown, Stored
    <2>3. LifeOf(l) = "alive"
      BY <1>4 DEF MoveStage, LifeOf
    <2> QED BY <2>1, <2>2, <2>3 DEF Board!Move
  <1>5. CASE RestartCRM
    <2>1. \A x \in Leads :
             LifeOf(x)' = IF LifeOf(x) = "alive" THEN "gone" ELSE LifeOf(x)
      BY <1>5 DEF RestartCRM, LifeOf
    <2>2. \A x \in Leads :
             Shown(x)' = IF LifeOf(x) = "alive" THEN "off" ELSE Shown(x)
      BY <1>5 DEF RestartCRM, LifeOf, Shown
    <2>3. Board!Lose({x \in Leads : life[x] = "alive"})
      BY <2>1, <2>2 DEF Board!Lose
    <2> QED BY <2>3 DEF Board!Next
  <1>6. CASE Elsewhere \/ UNCHANGED crmVars
    <2>1. UNCHANGED <<status, known, entry>> /\ born' \cap Leads = born \cap Leads
      BY <1>6, ElsewhereStep DEF crmVars
    <2>2. \A x \in Leads : Shown(x)' = Shown(x) /\ LifeOf(x)' = LifeOf(x)
      BY <2>1 DEF Shown, LifeOf
    <2> QED BY <2>2 DEF Board!vars
  <1>7. CASE \E l \in Leads :
               \/ \E info \in SUBSET Info : CreateLead(l, info)
               \/ DeleteLead(l)
               \/ QualifyLead(l)
               \/ \E s \in Stages : MoveStage(l, s)
    BY <1>1, <1>2, <1>3, <1>4, <1>7 DEF Board!Next, Board!vars
  <1> QED BY <1>5, <1>6, <1>7 DEF CRMNext, LeadGenNext, Elsewhere

\* The pipeline is the board it promises to be.
THEOREM PipelineIsBoard == CRMSpec => ImplementsBoard
  <1>1. CRMInit => Board!Init
    BY DEF CRMInit, Board!Init, Shown, LifeOf
  <1>2. CRMInv /\ CRMInv' /\ [CRMNext]_crmVars => [Board!Next]_(Board!vars)
    BY BoardStep
  <1> QED BY <1>1, <1>2, CRMInvariance, PTL DEF CRMSpec, ImplementsBoard, Board!Spec

\* A lead that was deleted, or lost at a restart, never comes back, and no
\* call that comes late for it (a move, a qualification) puts it on the board:
\* what the board promises holds of the two namespaces it is made of.
GoneForGood ==
    [][\A l \in Leads : LifeOf(l) = "gone" =>
          LifeOf(l)' = "gone" /\ Shown(l)' = "off"]_crmVars

LEMMA BoardKeepsGone ==
    ASSUME CRMInv, CRMInv', [Board!Next]_(Board!vars),
           NEW l \in Leads, LifeOf(l) = "gone"
    PROVE  LifeOf(l)' = "gone"
  <1> DEFINE seen == [x \in Leads |-> Shown(x)]
             life == [x \in Leads |-> LifeOf(x)]
  <1>1. life[l] = "gone" /\ seen[l] = "off"
    BY CRMAssumption DEF LifeOf, Shown
  <1>2. "off" \notin Stages
    BY CRMAssumption DEF CRMAssumption
  <1>3. life'[l] = "gone"
    <2>1. ASSUME NEW x \in Leads, Board!Birth(x) PROVE life'[l] = "gone"
      BY <1>1, <2>1 DEF Board!Birth
    <2>2. ASSUME NEW x \in Leads, NEW s \in Stages, Board!Move(x, s) PROVE life'[l] = "gone"
      BY <1>1, <2>2 DEF Board!Move
    <2>3. ASSUME NEW x \in Leads, Board!Qualify(x) PROVE life'[l] = "gone"
      BY <1>1, <2>3 DEF Board!Qualify
    <2>4. ASSUME NEW S, Board!Lose(S) PROVE life'[l] = "gone"
      BY <1>1, <2>4 DEF Board!Lose
    <2>5. CASE UNCHANGED Board!vars
      BY <1>1, <2>5 DEF Board!vars
    <2> QED BY <2>1, <2>2, <2>3, <2>4, <2>5 DEF Board!Next
  <1> QED BY <1>3

\* What is deleted from the CRM, or lost with the process, is off the board for
\* good, through the refinement: PipelineBoard has no step that leads back.
THEOREM LeadsGoForGood == CRMSpec => GoneForGood
  <1>1. CRMInv /\ CRMInv' /\ [CRMNext]_crmVars =>
          [\A l \in Leads : LifeOf(l) = "gone" =>
              LifeOf(l)' = "gone" /\ Shown(l)' = "off"]_crmVars
    <2> SUFFICES ASSUME CRMInv, CRMInv', [CRMNext]_crmVars,
                        NEW l \in Leads, LifeOf(l) = "gone"
                 PROVE  LifeOf(l)' = "gone" /\ Shown(l)' = "off"
      OBVIOUS
    <2>1. LifeOf(l)' = "gone"
      BY BoardStep, BoardKeepsGone
    <2>2. Shown(l)' = "off"
      BY <2>1 DEF LifeOf, Shown
    <2> QED BY <2>1, <2>2
  <1> QED BY <1>1, CRMInvariance, PTL DEF CRMSpec, GoneForGood
=============================================================================

----------------------------- MODULE ProbeProofs -----------------------------
(*****************************************************************************)
(* Proofs about the rules in the kernel tables and the programs that look    *)
(* them up (KernelTable, RuleLookup), about the table of the agent's own     *)
(* processes (AgentTree) and about the connection statistics (TcpProbe):     *)
(* for all tables, pids, processors, processes, addresses and capacities.    *)
(*****************************************************************************)
EXTENDS RuleLookup, AgentTree, TcpProbe, FiniteSetTheorems, TLAPS

-----------------------------------------------------------------------------
(*****************************************************************************)
(* The kernel tables, for both strategies.  While entries are deleted the    *)
(* loop still has to visit exactly what is in the table; while they are      *)
(* written, the table and the rest of the list make up the list.  For the    *)
(* tracking strategy both rest on the record being the table between the     *)
(* updates.                                                                  *)
(*****************************************************************************)

CInv ==
  /\ entries \subseteq Entries
  /\ want \in Lists
  /\ pc \in {"idle", "delete", "put"}
  /\ last \subseteq Entries
  /\ tracked \in BOOLEAN /\ failed \in BOOLEAN
  /\ tracked /\ ~failed /\ pc = "idle" => entries = last
  /\ Sound /\ pc = "delete" => todo = entries
  /\ Sound /\ pc = "put" => entries \subseteq want /\ todo = want \ entries

\* The invariant of an update.
LEMMA Inductive == Spec => []CInv
<1>1. Init => CInv
  <2> SUFFICES ASSUME Init PROVE CInv
    OBVIOUS
  <2>1. Fits({})
    <3> SUFFICES ASSUME NEW t \in Tables PROVE Cardinality(In({}, t)) <= Capacity
      BY DEF Fits
    <3>1. In({}, t) = {}
      BY DEF In
    <3> QED BY <3>1, FS_EmptySet, BoundsAssumption
  <2> QED BY <2>1 DEF Init, CInv, Lists, Sound
<1>2. CInv /\ [Next]_vars => CInv'
  <2> SUFFICES ASSUME CInv, [Next]_vars PROVE CInv'
    OBVIOUS
  <2> USE DEF CInv, Sound
  <2>1. ASSUME NEW list \in Lists, Begin(list) PROVE CInv'
    BY <2>1 DEF Begin
  <2>2. ASSUME NEW e \in Entries, DeleteEntry(e) PROVE CInv'
    BY <2>2 DEF DeleteEntry
  <2>3. ASSUME NEW e \in Entries, PutEntry(e) PROVE CInv'
    BY <2>3 DEF PutEntry
  <2>4. ASSUME NEW e \in Entries, PutFails(e) PROVE CInv'
    BY <2>4 DEF PutFails
  <2>5. CASE IterationFails BY <2>5 DEF IterationFails
  <2>6. CASE StartWriting
    <3>1. Sound => entries = {}
      BY <2>6 DEF StartWriting
    <3>2. Sound => todo' = want' \ entries' /\ entries' \subseteq want'
      BY <2>6, <3>1 DEF StartWriting
    <3>3. pc' = "put" /\ UNCHANGED <<tracked, entries, last, want, failed>>
      BY <2>6 DEF StartWriting
    <3>4. /\ entries' \subseteq Entries /\ last' \subseteq Entries
          /\ want' \in Lists /\ tracked' \in BOOLEAN /\ failed' \in BOOLEAN
      BY <3>3
    <3>5. Sound' => Sound
      BY <3>3
    <3> QED BY <3>2, <3>3, <3>4, <3>5
  <2>7. CASE Finish
    <3>1. Sound => entries = want
      BY <2>7 DEF Finish
    <3>2. want \subseteq Entries
      BY DEF Lists
    <3>3. last' = want /\ pc' = "idle" /\ UNCHANGED <<tracked, entries, want, failed>>
      BY <2>7 DEF Finish
    <3> QED BY <3>1, <3>2, <3>3
  <2>8. CASE Reattach BY <2>8 DEF Reattach
  <2>9. CASE UNCHANGED vars BY <2>9 DEF vars
  <2> QED
    BY <2>1, <2>2, <2>3, <2>4, <2>5, <2>6, <2>7, <2>8, <2>9 DEF Next
<1> QED BY <1>1, <1>2, PTL DEF Spec

\* An update that reports success leaves exactly its argument in the kernel: if
\* it clears the table after any history of failed updates, if it tracks its
\* keys as long as none has failed.
THEOREM ExactCorrect == Spec => UpdateIsExact
<1>1. CInv /\ [Next]_vars => [Finish /\ Sound => entries = want]_vars
  BY DEF CInv, Finish
<1> QED BY <1>1, Inductive, PTL DEF Spec, UpdateIsExact

\* ... and a list that passed the validation never meets a full table.
THEOREM FitsCorrect == Spec => []ValidListFits
<1>1. CInv => ValidListFits
  <2> SUFFICES ASSUME CInv, pc = "put", Sound, NEW e \in todo, e \notin entries
               PROVE  Cardinality(In(entries, e[1])) < Capacity
    BY DEF ValidListFits, Room
  <2> DEFINE t == e[1]
  <2>1. /\ e \in Entries /\ t \in Tables
        /\ entries \subseteq want /\ e \in want /\ want \subseteq Entries
    BY DEF CInv, Lists, Entries
  <2>2. IsFiniteSet(In(want, t))
    <3>1. In(want, t) \subseteq Entries
      BY <2>1 DEF In
    <3> QED BY <3>1, FiniteAssumption, FS_Subset
  <2>3. In(entries, t) \subseteq In(want, t) \ {e}
    BY <2>1 DEF In
  <2>4. e \in In(want, t)
    BY <2>1 DEF In
  <2>5. /\ IsFiniteSet(In(want, t) \ {e})
        /\ Cardinality(In(want, t) \ {e}) = Cardinality(In(want, t)) - 1
    BY <2>2, <2>4, FS_RemoveElement
  <2>6. Cardinality(In(entries, t)) <= Cardinality(In(want, t)) - 1
    BY <2>3, <2>5, FS_Subset
  <2>7. Cardinality(In(want, t)) <= Capacity
    BY <2>1 DEF CInv, Lists, Fits
  <2>8. /\ Cardinality(In(want, t)) \in Nat
        /\ Cardinality(In(entries, t)) \in Nat
    BY <2>2, <2>3, <2>5, FS_Subset, FS_CardinalityType
  <2> QED BY <2>6, <2>7, <2>8, BoundsAssumption
<1> QED BY <1>1, Inductive, PTL

-----------------------------------------------------------------------------
(* The programs that look the rules up. *)

\* What is in the kernel while an update runs: of the list before it as long as
\* it deletes, of its own as soon as it writes.
KInv ==
  /\ ~failed /\ pc = "idle" => entries = last
  /\ ~failed /\ pc = "delete" => entries \subseteq last
  /\ ~failed /\ pc = "put" => entries \subseteq want
  /\ pc = "put" => todo \subseteq want

LEMMA KStep == CInv /\ KInv /\ [Next]_vars => KInv'
<1> SUFFICES ASSUME CInv, KInv, [Next]_vars PROVE KInv'
  OBVIOUS
<1> USE DEF CInv, KInv, Sound
<1>1. ASSUME NEW list \in Lists, Begin(list) PROVE KInv'
  BY <1>1 DEF Begin
<1>2. ASSUME NEW e \in Entries, DeleteEntry(e) PROVE KInv'
  BY <1>2 DEF DeleteEntry
<1>3. ASSUME NEW e \in Entries, PutEntry(e) PROVE KInv'
  BY <1>3 DEF PutEntry
<1>4. ASSUME NEW e \in Entries, PutFails(e) PROVE KInv'
  BY <1>4 DEF PutFails
<1>5. CASE IterationFails BY <1>5 DEF IterationFails
<1>6. CASE StartWriting
  <2>1. ~failed => entries = {}
    BY <1>6 DEF StartWriting
  <2> QED BY <1>6, <2>1 DEF StartWriting
<1>7. CASE Finish
  <2>1. ~failed => entries = want
    BY <1>7 DEF Finish
  <2> QED BY <1>7, <2>1 DEF Finish
<1>8. CASE Reattach BY <1>8 DEF Reattach
<1>9. CASE UNCHANGED vars BY <1>9 DEF vars
<1> QED
  BY <1>1, <1>2, <1>3, <1>4, <1>5, <1>6, <1>7, <1>8, <1>9 DEF Next

LookupTypes ==
  /\ lookup \in [subject : Subjects \cup {"nothing"}, left : SUBSET Tables, answer : Answers]
  /\ quiet \in BOOLEAN
  /\ lookup # NoLookup => lookup.subject \in Subjects

\* A lookup under way finds in the kernel only what is in force, and if nothing
\* has disturbed it, it has looked through the tables that are not left.
Grounded ==
  lookup # NoLookup =>
    /\ entries \subseteq inForce /\ want \subseteq inForce
    /\ lookup.answer = "hit" => Matches(lookup.subject, inForce)
    /\ quiet =>
         /\ pc = "idle" /\ ~failed
         /\ lookup.answer = "none" =>
              \A t \in Tables \ lookup.left : ~Matches(lookup.subject, In(entries, t))
         /\ lookup.answer = "miss" =>
              \A t \in Tables : ~Matches(lookup.subject, In(entries, t))
         /\ lookup.answer = "hit" => Matches(lookup.subject, entries)

LInv == KInv /\ LookupTypes /\ Grounded

LEMMA PartMatches ==
  ASSUME CInv, NEW s
  PROVE  /\ \A t \in Tables : Matches(s, In(entries, t)) => Matches(s, entries)
         /\ Matches(s, entries) => \E t \in Tables : Matches(s, In(entries, t))
BY DEF CInv, Matches, In, Entries

LEMMA LookupStep ==
  ASSUME CInv, LInv, UNCHANGED vars, NEW s \in Subjects, LookupStart(s)
  PROVE  LInv'
<1>1. KInv'
  BY DEF LInv, KInv, vars
<1>2. /\ lookup' = [subject |-> s, left |-> Tables, answer |-> "none"]
      /\ inForce' = last \cup want \cup (IF failed THEN entries ELSE {})
      /\ quiet' = (pc = "idle" /\ ~failed)
      /\ entries' = entries /\ want' = want /\ pc' = pc /\ failed' = failed
  BY DEF LookupStart, vars
<1>3. LookupTypes'
  BY <1>2 DEF LookupTypes, Answers
<1>4. entries \subseteq last \cup want \cup (IF failed THEN entries ELSE {})
  BY DEF LInv, KInv, CInv
<1>5. Grounded'
  BY <1>2, <1>4 DEF Grounded
<1> QED BY <1>1, <1>3, <1>5 DEF LInv

LEMMA AskStep ==
  ASSUME CInv, LInv, UNCHANGED vars, NEW t \in Tables, LookupTable(t)
  PROVE  LInv'
<1> DEFINE found == Matches(lookup.subject, In(entries, t))
<1>1. KInv'
  BY DEF LInv, KInv, vars
<1>2. /\ lookup.answer = "none" /\ t \in lookup.left
      /\ lookup' = [lookup EXCEPT !.left = lookup.left \ {t},
                                  !.answer = IF found THEN "hit"
                                             ELSE IF lookup.left = {t} THEN "miss"
                                             ELSE "none"]
      /\ inForce' = inForce /\ quiet' = quiet
      /\ entries' = entries /\ want' = want /\ pc' = pc /\ failed' = failed
  BY DEF LookupTable, Ask, vars
<1>3. lookup # NoLookup
  BY <1>2 DEF NoLookup
<1>4. /\ lookup'.subject = lookup.subject /\ lookup'.left = lookup.left \ {t}
      /\ lookup'.answer = IF found THEN "hit" ELSE IF lookup.left = {t} THEN "miss" ELSE "none"
      /\ lookup.subject \in Subjects /\ lookup.left \subseteq Tables
  BY <1>2, <1>3 DEF LInv, LookupTypes
<1>5. LookupTypes'
  BY <1>2, <1>4 DEF LInv, LookupTypes, Answers
<1>6. found => Matches(lookup.subject, entries) /\ Matches(lookup.subject, inForce)
  BY <1>3 DEF LInv, Grounded, Matches, In
<1>7. quiet /\ ~found =>
        \A u \in Tables \ (lookup.left \ {t}) : ~Matches(lookup.subject, In(entries, u))
  BY <1>2, <1>3 DEF LInv, Grounded
<1>8. Matches(lookup.subject, inForce)' <=> Matches(lookup.subject, inForce)
  BY <1>2, <1>4 DEF Matches
<1>9. Matches(lookup.subject, entries)' <=> Matches(lookup.subject, entries)
  BY <1>2, <1>4 DEF Matches
<1>10. \A u : Matches(lookup.subject, In(entries, u))' <=> Matches(lookup.subject, In(entries, u))
  BY <1>2, <1>4 DEF Matches, In
<1> HIDE DEF found
<1>11. Grounded'
  BY <1>2, <1>3, <1>4, <1>6, <1>7, <1>8, <1>9, <1>10 DEF LInv, Grounded
<1> QED BY <1>1, <1>5, <1>11 DEF LInv

LEMMA EndStep == ASSUME CInv, LInv, UNCHANGED vars, LookupEnd PROVE LInv'
<1>1. KInv'
  BY DEF LInv, KInv, vars
<1>2. lookup' = NoLookup /\ quiet' = TRUE
  BY DEF LookupEnd
<1>3. LookupTypes' /\ Grounded'
  BY <1>2 DEF LookupTypes, Grounded, NoLookup, Answers
<1> QED BY <1>1, <1>3 DEF LInv

\* A step of an update, observed by a lookup: what it wants is in force from
\* now on, and what it writes is what it wants.
LEMMA ObserveStep == ASSUME CInv, LInv, Next, Observe PROVE LInv'
<1>1. KInv'
  BY KStep DEF LInv
<1>2. lookup' = lookup /\ inForce' = (IF lookup = NoLookup THEN {} ELSE inForce \cup want')
      /\ quiet' = (lookup = NoLookup)
  BY DEF Observe
<1>3. LookupTypes'
  BY <1>2 DEF LInv, LookupTypes
<1>4. entries' \subseteq entries \cup want
  <2>1. ASSUME NEW e \in Entries, PutEntry(e) PROVE entries' \subseteq entries \cup want
    BY <2>1 DEF PutEntry, LInv, KInv
  <2>2. ASSUME NEW e \in Entries, DeleteEntry(e) \/ PutFails(e)
        PROVE  entries' \subseteq entries \cup want
    BY <2>2 DEF DeleteEntry, PutFails
  <2>3. ASSUME NEW list \in Lists, Begin(list) PROVE entries' \subseteq entries \cup want
    BY <2>3 DEF Begin
  <2>4. CASE IterationFails \/ StartWriting \/ Finish \/ Reattach
    BY <2>4 DEF IterationFails, StartWriting, Finish, Reattach
  <2> QED BY <2>1, <2>2, <2>3, <2>4 DEF Next
<1>5. lookup.answer = "hit" /\ lookup # NoLookup => Matches(lookup.subject, inForce')
  BY <1>2 DEF LInv, Grounded, Matches
<1>6. Grounded'
  <2> SUFFICES ASSUME lookup # NoLookup
               PROVE  /\ entries' \subseteq inForce' /\ want' \subseteq inForce'
                      /\ lookup.answer = "hit" => Matches(lookup.subject, inForce')
                      /\ ~quiet'
    BY <1>2 DEF Grounded, Matches
  <2> QED BY <1>2, <1>4, <1>5 DEF LInv, Grounded
<1> QED BY <1>1, <1>3, <1>6 DEF LInv

LEMMA LookupInductive == LookupSpec => [](CInv /\ LInv)
<1>1. Init /\ LookupInit => LInv
  BY DEF Init, LookupInit, LInv, KInv, LookupTypes, Grounded, NoLookup, Answers
<1>2. CInv /\ LInv /\ [LookupNext]_<<vars, lookupVars>> => LInv'
  <2> SUFFICES ASSUME CInv, LInv, [LookupNext]_<<vars, lookupVars>> PROVE LInv'
    OBVIOUS
  <2>1. CASE Next /\ Observe
    BY <2>1, ObserveStep
  <2>2. ASSUME UNCHANGED vars, NEW s \in Subjects, LookupStart(s) PROVE LInv'
    BY <2>2, LookupStep
  <2>3. ASSUME UNCHANGED vars, NEW t \in Tables, LookupTable(t) PROVE LInv'
    BY <2>3, AskStep
  <2>4. ASSUME UNCHANGED vars, LookupEnd PROVE LInv'
    BY <2>4, EndStep
  <2>5. CASE UNCHANGED <<vars, lookupVars>>
    <3>1. KInv'
      BY <2>5 DEF LInv, KInv, vars
    <3>2. /\ lookup' = lookup /\ inForce' = inForce /\ quiet' = quiet /\ entries' = entries
          /\ want' = want /\ pc' = pc /\ failed' = failed
      BY <2>5 DEF vars, lookupVars
    <3>3. LookupTypes' /\ Grounded'
      BY <3>2 DEF LInv, LookupTypes, Grounded, Matches, In
    <3> QED BY <3>1, <3>3 DEF LInv
  <2> QED BY <2>1, <2>2, <2>3, <2>4, <2>5 DEF LookupNext
<1>3. LookupSpec => Spec
  <2>1. [LookupNext]_<<vars, lookupVars>> => [Next]_vars
    BY DEF LookupNext, vars, lookupVars
  <2> QED BY <2>1, PTL DEF LookupSpec, Spec
<1> QED BY <1>1, <1>2, <1>3, Inductive, PTL DEF LookupSpec

\* A program never acts on a rule that is in no list, and without an update it
\* acts exactly by the list.
THEOREM LookupCorrect == LookupSpec => []AnswerIsGrounded
<1>1. CInv /\ LInv => AnswerIsGrounded
  <2> SUFFICES ASSUME CInv, LInv, lookup.answer # "none"
               PROVE  /\ lookup.answer = "hit" => Matches(lookup.subject, inForce)
                      /\ quiet => (lookup.answer = "hit" <=> Matches(lookup.subject, last))
    BY DEF AnswerIsGrounded
  <2>1. lookup # NoLookup
    BY DEF NoLookup
  <2>2. quiet => entries = last
    BY <2>1 DEF LInv, Grounded, KInv
  <2>3. lookup.answer \in {"hit", "miss"}
    BY DEF LInv, LookupTypes, Answers
  <2>4. quiet => (lookup.answer = "hit" <=> Matches(lookup.subject, entries))
    BY <2>1, <2>3, PartMatches DEF LInv, Grounded
  <2> QED BY <2>1, <2>2, <2>4 DEF LInv, Grounded
<1> QED BY <1>1, LookupInductive, PTL

-----------------------------------------------------------------------------
(*****************************************************************************)
(* The processes of the agent, for any pids and any capacity of the table.   *)
(*                                                                           *)
(* A key of the table is never younger than the task that has its pid, and   *)
(* one that is as old belongs to a task of the agent's or to nobody          *)
(* (KeysOld): a new task is younger than every key of its pid.  Who joins    *)
(* descends from the agent because the parent of a task that is there has    *)
(* not been waited for (ParentsThere), and children of the agent's tasks     *)
(* are the agent's (Kinship).  The keys the sweep has chosen are older       *)
(* than whoever has the pid now (DeadOld).                                   *)
(*****************************************************************************)

FixedRun == \A p \in Fixed :
  task[p].state = "run" /\ task[p].parent = System /\ (task[p].ours <=> p \in Threads)

ParentsThere == \A p \in Tasks :
  /\ task[task[p].parent].state \in {"run", "exiting"}
  /\ task[p].parent = p => p = System

Kinship == \A p \in Tasks : Exists(p) /\ task[task[p].parent].ours => task[p].ours

Clocks == \A p \in Tasks : task[p].st <= tick

KeysOld == \A key \in agentPids :
  /\ key[2] <= task[key[1]].st
  /\ key[2] = task[key[1]].st /\ Exists(key[1]) => task[key[1]].ours

DeadOld == \A key \in deadKeys :
  /\ key[2] <= task[key[1]].st
  /\ key[2] = task[key[1]].st => ~Exists(key[1])

Joining == \A p \in Tasks :
  /\ prog[p] # "none" => task[p].state = "run"
  /\ prog[p] \in {"open_join", "exec_join"} => task[p].ours

Marked == \A p \in Tasks : mark[p] = "put" => Exists(p) /\ task[p].ours

TInv == /\ TreeTypeOK
        /\ FixedRun /\ ParentsThere /\ Kinship /\ Clocks
        /\ KeysOld /\ DeadOld /\ Joining /\ Marked

USE TreeAssumption

LEMMA TreeInitInv == TreeInit => TInv
<1> SUFFICES ASSUME TreeInit PROVE TInv
  OBVIOUS
<1>1. TreeTypeOK
  BY DEF TreeInit, TreeTypeOK, TaskRecord, States, Progs, Marks, TreeKeys, Tasks, Fixed, Threads
<1>2. /\ System \in Tasks /\ System \in Fixed /\ Threads \subseteq Fixed /\ Fixed \subseteq Tasks
      /\ System \notin Threads /\ Main \in Tasks /\ Main \in Threads /\ Main \in Fixed
  BY DEF Tasks, Fixed, Threads
<1>3. \A p \in Tasks :
        /\ task[p].state = IF p \in Fixed THEN "run" ELSE "free"
        /\ task[p].st = 0 /\ task[p].parent = System /\ task[p].ours = (p \in Threads)
  BY DEF TreeInit
<1>4. FixedRun /\ ParentsThere
  BY <1>2, <1>3 DEF FixedRun, ParentsThere
<1>5. Kinship
  BY <1>2, <1>3 DEF Kinship
<1>6. Clocks
  BY <1>3 DEF Clocks, TreeInit
<1>7. KeysOld
  <2> SUFFICES ASSUME NEW key \in agentPids
               PROVE  key[2] <= task[key[1]].st /\ task[key[1]].ours
    BY DEF KeysOld
  <2>1. key[1] = Main /\ key[2] = 0
    BY DEF TreeInit
  <2>2. task[Main].st = 0 /\ task[Main].ours
    BY <1>2, <1>3
  <2> QED BY <2>1, <2>2
<1>8. DeadOld /\ Joining /\ Marked
  BY DEF TreeInit, DeadOld, Joining, Marked
<1> QED BY <1>1, <1>4, <1>5, <1>6, <1>7, <1>8 DEF TInv

-----------------------------------------------------------------------------
(* What the actions are made of. *)

LEMMA AddedIs == ASSUME NEW key PROVE agentPids \subseteq Added(key) /\ Added(key) \subseteq agentPids \cup {key}
  BY DEF Added

LEMMA KeyTyped == ASSUME TreeTypeOK, NEW p \in Tasks
                  PROVE  KeyOf(p) \in TreeKeys /\ KeyOf(p) = <<p, task[p].st>>
  BY DEF TreeTypeOK, KeyOf, TreeKeys, TaskRecord

\* The parent of a task is in the table: the task is the agent's.
LEMMA JoinerIsOurs == ASSUME TInv, NEW p \in Tasks, Exists(p), InTable(task[p].parent)
                      PROVE  task[p].ours
<1> DEFINE q == task[p].parent
<1>1. q \in Tasks
  BY DEF TInv, TreeTypeOK, TaskRecord
<1>2. Exists(q)
  BY DEF TInv, ParentsThere, Exists
<1>3. task[q].ours
  BY <1>1, <1>2 DEF TInv, KeysOld, InTable, KeyOf
<1> QED BY <1>1, <1>3 DEF TInv, Kinship

\* Nothing changes for the tasks.
LEMMA TasksStay ==
  ASSUME TInv, TreeTypeOK', UNCHANGED task, tick' >= tick
  PROVE  FixedRun' /\ ParentsThere' /\ Kinship' /\ Clocks'
  BY DEF TInv, FixedRun, ParentsThere, Kinship, Clocks, Exists, TreeTypeOK, TaskRecord

-----------------------------------------------------------------------------
(* The actions. *)

LEMMA ForkStep == ASSUME TInv, NEW p \in Tasks, NEW c \in Pids, Fork(p, c) PROVE TInv'
<1> DEFINE new == [state |-> "run", st |-> tick, parent |-> p, ours |-> task[p].ours]
<1>1. /\ c \in Tasks /\ p # c /\ task[c].state = "free" /\ task[c].st < tick
      /\ task[p].state = "run" /\ prog[p] = "none"
      /\ task' = [task EXCEPT ![c] = new]
      /\ UNCHANGED <<agentPids, prog, deadKeys, tick>>
  BY DEF Fork, Idle, Tasks
<1>2. task \in [Tasks -> TaskRecord] /\ tick \in 0 .. MaxTick
  BY DEF TInv, TreeTypeOK
<1>3. new \in TaskRecord /\ \A q \in Tasks : task[q] \in TaskRecord
  BY <1>2, <1>1 DEF TaskRecord, States
<1>4. task'[c] = new /\ \A q \in Tasks : q # c => task'[q] = task[q]
  BY <1>1, <1>2
<1>5. task' \in [Tasks -> TaskRecord]
  BY <1>1, <1>2, <1>3
<1>6. mark' \in [Tasks -> Marks] /\ \A q \in Tasks : mark'[q] = mark[q] \/ mark'[q] = "start"
  BY <1>1 DEF Fork, TInv, TreeTypeOK, Marks
<1>7. TreeTypeOK'
  BY <1>1, <1>5, <1>6 DEF TInv, TreeTypeOK
<1>8. \A q \in Tasks : task[q].parent \in Tasks /\ task[q].parent # c
  BY <1>1, <1>3 DEF TInv, ParentsThere, TaskRecord
<1>9. FixedRun'
  BY <1>1, <1>4 DEF TInv, FixedRun, Tasks
<1>10. ParentsThere' /\ Kinship' /\ Clocks'
  BY <1>1, <1>2, <1>3, <1>4, <1>8 DEF TInv, ParentsThere, Kinship, Clocks, Exists
<1>11. KeysOld' /\ DeadOld'
  <2>1. \A key \in agentPids \cup deadKeys : key[1] \in Tasks /\ key[2] \in Nat
    BY DEF TInv, TreeTypeOK, TreeKeys
  <2> QED BY <2>1, <1>1, <1>2, <1>3, <1>4 DEF TInv, KeysOld, DeadOld, Exists, TaskRecord
<1>12. Joining' /\ Marked'
  BY <1>1, <1>4, <1>6 DEF TInv, Joining, Marked, Exists
<1> QED BY <1>7, <1>9, <1>10, <1>11, <1>12 DEF TInv
LEMMA OrphanStep == ASSUME TInv, NEW p \in Pids, Orphan(p) PROVE TInv'
<1>1. /\ p \in Tasks /\ task[p].state = "exiting" /\ System \in Tasks /\ p # System
      /\ UNCHANGED <<agentPids, prog, mark, deadKeys, tick>>
  BY DEF Orphan, Tasks, Fixed
<1>2. /\ \A q \in Tasks : task[q] \in TaskRecord
      /\ task[System].state = "run" /\ ~task[System].ours
  BY DEF TInv, TreeTypeOK, FixedRun, Fixed, Tasks
<1>3. \A q \in Tasks :
        task'[q] = IF q = p THEN [task[q] EXCEPT !.state = "zombie"]
                   ELSE IF task[q].parent = p THEN [task[q] EXCEPT !.parent = System]
                   ELSE task[q]
  BY DEF Orphan
<1>4. \A q \in Tasks :
        /\ task'[q] \in TaskRecord
        /\ task'[q].st = task[q].st /\ task'[q].ours = task[q].ours
        /\ task'[q].state = IF q = p THEN "zombie" ELSE task[q].state
        /\ task'[q].parent = IF q # p /\ task[q].parent = p THEN System ELSE task[q].parent
  <2> SUFFICES ASSUME NEW q \in Tasks
               PROVE  /\ task'[q] \in TaskRecord
                      /\ task'[q].st = task[q].st /\ task'[q].ours = task[q].ours
                      /\ task'[q].state = IF q = p THEN "zombie" ELSE task[q].state
                      /\ task'[q].parent = IF q # p /\ task[q].parent = p THEN System
                                          ELSE task[q].parent
    OBVIOUS
  <2>1. task[q] \in TaskRecord
    BY <1>2
  <2>2. CASE q = p
    <3>1. task'[q] = [task[q] EXCEPT !.state = "zombie"]
      BY <1>3, <2>2
    <3> QED BY <2>1, <2>2, <3>1 DEF TaskRecord, States
  <2>3. CASE q # p /\ task[q].parent = p
    <3>1. task'[q] = [task[q] EXCEPT !.parent = System]
      BY <1>3, <2>3
    <3> QED BY <1>1, <2>1, <2>3, <3>1 DEF TaskRecord, States
  <2>4. CASE q # p /\ task[q].parent # p
    BY <1>3, <2>1, <2>4
  <2> QED BY <2>2, <2>3, <2>4
<1>5. task' = [q \in Tasks |-> task'[q]]
  BY DEF Orphan
<1>6. TreeTypeOK'
  BY <1>1, <1>4, <1>5 DEF TInv, TreeTypeOK
<1>7. task[p].parent # p
  BY <1>1 DEF TInv, ParentsThere
<1>8. \A q \in Tasks : task[q].parent \in Tasks
  BY <1>2 DEF TaskRecord
<1>9. FixedRun'
  BY <1>1, <1>4 DEF TInv, FixedRun, Tasks
<1>10. ParentsThere'
  BY <1>1, <1>2, <1>4, <1>7, <1>8 DEF TInv, ParentsThere
<1>11. Kinship' /\ Clocks'
  BY <1>1, <1>2, <1>4, <1>7, <1>8 DEF TInv, Kinship, Clocks, Exists
<1>12. KeysOld' /\ DeadOld'
  <2>1. \A key \in agentPids \cup deadKeys : key[1] \in Tasks
    BY DEF TInv, TreeTypeOK, TreeKeys
  <2> QED BY <2>1, <1>1, <1>4 DEF TInv, KeysOld, DeadOld, Exists
<1>13. Joining' /\ Marked'
  BY <1>1, <1>4 DEF TInv, Joining, Marked, Exists
<1> QED BY <1>6, <1>9, <1>10, <1>11, <1>12, <1>13 DEF TInv

LEMMA ReapStep == ASSUME TInv, NEW p \in Pids, Reap(p) PROVE TInv'
<1> DEFINE gone == [state |-> "free", st |-> task[p].st, parent |-> System, ours |-> FALSE]
<1>1. /\ p \in Tasks /\ task[p].state = "zombie" /\ mark[p] \notin {"check", "put"}
      /\ System \in Tasks /\ p # System /\ p \notin Fixed
      /\ task' = [task EXCEPT ![p] = gone]
      /\ mark' = [mark EXCEPT ![p] = "no"]
      /\ UNCHANGED <<agentPids, prog, deadKeys, tick>>
  BY DEF Reap, Tasks, Fixed
<1>2. /\ task \in [Tasks -> TaskRecord] /\ \A q \in Tasks : task[q] \in TaskRecord
      /\ task[System].state = "run" /\ ~task[System].ours
  BY DEF TInv, TreeTypeOK, FixedRun, Fixed, Tasks
<1>3. gone \in TaskRecord
  BY <1>1, <1>2 DEF TaskRecord, States
<1>4. task'[p] = gone /\ \A q \in Tasks : q # p => task'[q] = task[q]
  BY <1>1, <1>2
<1>5. mark' \in [Tasks -> Marks] /\ \A q \in Tasks : mark'[q] = mark[q] \/ mark'[q] = "no"
  BY <1>1 DEF TInv, TreeTypeOK, Marks
<1>6. mark'[p] = "no"
  BY <1>1 DEF TInv, TreeTypeOK
<1>7. TreeTypeOK'
  BY <1>1, <1>2, <1>3, <1>5 DEF TInv, TreeTypeOK
<1>8. \A q \in Tasks : task[q].parent \in Tasks /\ task[q].parent # p
  BY <1>1, <1>2 DEF TInv, ParentsThere, TaskRecord
<1>9. FixedRun'
  BY <1>1, <1>4 DEF TInv, FixedRun, Tasks
<1>10. ParentsThere' /\ Kinship' /\ Clocks'
  BY <1>1, <1>2, <1>4, <1>8 DEF TInv, ParentsThere, Kinship, Clocks, Exists
<1>11. KeysOld' /\ DeadOld'
  <2>1. \A key \in agentPids \cup deadKeys : key[1] \in Tasks
    BY DEF TInv, TreeTypeOK, TreeKeys
  <2> QED BY <2>1, <1>1, <1>4 DEF TInv, KeysOld, DeadOld, Exists
<1>12. Joining' /\ Marked'
  BY <1>1, <1>4, <1>5, <1>6 DEF TInv, Joining, Marked, Exists
<1> QED BY <1>7, <1>9, <1>10, <1>11, <1>12 DEF TInv

LEMMA ExitStep == ASSUME TInv, NEW p \in Pids, Exit(p) PROVE TInv'
<1>1. /\ p \in Tasks /\ p \notin Fixed /\ task[p].state = "run" /\ prog[p] = "none"
      /\ agentPids' \subseteq agentPids
      /\ task' = [task EXCEPT ![p].state = "exiting"]
      /\ UNCHANGED <<prog, mark, deadKeys, tick>>
  BY DEF Exit, Idle, Tasks
<1>2. task \in [Tasks -> TaskRecord] /\ \A q \in Tasks : task[q] \in TaskRecord
  BY DEF TInv, TreeTypeOK
<1>3. \A q \in Tasks :
        /\ task'[q] \in TaskRecord
        /\ task'[q].st = task[q].st /\ task'[q].ours = task[q].ours
        /\ task'[q].parent = task[q].parent
        /\ task'[q].state = IF q = p THEN "exiting" ELSE task[q].state
  BY <1>1, <1>2 DEF TaskRecord, States
<1>4. task' \in [Tasks -> TaskRecord]
  BY <1>1, <1>2, <1>3
<1>5. TreeTypeOK'
  BY <1>1, <1>4 DEF TInv, TreeTypeOK
<1>6. \A q \in Tasks : task[q].parent \in Tasks
  BY <1>2 DEF TaskRecord
<1>7. FixedRun'
  BY <1>1, <1>3 DEF TInv, FixedRun, Tasks
<1>8. ParentsThere' /\ Kinship' /\ Clocks'
  BY <1>1, <1>3, <1>6 DEF TInv, ParentsThere, Kinship, Clocks, Exists
<1>9. KeysOld' /\ DeadOld'
  <2>1. \A key \in agentPids \cup deadKeys : key[1] \in Tasks
    BY DEF TInv, TreeTypeOK, TreeKeys
  <2> QED BY <2>1, <1>1, <1>3 DEF TInv, KeysOld, DeadOld, Exists
<1>10. Joining' /\ Marked'
  BY <1>1, <1>3 DEF TInv, Joining, Marked, Exists
<1> QED BY <1>5, <1>7, <1>8, <1>9, <1>10 DEF TInv

\* The actions that leave the tasks and the clock alone: what they write to the
\* table, to the programs and to the marks decides.
TableFrame ==
  /\ UNCHANGED <<task, tick>>
  /\ agentPids' \subseteq TreeKeys /\ deadKeys' \subseteq TreeKeys
  /\ prog' \in [Tasks -> Progs] /\ mark' \in [Tasks -> Marks]
  /\ \A key \in agentPids' \ agentPids : \E p \in Tasks : key = KeyOf(p) /\ task[p].ours
  /\ \A key \in deadKeys' \ deadKeys : key \in agentPids /\ ~Exists(key[1])
  /\ Joining' /\ Marked'

LEMMA TableStep ==
  ASSUME TInv, TableFrame
  PROVE  TInv'
<1> USE DEF TableFrame
<1>1. TreeTypeOK'
  BY DEF TInv, TreeTypeOK
<1>2. tick \in Int
  BY DEF TInv, TreeTypeOK
<1>3. FixedRun' /\ ParentsThere' /\ Kinship' /\ Clocks'
  BY <1>1, <1>2, TasksStay
<1>4. \A p \in Tasks : task[p].st \in Int /\ KeyOf(p)[1] = p /\ KeyOf(p)[2] = task[p].st
  BY DEF TInv, TreeTypeOK, TaskRecord, KeyOf
<1>5. KeysOld'
  BY <1>4 DEF TInv, KeysOld, Exists
<1>6. DeadOld'
  BY DEF TInv, DeadOld, KeysOld, Exists
<1> QED BY <1>1, <1>3, <1>5, <1>6 DEF TInv

LEMMA ProgramStep ==
  ASSUME TInv, NEW p \in Tasks,
         \/ OpenUnknown(p) \/ OpenParent(p) \/ Report(p)
         \/ Exec(p) \/ Join(p)
  PROVE  TInv'
<1> USE DEF TInv, TreeTypeOK
<1>1. KeyOf(p) \in TreeKeys
  BY KeyTyped
<1>2. CASE OpenUnknown(p)
  <2>1. Joining' /\ Marked'
    BY <1>2 DEF OpenUnknown, Idle, Joining, Marked, Exists
  <2>2. TableFrame
    BY <1>2, <2>1 DEF TableFrame, OpenUnknown, Progs
  <2> QED BY <2>2, TableStep
<1>3. CASE OpenParent(p)
  <2>1. task[p].state = "run"
    BY <1>3 DEF OpenParent, Joining
  <2>2. InTable(task[p].parent) => task[p].ours
    BY <2>1, JoinerIsOurs DEF Exists
  <2>3. Joining' /\ Marked'
    BY <1>3, <2>1, <2>2 DEF OpenParent, Joining, Marked, Exists
  <2>4. TableFrame
    BY <1>3, <2>3 DEF TableFrame, OpenParent, Progs
  <2> QED BY <2>4, TableStep
<1>4. CASE Report(p)
  <2>1. Joining' /\ Marked'
    BY <1>4 DEF Report, Joining, Marked, Exists
  <2>2. TableFrame
    BY <1>4, <2>1 DEF TableFrame, Report, Progs
  <2> QED BY <2>2, TableStep
<1>5. CASE Exec(p)
  <2>1. InTable(task[p].parent) => task[p].ours
    BY <1>5, JoinerIsOurs DEF Exec, Idle, Exists
  <2>2. Joining'
    BY <1>5, <2>1 DEF Exec, Idle, Joining
  <2>3. Marked' /\ mark' \in [Tasks -> Marks]
    BY <1>5 DEF Exec, Marked, Exists, Marks
  <2>4. TableFrame
    BY <1>5, <2>2, <2>3 DEF TableFrame, Exec, Progs
  <2> QED BY <2>4, TableStep
<1>6. CASE Join(p)
  <2>1. task[p].ours
    BY <1>6 DEF Join, Joining
  <2>2. Joining' /\ Marked'
    BY <1>6 DEF Join, Joining, Marked, Exists
  <2>3. /\ agentPids' \subseteq TreeKeys
        /\ \A key \in agentPids' \ agentPids :
             \E q \in Tasks : key = KeyOf(q) /\ task[q].ours
    BY <1>1, <1>6, <2>1, AddedIs DEF Join
  <2>4. TableFrame
    BY <1>6, <2>2, <2>3 DEF TableFrame, Join, Progs
  <2> QED BY <2>4, TableStep
<1> QED BY <1>2, <1>3, <1>4, <1>5, <1>6

LEMMA AgentStep ==
  ASSUME TInv, \/ \E p \in Pids : MarkCheck(p) \/ MarkPut(p)
               \/ SweepScan \/ SweepStep
  PROVE  TInv'
<1> USE DEF TInv, TreeTypeOK
<1>1. ASSUME NEW p \in Pids, MarkCheck(p) PROVE TInv'
  <2>1. p \in Tasks
    BY DEF Tasks
  <2>2. Exists(p) /\ task[p].parent \in Threads => task[p].ours
    BY <2>1 DEF FixedRun, Fixed, Kinship
  <2>3. Joining' /\ Marked'
    BY <1>1, <2>1, <2>2 DEF MarkCheck, Joining, Marked, Exists
  <2>4. TableFrame
    BY <1>1, <2>3 DEF TableFrame, MarkCheck, Marks
  <2> QED BY <2>4, TableStep
<1>2. ASSUME NEW p \in Pids, MarkPut(p) PROVE TInv'
  <2>1. p \in Tasks /\ KeyOf(p) \in TreeKeys
    BY KeyTyped DEF Tasks
  <2>2. task[p].ours
    BY <1>2, <2>1 DEF MarkPut, Marked
  <2>3. Joining' /\ Marked'
    BY <1>2 DEF MarkPut, Joining, Marked, Exists
  <2>4. /\ agentPids' \subseteq TreeKeys
        /\ \A key \in agentPids' \ agentPids :
             \E q \in Tasks : key = KeyOf(q) /\ task[q].ours
    BY <1>2, <2>1, <2>2, AddedIs DEF MarkPut
  <2>5. TableFrame
    BY <1>2, <2>3, <2>4 DEF TableFrame, MarkPut, Marks
  <2> QED BY <2>5, TableStep
<1>3. CASE SweepScan
  <2>1. Joining' /\ Marked'
    BY <1>3 DEF SweepScan, Joining, Marked, Exists
  <2>2. TableFrame
    BY <1>3, <2>1 DEF TableFrame, SweepScan
  <2> QED BY <2>2, TableStep
<1>4. CASE SweepStep
  <2>1. Joining' /\ Marked'
    BY <1>4 DEF SweepStep, SweepDelete, Joining, Marked, Exists
  <2>2. TableFrame
    BY <1>4, <2>1 DEF TableFrame, SweepStep, SweepDelete
  <2> QED BY <2>2, TableStep
<1> QED BY <1>1, <1>2, <1>3, <1>4

LEMMA TreeStep == TInv /\ [TreeNext]_treeVars => TInv'
<1> SUFFICES ASSUME TInv, [TreeNext]_treeVars PROVE TInv'
  OBVIOUS
<1>1. ASSUME NEW p \in Tasks, NEW c \in Pids, Fork(p, c) PROVE TInv'
  BY <1>1, ForkStep
<1>2. ASSUME NEW p \in Pids \cup Threads, OpenUnknown(p) \/ OpenParent(p) \/ Report(p)
      PROVE  TInv'
  BY <1>2, ProgramStep DEF Tasks, Fixed
<1>3. ASSUME NEW p \in Pids, Exec(p) \/ Join(p) PROVE TInv'
  BY <1>3, ProgramStep DEF Tasks
<1>4. ASSUME NEW p \in Pids, Exit(p) \/ Orphan(p) \/ Reap(p) PROVE TInv'
  BY <1>4, ExitStep, OrphanStep, ReapStep
<1>5. ASSUME NEW p \in Pids, MarkCheck(p) \/ MarkPut(p) PROVE TInv'
  BY <1>5, AgentStep
<1>6. CASE Tick
  <2>1. TreeTypeOK' /\ tick' >= tick
    BY <1>6 DEF Tick, TInv, TreeTypeOK
  <2>2. FixedRun' /\ ParentsThere' /\ Kinship' /\ Clocks'
    BY <1>6, <2>1, TasksStay DEF Tick
  <2>3. KeysOld' /\ DeadOld' /\ Joining' /\ Marked'
    BY <1>6 DEF Tick, TInv, KeysOld, DeadOld, Joining, Marked, Exists
  <2> QED BY <2>1, <2>2, <2>3 DEF TInv
<1>7. CASE SweepScan \/ SweepStep
  BY <1>7, AgentStep
<1>8. CASE UNCHANGED treeVars
  BY <1>8 DEF treeVars, TInv, TreeTypeOK, FixedRun, ParentsThere, Kinship, Clocks,
              KeysOld, DeadOld, Joining, Marked, Exists
<1>9. ASSUME NEW p \in Pids \cup Threads, OpenKnown(p) PROVE TInv'
  BY <1>8, <1>9 DEF OpenKnown
<1> QED BY <1>1, <1>2, <1>3, <1>4, <1>5, <1>6, <1>7, <1>8, <1>9 DEF TreeNext

\* The inductive invariant, and with it the types.
THEOREM TreeInductive == TreeSpec => []TInv
<1> QED BY TreeInitInv, TreeStep, PTL DEF TreeSpec

-----------------------------------------------------------------------------
(* What follows. *)

\* Nobody but the agent and its descendants is hidden from the file probe, for
\* any number of pids, any reuse of them and any capacity of the table.
THEOREM FilteredCorrect == TreeSpec => []FilteredIsOurs
<1>1. TInv => FilteredIsOurs
  BY DEF TInv, TreeTypeOK, FilteredIsOurs, Hidden, InTable, KeyOf, KeysOld, Joining, TaskRecord
<1> QED BY <1>1, TreeInductive, PTL

\* No step of anybody takes the entry of a running task away.
THEOREM JoinedCorrect == TreeSpec => JoinedStays
<1> DEFINE Stays == \A p \in Tasks :
             task[p].state = "run" /\ InTable(p) /\ task'[p].state = "run" => InTable(p)'
<1>1. TInv /\ [TreeNext]_treeVars => [Stays]_treeVars
  <2> SUFFICES ASSUME TInv, TreeNext, NEW p \in Tasks,
                      task[p].state = "run", InTable(p), task'[p].state = "run"
               PROVE  InTable(p)'
    OBVIOUS
  <2>1. CASE UNCHANGED <<task, agentPids>>
    BY <2>1 DEF InTable, KeyOf
  <2>2. ASSUME NEW q \in Tasks, NEW c \in Pids, Fork(q, c) PROVE InTable(p)'
    BY <2>2 DEF Fork, InTable, KeyOf, TInv, TreeTypeOK, Tasks
  <2>3. ASSUME NEW q \in Pids, Orphan(q) PROVE InTable(p)'
    <3>1. task'[p].st = task[p].st
      BY <2>3 DEF Orphan, TInv, TreeTypeOK, TaskRecord
    <3> QED BY <2>3, <3>1 DEF Orphan, InTable, KeyOf
  <2>4. ASSUME NEW q \in Pids, Reap(q) PROVE InTable(p)'
    BY <2>4 DEF Reap, InTable, KeyOf, TInv, TreeTypeOK, Tasks
  <2>5. ASSUME NEW q \in Pids, Exit(q) PROVE InTable(p)'
    <3>1. q \in Tasks /\ q # p /\ task'[p] = task[p]
      BY <2>5 DEF Exit, TInv, TreeTypeOK, TaskRecord, Tasks
    <3> QED BY <2>5, <3>1 DEF Exit, InTable, KeyOf
  <2>6. ASSUME NEW q \in Pids, Join(q) PROVE InTable(p)'
    BY <2>6, AddedIs DEF Join, InTable, KeyOf
  <2>7. ASSUME NEW q \in Pids, MarkPut(q) PROVE InTable(p)'
    BY <2>7, AddedIs DEF MarkPut, InTable, KeyOf
  <2>8. ASSUME NEW key \in deadKeys, SweepDelete(key) PROVE InTable(p)'
    <3>1. KeyOf(p) # key
      BY DEF TInv, DeadOld, Exists, KeyOf
    <3> QED BY <2>8, <3>1 DEF SweepDelete, InTable, KeyOf
  <2>9. ASSUME NEW q \in Tasks, \/ OpenKnown(q) \/ OpenUnknown(q) \/ OpenParent(q)
                                \/ Report(q) \/ Exec(q) \/ MarkCheck(q)
        PROVE  InTable(p)'
    BY <2>1, <2>9
       DEF OpenKnown, OpenUnknown, OpenParent, Report, Exec, MarkCheck, treeVars
  <2>10. CASE Tick \/ SweepScan
    BY <2>1, <2>10 DEF Tick, SweepScan
  <2>11. Pids \subseteq Tasks /\ Threads \subseteq Tasks
    BY DEF Tasks, Fixed
  <2> QED
    BY <2>2, <2>3, <2>4, <2>5, <2>6, <2>7, <2>8, <2>9, <2>10, <2>11 DEF TreeNext, SweepStep
<1> QED BY <1>1, TreeInductive, PTL DEF TreeSpec, JoinedStays

HIDE TreeAssumption

-----------------------------------------------------------------------------
(*****************************************************************************)
(* The connection statistics, for any processors, tgids and addresses,       *)
(* any length of the window and any capacity of the table.                   *)
(*                                                                           *)
(* The counter and the calls still to be counted never exceed the calls      *)
(* (Counted): whoever inserts an entry over another one only forgets, and    *)
(* what an entry is inserted with is the inserter's own call.  Whatever      *)
(* order the stores and the copy take, a slot of the window or of the copy   *)
(* is empty or holds an address decoded from a call under the tgid, by this  *)
(* process or an earlier one, of whatever family (Known, Copied).            *)
(*****************************************************************************)

Named   == UNION {Parsed(sa) : sa \in SockAddrs}
Targets == Named \cup {NoAddress}
Ports   == {a.port : a \in Targets}
Ips     == {a.ip : a \in Targets}
StatsEntry   == [gen : Nat, count : Nat, ports : [Slots -> Ports], ips : [Slots -> Ips]]
Call    == [pc : {"idle", "stats", "add", "insert", "again", "ports", "ips", "mode"},
            pid : Tgids \cup {0}, addr : Targets, gen : Nat, i : 0 .. Window]

TcpTypes ==
  /\ stats \in [Tgids -> StatsEntry]
  /\ cpu \in [Cpus -> Call]
  /\ past \in [Tgids -> Seq(Targets)]
  /\ \A c \in Cpus : cpu[c].pc # "idle" => cpu[c].pid \in Tgids
  /\ \A c \in Cpus : cpu[c].pc \in {"ports", "ips"} => cpu[c].i > 0

Uncounted  == {"stats", "add", "insert"}
Pending(p) == {c \in Cpus : cpu[c].pid = p /\ cpu[c].pc \in Uncounted}
IpsOf(p)   == {a.ip : a \in Dialled(p)} \cup {NoIp}

Counted == \A p \in Tgids : stats[p].count + Cardinality(Pending(p)) <= Len(past[p])
Known   == \A p \in Tgids : \A i \in Slots : stats[p].ips[i] \in IpsOf(p)
Dials   == \A c \in Cpus : cpu[c].pc # "idle" => cpu[c].addr \in Dialled(cpu[c].pid)
Copied  == reader.i # 0 => reader.pid \in Tgids /\ reader.ips \subseteq IpsOf(reader.pid)

PInv == TcpTypes /\ Counted /\ Known /\ Dials /\ Copied

USE TcpAssumption

LEMMA PendingFinite == \A p : IsFiniteSet(Pending(p)) /\ Cardinality(Pending(p)) \in Nat
<1> SUFFICES ASSUME NEW p PROVE IsFiniteSet(Pending(p)) /\ Cardinality(Pending(p)) \in Nat
  OBVIOUS
<1>1. Pending(p) \in SUBSET Cpus
  BY DEF Pending
<1> QED BY <1>1, FS_Subset, FS_CardinalityType

LEMMA NoTarget == NoAddress \in Targets /\ NoAddress.port = NoPort /\ NoAddress.ip = NoIp
<1>1. NoAddress \in Targets
  BY DEF Targets
<1>2. NoAddress.port = NoPort /\ NoAddress.ip = NoIp
  BY DEF NoAddress
<1> QED BY <1>1, <1>2

LEMMA TcpInitInv == TcpInit => PInv
<1> SUFFICES ASSUME TcpInit PROVE PInv
  OBVIOUS
<1>1. NoAddress \in Targets /\ NoPort \in Ports /\ NoIp \in Ips
  <2>1. NoAddress \in Targets /\ NoAddress.port = NoPort /\ NoAddress.ip = NoIp
    BY NoTarget
  <2> QED BY <2>1 DEF Ports, Ips
<1>2. Empty \in StatsEntry
  BY <1>1 DEF Empty, NewEntry, StatsEntry
<1>3. NoCall \in Call /\ NoCall.pc = "idle"
  BY <1>1 DEF NoCall, Call
<1>4. \A p \in Tgids : stats[p] = Empty /\ past[p] = << >>
  BY DEF TcpInit
<1>5. \A c \in Cpus : cpu[c] = NoCall
  BY DEF TcpInit
<1>6. TcpTypes
  BY <1>2, <1>3, <1>5 DEF TcpInit, TcpTypes
<1>7. Counted
  <2> SUFFICES ASSUME NEW p \in Tgids
               PROVE  stats[p].count + Cardinality(Pending(p)) <= Len(past[p])
    BY DEF Counted
  <2>1. Pending(p) = {}
    BY <1>3, <1>5 DEF Pending, Uncounted
  <2> QED BY <2>1, <1>4, FS_EmptySet DEF Empty, NewEntry
<1>8. Known
  BY <1>4 DEF Known, Empty, NewEntry, IpsOf
<1>9. Dials /\ Copied
  BY <1>3, <1>5 DEF Dials, Copied, TcpInit, NoCopy
<1> QED BY <1>6, <1>7, <1>8, <1>9 DEF PInv

-----------------------------------------------------------------------------
(* What the actions are made of. *)

\* A processor that has counted its call is not pending any more.
LEMMA CountedOff ==
  ASSUME NEW c \in Cpus, NEW q, cpu[c].pid = q, cpu[c].pc \in Uncounted,
         \A d \in Cpus : d # c => cpu'[d] = cpu[d],
         cpu'[c].pc \notin Uncounted
  PROVE  /\ Cardinality(Pending(q)') = Cardinality(Pending(q)) - 1
         /\ Cardinality(Pending(q)) > 0
         /\ \A p : p # q => Pending(p)' = Pending(p)
<1>1. c \in Pending(q) /\ IsFiniteSet(Pending(q))
  BY PendingFinite DEF Pending
<1>2. Pending(q)' = Pending(q) \ {c}
  BY DEF Pending
<1>3. /\ Cardinality(Pending(q) \ {c}) = Cardinality(Pending(q)) - 1
      /\ Cardinality(Pending(q) \ {c}) \in Nat /\ Cardinality(Pending(q)) \in Nat
  BY <1>1, FS_RemoveElement, FS_CardinalityType
<1>4. \A p : p # q => Pending(p)' = Pending(p)
  BY DEF Pending
<1> QED BY <1>2, <1>3, <1>4

\* The other steps of a program leave the pending calls as they are.
LEMMA PendingStays ==
  ASSUME NEW c \in Cpus,
         \A d \in Cpus : d # c => cpu'[d] = cpu[d],
         \/ cpu'[c].pid = cpu[c].pid /\ cpu[c].pc \in Uncounted /\ cpu'[c].pc \in Uncounted
         \/ cpu[c].pc \notin Uncounted /\ cpu'[c].pc \notin Uncounted
  PROVE  \A p : Pending(p)' = Pending(p)
BY DEF Pending

LEMMA AfterCountIs ==
  ASSUME NEW call \in Call
  PROVE  /\ AfterCount(call) \in Call
         /\ AfterCount(call).pid = call.pid /\ AfterCount(call).addr = call.addr
         /\ AfterCount(call).pc \in {"ports", "mode"}
         /\ AfterCount(call).pc = "ports" => AfterCount(call).i > 0
<1>1. CASE call.gen # 0 /\ call.addr.port # NoPort
  <2>1. AfterCount(call) = [call EXCEPT !.pc = "ports", !.i = Window]
    BY <1>1 DEF AfterCount
  <2>2. Window \in 0 .. Window /\ Window > 0
    OBVIOUS
  <2>3. /\ AfterCount(call).pc = "ports" /\ AfterCount(call).i = Window
        /\ AfterCount(call).pid = call.pid /\ AfterCount(call).addr = call.addr
    BY <2>1 DEF Call
  <2>4. AfterCount(call) \in Call
    BY <2>1, <2>2 DEF Call
  <2> QED BY <2>2, <2>3, <2>4
<1>2. CASE ~(call.gen # 0 /\ call.addr.port # NoPort)
  <2>1. AfterCount(call) = [call EXCEPT !.pc = "mode"]
    BY <1>2 DEF AfterCount
  <2> QED BY <2>1 DEF Call
<1> QED BY <1>1, <1>2

\* A step of a program that makes no call and copies nothing: what it leaves
\* in the entry of its process and where it goes decides.
ProgramFrame(c) ==
  /\ cpu[c].pc # "idle"
  /\ UNCHANGED <<past, reader>>
  /\ cpu' = [cpu EXCEPT ![c] = cpu'[c]]
  /\ cpu'[c] \in Call
  /\ cpu'[c].pc # "idle" => cpu'[c].pid = cpu[c].pid /\ cpu'[c].addr = cpu[c].addr
  /\ cpu'[c].pc \in {"ports", "ips"} => cpu'[c].i > 0
  /\ stats' = [stats EXCEPT ![cpu[c].pid] = stats'[cpu[c].pid]]
  /\ stats'[cpu[c].pid] \in StatsEntry
  /\ \A i \in Slots : stats'[cpu[c].pid].ips[i] \in IpsOf(cpu[c].pid)

LEMMA ProgramKeeps ==
  ASSUME PInv, NEW c \in Cpus, ProgramFrame(c), Counted'
  PROVE  PInv'
<1>1. /\ cpu[c].pid \in Tgids
      /\ \A d \in Cpus : d # c => cpu'[d] = cpu[d]
      /\ \A p \in Tgids : p # cpu[c].pid => stats'[p] = stats[p]
  BY DEF PInv, TcpTypes, ProgramFrame
<1>2. cpu' \in [Cpus -> Call] /\ stats' \in [Tgids -> StatsEntry]
  BY DEF PInv, TcpTypes, ProgramFrame
<1>3. TcpTypes'
  BY <1>1, <1>2 DEF PInv, TcpTypes, ProgramFrame
<1>4. \A p : IpsOf(p)' = IpsOf(p) /\ Dialled(p)' = Dialled(p)
  BY DEF ProgramFrame, IpsOf, Dialled
<1>5. Known'
  BY <1>1, <1>4 DEF PInv, Known, ProgramFrame
<1>6. Dials'
  BY <1>1, <1>4 DEF PInv, Dials, ProgramFrame
<1>7. Copied'
  BY <1>4 DEF PInv, Copied, ProgramFrame
<1> QED BY <1>3, <1>5, <1>6, <1>7 DEF PInv

\* Nothing is counted: neither the counter nor the pending calls change.
LEMMA NothingCounted ==
  ASSUME PInv, NEW c \in Cpus, ProgramFrame(c),
         stats'[cpu[c].pid].count = stats[cpu[c].pid].count,
         \A p : Pending(p)' = Pending(p)
  PROVE  Counted'
BY DEF PInv, TcpTypes, Counted, ProgramFrame

-----------------------------------------------------------------------------
(* The actions. *)

LEMMA ConnectStep ==
  ASSUME PInv, NEW c \in Cpus, NEW p \in Tgids, NEW sa \in SockAddrs, Connect(c, p, sa)
  PROVE  PInv'
<1>0. PICK a \in Parsed(sa) :
      /\ cpu' = [cpu EXCEPT ![c] = [pc |-> "stats", pid |-> p, addr |-> a, gen |-> 0, i |-> 0]]
      /\ past' = [past EXCEPT ![p] = Append(@, a)]
  BY DEF Connect
<1> DEFINE call == [pc |-> "stats", pid |-> p, addr |-> a, gen |-> 0, i |-> 0]
<1>1. /\ cpu[c].pc = "idle" /\ cpu' = [cpu EXCEPT ![c] = call]
      /\ past' = [past EXCEPT ![p] = Append(past[p], a)]
      /\ UNCHANGED <<stats, reader>>
  BY <1>0 DEF Connect, At
<1>2. call \in Call /\ call.pc = "stats" /\ call.pid = p /\ call.addr = a
  BY DEF Call, Targets, Named
<1>3. cpu'[c] = call /\ \A d \in Cpus : d # c => cpu'[d] = cpu[d]
  BY <1>1 DEF PInv, TcpTypes
<1>4. a \in Targets /\ past[p] \in Seq(Targets)
  BY DEF Targets, Named, PInv, TcpTypes
<1>5. past'[p] = Append(past[p], a) /\ \A q \in Tgids : q # p => past'[q] = past[q]
  BY <1>1 DEF PInv, TcpTypes
<1>6. /\ Len(past'[p]) = Len(past[p]) + 1 /\ past'[p][Len(past[p]) + 1] = a
      /\ \A i \in DOMAIN past[p] : i \in DOMAIN past'[p] /\ past'[p][i] = past[p][i]
      /\ Len(past[p]) + 1 \in DOMAIN past'[p]
  BY <1>4, <1>5
<1>7. TcpTypes'
  <2>1. past' \in [Tgids -> Seq(Targets)] /\ cpu' \in [Cpus -> Call]
    BY <1>1, <1>2, <1>4 DEF PInv, TcpTypes
  <2> QED BY <2>1, <1>1, <1>2, <1>3 DEF PInv, TcpTypes
<1>8. /\ a \in Dialled(p)'
      /\ \A q \in Tgids : Dialled(q) \subseteq Dialled(q)' /\ IpsOf(q) \subseteq IpsOf(q)'
  BY <1>5, <1>6 DEF Dialled, IpsOf
<1>9. Counted'
  <2>1. Pending(p)' = Pending(p) \cup {c} /\ c \notin Pending(p)
    BY <1>1, <1>2, <1>3 DEF Pending, Uncounted
  <2>2. \A q \in Tgids : q # p => Pending(q)' = Pending(q)
    BY <1>1, <1>2, <1>3 DEF Pending, Uncounted
  <2>3. Cardinality(Pending(p)') = Cardinality(Pending(p)) + 1
    BY <2>1, PendingFinite, FS_AddElement
  <2>4. stats[p].count \in Nat /\ Len(past[p]) \in Nat /\ Cardinality(Pending(p)) \in Nat
    BY <1>4, PendingFinite DEF PInv, TcpTypes, StatsEntry
  <2>5. stats'[p].count + Cardinality(Pending(p)') <= Len(past'[p])
    BY <1>1, <1>6, <2>3, <2>4 DEF PInv, Counted
  <2>6. \A q \in Tgids : q # p =>
          stats'[q].count + Cardinality(Pending(q)') <= Len(past'[q])
    BY <1>1, <1>5, <2>2 DEF PInv, Counted
  <2> QED BY <2>5, <2>6 DEF Counted
<1>10. Known' /\ Copied'
  BY <1>1, <1>8 DEF PInv, Known, Copied
<1>11. Dials'
  <2>1. \A q \in Tgids : \A x \in Dialled(q) : \E i \in DOMAIN past'[q] : past'[q][i] = x
    BY <1>5, <1>6 DEF Dialled
  <2>2. \E i \in DOMAIN past'[p] : past'[p][i] = a
    BY <1>6
  <2> SUFFICES ASSUME NEW d \in Cpus, cpu'[d].pc # "idle"
               PROVE  \E i \in DOMAIN past'[cpu'[d].pid] : past'[cpu'[d].pid][i] = cpu'[d].addr
    BY DEF Dials, Dialled
  <2>3. CASE d = c
    BY <2>2, <2>3, <1>2, <1>3
  <2>4. CASE d # c
    <3>1. cpu'[d] = cpu[d] /\ cpu[d].pid \in Tgids /\ cpu[d].addr \in Dialled(cpu[d].pid)
      BY <2>4, <1>3 DEF PInv, TcpTypes, Dials
    <3> QED BY <3>1, <2>1
  <2> QED BY <2>3, <2>4
<1> QED BY <1>7, <1>9, <1>10, <1>11 DEF PInv

LEMMA LookUpStep == ASSUME PInv, NEW c \in Cpus, LookUp(c) PROVE PInv'
<1> DEFINE p == cpu[c].pid
           next == [cpu[c] EXCEPT !.pc = IF Recorded(p) THEN "add" ELSE "insert",
                                  !.gen = stats[p].gen]
<1>1. cpu[c].pc = "stats" /\ cpu' = [cpu EXCEPT ![c] = next] /\ UNCHANGED <<stats, reader, past>>
  BY DEF LookUp, At
<1>2. p \in Tgids /\ cpu[c] \in Call /\ stats[p] \in StatsEntry
  BY <1>1 DEF PInv, TcpTypes
<1>3. next \in Call /\ next.pc \in {"add", "insert"} /\ next.pid = p /\ next.addr = cpu[c].addr
  BY <1>2 DEF Call, StatsEntry
<1>4. cpu'[c] = next /\ \A d \in Cpus : d # c => cpu'[d] = cpu[d]
  BY <1>1 DEF PInv, TcpTypes
<1>5. ProgramFrame(c)
  BY <1>1, <1>2, <1>3, <1>4 DEF ProgramFrame, PInv, TcpTypes, Known
<1>6. \A q : Pending(q)' = Pending(q)
  BY <1>1, <1>3, <1>4, PendingStays DEF Uncounted
<1> QED BY <1>1, <1>5, <1>6, NothingCounted, ProgramKeeps

LEMMA AddStep ==
  ASSUME PInv, NEW c \in Cpus, NEW p, p = cpu[c].pid, Add(c)
  PROVE  PInv'
<1> DEFINE more == IF Holds(c) THEN 1 ELSE 0
           entry == [stats[p] EXCEPT !.count = stats[p].count + more]
<1>1. /\ cpu[c].pc = "add" /\ cpu' = [cpu EXCEPT ![c] = AfterCount(cpu[c])]
      /\ stats' = [stats EXCEPT ![p] = entry] /\ UNCHANGED <<reader, past>>
  BY DEF Add, At
<1>2. p \in Tgids /\ cpu[c] \in Call /\ stats[p] \in StatsEntry
  BY <1>1 DEF PInv, TcpTypes
<1>3. /\ more \in {0, 1} /\ entry \in StatsEntry /\ entry.count = stats[p].count + more
      /\ entry.ips = stats[p].ips
  BY <1>2 DEF StatsEntry
<1>4. /\ cpu'[c] = AfterCount(cpu[c]) /\ \A d \in Cpus : d # c => cpu'[d] = cpu[d]
      /\ stats'[p] = entry /\ \A q \in Tgids : q # p => stats'[q] = stats[q]
  BY <1>1, <1>2 DEF PInv, TcpTypes
<1>5. /\ cpu'[c] \in Call /\ cpu'[c].pid = p /\ cpu'[c].addr = cpu[c].addr
      /\ cpu'[c].pc \in {"ports", "mode"} /\ (cpu'[c].pc = "ports" => cpu'[c].i > 0)
  BY <1>2, <1>4, AfterCountIs
<1>6. ProgramFrame(c)
  <2>1. cpu' = [cpu EXCEPT ![c] = cpu'[c]] /\ stats' = [stats EXCEPT ![p] = stats'[p]]
    BY <1>1, <1>4
  <2>2. \A i \in Slots : stats'[p].ips[i] \in IpsOf(p)
    BY <1>2, <1>3, <1>4 DEF PInv, Known
  <2> QED BY <1>1, <1>2, <1>3, <1>4, <1>5, <2>1, <2>2 DEF ProgramFrame
<1>7. Counted'
  <2>1. /\ Cardinality(Pending(p)') = Cardinality(Pending(p)) - 1
        /\ \A q : q # p => Pending(q)' = Pending(q)
    BY <1>1, <1>4, <1>5, CountedOff DEF Uncounted
  <2>2. stats[p].count \in Nat /\ Cardinality(Pending(p)) \in Nat /\ Len(past[p]) \in Nat
    BY <1>2, PendingFinite DEF StatsEntry, PInv, TcpTypes
  <2>3. stats[p].count + Cardinality(Pending(p)) <= Len(past[p])
    BY <1>2 DEF PInv, Counted
  <2>4. stats'[p].count + Cardinality(Pending(p)') <= Len(past'[p])
    BY <1>1, <1>3, <1>4, <2>1, <2>2, <2>3
  <2>5. \A q \in Tgids : q # p =>
          stats'[q].count + Cardinality(Pending(q)') <= Len(past'[q])
    BY <1>1, <1>4, <2>1 DEF PInv, Counted
  <2> QED BY <2>4, <2>5 DEF Counted
<1> QED BY <1>6, <1>7, ProgramKeeps

\* A new entry counts the call of who inserts it, and that call only.
LEMMA InsertStep ==
  ASSUME PInv, NEW c \in Cpus, NEW p, p = cpu[c].pid, Insert(c)
  PROVE  PInv'
<1> DEFINE new == NewEntry(stats[p].gen + 1, 1)
           next == [cpu[c] EXCEPT !.pc = "again"]
<1>1. /\ cpu[c].pc = "insert" /\ cpu' = [cpu EXCEPT ![c] = next]
      /\ stats' = stats \/ stats' = [stats EXCEPT ![p] = new]
      /\ UNCHANGED <<reader, past>>
  BY DEF Insert, At, Goto
<1>2. p \in Tgids /\ cpu[c] \in Call /\ stats[p] \in StatsEntry
  BY <1>1 DEF PInv, TcpTypes
<1>3. /\ new \in StatsEntry /\ new.count = 1 /\ \A i \in Slots : new.ips[i] = NoIp
      /\ next \in Call /\ next.pc = "again" /\ next.pid = p /\ next.addr = cpu[c].addr
  <2>1. NoPort \in Ports /\ NoIp \in Ips
    <3>1. NoAddress \in Targets /\ NoAddress.port = NoPort /\ NoAddress.ip = NoIp
      BY NoTarget
    <3> QED BY <3>1 DEF Ports, Ips
  <2>2. new = [gen |-> stats[p].gen + 1, count |-> 1, ports |-> [i \in Slots |-> NoPort],
               ips |-> [i \in Slots |-> NoIp]]
    BY DEF NewEntry
  <2>3. stats[p].gen + 1 \in Nat
    BY <1>2 DEF StatsEntry
  <2>4. new \in StatsEntry /\ new.count = 1 /\ \A i \in Slots : new.ips[i] = NoIp
    BY <2>1, <2>2, <2>3 DEF StatsEntry
  <2>5. next \in Call /\ next.pc = "again" /\ next.pid = p /\ next.addr = cpu[c].addr
    BY <1>2 DEF Call
  <2> QED BY <2>4, <2>5
<1>4. /\ cpu'[c] = next /\ \A d \in Cpus : d # c => cpu'[d] = cpu[d]
      /\ stats'[p] = stats[p] \/ stats'[p] = new
      /\ \A q \in Tgids : q # p => stats'[q] = stats[q]
      /\ cpu' = [cpu EXCEPT ![c] = cpu'[c]] /\ stats' = [stats EXCEPT ![p] = stats'[p]]
  BY <1>1, <1>2 DEF PInv, TcpTypes
<1>5. ProgramFrame(c)
  <2>1. \A i \in Slots : stats'[p].ips[i] \in IpsOf(p)
    BY <1>2, <1>3, <1>4 DEF PInv, Known, IpsOf
  <2> QED BY <1>1, <1>2, <1>3, <1>4, <2>1 DEF ProgramFrame
<1>6. Counted'
  <2>1. /\ \A d \in Cpus : d # c => cpu'[d] = cpu[d]
        /\ cpu'[c].pc \notin Uncounted /\ cpu[c].pc \in Uncounted
    BY <1>1, <1>3, <1>4 DEF Uncounted
  <2>2. /\ Cardinality(Pending(p)') = Cardinality(Pending(p)) - 1
        /\ Cardinality(Pending(p)) > 0
        /\ \A q : q # p => Pending(q)' = Pending(q)
    BY <2>1, CountedOff
  <2>3. stats[p].count \in Nat /\ Cardinality(Pending(p)) \in Nat /\ Len(past[p]) \in Nat
    BY <1>2, PendingFinite DEF StatsEntry, PInv, TcpTypes
  <2>4. stats'[p].count + Cardinality(Pending(p)') <= Len(past'[p])
    <3>1. stats[p].count + Cardinality(Pending(p)) <= Len(past[p])
      BY <1>2 DEF PInv, Counted
    <3>2. past'[p] = past[p] /\ (stats'[p].count = stats[p].count \/ stats'[p].count = 1)
      BY <1>1, <1>3, <1>4
    <3>3. CASE stats'[p].count = stats[p].count
      BY <2>2, <2>3, <3>1, <3>2, <3>3
    <3>4. CASE stats'[p].count = 1
      BY <2>2, <2>3, <3>1, <3>2, <3>4
    <3> QED BY <3>2, <3>3, <3>4
  <2>5. \A q \in Tgids : q # p =>
          stats'[q].count + Cardinality(Pending(q)') <= Len(past'[q])
    BY <1>1, <1>4, <2>2 DEF PInv, Counted
  <2> QED BY <2>4, <2>5 DEF Counted
<1> QED BY <1>5, <1>6, ProgramKeeps

LEMMA LookUpAgainStep ==
  ASSUME PInv, NEW c \in Cpus, NEW p, p = cpu[c].pid, LookUpAgain(c)
  PROVE  PInv'
<1> DEFINE call == [cpu[c] EXCEPT !.gen = stats[p].gen]
<1>1. /\ cpu[c].pc = "again" /\ cpu' = [cpu EXCEPT ![c] = AfterCount(call)]
      /\ UNCHANGED <<stats, reader, past>>
  BY DEF LookUpAgain, At, AfterInsert
<1>2. p \in Tgids /\ cpu[c] \in Call /\ stats[p] \in StatsEntry
  BY <1>1 DEF PInv, TcpTypes
<1>3. call \in Call /\ call.pid = p /\ call.addr = cpu[c].addr
  BY <1>2 DEF Call, StatsEntry
<1>4. /\ cpu'[c] = AfterCount(call) /\ \A d \in Cpus : d # c => cpu'[d] = cpu[d]
      /\ cpu' = [cpu EXCEPT ![c] = cpu'[c]] /\ stats' = [stats EXCEPT ![p] = stats'[p]]
  BY <1>1 DEF PInv, TcpTypes
<1>5. /\ cpu'[c] \in Call /\ cpu'[c].pid = p /\ cpu'[c].addr = cpu[c].addr
      /\ cpu'[c].pc \in {"ports", "mode"} /\ (cpu'[c].pc = "ports" => cpu'[c].i > 0)
  BY <1>3, <1>4, AfterCountIs
<1>6. ProgramFrame(c)
  BY <1>1, <1>2, <1>4, <1>5 DEF ProgramFrame, PInv, Known
<1>7. \A q : Pending(q)' = Pending(q)
  BY <1>1, <1>4, <1>5, PendingStays DEF Uncounted
<1> QED BY <1>1, <1>6, <1>7, NothingCounted, ProgramKeeps

LEMMA DecideStep == ASSUME PInv, NEW c \in Cpus, Decide(c) PROVE PInv'
<1> DEFINE p == cpu[c].pid
<1>1. /\ cpu[c].pc = "mode" /\ cpu' = [cpu EXCEPT ![c] = NoCall]
      /\ UNCHANGED <<stats, reader, past>>
  BY DEF Decide, At, Stop
<1>2. p \in Tgids /\ stats[p] \in StatsEntry
  BY <1>1 DEF PInv, TcpTypes
<1>3. NoCall \in Call /\ NoCall.pc = "idle"
  BY NoTarget DEF NoCall, Call
<1>4. /\ cpu'[c] = NoCall /\ \A d \in Cpus : d # c => cpu'[d] = cpu[d]
      /\ cpu' = [cpu EXCEPT ![c] = cpu'[c]] /\ stats' = [stats EXCEPT ![p] = stats'[p]]
  BY <1>1 DEF PInv, TcpTypes
<1>5. ProgramFrame(c)
  BY <1>1, <1>2, <1>3, <1>4 DEF ProgramFrame, PInv, Known
<1>6. \A q : Pending(q)' = Pending(q)
  BY <1>1, <1>3, <1>4, PendingStays DEF Uncounted
<1> QED BY <1>1, <1>5, <1>6, NothingCounted, ProgramKeeps

\* A store of the window puts in a slot what another slot or the call holds.
LEMMA ShiftStep ==
  ASSUME PInv, NEW c \in Cpus, NEW p, p = cpu[c].pid, Shift(c)
  PROVE  PInv'
<1> DEFINE call == cpu[c]
           ports == [stats[p] EXCEPT !.ports = Moved(stats[p].ports, call.i, call.addr.port)]
           ips == [stats[p] EXCEPT !.ips = Moved(stats[p].ips, call.i, call.addr.ip)]
           next == NextStore(call)
<1>1. /\ call.pc \in {"ports", "ips"} /\ cpu' = [cpu EXCEPT ![c] = next]
      /\ \/ stats' = stats
         \/ stats' = [stats EXCEPT ![p] = ports]
         \/ stats' = [stats EXCEPT ![p] = ips]
      /\ UNCHANGED <<reader, past>>
  <2>1. call.pc \in {"ports", "ips"} /\ UNCHANGED <<reader, past>>
    BY DEF Shift
  <2>2. cpu' = [cpu EXCEPT ![c] = next]
    BY DEF Shift
  <2>3. CASE ~Holds(c)
    BY <2>1, <2>2, <2>3 DEF Shift
  <2>4. CASE Holds(c) /\ call.pc = "ports"
    BY <2>1, <2>2, <2>4 DEF Shift
  <2>5. CASE Holds(c) /\ call.pc # "ports"
    BY <2>1, <2>2, <2>5 DEF Shift
  <2> QED BY <2>3, <2>4, <2>5
<1>2. /\ p \in Tgids /\ call \in Call /\ stats[p] \in StatsEntry /\ call.i \in Slots
      /\ call.addr \in Dialled(p)
  BY <1>1 DEF PInv, TcpTypes, Dials, Call, Slots
<1>3. /\ call.addr.port \in Ports /\ call.addr.ip \in Ips /\ call.addr.ip \in IpsOf(p)
      /\ \A i \in Slots : stats[p].ips[i] \in IpsOf(p)
  BY <1>2 DEF Call, Ports, Ips, IpsOf, PInv, Known
<1>4. \A i \in Slots : i # 1 => i - 1 \in Slots
  BY DEF Slots
<1>5. ports \in StatsEntry /\ ports.count = stats[p].count /\ ports.ips = stats[p].ips
  <2>1. Moved(stats[p].ports, call.i, call.addr.port) \in [Slots -> Ports]
    BY <1>2, <1>3, <1>4 DEF Moved, StatsEntry
  <2> QED BY <1>2, <2>1 DEF StatsEntry
<1>6. /\ ips \in StatsEntry /\ ips.count = stats[p].count
      /\ \A i \in Slots : ips.ips[i] \in IpsOf(p)
  <2>1. Moved(stats[p].ips, call.i, call.addr.ip) \in [Slots -> Ips]
    BY <1>2, <1>3, <1>4 DEF Moved, StatsEntry
  <2>2. \A i \in Slots : Moved(stats[p].ips, call.i, call.addr.ip)[i] \in IpsOf(p)
    BY <1>2, <1>3, <1>4 DEF Moved, StatsEntry
  <2> QED BY <1>2, <2>1, <2>2 DEF StatsEntry
<1>7. /\ next \in Call /\ next.pid = p /\ next.addr = call.addr
      /\ next.pc \in {"ports", "ips", "mode"} /\ (next.pc \in {"ports", "ips"} => next.i > 0)
  <2>1. Window \in 0 .. Window /\ Window > 0 /\ 0 \in 0 .. Window
    OBVIOUS
  <2>2. CASE call.i > 1
    <3>1. next = [call EXCEPT !.i = call.i - 1] /\ call.i - 1 \in 0 .. Window /\ call.i - 1 > 0
      BY <1>2, <2>2 DEF Call, NextStore
    <3> HIDE DEF next
    <3> QED BY <1>1, <1>2, <3>1 DEF Call
  <2>3. CASE ~(call.i > 1) /\ call.pc = "ports"
    <3>1. next = [call EXCEPT !.pc = "ips", !.i = Window]
      BY <2>3 DEF NextStore
    <3> HIDE DEF next
    <3>2. next.pid = p /\ next.addr = call.addr /\ next.pc = "ips" /\ next.i = Window
      BY <1>2, <3>1 DEF Call
    <3>3. next \in Call
      BY <1>2, <2>1, <3>1 DEF Call
    <3> QED BY <2>1, <3>2, <3>3
  <2>4. CASE ~(call.i > 1) /\ call.pc # "ports"
    <3>1. next = [call EXCEPT !.pc = "mode", !.i = 0]
      BY <2>4 DEF NextStore
    <3> HIDE DEF next
    <3> QED BY <1>2, <2>1, <3>1 DEF Call
  <2> QED BY <2>2, <2>3, <2>4
<1> HIDE DEF next, ports, ips
<1>8. /\ cpu'[c] = next /\ \A d \in Cpus : d # c => cpu'[d] = cpu[d]
      /\ stats'[p] \in {stats[p], ports, ips}
      /\ cpu' = [cpu EXCEPT ![c] = cpu'[c]] /\ stats' = [stats EXCEPT ![p] = stats'[p]]
  BY <1>1, <1>2 DEF PInv, TcpTypes
<1>9. ProgramFrame(c) /\ stats'[p].count = stats[p].count
  <2>1. /\ stats'[p] \in StatsEntry /\ stats'[p].count = stats[p].count
        /\ \A i \in Slots : stats'[p].ips[i] \in IpsOf(p)
    BY <1>2, <1>3, <1>5, <1>6, <1>8
  <2> QED BY <1>1, <1>7, <1>8, <2>1 DEF ProgramFrame
<1>10. \A q : Pending(q)' = Pending(q)
  <2>1. cpu[c].pc \notin Uncounted /\ cpu'[c].pc \notin Uncounted
    BY <1>1, <1>7, <1>8 DEF Uncounted
  <2> QED BY <1>8, <2>1, PendingStays
<1> QED BY <1>9, <1>10, NothingCounted, ProgramKeeps

LEMMA ReaderStep ==
  ASSUME PInv, (\E p \in Tgids : CopyStart(p)) \/ CopySlot \/ CopyDone
  PROVE  PInv'
<1>1. UNCHANGED <<stats, cpu, past>>
  BY DEF CopyStart, CopySlot, CopyDone
<1>2. TcpTypes' /\ Counted' /\ Known' /\ Dials'
  BY <1>1 DEF PInv, TcpTypes, Counted, Pending, Known, IpsOf, Dials, Dialled
<1>3. \A p : IpsOf(p)' = IpsOf(p)
  BY <1>1 DEF IpsOf, Dialled
<1>4. ASSUME NEW p \in Tgids, CopyStart(p) PROVE Copied'
  BY <1>4 DEF CopyStart, Copied
<1>5. ASSUME CopySlot PROVE Copied'
  <2>1. /\ reader.i \in Slots /\ reader'.pid = reader.pid
        /\ reader'.ips = reader.ips \cup {stats[reader.pid].ips[reader.i]}
    BY <1>5 DEF CopySlot
  <2>2. reader.pid \in Tgids /\ reader.ips \subseteq IpsOf(reader.pid)
    BY <2>1 DEF PInv, Copied, Slots
  <2>3. stats[reader.pid].ips[reader.i] \in IpsOf(reader.pid)
    BY <2>1, <2>2 DEF PInv, Known
  <2>4. reader'.ips \subseteq IpsOf(reader'.pid)
    BY <2>1, <2>2, <2>3
  <2> QED BY <1>1, <2>1, <2>2, <2>4 DEF Copied, IpsOf, Dialled
<1>6. ASSUME CopyDone PROVE Copied'
  BY <1>6 DEF CopyDone, Copied, NoCopy
<1>7. Copied'
  BY <1>4, <1>5, <1>6
<1> QED BY <1>2, <1>7 DEF PInv

LEMMA TcpStep == PInv /\ [TcpNext]_tcpVars => PInv'
<1> SUFFICES ASSUME PInv, [TcpNext]_tcpVars PROVE PInv'
  OBVIOUS
<1>1. CASE UNCHANGED <<stats, cpu, reader, past>>
  <2>1. TcpTypes' /\ Counted'
    BY <1>1 DEF PInv, TcpTypes, Counted, Pending
  <2>2. Known' /\ Dials' /\ Copied'
    BY <1>1 DEF PInv, Known, IpsOf, Dials, Dialled, Copied
  <2> QED BY <2>1, <2>2 DEF PInv
<1>2. ASSUME NEW c \in Cpus, NEW p \in Tgids, NEW sa \in SockAddrs, Connect(c, p, sa)
      PROVE  PInv'
  BY <1>2, ConnectStep
<1>3. ASSUME NEW c \in Cpus, \/ Excluded(c) \/ LookUp(c) \/ Add(c) \/ Insert(c)
                             \/ LookUpAgain(c) \/ Shift(c) \/ Decide(c)
      PROVE  PInv'
  BY <1>1, <1>3, LookUpStep, AddStep, InsertStep, LookUpAgainStep, ShiftStep, DecideStep
     DEF Excluded, tcpVars
<1>4. CASE (\E p \in Tgids : CopyStart(p)) \/ CopySlot \/ CopyDone
  BY <1>4, ReaderStep
<1>5. CASE (\E p \in Tgids : Reuse(p)) \/ UNCHANGED tcpVars
  BY <1>1, <1>5 DEF Reuse, tcpVars
<1> QED BY <1>2, <1>3, <1>4, <1>5 DEF TcpNext

\* The inductive invariant, and with it the types.
THEOREM TcpInductive == TcpSpec => []PInv
<1> QED BY TcpInitInv, TcpStep, PTL DEF TcpSpec

-----------------------------------------------------------------------------
(* What follows. *)

\* On any number of processors the counter never runs ahead of the calls.
THEOREM CountCorrect == TcpSpec => []CountIsBounded
<1>1. PInv => CountIsBounded
  <2> SUFFICES ASSUME PInv, NEW p \in Tgids PROVE stats[p].count <= Len(past[p])
    BY DEF CountIsBounded
  <2>1. /\ stats[p].count + Cardinality(Pending(p)) <= Len(past[p])
        /\ stats[p].count \in Nat /\ Len(past[p]) \in Nat /\ Cardinality(Pending(p)) \in Nat
    BY PendingFinite DEF PInv, Counted, TcpTypes, StatsEntry
  <2> QED BY <2>1
<1> QED BY <1>1, TcpInductive, PTL

LEMMA DialledFinite ==
  ASSUME PInv, NEW p \in Tgids
  PROVE  IsFiniteSet({a.ip : a \in Dialled(p)})
<1> DEFINE I == 1 .. Len(past[p])
           T == {a.ip : a \in Dialled(p)}
           f == [i \in I |-> past[p][i].ip]
<1>1. past[p] \in Seq(Targets) /\ Len(past[p]) \in Nat /\ DOMAIN past[p] = I
  BY DEF PInv, TcpTypes
<1>2. f \in Surjection(I, T)
  BY <1>1 DEF Surjection, Dialled
<1>3. IsFiniteSet(I)
  <2>1. 1 \in Int /\ Len(past[p]) \in Int
    BY <1>1
  <2> QED BY <2>1, FS_Interval
<1> HIDE DEF I, T, f
<1>4. IsFiniteSet(T)
  BY <1>2, <1>3, FS_Surjection
<1> QED BY <1>4 DEF T

\* An anomaly is due to addresses decoded from calls under its tgid, whatever
\* the copy has seen of a window on the move.
THEOREM AnomalyCorrect == TcpSpec => []AnomalyIsReal
<1>1. PInv => AnomalyIsReal
  <2> SUFFICES ASSUME PInv, Anomaly
               PROVE  IpThreshold <= Cardinality({a.ip : a \in Dialled(reader.pid)} \ {NoIp})
    BY DEF AnomalyIsReal
  <2> DEFINE S == {a.ip : a \in Dialled(reader.pid)} \ {NoIp}
             T == reader.ips \ {NoIp}
  <2>1. reader.pid \in Tgids /\ T \in SUBSET S
    BY DEF PInv, Copied, Anomaly, IpsOf
  <2>2. IsFiniteSet(S)
    BY <2>1, DialledFinite, FS_RemoveElement
  <2>3. Cardinality(T) >= IpThreshold
    BY DEF Anomaly, Diversity
  <2> HIDE DEF S, T
  <2>4. Cardinality(T) <= Cardinality(S) /\ Cardinality(S) \in Nat /\ Cardinality(T) \in Nat
    BY <2>1, <2>2, FS_Subset, FS_CardinalityType
  <2>5. IpThreshold <= Cardinality(S)
    BY <2>3, <2>4
  <2> QED BY <2>5 DEF S
<1> QED BY <1>1, TcpInductive, PTL

-----------------------------------------------------------------------------
(*****************************************************************************)
(* The statistics of a tgid whose calls do not overlap (Lone).  Between      *)
(* two calls they are those of all calls (Settled).  During one the slots    *)
(* its stores have reached are those of all calls and the others still       *)
(* those of the calls before (Underway), so a store finds in the slot        *)
(* before it what belongs into its own.                                      *)
(*****************************************************************************)

\* How far the stores of a call have got.
PortMoved(call, i) == call.pc \in {"ips", "mode"} \/ (call.pc = "ports" /\ i > call.i)
IpMoved(call, i)   == call.pc = "mode" \/ (call.pc = "ips" /\ i > call.i)

\* An entry after all the calls of its process ...
Settled(entry, calls) ==
  /\ entry.count = Len(calls)
  /\ entry.gen = 0 <=> Len(calls) = 0
  /\ \A i \in Slots : PortFits(entry.ports, calls, Len(calls), i) /\ IpFits(entry.ips, calls, Len(calls), i)

\* ... and while the last of them is on its way.
Underway(call, entry, calls) ==
  LET n == Len(calls) IN
  /\ n > 0 /\ call.addr = calls[n] /\ call.pc # "idle"
  /\ entry.count = IF call.pc \in Uncounted THEN n - 1 ELSE n
  /\ call.pc = "stats" => (entry.gen = 0 <=> n = 1)
  /\ call.pc = "insert" => entry.gen = 0 /\ n = 1
  /\ call.pc \notin {"stats", "insert"} => entry.gen # 0
  /\ call.pc \in {"add", "ports", "ips"} => call.gen = entry.gen
  /\ call.pc \in {"ports", "ips"} => call.addr.port # NoPort
  /\ \A i \in Slots :
       /\ PortFits(entry.ports, calls, IF PortMoved(call, i) THEN n ELSE n - 1, i)
       /\ IpFits(entry.ips, calls, IF IpMoved(call, i) THEN n ELSE n - 1, i)

\* A process whose calls have never overlapped runs on one processor at most.
LoneAt(p) ==
  alone[p] =>
    /\ \A c, d \in Running(p) : c = d
    /\ Running(p) = {} => Settled(stats[p], past[p])
    /\ \A c \in Running(p) : Underway(cpu[c], stats[p], past[p])

Lone == /\ alone \in [Tgids -> BOOLEAN]
        /\ \A p \in Tgids : LoneAt(p)

\* One call more: it is the latest of those that could be read, or not one of them.
LEMMA LatestIs ==
  ASSUME NEW calls, NEW n \in Nat \ {0}, NEW i \in Nat \ {0}
  PROVE  /\ calls[n].port = NoPort => Latest(calls, n, i) = Latest(calls, n - 1, i)
         /\ calls[n].port # NoPort =>
              /\ Latest(calls, n, 1) = {n}
              /\ i > 1 => Latest(calls, n, i) = Latest(calls, n - 1, i - 1)
<1>1. \A k \in Nat : IsFiniteSet(ReadFrom(calls, k, n - 1)) /\ Cardinality(ReadFrom(calls, k, n - 1)) \in Nat
  <2> SUFFICES ASSUME NEW k \in Nat
               PROVE  IsFiniteSet(ReadFrom(calls, k, n - 1)) /\ Cardinality(ReadFrom(calls, k, n - 1)) \in Nat
    OBVIOUS
  <2>1. k \in Int /\ n - 1 \in Int
    OBVIOUS
  <2>2. IsFiniteSet(k .. (n - 1))
    BY <2>1, FS_Interval
  <2>3. ReadFrom(calls, k, n - 1) \in SUBSET (k .. (n - 1))
    BY DEF ReadFrom
  <2> QED BY <2>2, <2>3, FS_Subset, FS_CardinalityType
<1>2. CASE calls[n].port = NoPort
  <2>1. \A k \in Nat : ReadFrom(calls, k, n) = ReadFrom(calls, k, n - 1)
    BY <1>2 DEF ReadFrom
  <2>2. \A k \in ReadFrom(calls, 1, n - 1) : k \in Nat
    BY DEF ReadFrom
  <2> QED BY <1>2, <2>1, <2>2 DEF Latest
<1>3. CASE calls[n].port # NoPort
  <2>1. ReadFrom(calls, n, n) = {n} /\ ReadFrom(calls, 1, n) = ReadFrom(calls, 1, n - 1) \cup {n}
    BY <1>3 DEF ReadFrom
  <2>2. \A k \in ReadFrom(calls, 1, n - 1) :
          /\ k \in Nat /\ k # n /\ k \in ReadFrom(calls, k, n - 1)
          /\ ReadFrom(calls, k, n) = ReadFrom(calls, k, n - 1) \cup {n} /\ n \notin ReadFrom(calls, k, n - 1)
    BY <1>3 DEF ReadFrom
  <2>3. \A k \in ReadFrom(calls, 1, n - 1) :
          /\ Cardinality(ReadFrom(calls, k, n)) = Cardinality(ReadFrom(calls, k, n - 1)) + 1
          /\ Cardinality(ReadFrom(calls, k, n - 1)) \in Nat
          /\ Cardinality(ReadFrom(calls, k, n - 1)) # 0
    <3> SUFFICES ASSUME NEW k \in ReadFrom(calls, 1, n - 1)
                 PROVE  /\ Cardinality(ReadFrom(calls, k, n)) = Cardinality(ReadFrom(calls, k, n - 1)) + 1
                        /\ Cardinality(ReadFrom(calls, k, n - 1)) \in Nat
                        /\ Cardinality(ReadFrom(calls, k, n - 1)) # 0
      OBVIOUS
    <3> DEFINE R == ReadFrom(calls, k, n - 1)
    <3>1. IsFiniteSet(R) /\ Cardinality(R) \in Nat /\ n \notin R /\ R # {} /\ ReadFrom(calls, k, n) = R \cup {n}
      BY <1>1, <2>2
    <3> HIDE DEF R
    <3>2. Cardinality(R \cup {n}) = Cardinality(R) + 1
      BY <3>1, FS_AddElement
    <3>3. Cardinality(R) # 0
      BY <3>1, FS_EmptySet
    <3> QED BY <3>1, <3>2, <3>3 DEF R
  <2>4. Cardinality(ReadFrom(calls, n, n)) = 1
    BY <2>1, FS_Singleton
  <2>5. Latest(calls, n, 1) = {n}
    <3>1. \A k \in ReadFrom(calls, 1, n - 1) : Cardinality(ReadFrom(calls, k, n)) # 1
      BY <2>3
    <3> QED BY <2>1, <2>4, <3>1 DEF Latest
  <2>6. ASSUME i > 1 PROVE Latest(calls, n, i) = Latest(calls, n - 1, i - 1)
    <3>1. \A k \in ReadFrom(calls, 1, n - 1) :
            Cardinality(ReadFrom(calls, k, n)) = i <=> Cardinality(ReadFrom(calls, k, n - 1)) = i - 1
      BY <2>3
    <3>2. Cardinality(ReadFrom(calls, n, n)) # i
      BY <2>4, <2>6
    <3> QED BY <2>1, <3>1, <3>2 DEF Latest
  <2> QED BY <1>3, <2>5, <2>6
<1> QED BY <1>2, <1>3

\* Later calls change nothing about the first n.
LEMMA LatestKept ==
  ASSUME NEW calls, NEW more, NEW n \in Nat, \A k \in 1 .. n : more[k] = calls[k], NEW i
  PROVE  /\ Latest(more, n, i) = Latest(calls, n, i)
         /\ \A k \in Latest(calls, n, i) : more[k] = calls[k]
<1>1. \A k \in 1 .. n : ReadFrom(more, k, n) = ReadFrom(calls, k, n)
  BY DEF ReadFrom
<1>2. ReadFrom(more, 1, n) = ReadFrom(calls, 1, n) /\ ReadFrom(calls, 1, n) \subseteq 1 .. n
  BY DEF ReadFrom
<1> QED BY <1>1, <1>2 DEF Latest

\* ... so what fitted them fits them still.
LEMMA FitsKept ==
  ASSUME NEW calls, NEW more, NEW n \in Nat, \A k \in 1 .. n : more[k] = calls[k], NEW i, NEW s
  PROVE  /\ PortFits(s, calls, n, i) => PortFits(s, more, n, i)
         /\ IpFits(s, calls, n, i) => IpFits(s, more, n, i)
BY LatestKept DEF PortFits, IpFits

\* Each slot fits by itself.
LEMMA FitsSlot ==
  ASSUME NEW calls, NEW n, NEW i, NEW s, NEW t, s[i] = t[i]
  PROVE  /\ PortFits(s, calls, n, i) => PortFits(t, calls, n, i)
         /\ IpFits(s, calls, n, i) => IpFits(t, calls, n, i)
BY DEF PortFits, IpFits

\* A call whose address could not be read moves nothing and needs not.
LEMMA FitsUnread ==
  ASSUME NEW calls, NEW n \in Nat \ {0}, calls[n].port = NoPort, NEW i \in Slots, NEW s
  PROVE  /\ PortFits(s, calls, n - 1, i) => PortFits(s, calls, n, i)
         /\ IpFits(s, calls, n - 1, i) => IpFits(s, calls, n, i)
<1>1. i \in Nat \ {0}
  BY DEF Slots
<1> QED BY <1>1, LatestIs DEF PortFits, IpFits

\* A store of the window makes its slot hold what it has to.
LEMMA FitsMoved ==
  ASSUME NEW calls, NEW n \in Nat \ {0}, calls[n].port # NoPort, NEW i \in Slots, NEW s,
         DOMAIN s = Slots
  PROVE  /\ i > 1 /\ PortFits(s, calls, n - 1, i - 1) => PortFits(Moved(s, i, calls[n].port), calls, n, i)
         /\ i > 1 /\ IpFits(s, calls, n - 1, i - 1) => IpFits(Moved(s, i, calls[n].ip), calls, n, i)
         /\ i = 1 => PortFits(Moved(s, i, calls[n].port), calls, n, i)
         /\ i = 1 => IpFits(Moved(s, i, calls[n].ip), calls, n, i)
<1>1. i \in Nat \ {0}
  BY DEF Slots
<1>2. /\ Latest(calls, n, 1) = {n}
      /\ i > 1 => Latest(calls, n, i) = Latest(calls, n - 1, i - 1)
  BY <1>1, LatestIs
<1>3. \A v : Moved(s, i, v)[i] = IF i = 1 THEN v ELSE s[i - 1]
  BY DEF Moved
<1>4. CASE i = 1
  BY <1>2, <1>3, <1>4 DEF PortFits, IpFits
<1>5. CASE i > 1
  BY <1>2, <1>3, <1>5 DEF PortFits, IpFits
<1> QED BY <1>1, <1>4, <1>5


\* Other processes notice nothing of a step of a program; its own process has
\* no other program as long as it is alone.
LEMMA LoneFrame ==
  ASSUME Lone, NEW c \in Cpus, NEW p \in Tgids, cpu[c].pid = p, cpu'[c].pid = p,
         \A d \in Cpus : d # c => cpu'[d] = cpu[d],
         \A q \in Tgids : q # p => stats'[q] = stats[q],
         \A q \in Tgids : past'[q] = past[q],
         alone' \in [Tgids -> BOOLEAN], \A q \in Tgids : alone'[q] => alone[q],
         alone'[p] /\ Underway(cpu[c], stats[p], past[p]) => Underway(cpu'[c], stats'[p], past[p])
  PROVE  Lone'
<1> SUFFICES ASSUME NEW q \in Tgids, alone'[q]
             PROVE  /\ \A d, e \in Running(q)' : d = e
                    /\ Running(q)' = {} => Settled(stats'[q], past'[q])
                    /\ \A d \in Running(q)' : Underway(cpu'[d], stats'[q], past'[q])
  BY DEF Lone, LoneAt
<1>1. Running(q)' = Running(q)
  BY DEF Running
<1>2. /\ \A d, e \in Running(q) : d = e
      /\ Running(q) = {} => Settled(stats[q], past[q])
      /\ \A d \in Running(q) : Underway(cpu[d], stats[q], past[q])
  BY DEF Lone, LoneAt
<1>3. CASE q # p
  <2>1. \A d \in Running(q) : cpu'[d] = cpu[d]
    BY <1>3 DEF Running
  <2> QED BY <1>1, <1>2, <1>3, <2>1
<1>4. CASE q = p
  <2>1. c \in Running(q)
    BY <1>4 DEF Running
  <2>2. Underway(cpu'[c], stats'[p], past[p])
    BY <1>2, <1>4, <2>1
  <2> QED BY <1>1, <1>2, <1>4, <2>1, <2>2
<1> QED BY <1>3, <1>4

\* A process alone makes a call: its statistics are those of the calls before.
LEMMA LoneConnect ==
  ASSUME PInv, Lone, NEW c \in Cpus, NEW p \in Tgids, NEW sa \in SockAddrs, Connect(c, p, sa)
  PROVE  Lone'
<1>0. PICK a \in Parsed(sa) :
      /\ cpu' = [cpu EXCEPT ![c] = [pc |-> "stats", pid |-> p, addr |-> a, gen |-> 0, i |-> 0]]
      /\ past' = [past EXCEPT ![p] = Append(@, a)]
  BY DEF Connect
<1> DEFINE call == [pc |-> "stats", pid |-> p, addr |-> a, gen |-> 0, i |-> 0]
           n == Len(past[p])
<1>1. /\ cpu[c].pc = "idle" /\ cpu'[c] = call /\ \A d \in Cpus : d # c => cpu'[d] = cpu[d]
      /\ past'[p] = Append(past[p], a) /\ \A q \in Tgids : q # p => past'[q] = past[q]
      /\ stats' = stats
  BY <1>0 DEF Connect, At, PInv, TcpTypes
<1>2. /\ alone' = [alone EXCEPT ![p] = alone[p] /\ Running(p) = {}]
      /\ alone \in [Tgids -> BOOLEAN]
  BY DEF Connect, Lone
<1>3. /\ alone' \in [Tgids -> BOOLEAN]
      /\ \A q \in Tgids : alone'[q] => alone[q]
      /\ alone'[p] => Running(p) = {}
  BY <1>2
<1>4. \A q \in Tgids : alone'[q] => c \notin Running(q)
  BY <1>1, <1>3 DEF Lone, LoneAt, Underway
<1>5. call.pc = "stats" /\ call.addr = a /\ call.pid = p
  OBVIOUS
<1>6. /\ past[p] \in Seq(Targets) /\ a \in Targets /\ n \in Nat /\ Len(past'[p]) = n + 1
      /\ past'[p][n + 1] = a /\ \A k \in 1 .. n : past'[p][k] = past[p][k]
  <2>1. past[p] \in Seq(Targets) /\ a \in Targets
    BY DEF PInv, TcpTypes, Targets, Named
  <2> QED BY <1>1, <2>1
<1> HIDE DEF call
<1>7. ASSUME Settled(stats[p], past[p]) PROVE Underway(call, stats[p], past'[p])
  <2>1. /\ stats[p].count = n /\ (stats[p].gen = 0 <=> n = 0)
        /\ \A i \in Slots : PortFits(stats[p].ports, past[p], n, i) /\ IpFits(stats[p].ips, past[p], n, i)
    BY <1>7 DEF Settled
  <2> HIDE DEF n
  <2>2. \A i \in Slots : PortFits(stats[p].ports, past'[p], n, i) /\ IpFits(stats[p].ips, past'[p], n, i)
    BY <1>6, <2>1, FitsKept
  <2>3. n + 1 - 1 = n /\ n + 1 > 0 /\ (n = 0 <=> n + 1 = 1)
    BY <1>6
  <2>4. \A i : ~PortMoved(call, i) /\ ~IpMoved(call, i)
    BY <1>5 DEF PortMoved, IpMoved
  <2> QED BY <1>5, <1>6, <2>1, <2>2, <2>3, <2>4 DEF Underway, Uncounted
<1>8. ASSUME NEW q \in Tgids, alone'[q]
      PROVE  /\ \A d, e \in Running(q)' : d = e
             /\ Running(q)' = {} => Settled(stats'[q], past'[q])
             /\ \A d \in Running(q)' : Underway(cpu'[d], stats'[q], past'[q])
  <2>1. /\ \A d, e \in Running(q) : d = e
        /\ Running(q) = {} => Settled(stats[q], past[q])
        /\ \A d \in Running(q) : Underway(cpu[d], stats[q], past[q])
        /\ c \notin Running(q)
    BY <1>3, <1>4, <1>8 DEF Lone, LoneAt
  <2>2. CASE q # p
    <3>1. Running(q)' = Running(q) /\ \A d \in Running(q) : cpu'[d] = cpu[d]
      BY <1>1, <1>5, <2>1, <2>2 DEF Running
    <3> QED BY <1>1, <2>1, <2>2, <3>1
  <2>3. CASE q = p
    <3>1. Running(p) = {}
      BY <1>3, <1>8, <2>3
    <3>2. Running(p)' = {c}
      BY <1>1, <1>5, <3>1 DEF Running
    <3> QED BY <1>1, <1>7, <2>1, <2>3, <3>1, <3>2
  <2> QED BY <2>2, <2>3
<1> QED BY <1>3, <1>8 DEF Lone, LoneAt

\* The first call finds no entry, every later one does.
LEMMA LoneLookUp == ASSUME PInv, Lone, NEW c \in Cpus, LookUp(c) PROVE Lone'
<1> DEFINE p == cpu[c].pid
           next == [cpu[c] EXCEPT !.pc = IF Recorded(p) THEN "add" ELSE "insert",
                                  !.gen = stats[p].gen]
<1>1. cpu[c].pc = "stats" /\ cpu' = [cpu EXCEPT ![c] = next] /\ UNCHANGED <<stats, past, alone>>
  BY DEF LookUp, At
<1>2. p \in Tgids /\ cpu[c] \in Call /\ stats[p] \in StatsEntry
  BY <1>1 DEF PInv, TcpTypes
<1>3. /\ next.pid = p /\ next.addr = cpu[c].addr /\ next.gen = stats[p].gen
      /\ next.pc = IF stats[p].gen # 0 THEN "add" ELSE "insert"
  BY <1>2 DEF Call, StatsEntry, Recorded
<1>4. cpu'[c] = next /\ \A d \in Cpus : d # c => cpu'[d] = cpu[d]
  BY <1>1 DEF PInv, TcpTypes
<1>5. \A i : /\ ~PortMoved(cpu[c], i) /\ ~IpMoved(cpu[c], i)
             /\ ~PortMoved(cpu'[c], i) /\ ~IpMoved(cpu'[c], i)
  BY <1>1, <1>3, <1>4 DEF PortMoved, IpMoved
<1> HIDE DEF next
<1>6. Underway(cpu[c], stats[p], past[p]) => Underway(cpu'[c], stats[p], past[p])
  BY <1>1, <1>3, <1>4, <1>5 DEF Underway, Uncounted
<1>7. alone' \in [Tgids -> BOOLEAN] /\ \A q \in Tgids : alone'[q] => alone[q]
  BY <1>1 DEF Lone
<1> HIDE DEF p
<1>8. cpu[c].pid = p /\ cpu'[c].pid = p
  BY <1>3, <1>4 DEF p
<1> QED BY <1>1, <1>2, <1>4, <1>6, <1>7, <1>8, LoneFrame

\* The call is counted; its process has an entry, which it holds.
LEMMA UnderwayCounted ==
  ASSUME NEW call \in Call, NEW entry \in StatsEntry, NEW calls \in Seq(Targets),
         Len(calls) > 0, call.addr = calls[Len(calls)],
         entry.gen # 0, call.gen = entry.gen, entry.count = Len(calls),
         \A i \in Slots : /\ PortFits(entry.ports, calls, Len(calls) - 1, i)
                          /\ IpFits(entry.ips, calls, Len(calls) - 1, i)
  PROVE  Underway(AfterCount(call), entry, calls)
<1> DEFINE n == Len(calls)
<1>0. n \in Nat \ {0} /\ Window \in Nat
  OBVIOUS
<1>1. CASE call.addr.port # NoPort
  <2>1. AfterCount(call) = [call EXCEPT !.pc = "ports", !.i = Window]
    BY <1>1 DEF AfterCount
  <2>2. /\ AfterCount(call).pc = "ports" /\ AfterCount(call).addr = call.addr
        /\ AfterCount(call).gen = call.gen /\ AfterCount(call).i = Window
    BY <2>1 DEF Call
  <2>3. \A i \in Slots : ~PortMoved(AfterCount(call), i) /\ ~IpMoved(AfterCount(call), i)
    BY <2>2 DEF PortMoved, IpMoved, Slots
  <2> QED BY <1>0, <1>1, <2>2, <2>3 DEF Underway, Uncounted
<1>2. CASE call.addr.port = NoPort
  <2>1. AfterCount(call) = [call EXCEPT !.pc = "mode"]
    BY <1>2 DEF AfterCount
  <2>2. AfterCount(call).pc = "mode" /\ AfterCount(call).addr = call.addr
    BY <2>1 DEF Call
  <2>3. \A i \in Slots : PortFits(entry.ports, calls, n, i) /\ IpFits(entry.ips, calls, n, i)
    BY <1>0, <1>2, FitsUnread
  <2> QED BY <1>0, <2>2, <2>3 DEF Underway, Uncounted, PortMoved, IpMoved
<1> QED BY <1>1, <1>2

\* The entry held is that in the table, so the addition counts.
LEMMA LoneAdd == ASSUME PInv, Lone, NEW c \in Cpus, Add(c) PROVE Lone'
<1> DEFINE p == cpu[c].pid
           more == IF Holds(c) THEN 1 ELSE 0
           entry == [stats[p] EXCEPT !.count = stats[p].count + more]
<1>1. /\ cpu[c].pc = "add" /\ cpu' = [cpu EXCEPT ![c] = AfterCount(cpu[c])]
      /\ stats' = [stats EXCEPT ![p] = entry] /\ UNCHANGED <<past, alone>>
  BY DEF Add, At
<1>2. p \in Tgids /\ cpu[c] \in Call /\ stats[p] \in StatsEntry /\ past[p] \in Seq(Targets)
  BY <1>1 DEF PInv, TcpTypes
<1>3. /\ cpu'[c] = AfterCount(cpu[c]) /\ \A d \in Cpus : d # c => cpu'[d] = cpu[d]
      /\ stats'[p] = entry /\ \A q \in Tgids : q # p => stats'[q] = stats[q]
  BY <1>1, <1>2 DEF PInv, TcpTypes
<1>4. /\ entry.count = stats[p].count + more /\ entry.gen = stats[p].gen
      /\ entry.ports = stats[p].ports /\ entry.ips = stats[p].ips
      /\ more \in {0, 1} /\ entry \in StatsEntry
  BY <1>2 DEF StatsEntry
<1>5. ASSUME Underway(cpu[c], stats[p], past[p]) PROVE Underway(cpu'[c], stats'[p], past[p])
  <2> DEFINE call == cpu[c]
             n == Len(past[p])
  <2>1. /\ n > 0 /\ n \in Nat /\ call.addr = past[p][n] /\ stats[p].count = n - 1
        /\ stats[p].gen # 0 /\ call.gen = stats[p].gen
    BY <1>1, <1>2, <1>5 DEF Underway, Uncounted
  <2>2. \A i \in Slots : PortFits(stats[p].ports, past[p], n - 1, i) /\ IpFits(stats[p].ips, past[p], n - 1, i)
    BY <1>1, <1>5 DEF Underway, PortMoved, IpMoved
  <2>3. entry.count = n
    BY <1>4, <2>1 DEF Holds
  <2> HIDE DEF entry
  <2> QED BY <1>2, <1>3, <1>4, <2>1, <2>2, <2>3, UnderwayCounted
<1>6. alone' \in [Tgids -> BOOLEAN] /\ \A q \in Tgids : alone'[q] => alone[q]
  BY <1>1 DEF Lone
<1>7. cpu'[c].pid = p
  BY <1>2, <1>3, AfterCountIs
<1> HIDE DEF p, entry, more
<1>8. cpu[c].pid = p /\ \A q \in Tgids : past'[q] = past[q]
  BY <1>1 DEF p
<1> QED BY <1>2, <1>3, <1>5, <1>6, <1>7, <1>8, LoneFrame

\* Only the first call of a process that is alone inserts.
LEMMA LoneInsert == ASSUME PInv, Lone, NEW c \in Cpus, Insert(c) PROVE Lone'
<1> DEFINE p == cpu[c].pid
           refused == ~Recorded(p) /\ Full
           entry == NewEntry(stats[p].gen + 1, 1)
           next == [cpu[c] EXCEPT !.pc = "again"]
<1>1. /\ cpu[c].pc = "insert" /\ cpu' = [cpu EXCEPT ![c] = next]
      /\ stats' = IF refused THEN stats ELSE [stats EXCEPT ![p] = entry]
      /\ alone' = [alone EXCEPT ![p] = alone[p] /\ ~refused]
      /\ past' = past
  BY DEF Insert, At, Goto
<1>2. p \in Tgids /\ cpu[c] \in Call /\ stats[p] \in StatsEntry /\ past[p] \in Seq(Targets)
  BY <1>1 DEF PInv, TcpTypes
<1>3. /\ cpu'[c] = next /\ \A d \in Cpus : d # c => cpu'[d] = cpu[d]
      /\ ~refused => stats'[p] = entry
      /\ \A q \in Tgids : q # p => stats'[q] = stats[q]
  BY <1>1, <1>2 DEF PInv, TcpTypes
<1>4. next.pid = p /\ next.addr = cpu[c].addr /\ next.pc = "again"
  BY <1>2 DEF Call
<1>5. /\ entry.gen = stats[p].gen + 1 /\ entry.count = 1 /\ stats[p].gen \in Nat
      /\ \A i \in Slots : entry.ports[i] = NoPort /\ entry.ips[i] = NoIp
  BY <1>2 DEF NewEntry, StatsEntry
<1>6. /\ alone' \in [Tgids -> BOOLEAN] /\ \A q \in Tgids : alone'[q] => alone[q]
      /\ alone'[p] => ~refused
  BY <1>1, <1>2 DEF Lone
<1> HIDE DEF entry, next, refused
<1>7. ASSUME alone'[p], Underway(cpu[c], stats[p], past[p]) PROVE Underway(cpu'[c], stats'[p], past[p])
  <2>1. Len(past[p]) = 1 /\ cpu[c].addr = past[p][1] /\ stats[p].gen = 0
    BY <1>1, <1>7 DEF Underway
  <2>2. \A i \in Slots : PortFits(entry.ports, past[p], 0, i) /\ IpFits(entry.ips, past[p], 0, i)
    <3>1. \A i : Latest(past[p], 0, i) = {}
      BY DEF Latest, ReadFrom
    <3> QED BY <1>5, <3>1 DEF PortFits, IpFits
  <2>3. \A i : ~PortMoved(next, i) /\ ~IpMoved(next, i)
    BY <1>4 DEF PortMoved, IpMoved
  <2>4. stats'[p] = entry /\ entry.gen # 0
    BY <1>3, <1>5, <1>6, <1>7
  <2> QED BY <1>3, <1>4, <1>5, <2>1, <2>2, <2>3, <2>4 DEF Underway, Uncounted
<1> HIDE DEF p
<1>8. cpu[c].pid = p /\ cpu'[c].pid = p /\ \A q \in Tgids : past'[q] = past[q]
  BY <1>1, <1>3, <1>4 DEF p
<1> QED BY <1>2, <1>3, <1>6, <1>7, <1>8, LoneFrame

\* Nobody has replaced the entry that was inserted.
LEMMA LoneLookUpAgain == ASSUME PInv, Lone, NEW c \in Cpus, LookUpAgain(c) PROVE Lone'
<1> DEFINE p == cpu[c].pid
           call == [cpu[c] EXCEPT !.gen = stats[p].gen]
<1>1. /\ cpu[c].pc = "again" /\ cpu' = [cpu EXCEPT ![c] = AfterCount(call)]
      /\ UNCHANGED <<stats, past, alone>>
  BY DEF LookUpAgain, At, AfterInsert
<1>2. p \in Tgids /\ cpu[c] \in Call /\ stats[p] \in StatsEntry /\ past[p] \in Seq(Targets)
  BY <1>1 DEF PInv, TcpTypes
<1>3. cpu'[c] = AfterCount(call) /\ \A d \in Cpus : d # c => cpu'[d] = cpu[d]
  BY <1>1 DEF PInv, TcpTypes
<1>4. call \in Call /\ call.pid = p /\ call.addr = cpu[c].addr /\ call.gen = stats[p].gen
  BY <1>2 DEF Call, StatsEntry
<1>5. ASSUME Underway(cpu[c], stats[p], past[p]) PROVE Underway(cpu'[c], stats'[p], past[p])
  <2> DEFINE n == Len(past[p])
  <2>1. /\ n > 0 /\ n \in Nat /\ cpu[c].addr = past[p][n] /\ stats[p].count = n /\ stats[p].gen # 0
    BY <1>1, <1>2, <1>5 DEF Underway, Uncounted
  <2>2. \A i \in Slots : PortFits(stats[p].ports, past[p], n - 1, i) /\ IpFits(stats[p].ips, past[p], n - 1, i)
    BY <1>1, <1>5 DEF Underway, PortMoved, IpMoved
  <2> HIDE DEF call
  <2> QED BY <1>1, <1>2, <1>3, <1>4, <2>1, <2>2, UnderwayCounted
<1>6. alone' \in [Tgids -> BOOLEAN] /\ \A q \in Tgids : alone'[q] => alone[q]
  BY <1>1 DEF Lone
<1>7. cpu'[c].pid = p
  BY <1>3, <1>4, AfterCountIs
<1> HIDE DEF p, call
<1>8. /\ cpu[c].pid = p
      /\ \A q \in Tgids : past'[q] = past[q] /\ stats'[q] = stats[q]
  BY <1>1 DEF p
<1> QED BY <1>2, <1>3, <1>5, <1>6, <1>7, <1>8, LoneFrame

\* A store puts in its slot what the call before had in the slot before.
LEMMA LoneShift == ASSUME PInv, Lone, NEW c \in Cpus, Shift(c) PROVE Lone'
<1> DEFINE p == cpu[c].pid
           call == cpu[c]
           next == NextStore(call)
<1>1. /\ call.pc \in {"ports", "ips"} /\ cpu' = [cpu EXCEPT ![c] = next]
      /\ UNCHANGED <<past, alone>>
      /\ stats' = (IF ~Holds(c) THEN stats
                   ELSE IF call.pc = "ports"
                   THEN [stats EXCEPT ![p].ports = Moved(stats[p].ports, call.i, call.addr.port)]
                   ELSE [stats EXCEPT ![p].ips = Moved(stats[p].ips, call.i, call.addr.ip)])
  BY DEF Shift
<1>2. /\ p \in Tgids /\ call \in Call /\ stats[p] \in StatsEntry /\ past[p] \in Seq(Targets)
      /\ call.i \in Slots
  BY <1>1 DEF PInv, TcpTypes, Call, Slots
<1>3. /\ cpu'[c] = next /\ \A d \in Cpus : d # c => cpu'[d] = cpu[d]
      /\ \A q \in Tgids : q # p => stats'[q] = stats[q]
  BY <1>1, <1>2 DEF PInv, TcpTypes
<1>4. /\ Holds(c) /\ call.pc = "ports" => 
            /\ stats'[p].ports = Moved(stats[p].ports, call.i, call.addr.port)
            /\ stats'[p].ips = stats[p].ips
            /\ stats'[p].gen = stats[p].gen /\ stats'[p].count = stats[p].count
      /\ Holds(c) /\ call.pc = "ips" => 
            /\ stats'[p].ips = Moved(stats[p].ips, call.i, call.addr.ip)
            /\ stats'[p].ports = stats[p].ports
            /\ stats'[p].gen = stats[p].gen /\ stats'[p].count = stats[p].count
  BY <1>1, <1>2 DEF PInv, TcpTypes, StatsEntry
<1>5. /\ next.pid = p /\ next.addr = call.addr /\ next.gen = call.gen
      /\ call.i > 1 => next.pc = call.pc /\ next.i = call.i - 1
      /\ call.i = 1 /\ call.pc = "ports" => next.pc = "ips" /\ next.i = Window
      /\ call.i = 1 /\ call.pc = "ips" => next.pc = "mode"
  BY <1>1, <1>2 DEF NextStore, Call, Slots
<1> HIDE DEF next
<1>6. ASSUME Underway(call, stats[p], past[p]) PROVE Underway(cpu'[c], stats'[p], past[p])
  <2> DEFINE n == Len(past[p])
             i == call.i
             e == stats[p]
             f == stats'[p]
  <2>1. /\ n > 0 /\ n \in Nat /\ call.addr = past[p][n] /\ e.count = n /\ e.gen # 0
        /\ call.gen = e.gen /\ call.addr.port # NoPort /\ Holds(c)
    BY <1>1, <1>2, <1>6 DEF Underway, Uncounted, Holds
  <2>2. \A j \in Slots : /\ PortFits(e.ports, past[p], IF PortMoved(call, j) THEN n ELSE n - 1, j)
                        /\ IpFits(e.ips, past[p], IF IpMoved(call, j) THEN n ELSE n - 1, j)
    BY <1>6 DEF Underway
  <2>3. i \in Slots /\ i \in Nat /\ 1 <= i /\ i <= Window
    BY <1>2 DEF Slots
  <2>4. \A j \in Slots : j \in Nat /\ 1 <= j /\ j <= Window /\ (j > 1 => j - 1 \in Slots)
    BY DEF Slots
  <2>5. DOMAIN e.ports = Slots /\ DOMAIN e.ips = Slots
    BY <1>2 DEF StatsEntry
  <2>6. \A v, j : j \in Slots /\ j # i =>
          Moved(e.ports, i, v)[j] = e.ports[j] /\ Moved(e.ips, i, v)[j] = e.ips[j]
    BY <2>5 DEF Moved
  <2>7. /\ f.count = n /\ f.gen = e.gen /\ n \in Nat \ {0} /\ past[p][n].port # NoPort
    BY <1>1, <1>4, <2>1
  <2>8. next.pc \in {"ports", "ips", "mode"} /\ next.pc \notin Uncounted
    BY <1>1, <1>5, <2>3 DEF Uncounted
  <2>9. CASE call.pc = "ports"
    <3>1. f.ports = Moved(e.ports, i, past[p][n].port) /\ f.ips = e.ips
      BY <1>4, <2>1, <2>9
    <3>2. PortFits(f.ports, past[p], n, i)
      <4>1. ~PortMoved(call, i - 1)
        BY <2>3, <2>9 DEF PortMoved
      <4>2. i > 1 => PortFits(e.ports, past[p], n - 1, i - 1)
        BY <2>2, <2>3, <2>4, <4>1
      <4> HIDE DEF e, f, i, n
      <4> QED BY <2>3, <2>5, <2>7, <3>1, <4>2, FitsMoved
    <3>3. \A j \in Slots : j # i => PortFits(f.ports, past[p], IF PortMoved(call, j) THEN n ELSE n - 1, j)
      <4> SUFFICES ASSUME NEW j \in Slots, j # i
                   PROVE  PortFits(f.ports, past[p], IF PortMoved(call, j) THEN n ELSE n - 1, j)
        OBVIOUS
      <4>1. f.ports[j] = e.ports[j]
        BY <2>6, <3>1
      <4> HIDE DEF e, f, n
      <4> QED BY <2>2, <4>1, FitsSlot
    <3>4. \A j \in Slots : PortMoved(next, j) <=> j = i \/ PortMoved(call, j)
      <4>1. CASE i > 1
        <5>1. next.pc = "ports" /\ next.i = i - 1 /\ i \in Nat
          BY <1>5, <2>3, <2>9, <4>1
        <5> HIDE DEF i
        <5>2. \A j \in Slots : PortMoved(next, j) <=> j > i - 1
          BY <5>1 DEF PortMoved
        <5>3. \A j \in Slots : PortMoved(call, j) <=> j > i
          BY <2>9 DEF PortMoved, i
        <5>4. \A j \in Slots : j > i - 1 <=> j = i \/ j > i
          BY <2>4, <5>1
        <5> QED BY <5>2, <5>3, <5>4
      <4>2. CASE i = 1
        <5>1. \A j \in Slots : PortMoved(next, j)
          BY <1>5, <2>9, <4>2 DEF PortMoved
        <5>2. \A j \in Slots : j = i \/ PortMoved(call, j)
          BY <2>4, <2>9, <4>2 DEF PortMoved
        <5> QED BY <5>1, <5>2
      <4> QED BY <2>3, <4>1, <4>2
    <3>5. \A j \in Slots : ~IpMoved(next, j) /\ ~IpMoved(call, j)
      BY <1>5, <2>3, <2>4, <2>9 DEF IpMoved
    <3>6. \A j \in Slots : /\ PortFits(f.ports, past[p], IF PortMoved(next, j) THEN n ELSE n - 1, j)
                          /\ IpFits(f.ips, past[p], IF IpMoved(next, j) THEN n ELSE n - 1, j)
      BY <2>2, <3>1, <3>2, <3>3, <3>4, <3>5
    <3> QED BY <1>3, <1>5, <2>1, <2>7, <2>8, <3>6 DEF Underway
  <2>10. CASE call.pc = "ips"
    <3>1. f.ips = Moved(e.ips, i, past[p][n].ip) /\ f.ports = e.ports
      BY <1>4, <2>1, <2>10
    <3>2. IpFits(f.ips, past[p], n, i)
      <4>1. ~IpMoved(call, i - 1)
        BY <2>3, <2>10 DEF IpMoved
      <4>2. i > 1 => IpFits(e.ips, past[p], n - 1, i - 1)
        BY <2>2, <2>3, <2>4, <4>1
      <4> HIDE DEF e, f, i, n
      <4> QED BY <2>3, <2>5, <2>7, <3>1, <4>2, FitsMoved
    <3>3. \A j \in Slots : j # i => IpFits(f.ips, past[p], IF IpMoved(call, j) THEN n ELSE n - 1, j)
      <4> SUFFICES ASSUME NEW j \in Slots, j # i
                   PROVE  IpFits(f.ips, past[p], IF IpMoved(call, j) THEN n ELSE n - 1, j)
        OBVIOUS
      <4>1. f.ips[j] = e.ips[j]
        BY <2>6, <3>1
      <4> HIDE DEF e, f, n
      <4> QED BY <2>2, <4>1, FitsSlot
    <3>4. \A j \in Slots : IpMoved(next, j) <=> j = i \/ IpMoved(call, j)
      <4>1. CASE i > 1
        <5>1. next.pc = "ips" /\ next.i = i - 1 /\ i \in Nat
          BY <1>5, <2>3, <2>10, <4>1
        <5> HIDE DEF i
        <5>2. \A j \in Slots : IpMoved(next, j) <=> j > i - 1
          BY <5>1 DEF IpMoved
        <5>3. \A j \in Slots : IpMoved(call, j) <=> j > i
          BY <2>10 DEF IpMoved, i
        <5>4. \A j \in Slots : j > i - 1 <=> j = i \/ j > i
          BY <2>4, <5>1
        <5> QED BY <5>2, <5>3, <5>4
      <4>2. CASE i = 1
        <5>1. \A j \in Slots : IpMoved(next, j)
          BY <1>5, <2>10, <4>2 DEF IpMoved
        <5>2. \A j \in Slots : j = i \/ IpMoved(call, j)
          BY <2>4, <2>10, <4>2 DEF IpMoved
        <5> QED BY <5>1, <5>2
      <4> QED BY <2>3, <4>1, <4>2
    <3>5. \A j \in Slots : PortMoved(next, j) /\ PortMoved(call, j)
      BY <1>5, <2>3, <2>4, <2>10 DEF PortMoved
    <3>6. \A j \in Slots : /\ PortFits(f.ports, past[p], IF PortMoved(next, j) THEN n ELSE n - 1, j)
                          /\ IpFits(f.ips, past[p], IF IpMoved(next, j) THEN n ELSE n - 1, j)
      BY <2>2, <3>1, <3>2, <3>3, <3>4, <3>5
    <3> QED BY <1>3, <1>5, <2>1, <2>7, <2>8, <3>6 DEF Underway
  <2> QED BY <1>1, <2>9, <2>10
<1>7. alone' \in [Tgids -> BOOLEAN] /\ \A q \in Tgids : alone'[q] => alone[q]
  BY <1>1 DEF Lone
<1>8. cpu'[c].pid = p /\ \A q \in Tgids : past'[q] = past[q]
  BY <1>1, <1>3, <1>5
<1> QED BY <1>2, <1>3, <1>6, <1>7, <1>8, LoneFrame

\* All stores are made: the statistics are those of all calls.
LEMMA LoneDecide == ASSUME PInv, Lone, NEW c \in Cpus, Decide(c) PROVE Lone'
<1> DEFINE p == cpu[c].pid
<1>1. cpu[c].pc = "mode" /\ cpu' = [cpu EXCEPT ![c] = NoCall] /\ UNCHANGED <<stats, past, alone>>
  BY DEF Decide, At, Stop
<1>2. p \in Tgids /\ past[p] \in Seq(Targets)
  BY <1>1 DEF PInv, TcpTypes
<1>3. cpu'[c].pid = 0 /\ \A d \in Cpus : d # c => cpu'[d] = cpu[d]
  BY <1>1 DEF PInv, TcpTypes, NoCall
<1>4. ASSUME Underway(cpu[c], stats[p], past[p]) PROVE Settled(stats[p], past[p])
  BY <1>1, <1>2, <1>4 DEF Underway, Settled, PortMoved, IpMoved, Uncounted
<1>5. ASSUME NEW q \in Tgids, alone[q]
      PROVE  /\ \A d, e \in Running(q)' : d = e
             /\ Running(q)' = {} => Settled(stats[q], past[q])
             /\ \A d \in Running(q)' : Underway(cpu'[d], stats[q], past[q])
  <2>1. /\ \A d, e \in Running(q) : d = e
        /\ Running(q) = {} => Settled(stats[q], past[q])
        /\ \A d \in Running(q) : Underway(cpu[d], stats[q], past[q])
    BY <1>5 DEF Lone, LoneAt
  <2>2. q # 0 /\ Running(q)' = Running(q) \ {c} /\ \A d \in Running(q) : d # c => cpu'[d] = cpu[d]
    BY <1>3 DEF Running
  <2>3. CASE c \in Running(q)
    <3>1. q = p /\ Running(q)' = {}
      BY <2>1, <2>2, <2>3 DEF Running
    <3> QED BY <1>4, <2>1, <2>3, <3>1
  <2>4. CASE c \notin Running(q)
    BY <2>1, <2>2, <2>4
  <2> QED BY <2>3, <2>4
<1> QED BY <1>1, <1>5 DEF Lone, LoneAt

\* Nobody has called, and nothing is recorded.
LEMMA LoneInit == TcpInit => Lone
<1> SUFFICES ASSUME TcpInit PROVE Lone
  OBVIOUS
<1>1. \A p \in Tgids : stats[p] = Empty /\ past[p] = << >>
  BY DEF TcpInit
<1>2. alone \in [Tgids -> BOOLEAN]
  BY DEF TcpInit
<1>3. \A p \in Tgids : Running(p) = {}
  BY DEF TcpInit, NoCall, Running
<1>4. Settled(Empty, << >>)
  <2>1. \A i : Latest(<< >>, 0, i) = {}
    BY DEF Latest, ReadFrom
  <2>2. Len(<< >>) = 0 /\ Empty.gen = 0 /\ Empty.count = 0
    BY DEF Empty, NewEntry
  <2>3. \A i \in Slots : Empty.ports[i] = NoPort /\ Empty.ips[i] = NoIp
    BY DEF Empty, NewEntry
  <2> QED BY <2>1, <2>2, <2>3 DEF Settled, PortFits, IpFits
<1> QED BY <1>1, <1>2, <1>3, <1>4 DEF Lone, LoneAt

\* Every action keeps it.
LEMMA LoneStep == PInv /\ Lone /\ [TcpNext]_tcpVars => Lone'
<1> SUFFICES ASSUME PInv, Lone, [TcpNext]_tcpVars PROVE Lone'
  OBVIOUS
<1>1. CASE UNCHANGED <<stats, cpu, past, alone>>
  BY <1>1 DEF Lone, LoneAt, Running
<1>2. ASSUME NEW c \in Cpus, NEW p \in Tgids, NEW sa \in SockAddrs, Connect(c, p, sa)
      PROVE  Lone'
  BY <1>2, LoneConnect
<1>3. ASSUME NEW c \in Cpus, \/ LookUp(c) \/ Add(c) \/ Insert(c)
                             \/ LookUpAgain(c) \/ Shift(c) \/ Decide(c)
      PROVE  Lone'
  BY <1>3, LoneLookUp, LoneAdd, LoneInsert, LoneLookUpAgain, LoneShift, LoneDecide
<1>4. CASE (\E c \in Cpus : Excluded(c)) \/ (\E p \in Tgids : Reuse(p) \/ CopyStart(p))
           \/ CopySlot \/ CopyDone \/ UNCHANGED tcpVars
  BY <1>1, <1>4 DEF Excluded, Reuse, CopyStart, CopySlot, CopyDone, tcpVars
<1> QED BY <1>2, <1>3, <1>4 DEF TcpNext

\* The statistics of a tgid are exact as long as the calls under it do not
\* overlap, whatever the programs of others and the agent do meanwhile.
THEOREM ExactAloneCorrect == TcpSpec => []ExactAlone
<1>1. PInv /\ Lone => ExactAlone
  BY DEF Lone, LoneAt, Settled, ExactAlone
<1>2. TcpSpec => []Lone
  BY LoneInit, LoneStep, TcpInductive, PTL DEF TcpSpec
<1> QED BY <1>1, <1>2, TcpInductive, PTL
=============================================================================

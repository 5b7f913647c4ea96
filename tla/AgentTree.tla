------------------------------- MODULE AgentTree -------------------------------
(***************************************************************************)
(* How the file probe keeps the agent's own accesses out of the events:    *)
(* the kernel table agent_pids of (pid, start time) keys, written by three *)
(* kernel programs (v3_engine/probes/file_access.c) and by the agent,      *)
(* which registers itself, marks the commands it runs and sweeps the table *)
(* every minute (v3_loader/file_loader.go, collector/exec_helper.go).      *)
(*                                                                         *)
(* A program runs while its task is stopped in the tracepoint, but other   *)
(* tasks run at the same time, so a lookup and the insertion that follows  *)
(* are two steps.  The table is keyed by thread, and the parent of a       *)
(* process is the thread that forked it.                                   *)
(***************************************************************************)
EXTENDS Integers, FiniteSets

CONSTANTS
  Main, Other,  \* the agent's first thread and one of its other threads
  System,       \* init: parent of the strangers and of orphans
  Pids,         \* the pids the kernel gives out and reuses
  PidsCapacity, \* max_entries of agent_pids
  MaxTick       \* bound: the clock of the start times

Threads == {Main, Other}
Fixed   == Threads \cup {System}
Tasks   == Pids \cup Fixed

ASSUME TreeAssumption ==
  /\ MaxTick \in Nat /\ PidsCapacity \in Nat
  /\ Main # Other /\ System \notin Threads /\ Pids \cap Fixed = {}

VARIABLES
  task,      \* the kernel's tasks; `ours` is history: descends from the agent
  agentPids, \* the keys in the kernel table
  prog,      \* where the kernel program of a task's tracepoint stands
  mark,      \* how far RunAndMark is with a command it started
  deadKeys,  \* the keys CleanupDeadPids is about to delete
  tick

treeVars == <<task, agentPids, prog, mark, deadKeys, tick>>

States == {"free", "run", "exiting", "zombie"}
Progs  == {"none", "parent", "open_join", "exec_join", "path"}
Marks  == {"no", "start", "check", "put"}
TreeKeys  == Tasks \X (0 .. MaxTick)
TaskRecord == [state : States, st : 0 .. MaxTick, parent : Tasks, ours : BOOLEAN]

TreeTypeOK ==
  /\ task \in [Tasks -> TaskRecord]
  /\ agentPids \subseteq TreeKeys
  /\ prog \in [Tasks -> Progs]
  /\ mark \in [Tasks -> Marks]
  /\ deadKeys \subseteq TreeKeys
  /\ tick \in 0 .. MaxTick

\* A defect: the key is the pid alone.
PidKey(p) == <<p, 0>>

\* read_task_pid_starttime
KeyOf(p) == <<p, task[p].st>>

InTable(p) == KeyOf(p) \in agentPids

\* An insertion: a full table refuses a new key and the result is ignored.
Added(key) ==
  IF Cardinality(agentPids \cup {key}) <= PidsCapacity
  THEN agentPids \cup {key} ELSE agentPids

\* Load has emptied the table and registered the agent's first thread.
TreeInit ==
  /\ task = [p \in Tasks |->
       [state |-> IF p \in Fixed THEN "run" ELSE "free", st |-> 0,
        parent |-> System, ours |-> p \in Threads]]
  /\ agentPids = {<<Main, 0>>}
  /\ prog = [p \in Tasks |-> "none"]
  /\ mark = [p \in Tasks |-> "no"]
  /\ deadKeys = {}
  /\ tick = 0

Idle(p) == task[p].state = "run" /\ prog[p] = "none"

-----------------------------------------------------------------------------
(* The kernel: processes come and go. *)

\* A pid is not given out again within one tick: the allocator is cyclic.
\* The agent forks to run a command it will mark, or one it will not.
Fork(p, c) ==
  /\ Idle(p)
  /\ task[c].state = "free" /\ task[c].st < tick
  /\ task' = [task EXCEPT ![c] =
       [state |-> "run", st |-> tick, parent |-> p, ours |-> task[p].ours]]
  /\ \/ mark' = mark
     \/ p \in Threads /\ mark' = [mark EXCEPT ![c] = "start"]
  /\ UNCHANGED <<agentPids, prog, deadKeys, tick>>

\* The children of a task that has exited get another parent; only then can
\* it be waited for.
Orphan(p) ==
  /\ task[p].state = "exiting"
  /\ task' = [c \in Tasks |->
       IF c = p THEN [task[c] EXCEPT !.state = "zombie"]
       ELSE IF task[c].parent = p THEN [task[c] EXCEPT !.parent = System]
       ELSE task[c]]
  /\ UNCHANGED <<agentPids, prog, mark, deadKeys, tick>>

\* Wait: RunAndMark waits after it has marked (or after the command could not
\* be executed), and the pid is free again.
Reap(p) ==
  /\ task[p].state = "zombie"
  /\ mark[p] \notin {"check", "put"}
  /\ task' = [task EXCEPT ![p] = [state |-> "free", st |-> @.st,
                                 parent |-> System, ours |-> FALSE]]
  /\ mark' = [mark EXCEPT ![p] = "no"]
  /\ UNCHANGED <<agentPids, prog, deadKeys, tick>>

Tick ==
  /\ tick < MaxTick
  /\ tick' = tick + 1
  /\ UNCHANGED <<task, agentPids, prog, mark, deadKeys>>

-----------------------------------------------------------------------------
(* The kernel programs. *)

\* trace_exec: a task whose parent is in the table joins it.  The command has
\* been executed, so Start returns to RunAndMark.
Exec(p) ==
  /\ Idle(p)
  /\ prog' = [prog EXCEPT ![p] =
       IF InTable(task[p].parent) THEN "exec_join" ELSE "none"]
  /\ mark' = [mark EXCEPT ![p] = IF @ = "start" THEN "check" ELSE @]
  /\ UNCHANGED <<task, agentPids, deadKeys, tick>>

\* trace_openat: an access of a task in the table is not reported.
OpenKnown(p) ==
  /\ Idle(p)
  /\ InTable(p)
  /\ UNCHANGED treeVars

OpenUnknown(p) ==
  /\ Idle(p)
  /\ ~InTable(p)
  /\ prog' = [prog EXCEPT ![p] = "parent"]
  /\ UNCHANGED <<task, agentPids, mark, deadKeys, tick>>

\* is_agent_tree_or_join: the parent is looked up next; when that misses too,
\* the access goes on to the path rules.
OpenParent(p) ==
  /\ prog[p] = "parent"
  /\ prog' = [prog EXCEPT ![p] =
       IF InTable(task[p].parent) THEN "open_join" ELSE "path"]
  /\ UNCHANGED <<task, agentPids, mark, deadKeys, tick>>

\* add_current_to_agent_tree; after "open_join" the access is not reported.
Join(p) ==
  /\ prog[p] \in {"open_join", "exec_join"}
  /\ agentPids' = Added(KeyOf(p))
  /\ prog' = [prog EXCEPT ![p] = "none"]
  /\ UNCHANGED <<task, mark, deadKeys, tick>>

\* The rest of trace_openat: path rules and event.
Report(p) ==
  /\ prog[p] = "path"
  /\ prog' = [prog EXCEPT ![p] = "none"]
  /\ UNCHANGED <<task, agentPids, mark, deadKeys, tick>>

\* trace_exit runs before the kernel tells the parent.
Exit(p) ==
  /\ Idle(p)
  /\ agentPids' = agentPids \ {KeyOf(p)}
  /\ task' = [task EXCEPT ![p].state = "exiting"]
  /\ UNCHANGED <<prog, mark, deadKeys, tick>>

-----------------------------------------------------------------------------
(* The agent. *)

Exists(p) == task[p].state # "free"

\* markChildProcess: only a child of the agent (ppidIsMine) is marked.
MarkCheck(p) ==
  /\ mark[p] = "check"
  /\ mark' = [mark EXCEPT ![p] =
       IF Exists(p) /\ task[p].parent \in Threads THEN "put" ELSE "no"]
  /\ UNCHANGED <<task, agentPids, prog, deadKeys, tick>>

\* MarkAgentPid: the start time is read by pid from /proc, where a process is
\* found until it is reaped.
MarkPut(p) ==
  /\ mark[p] = "put"
  /\ agentPids' = IF Exists(p) THEN Added(KeyOf(p)) ELSE agentPids
  /\ mark' = [mark EXCEPT ![p] = "no"]
  /\ UNCHANGED <<task, prog, deadKeys, tick>>

\* CleanupDeadPids collects the keys whose pid has no directory in /proc ...
SweepScan ==
  /\ deadKeys = {}
  /\ deadKeys' = {key \in agentPids : ~Exists(key[1])}
  /\ UNCHANGED <<task, agentPids, prog, mark, tick>>

\* A defect: the key to delete is built from the start time the pid has now.
SweepRebuilt(key) ==
  /\ key \in deadKeys
  /\ agentPids' = IF Exists(key[1]) THEN agentPids \ {KeyOf(key[1])} ELSE agentPids
  /\ deadKeys' = deadKeys \ {key}
  /\ UNCHANGED <<task, prog, mark, tick>>

\* ... and then deletes them one by one.
SweepDelete(key) ==
  /\ key \in deadKeys
  /\ agentPids' = agentPids \ {key}
  /\ deadKeys' = deadKeys \ {key}
  /\ UNCHANGED <<task, prog, mark, tick>>

SweepStep == \E key \in deadKeys : SweepDelete(key)

TreeNext ==
  \/ \E p \in Tasks, c \in Pids : Fork(p, c)
  \/ \E p \in Pids \cup Threads :
       OpenKnown(p) \/ OpenUnknown(p) \/ OpenParent(p) \/ Report(p)
  \/ \E p \in Pids :
       \/ Exec(p) \/ Join(p) \/ Exit(p) \/ Orphan(p) \/ Reap(p)
       \/ MarkCheck(p) \/ MarkPut(p)
  \/ Tick
  \/ SweepScan
  \/ SweepStep

\* The cleanup loop runs every minute.
SweepFairness == WF_treeVars(SweepScan) /\ WF_treeVars(SweepStep)

TreeSpec == TreeInit /\ [][TreeNext]_treeVars /\ SweepFairness

-----------------------------------------------------------------------------
(* Properties. *)

\* Whose accesses the probe hides.
Hidden(p) == Exists(p) /\ (InTable(p) \/ prog[p] = "open_join")

Entry(p) == \E st \in 0 .. MaxTick : <<p, st>> \in agentPids

\* Nobody but the agent and its descendants is ever hidden from the file
\* probe, not even a process that got the pid of a command whose entry was
\* left behind (sentinel_common.h:246).
FilteredIsOurs == \A p \in Tasks : Hidden(p) => task[p].ours

\* A task that has joined stays hidden until it exits: neither the exit of a
\* namesake nor a sweep that looked at /proc before takes its entry away.
JoinedStays ==
  [][\A p \in Tasks :
       task[p].state = "run" /\ InTable(p) /\ task'[p].state = "run"
         => InTable(p)']_treeVars

\* The entries of a pid nobody has leave the table, unless the pid is given to
\* somebody else first: the sweep is all that removes what MarkAgentPid wrote
\* after the exit program had run.
DeadLeave ==
  \A p \in Pids :
    ~Exists(p) /\ Entry(p) ~> Exists(p) \/ ~Entry(p)

(* What a comment says and the code does not do. *)

\* file_loader.go:100 and sentinel_common.h:244: the events are free of what
\* the agent itself does.
OwnNoiseFiltered == \A p \in Threads : prog[p] # "path"
=============================================================================

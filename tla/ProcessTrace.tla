------------------------------ MODULE ProcessTrace ------------------------------
(***************************************************************************)
(* How the agent knows which processes belong to a star: the exec program  *)
(* in the kernel (v3_engine/probes/exec_monitor.c) submits an event and    *)
(* then notes the parent in pid_ppid_map; the handler of the event looks   *)
(* the parent up there and adds it to the star's own tree; once a minute   *)
(* the tree is rebuilt from /proc (agent/star_trace.go).  Processes fork,  *)
(* exit and get other parents meanwhile, and pids are used again.          *)
(***************************************************************************)
EXTENDS Integers, Sequences, FiniteSets

CONSTANTS
  TracePids,  \* the pids the kernel gives out and reuses
  Root,       \* the process a star was activated for
  Reaper,     \* parent of the strangers and of orphans
  MaxDepth,   \* how far Matches climbs; 10 in the code
  ExecSlots,  \* how many events the ring buffer holds
  MaxCpus,    \* bound: exec programs running at once
  MaxForks    \* bound: forks, that of the root included

NoPid == 0
Kids  == TracePids \ {Root}
Above == TracePids \cup {Reaper}

ASSUME TraceAssumption ==
  /\ Root \in TracePids /\ Reaper \notin TracePids /\ NoPid \notin Above
  /\ MaxDepth \in Nat \ {0} /\ ExecSlots \in Nat /\ MaxCpus \in Nat /\ MaxForks \in Nat

VARIABLES
  proc,     \* the processes; `family` is history: descends from the root
  execProg, \* the parent the exec program still has to note, by process
  ppidMap,  \* pid_ppid_map
  execRing, \* the events not handled yet
  tree,     \* pidToPPid of the star; the root's own parent is never asked for
  scan      \* the rebuild under way: pids still to read, parents found, and
            \* as history the pids with the same parent since the listing

traceVars == <<proc, execProg, ppidMap, execRing, tree, scan>>

Nobody == [p \in Kids |-> NoPid]
NoScan == [on |-> FALSE, todo |-> {}, found |-> Nobody, stable |-> {}]

Alive(p) == proc[p].parent # NoPid

\* activateStar has read the tree: the root is there, the rest is to come.
TraceInit ==
  /\ proc = [p \in TracePids |->
       IF p = Root THEN [parent |-> Reaper, life |-> 1, family |-> TRUE]
       ELSE [parent |-> NoPid, life |-> 0, family |-> FALSE]]
  /\ execProg = Nobody
  /\ ppidMap = Nobody
  /\ execRing = <<>>
  /\ tree = Nobody
  /\ scan = NoScan

Busy(p) == p \in Kids /\ execProg[p] # NoPid

-----------------------------------------------------------------------------
(* The kernel. *)

Forks == {f \in TracePids \X (1 .. MaxForks) : f[2] <= proc[f[1]].life}

TraceFork(p, c) ==
  /\ p \in TracePids => Alive(p) /\ ~Busy(p)
  /\ ~Alive(c) /\ Cardinality(Forks) < MaxForks
  /\ proc' = [proc EXCEPT ![c] = [parent |-> p, life |-> @.life + 1,
                                  family |-> p \in TracePids /\ proc[p].family]]
  /\ UNCHANGED <<execProg, ppidMap, execRing, tree, scan>>

\* The children of a process that ends become the system's.
TraceExit(p) ==
  /\ Alive(p) /\ ~Busy(p)
  /\ proc' = [c \in TracePids |->
       IF c = p THEN [proc[c] EXCEPT !.parent = NoPid]
       ELSE IF proc[c].parent = p THEN [proc[c] EXCEPT !.parent = Reaper]
       ELSE proc[c]]
  /\ scan' = [scan EXCEPT !.stable = {c \in @ : c # p /\ proc[c].parent # p}]
  /\ UNCHANGED <<execProg, ppidMap, execRing, tree>>

-----------------------------------------------------------------------------
(* trace_execve *)

\* An excluded process or command, or a full ring: the program returns, and
\* the parent is not noted either.
ExecUnreported(p) ==
  /\ Alive(p) /\ ~Busy(p)
  /\ UNCHANGED traceVars

\* The event is submitted; the parent read for it is kept ...
ExecSubmit(p) ==
  /\ Alive(p) /\ ~Busy(p)
  /\ Cardinality({q \in Kids : Busy(q)}) < MaxCpus
  /\ Len(execRing) < ExecSlots
  /\ execRing' = Append(execRing, p)
  /\ execProg' = [execProg EXCEPT ![p] = proc[p].parent]
  /\ UNCHANGED <<proc, ppidMap, tree, scan>>

\* ... and noted only now.
ExecNote(p) ==
  /\ Busy(p)
  /\ ppidMap' = [ppidMap EXCEPT ![p] = execProg[p]]
  /\ execProg' = [execProg EXCEPT ![p] = NoPid]
  /\ UNCHANGED <<proc, execRing, tree, scan>>

-----------------------------------------------------------------------------
(* The agent. *)

\* handleExecEventV3 asks the map, not the event, for the parent
\* (updateStarPidTree, UpdateParent).
HandleExec ==
  LET p == Head(execRing) IN
  /\ execRing # <<>>
  /\ execRing' = Tail(execRing)
  /\ tree' = IF ppidMap[p] # NoPid THEN [tree EXCEPT ![p] = ppidMap[p]] ELSE tree
  /\ UNCHANGED <<proc, execProg, ppidMap, scan>>

\* A defect: only the pids the star knows are read again.
ListKnown == {p \in Kids : Alive(p) /\ tree[p] # NoPid}

\* The directories of /proc.
ListProc == {p \in Kids : Alive(p)}

\* LoadFullPidTree: the directory is listed ...
ScanStart ==
  /\ ~scan.on
  /\ scan' = [on |-> TRUE, todo |-> ListProc, found |-> Nobody, stable |-> {p \in Kids : Alive(p)}]
  /\ UNCHANGED <<proc, execProg, ppidMap, execRing, tree>>

\* ... and the status of one process after the other read, if it is still
\* there.
ScanRead(p) ==
  /\ p \in scan.todo
  /\ scan' = [scan EXCEPT !.todo = @ \ {p},
                          !.found[p] = proc[p].parent]
  /\ UNCHANGED <<proc, execProg, ppidMap, execRing, tree>>

\* RebuildFromProc: the new tree replaces the old one, and with it what the
\* exec events have added during the scan.
ScanDone ==
  /\ scan.on /\ scan.todo = {}
  /\ tree' = scan.found
  /\ scan' = NoScan
  /\ UNCHANGED <<proc, execProg, ppidMap, execRing>>

TraceNext ==
  \/ \E p \in Above, c \in TracePids : TraceFork(p, c)
  \/ \E p \in TracePids : TraceExit(p)
  \/ \E p \in Kids : ExecUnreported(p) \/ ExecSubmit(p) \/ ExecNote(p) \/ ScanRead(p)
  \/ HandleExec
  \/ ScanStart
  \/ ScanDone

TraceSpec == TraceInit /\ [][TraceNext]_traceVars

-----------------------------------------------------------------------------
(* Matches *)

ParentIn(links, p) == IF p \in Kids THEN links[p] ELSE NoPid

\* The pids above p, by distance.
Climb(links, p) ==
  LET up[n \in 0 .. MaxDepth] ==
        IF n = 0 THEN p ELSE ParentIn(links, up[n - 1])
  IN up

\* A defect: the root's ancestors match as well, and so do their relatives.
MatchesRelatives(links, p) ==
  p = Root \/ \E n \in 1 .. MaxDepth : Climb(links, p)[n] \in {Root, Reaper}

MatchesIn(links, p) ==
  p = Root \/ \E n \in 1 .. MaxDepth : Climb(links, p)[n] = Root

-----------------------------------------------------------------------------
(* Properties. *)

\* Who gets the star's identifier descends from the process the star was
\* activated for, unless a pid on the way has been used again: parents noted
\* at different times, by different means, of processes that have exited or
\* got another parent since, still make up a line of descent
\* (star_trace.go:75).
MatchIsFamily ==
  \A p \in TracePids : MatchesIn(tree, p) =>
    \/ proc[p].family
    \/ \E n \in 0 .. MaxDepth : LET q == Climb(tree, p)[n] IN
         q \in TracePids /\ proc[q].life > 1

\* The parents as they are in the kernel.
Truth == [p \in Kids |-> proc[p].parent]

\* A rebuild repairs what the events have missed: a process matches after it
\* when its line of descent has not changed since the directory was listed.
RebuildFinds ==
  [][ScanDone =>
       \A p \in Kids : \A n \in 1 .. MaxDepth :
         /\ Climb(Truth, p)[n] = Root
         /\ \A m \in 0 .. n - 1 : Climb(Truth, p)[m] \in scan.stable
         => MatchesIn(tree', p)]_traceVars
=============================================================================

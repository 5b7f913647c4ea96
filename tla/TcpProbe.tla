-------------------------------- MODULE TcpProbe --------------------------------
(***************************************************************************)
(* The connection probe (v3_engine/probes/tcp_monitor.c) and what the agent *)
(* does with it.  The program trace_connect runs on every processor at     *)
(* once, also for threads of one process, and updates the statistics of    *)
(* the process without a lock: only the counter is atomic.  The agent      *)
(* copies the statistics out slot by slot while the programs go on         *)
(* (agent.go, analyzeTCPAnomalies).  Whether a call is reported as an event *)
(* as well depends on the mode StarTracking sets, and changes nothing here. *)
(*                                                                         *)
(* The table knows a process by its tgid, and nothing ever deletes an entry *)
(* of it: a process that is given the tgid of an earlier one goes on with  *)
(* the counter and the window of that one.  parse_sockaddr takes the bytes *)
(* behind the family for a port and an address whatever the family is.     *)
(*                                                                         *)
(* An insertion that finds the tgid there after all replaces the entry:    *)
(* whoever holds the old one writes into the void, which the generation of *)
(* an entry stands for.                                                    *)
(* (The kernel may hand such an element to another insertion while a      *)
(* program still holds it; this is left out.)                              *)
(* conn_details is written and never read; it is left out.                 *)
(***************************************************************************)
EXTENDS Integers, Sequences, FiniteSets

CONSTANTS
  Cpus,
  Tgids,         \* what the table knows processes by
  SockAddrs,     \* what connect is called with: records [family, port, ip],
                 \* port and ip the bytes at offset 2 and 4
  NoIp, NoPort,  \* zero
  Window,        \* length of recent_ports and recent_ips; 4 in the code
  StatsCapacity, \* max_entries of pid_conn_stats
  IpThreshold,   \* distinct addresses that make an anomaly
  MaxConnects    \* bound: calls that pass the exclusions

NoAddress == [ip |-> NoIp, port |-> NoPort]
Slots     == 1 .. Window

ASSUME TcpAssumption ==
  /\ Window \in Nat \ {0} /\ StatsCapacity \in Nat
  /\ IsFiniteSet(Cpus) /\ 0 \notin Tgids
  /\ IpThreshold \in Nat /\ MaxConnects \in Nat

VARIABLES
  stats,    \* pid_conn_stats; gen = 0: no entry
  cpu,      \* the program running on each processor
  reader,   \* the agent's copy of one entry, as far as it has got
  past,     \* history: the calls under a tgid that passed the exclusions
  alone,    \* history: no two of them overlapped, none found a full table
  own       \* history: what the process that has the tgid now has called

tcpVars == <<stats, cpu, reader, past, alone, own>>

NewEntry(gen, count) == [gen |-> gen, count |-> count,
                         ports |-> [i \in Slots |-> NoPort], ips |-> [i \in Slots |-> NoIp]]
Empty  == NewEntry(0, 0)
NoCall == [pc |-> "idle", pid |-> 0, addr |-> NoAddress, gen |-> 0, i |-> 0]
NoCopy == [pid |-> 0, i |-> 0, ips |-> {}]

TcpInit ==
  /\ stats = [p \in Tgids |-> Empty]
  /\ cpu = [c \in Cpus |-> NoCall]
  /\ reader = NoCopy
  /\ past = [p \in Tgids |-> <<>>]
  /\ alone = [p \in Tgids |-> TRUE]
  /\ own = [p \in Tgids |-> {}]

Running(p)  == {c \in Cpus : cpu[c].pid = p}
Recorded(p) == stats[p].gen # 0
At(c, pc)   == cpu[c].pc = pc
Goto(c, pc) == cpu' = [cpu EXCEPT ![c].pc = pc]

-----------------------------------------------------------------------------
(* trace_connect *)

Passed == {x \in Tgids \X (1 .. MaxConnects) : x[2] <= Len(past[x[1]])}

Stop(c) == cpu' = [cpu EXCEPT ![c] = NoCall]

\* A rule of one of the three exclusion tables ends the call.
Excluded(c) ==
  /\ At(c, "idle")
  /\ UNCHANGED tcpVars

\* parse_sockaddr: the bytes, the family unseen, or nothing if they cannot be
\* read.
Parsed(sa) == {[ip |-> sa.ip, port |-> sa.port], NoAddress}

\* A call passes the exclusions.
Connect(c, p, sa) ==
  /\ At(c, "idle")
  /\ Cardinality(Passed) < MaxConnects
  /\ \E a \in Parsed(sa) :
       /\ cpu' = [cpu EXCEPT ![c] = [pc |-> "stats", pid |-> p, addr |-> a, gen |-> 0, i |-> 0]]
       /\ past' = [past EXCEPT ![p] = Append(@, a)]
  /\ alone' = [alone EXCEPT ![p] = @ /\ Running(p) = {}]
  /\ own' = [own EXCEPT ![p] = @ \cup {sa}]
  /\ UNCHANGED <<stats, reader>>

\* The entry of the process is looked up.
LookUp(c) ==
  LET p == cpu[c].pid IN
  /\ At(c, "stats")
  /\ cpu' = [cpu EXCEPT ![c] = [@ EXCEPT !.pc = IF Recorded(p) THEN "add" ELSE "insert",
                                         !.gen = stats[p].gen]]
  /\ UNCHANGED <<stats, reader, past, alone, own>>

\* The program still holds the entry that is in the table.
Holds(c) == cpu[c].gen = stats[cpu[c].pid].gen

\* Where the program goes after the counter: the window, when it holds an
\* entry and has a port.
AfterCount(call) ==
  IF call.gen # 0 /\ call.addr.port # NoPort
  THEN [call EXCEPT !.pc = "ports", !.i = Window]
  ELSE [call EXCEPT !.pc = "mode"]

\* A defect: the insertion is followed by the addition as well.
AfterInsertAdds(call) == [call EXCEPT !.pc = IF call.gen # 0 THEN "add" ELSE "mode"]
AfterInsert(call) == AfterCount(call)

Add(c) ==
  /\ At(c, "add")
  /\ stats' = [stats EXCEPT ![cpu[c].pid].count = @ + (IF Holds(c) THEN 1 ELSE 0)]
  /\ cpu' = [cpu EXCEPT ![c] = AfterCount(@)]
  /\ UNCHANGED <<reader, past, alone, own>>

Full == Cardinality({p \in Tgids : Recorded(p)}) >= StatsCapacity

\* A new entry, also over one another processor has inserted meanwhile.  A
\* full table takes no new process.
Insert(c) ==
  LET p == cpu[c].pid
      refused == ~Recorded(p) /\ Full
  IN
  /\ At(c, "insert")
  /\ stats' = IF refused THEN stats
              ELSE [stats EXCEPT ![p] = NewEntry(stats[p].gen + 1, 1)]
  /\ alone' = [alone EXCEPT ![p] = @ /\ ~refused]
  /\ Goto(c, "again")
  /\ UNCHANGED <<reader, past, own>>

LookUpAgain(c) ==
  /\ At(c, "again")
  /\ cpu' = [cpu EXCEPT ![c] = AfterInsert([@ EXCEPT !.gen = stats[cpu[c].pid].gen])]
  /\ UNCHANGED <<stats, reader, past, alone, own>>

\* A defect: the stores are made in the opposite order.
MovedNewestFirst(slots, i, new) ==
  LET j == Window + 1 - i IN [slots EXCEPT ![j] = IF j = 1 THEN new ELSE slots[j - 1]]

\* The window moves by one slot, the oldest first.
Moved(slots, i, new) == [slots EXCEPT ![i] = IF i = 1 THEN new ELSE slots[i - 1]]

NextStore(call) ==
  IF call.i > 1 THEN [call EXCEPT !.i = call.i - 1]
  ELSE IF call.pc = "ports" THEN [call EXCEPT !.pc = "ips", !.i = Window]
  ELSE [call EXCEPT !.pc = "mode", !.i = 0]

\* The window moves one store at a time, first the ports, then the addresses.
Shift(c) ==
  LET call == cpu[c]
      p == call.pid
  IN
  /\ call.pc \in {"ports", "ips"}
  /\ stats' = IF ~Holds(c) THEN stats
              ELSE IF call.pc = "ports"
              THEN [stats EXCEPT ![p].ports = Moved(@, call.i, call.addr.port)]
              ELSE [stats EXCEPT ![p].ips = Moved(@, call.i, call.addr.ip)]
  /\ cpu' = [cpu EXCEPT ![c] = NextStore(call)]
  /\ UNCHANGED <<reader, past, alone, own>>

\* The mode is looked up, and the call reported or not.
Decide(c) ==
  /\ At(c, "mode")
  /\ Stop(c)
  /\ UNCHANGED <<stats, reader, past, alone, own>>

\* The process of a tgid ends and another one gets the tgid: the table is left
\* as it is.
Reuse(p) ==
  /\ Running(p) = {} /\ own[p] # {}
  /\ own' = [own EXCEPT ![p] = {}]
  /\ UNCHANGED <<stats, cpu, reader, past, alone>>

-----------------------------------------------------------------------------
(* The agent. *)

\* analyzeTCPAnomalies copies an entry: the kernel does not stop the programs
\* meanwhile.  The ports are copied likewise and compared with the sensitive
\* ones.
CopyStart(p) ==
  /\ reader = NoCopy
  /\ Recorded(p)
  /\ reader' = [pid |-> p, i |-> 1, ips |-> {}]
  /\ UNCHANGED <<stats, cpu, past, alone, own>>

CopySlot ==
  /\ reader.i \in Slots
  /\ reader' = [reader EXCEPT !.i = @ + 1, !.ips = @ \cup {stats[reader.pid].ips[reader.i]}]
  /\ UNCHANGED <<stats, cpu, past, alone, own>>

\* A defect: an empty slot counts as an address.
DiversityWithZero == Cardinality(reader.ips)

\* How many distinct addresses the copy holds.
Diversity == Cardinality(reader.ips \ {NoIp})

\* tcp_anomaly is reported when the threshold is reached.
Anomaly == reader.i = Window + 1 /\ Diversity >= IpThreshold

CopyDone ==
  /\ reader.i = Window + 1
  /\ reader' = NoCopy
  /\ UNCHANGED <<stats, cpu, past, alone, own>>

TcpNext ==
  \/ \E c \in Cpus :
       \/ \E p \in Tgids, sa \in SockAddrs : Connect(c, p, sa)
       \/ Excluded(c) \/ LookUp(c) \/ Add(c) \/ Insert(c) \/ LookUpAgain(c)
       \/ Shift(c) \/ Decide(c)
  \/ \E p \in Tgids : Reuse(p) \/ CopyStart(p)
  \/ CopySlot
  \/ CopyDone

TcpSpec == TcpInit /\ [][TcpNext]_tcpVars

-----------------------------------------------------------------------------
(* Properties. *)

Dialled(p) == {past[p][i] : i \in DOMAIN past[p]}

\* An anomaly is never made up: however the programs and the copy interleave,
\* as many addresses as are counted have been decoded from calls under this
\* tgid.  It takes the processes that had the tgid together, and any family.
AnomalyIsReal ==
  Anomaly => IpThreshold <= Cardinality({a.ip : a \in Dialled(reader.pid)} \ {NoIp})

\* Not so: an anomaly is due to IPv4 addresses the process it is reported for
\* has called.  The window may be that of an earlier process of the tgid, and
\* the path of a Unix socket counts as an address.
AnomalyOfItsProcess ==
  Anomaly => IpThreshold <= Cardinality({sa.ip : sa \in {x \in own[reader.pid] : x.family = "inet"}})

\* The counter never runs ahead of the calls under its tgid, on any interleaving.
CountIsBounded == \A p \in Tgids : stats[p].count <= Len(past[p])

\* Of the first n calls, the i-th latest whose address could be read.
ReadFrom(calls, k, n) == {j \in k .. n : calls[j].port # NoPort}
Latest(calls, n, i) ==
  {k \in ReadFrom(calls, 1, n) : Cardinality(ReadFrom(calls, k, n)) = i}

\* A slot of the window holds it, or nothing if there were not as many.
PortFits(slots, calls, n, i) ==
  IF Latest(calls, n, i) = {} THEN slots[i] = NoPort
  ELSE \A k \in Latest(calls, n, i) : slots[i] = calls[k].port
IpFits(slots, calls, n, i) ==
  IF Latest(calls, n, i) = {} THEN slots[i] = NoIp
  ELSE \A k \in Latest(calls, n, i) : slots[i] = calls[k].ip

\* As long as the calls under a tgid do not overlap, its statistics are exact:
\* every call counted, the last ones in the window, newest first, the ports
\* with their addresses, also when another process has got the tgid between.
ExactAlone ==
  \A p \in Tgids : alone[p] /\ Running(p) = {} =>
    /\ stats[p].count = Len(past[p])
    /\ \A i \in Slots : /\ PortFits(stats[p].ports, past[p], Len(past[p]), i)
                        /\ IpFits(stats[p].ips, past[p], Len(past[p]), i)
=============================================================================

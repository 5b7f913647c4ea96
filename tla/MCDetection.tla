------------------------------ MODULE MCDetection ------------------------------
(***************************************************************************)
(* Small instances of the parts of the detection path: the rules in the    *)
(* kernel tables and the programs that look them up, the agent's own       *)
(* processes, the connection statistics, the process tree of a star, and   *)
(* the alert engine.  They share no state, so each initial state lets one  *)
(* of them run while the others stand still: the states checked are the    *)
(* sum of those of the parts.                                              *)
(***************************************************************************)
EXTENDS RuleLookup, AgentTree, TcpProbe, ProcessTrace, Alerting

CONSTANTS k1, k2, p1, p2, main, other, system, root, q1, q2, i1, i2, noip, norule

MCMatching == [s \in {"path"} |-> {<<"exact", k1>>, <<"prefix", k1>>}]

\* An IPv6 address has no flow label as a rule: its port counts, no address.
\* The bytes of a path decode like those of an IPv4 address.
MCSockAddrs == {[family |-> "inet", port |-> 22, ip |-> i1],
                [family |-> "inet", port |-> 443, ip |-> i2],
                [family |-> "inet6", port |-> 443, ip |-> noip]}
MCAnySockAddrs == MCSockAddrs \cup {[family |-> "unix", port |-> 443, ip |-> i2]}

Counted   == [count |-> 2, window |-> 2, named |-> TRUE, dedup |-> 2]
Uncounted == [count |-> 0, window |-> 0, named |-> TRUE, dedup |-> 3]
MCFiles   == {Counted, Uncounted}
Shipped   == {[Counted EXCEPT !.named = FALSE]}

VARIABLE part   \* the part that runs

parts == <<vars, lookupVars, treeVars, tcpVars, traceVars, alertVars, part>>

MCInit ==
  /\ part \in {"rules", "tree", "tcp", "trace", "alerts"}
  /\ Init /\ LookupInit /\ (part # "rules" => tracked)
  /\ TreeInit /\ TcpInit /\ TraceInit
  /\ AlertInit /\ (part # "alerts" => file = CHOOSE f \in Files : TRUE)

RulesRun  == part = "rules"  /\ LookupNext
TreeRun   == part = "tree"   /\ TreeNext
TcpRun    == part = "tcp"    /\ TcpNext
TraceRun  == part = "trace"  /\ TraceNext
AlertsRun == part = "alerts" /\ AlertNext

MCNext ==
  /\ part' = part
  /\ \/ RulesRun  /\ UNCHANGED <<treeVars, tcpVars, traceVars, alertVars>>
     \/ TreeRun   /\ UNCHANGED <<vars, lookupVars, tcpVars, traceVars, alertVars>>
     \/ TcpRun    /\ UNCHANGED <<vars, lookupVars, treeVars, traceVars, alertVars>>
     \/ TraceRun  /\ UNCHANGED <<vars, lookupVars, treeVars, tcpVars, alertVars>>
     \/ AlertsRun /\ UNCHANGED <<vars, lookupVars, treeVars, tcpVars, traceVars>>

MCSpec == MCInit /\ [][MCNext]_parts

MCFairSpec == MCSpec /\ (part = "tree" => SweepFairness)
=============================================================================

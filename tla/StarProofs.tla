----------------------------- MODULE StarProofs ------------------------------
(*****************************************************************************)
(* Proofs about what the agent and the server make of events: the            *)
(* commands that open a star (StarTracking), the processes that belong to    *)
(* it (ProcessTrace), and the alerts (Alerting): for any number of alerts,   *)
(* stars, faults, pids, forks, goroutines and any rules.                     *)
(*****************************************************************************)
EXTENDS StarTracking, ProcessTrace, Alerting, FiniteSetTheorems, SequenceTheorems,
        WellFoundedInduction, TLAPS

-----------------------------------------------------------------------------
(*****************************************************************************)
(* The commands.  What was handled comes before what was answered, and that  *)
(* before what still waits at the server (InTurn); a heartbeat moves the     *)
(* queue as a whole, and whatever is lost or forgotten is lost as a whole.   *)
(*****************************************************************************)

Numbers == Seq(Nat)

Increasing(s) == \A i, j \in DOMAIN s : i < j => s[i] < s[j]
Below(n, s)   == \A i \in DOMAIN s : n < s[i]

StarTypes ==
  /\ alerts \in Seq(Stars)
  /\ queue \in Numbers /\ cmds \in Numbers /\ handled \subseteq Nat

\* Commands are numbered by the alerts so far.
NoneAhead ==
  /\ \A n \in handled : n <= Len(alerts)
  /\ \A i \in DOMAIN cmds : cmds[i] <= Len(alerts)
  /\ \A i \in DOMAIN queue : queue[i] <= Len(alerts)

\* What was handled comes before what was answered, and that before what waits.
InTurn ==
  /\ Increasing(cmds) /\ Increasing(queue)
  /\ \A i \in DOMAIN cmds : Below(cmds[i], queue)
  /\ \A n \in handled : Below(n, queue)
  /\ \A n \in handled : \A i \in DOMAIN cmds : step = "activate" \/ i > 1 => n < cmds[i]

\* Only the loop that handles commands has any.
Hands ==
  /\ hb \in {"idle", "failed"} => cmds = <<>>
  /\ hb = "handle" => cmds # <<>>
  /\ step # "activate" => hb = "handle"

SInv == StarTypes /\ NoneAhead /\ InTurn /\ Hands

\* Nothing is queued at first.
LEMMA StarInit == Init => SInv
BY DEF Init, SInv, StarTypes, Numbers, NoneAhead, InTurn, Hands, Increasing, Below

\* The first command and the others.
LEMMA Heads ==
  ASSUME NEW s \in Numbers, s # <<>>
  PROVE  /\ Head(s) = s[1] /\ s[1] \in Nat /\ 1 \in DOMAIN s
         /\ Tail(s) \in Numbers
         /\ \A i \in DOMAIN Tail(s) : i + 1 \in DOMAIN s /\ i + 1 > 1 /\ Tail(s)[i] = s[i + 1] /\ i \in Nat
         /\ Len(s) = 1 <=> Tail(s) = <<>>
<1>1. /\ Head(s) = s[1] /\ s[1] \in Nat /\ 1 \in DOMAIN s
      /\ Tail(s) \in Numbers /\ Len(Tail(s)) = Len(s) - 1 /\ Len(s) \in Nat /\ Len(s) > 0
  BY DEF Numbers
<1>2. \A i \in DOMAIN Tail(s) : i + 1 \in DOMAIN s /\ i + 1 > 1 /\ Tail(s)[i] = s[i + 1] /\ i \in Nat
  BY DEF Numbers
<1>3. Tail(s) = <<>> <=> Len(Tail(s)) = 0
  BY <1>1, EmptySeq DEF Numbers
<1>4. Len(s) = 1 <=> Len(Tail(s)) = 0
  BY <1>1
<1> QED BY <1>1, <1>2, <1>3, <1>4

\* An alert gets a number beyond all others.
LEMMA AlertKeeps == ASSUME SInv, NEW a \in Stars, Alert(a) PROVE SInv'
<1> DEFINE n == Len(alerts) + 1
<1>1. StarTypes /\ NoneAhead /\ InTurn /\ Hands
  BY DEF SInv
<1>2. /\ queue' = Append(queue, n) /\ alerts' = Append(alerts, a)
      /\ UNCHANGED <<handled, cmds, step, hb>>
  BY DEF Alert, beat
<1>3. Len(alerts) \in Nat /\ Len(alerts') = n /\ alerts' \in Seq(Stars) /\ n \in Nat
  BY <1>1, <1>2 DEF StarTypes
<1>4. /\ queue' \in Numbers
      /\ \A i \in DOMAIN queue' : (i \in DOMAIN queue /\ queue'[i] = queue[i])
                                   \/ (i = Len(queue) + 1 /\ queue'[i] = n)
      /\ \A i \in DOMAIN queue : queue[i] \in Nat /\ i < Len(queue) + 1 /\ i \in Nat
      /\ Len(queue) \in Nat
  BY <1>1, <1>2, <1>3 DEF StarTypes, Numbers
<1>5. \A i \in DOMAIN cmds : cmds[i] \in Nat
  BY <1>1 DEF StarTypes, Numbers
<1> HIDE DEF n
<1>6. StarTypes'
  BY <1>1, <1>2, <1>3, <1>4 DEF StarTypes
<1>7. NoneAhead'
  <2>1. \A m \in Nat : m <= Len(alerts) => m <= Len(alerts') /\ m < n
    BY <1>3 DEF n
  <2>2. \A i \in DOMAIN queue' : queue'[i] <= Len(alerts')
    BY <1>1, <1>3, <1>4, <2>1 DEF NoneAhead
  <2>3. \A m \in handled' : m <= Len(alerts')
    BY <1>1, <1>2, <2>1 DEF NoneAhead, StarTypes
  <2>4. \A i \in DOMAIN cmds' : cmds'[i] <= Len(alerts')
    BY <1>1, <1>2, <1>5, <2>1 DEF NoneAhead
  <2> QED BY <2>2, <2>3, <2>4 DEF NoneAhead
<1>8. InTurn'
  <2>1. \A m \in Nat : m <= Len(alerts) => m < n
    BY <1>3 DEF n
  <2>2. \A m \in Nat : m <= Len(alerts) /\ Below(m, queue) => \A i \in DOMAIN queue' : m < queue'[i]
    BY <1>4, <2>1 DEF Below
  <2>3. \A i, j \in DOMAIN queue' : i < j => queue'[i] < queue'[j]
    <3> SUFFICES ASSUME NEW i \in DOMAIN queue', NEW j \in DOMAIN queue', i < j
                 PROVE  queue'[i] < queue'[j]
      OBVIOUS
    <3>1. i \in DOMAIN queue
      BY <1>4
    <3>2. CASE j \in DOMAIN queue
      BY <1>1, <1>4, <3>1, <3>2 DEF InTurn, Increasing
    <3>3. CASE j = Len(queue) + 1
      BY <1>1, <1>4, <2>1, <3>1, <3>3 DEF NoneAhead
    <3> QED BY <1>4, <3>2, <3>3
  <2>4. \A m \in handled' : \A i \in DOMAIN queue' : m < queue'[i]
    BY <1>1, <1>2, <2>2 DEF InTurn, NoneAhead, StarTypes
  <2>5. \A k \in DOMAIN cmds' : \A i \in DOMAIN queue' : cmds'[k] < queue'[i]
    BY <1>1, <1>2, <1>5, <2>2 DEF InTurn, NoneAhead
  <2> QED BY <1>1, <1>2, <2>3, <2>4, <2>5 DEF InTurn, Increasing, Below
<1>9. Hands'
  BY <1>1, <1>2 DEF Hands
<1> QED BY <1>6, <1>7, <1>8, <1>9 DEF SInv

\* The answer takes the queue with it.
LEMMA HeartbeatKeepsTurn == ASSUME SInv, Heartbeat PROVE SInv'
<1>1. StarTypes /\ NoneAhead /\ InTurn /\ Hands
  BY DEF SInv
<1>2. /\ hb = "idle" /\ hb' = "answered" /\ cmds' = queue /\ queue' = <<>>
      /\ UNCHANGED <<handled, step, alerts>>
  BY DEF Heartbeat
<1>3. StarTypes' /\ NoneAhead' /\ Hands'
  BY <1>1, <1>2 DEF StarTypes, NoneAhead, Hands, Numbers
<1>4. InTurn'
  BY <1>1, <1>2 DEF InTurn, Increasing, Below
<1> QED BY <1>3, <1>4 DEF SInv

\* The queue or the answer gets lost.
LEMMA LossKeeps ==
  ASSUME SInv, UNCHANGED <<alerts, handled, step>>,
         cmds' = cmds \/ cmds' = <<>>, queue' = queue \/ queue' = <<>>,
         Hands'
  PROVE  SInv'
<1>1. StarTypes /\ NoneAhead /\ InTurn
  BY DEF SInv
<1>2. StarTypes'
  <2>1. <<>> \in Numbers
    BY DEF Numbers
  <2> QED BY <1>1, <2>1 DEF StarTypes
<1>4. NoneAhead'
  BY <1>1 DEF NoneAhead
<1>3. InTurn'
  BY <1>1 DEF InTurn, Increasing, Below
<1> QED BY <1>2, <1>3, <1>4 DEF SInv

\* The first command is later than all that were handled.
LEMMA ActivateKeeps == ASSUME SInv, Activate PROVE SInv' /\ \A n \in handled : n < Head(cmds)
<1>1. StarTypes /\ NoneAhead /\ InTurn /\ Hands
  BY DEF SInv
<1>2. /\ hb = "handle" /\ step = "activate" /\ step' = "upgrade"
      /\ handled' = handled \cup {Head(cmds)}
      /\ UNCHANGED <<hb, cmds, queue, alerts>>
  BY DEF Activate, server
<1>3. cmds # <<>> /\ cmds \in Numbers
  BY <1>1, <1>2 DEF Hands, StarTypes
<1>4. Head(cmds) = cmds[1] /\ cmds[1] \in Nat /\ 1 \in DOMAIN cmds /\ DOMAIN cmds \subseteq Nat
  BY <1>3, Heads DEF Numbers
<1>5. \A n \in handled : n < Head(cmds)
  BY <1>1, <1>2, <1>4 DEF InTurn
<1>6. StarTypes' /\ NoneAhead' /\ Hands'
  BY <1>1, <1>2, <1>3, <1>4 DEF StarTypes, NoneAhead, Hands
<1>7. InTurn'
  BY <1>1, <1>2, <1>4 DEF InTurn, Increasing, Below
<1> QED BY <1>5, <1>6, <1>7 DEF SInv

\* The rest of the commands is later than the first.
LEMMA DetailKeeps == ASSUME SInv, SwitchDetail PROVE SInv'
<1>1. StarTypes /\ NoneAhead /\ InTurn /\ Hands
  BY DEF SInv
<1>2. /\ hb = "handle" /\ step = "switch" /\ step' = "activate"
      /\ cmds' = Tail(cmds) /\ hb' = (IF Len(cmds) = 1 THEN "idle" ELSE "handle")
      /\ UNCHANGED <<queue, alerts, handled>>
  BY DEF SwitchDetail, server
<1>3. cmds # <<>> /\ cmds \in Numbers
  BY <1>1, <1>2 DEF Hands, StarTypes
<1>4. /\ cmds' \in Numbers
      /\ \A i \in DOMAIN cmds' : i + 1 \in DOMAIN cmds /\ i + 1 > 1 /\ cmds'[i] = cmds[i + 1] /\ i \in Nat
      /\ Len(cmds) = 1 <=> cmds' = <<>>
  BY <1>2, <1>3, Heads
<1>5. StarTypes' /\ NoneAhead' /\ Hands'
  BY <1>1, <1>2, <1>4 DEF StarTypes, NoneAhead, Hands
<1>6. Increasing(cmds')
  <2> SUFFICES ASSUME NEW i \in DOMAIN cmds', NEW j \in DOMAIN cmds', i < j PROVE cmds'[i] < cmds'[j]
    BY DEF Increasing
  <2>1. i + 1 < j + 1
    BY <1>4
  <2> QED BY <1>1, <1>4, <2>1 DEF InTurn, Increasing
<1>7. InTurn'
  BY <1>1, <1>2, <1>4, <1>6 DEF InTurn, Increasing, Below
<1> QED BY <1>5, <1>7 DEF SInv

\* Every action keeps the order.
LEMMA TurnStep == SInv /\ [Next]_vars => SInv'
<1> SUFFICES ASSUME SInv, [Next]_vars PROVE SInv'
  OBVIOUS
<1>0. Hands
  BY DEF SInv
<1>1. ASSUME NEW a \in Stars, Alert(a) PROVE SInv'
  BY <1>1, AlertKeeps
<1>2. CASE ForgetAgents
  <2>1. UNCHANGED <<alerts, beat, handled>> /\ queue' = <<>>
    BY <1>2 DEF ForgetAgents
  <2>2. Hands'
    BY <1>0, <2>1 DEF Hands, beat
  <2> QED BY <2>1, <2>2, LossKeeps DEF beat
<1>3. CASE HeartbeatRefused \/ HeartbeatLost \/ Register \/ Receive
  <2>1. /\ UNCHANGED <<alerts, step, handled>>
        /\ cmds' = cmds \/ cmds' = <<>>
        /\ queue' = queue \/ queue' = <<>>
    BY <1>3 DEF HeartbeatRefused, HeartbeatLost, Register, Receive, server
  <2>2. Hands'
    BY <1>0, <1>3 DEF HeartbeatRefused, HeartbeatLost, Register, Receive, Hands, server
  <2> QED BY <2>1, <2>2, LossKeeps
<1>4. CASE Upgrade
  <2>1. /\ UNCHANGED <<alerts, queue, cmds, hb, handled>>
        /\ step = "upgrade" /\ step' = "switch" /\ hb = "handle"
    BY <1>4 DEF Upgrade, server
  <2>2. StarTypes' /\ NoneAhead' /\ Hands'
    BY <2>1 DEF SInv, StarTypes, NoneAhead, Hands
  <2>3. InTurn'
    BY <2>1 DEF SInv, InTurn, Increasing, Below
  <2> QED BY <2>2, <2>3 DEF SInv
<1>5. CASE UNCHANGED <<alerts, queue, cmds, hb, step, handled>>
  <2>1. Hands'
    BY <1>0, <1>5 DEF Hands
  <2> QED BY <1>5, <2>1, LossKeeps
<1>6. CASE TimePasses \/ SweepLoop \/ WatchLoop \/ LoadTcp \/ ReattachTcp \/ UNCHANGED vars
  <2>1. UNCHANGED <<alerts, queue, cmds, hb, step, handled>>
    BY <1>6 DEF TimePasses, CooldownEnds, Expire, SweepLoop, Sweep, SwitchCount, WatchLoop, SeeNoStar,
       Downgrade, LoadTcp, ReattachTcp, vars, server, beat
  <2> QED BY <1>5, <2>1
<1> QED
  BY <1>1, <1>2, <1>3, <1>4, <1>6, HeartbeatKeepsTurn, ActivateKeeps, DetailKeeps DEF Next, HeartbeatLoop, HandleCommand

\* The commands reach handleCommand in the order of their alerts, and none twice.
THEOREM TurnCorrect == Spec => EachOnceInOrder
<1> DEFINE First == Activate => \A n \in handled : n < Head(cmds)
<1>1. SInv /\ [Next]_vars => [First]_vars
  BY ActivateKeeps
<1>2. Spec => [][First]_vars
  BY StarInit, TurnStep, <1>1, PTL DEF Spec
<1> QED BY <1>2 DEF EachOnceInOrder

-----------------------------------------------------------------------------
(*****************************************************************************)
(* The process tree.  A link somebody has noted, in the map, in the tree or  *)
(* in a rebuild that is under way, joins two processes of the family unless  *)
(* one of their pids has been used again (LinksAreKin), so a climb that      *)
(* meets only pids used once stays in the family.  What a rebuild has read   *)
(* of a process that has kept its parent is that parent (StableFound).       *)
(*****************************************************************************)

\* Every set of numbers that is not empty has a least one: the form in which
\* induction is used below.
LEMMA Least == ASSUME NEW T, T \subseteq Nat, T # {} PROVE \E x \in T : \A y \in T : x <= y
<1> DEFINE R == OpToRel(<, Nat)
<1>1. PICK x \in T : \A y \in T : ~(<<y, x>> \in R)
  BY NatLessThanWellFounded, WFMin, Zenon
<1>2. R = {ss \in Nat \X Nat : ss[1] < ss[2]}
  BY Zenon DEF OpToRel
<1> HIDE DEF R
<1>3. ASSUME NEW y \in T PROVE x <= y
  <2>1. x \in Nat /\ y \in Nat
    OBVIOUS
  <2>2. y < x => <<y, x>> \in R
    BY <2>1, <1>2
  <2> QED BY <1>1, <2>1, <2>2
<1> QED BY <1>3

\* g climbs n steps.
Climbs(links, p, n, g) == g = [m \in 0 .. n |-> IF m = 0 THEN p ELSE ParentIn(links, g[m - 1])]

\* The climb exists, so Climb is what its equation says.
LEMMA ClimbExists == ASSUME NEW links, NEW p, NEW n \in Nat PROVE \E g : Climbs(links, p, n, g)
<1> DEFINE T == {k \in Nat : ~\E g : Climbs(links, p, k, g)}
<1>1. SUFFICES ASSUME T # {} PROVE FALSE
  OBVIOUS
<1>2. PICK x \in T : \A y \in T : x <= y
  BY <1>1, Least
<1>3. CASE x = 0
  <2> DEFINE g == [m \in 0 .. 0 |-> p]
  <2>1. g = [m \in 0 .. 0 |-> IF m = 0 THEN p ELSE ParentIn(links, g[m - 1])]
    OBVIOUS
  <2>2. Climbs(links, p, 0, g)
    BY <2>1 DEF Climbs
  <2> QED BY <1>2, <1>3, <2>2
<1>4. CASE x > 0
  <2>1. x - 1 \in Nat /\ x - 1 \notin T
    BY <1>2, <1>4
  <2>2. PICK g : Climbs(links, p, x - 1, g)
    BY <2>1
  <2> DEFINE h == [m \in 0 .. x |-> IF m = 0 THEN p ELSE ParentIn(links, g[m - 1])]
  <2>3. \A m \in 0 .. x - 1 : h[m] = g[m]
    BY <2>1, <2>2 DEF Climbs
  <2>4. \A m \in 0 .. x : m # 0 => h[m - 1] = g[m - 1]
    BY <2>1, <2>3
  <2>5. h = [m \in 0 .. x |-> IF m = 0 THEN p ELSE ParentIn(links, h[m - 1])]
    BY <2>4
  <2>6. Climbs(links, p, x, h)
    BY <2>5 DEF Climbs
  <2> QED BY <1>2, <2>6
<1> QED BY <1>2, <1>3, <1>4

\* ... step by step.
LEMMA ClimbDef ==
  ASSUME NEW links, NEW p
  PROVE  /\ Climb(links, p)[0] = p
         /\ \A n \in 1 .. MaxDepth : Climb(links, p)[n] = ParentIn(links, Climb(links, p)[n - 1])
<1> DEFINE c == Climb(links, p)
<1>0. MaxDepth \in Nat
  BY TraceAssumption
<1>1. c = CHOOSE g : Climbs(links, p, MaxDepth, g)
  BY DEF Climb, Climbs
<1>2. Climbs(links, p, MaxDepth, c)
  BY <1>0, <1>1, ClimbExists
<1>3. c = [m \in 0 .. MaxDepth |-> IF m = 0 THEN p ELSE ParentIn(links, c[m - 1])]
  BY <1>2 DEF Climbs
<1> HIDE DEF c
<1>4. c[0] = p /\ \A n \in 1 .. MaxDepth : c[n] = ParentIn(links, c[n - 1])
  BY <1>0, <1>3
<1> QED BY <1>4 DEF c

-----------------------------------------------------------------------------
(* Descent. *)

Up == Above \cup {NoPid}

TraceTypes ==
  /\ proc \in [TracePids -> [parent : Up, life : Nat, family : BOOLEAN]]
  /\ execProg \in [Kids -> Up] /\ ppidMap \in [Kids -> Up] /\ tree \in [Kids -> Up]
  /\ execRing \in Seq(Kids)
  /\ scan \in [on : BOOLEAN, todo : SUBSET Kids, found : [Kids -> Up], stable : SUBSET Kids]

\* Somebody has noted q as the parent of p.
Linked(p, q) == q \in {proc[p].parent, execProg[p], ppidMap[p], tree[p], scan.found[p]}

\* A link between two processes that both have their pids for the first time
\* is one of descent; who is not born yet is in no link.
LinksAreKin ==
  \A p \in Kids, q \in TracePids : Linked(p, q) =>
    /\ proc[p].life > 0 /\ proc[q].life > 0
    /\ proc[p].life = 1 /\ proc[q].life = 1 /\ proc[q].family => proc[p].family

RootIsFamily ==
  /\ proc[Root].life > 0 /\ (proc[Root].life = 1 => proc[Root].family)
  /\ \A p \in TracePids : Alive(p) => proc[p].life > 0

\* What a scan has found of a process that has kept its parent is the parent.
StableFound ==
  /\ \A c \in scan.stable : Alive(c)
  /\ \A c \in scan.stable \ scan.todo : scan.found[c] = proc[c].parent

DInv == TraceTypes /\ LinksAreKin /\ RootIsFamily /\ StableFound

\* The star begins with its root alone.
LEMMA TraceInitInv == TraceInit => DInv
<1> SUFFICES ASSUME TraceInit PROVE DInv
  OBVIOUS
<1>1. TraceTypes
  BY TraceAssumption DEF TraceInit, TraceTypes, Nobody, NoScan, Up, Above, Kids
<1>2. LinksAreKin
  BY TraceAssumption DEF TraceInit, LinksAreKin, Linked, Nobody, NoScan, Kids, Above
<1>3. RootIsFamily
  BY TraceAssumption DEF TraceInit, RootIsFamily, Alive
<1>4. StableFound
  BY DEF TraceInit, StableFound, NoScan
<1> QED BY <1>1, <1>2, <1>3, <1>4 DEF DInv

\* Every action keeps the types.
LEMMA TraceTypeStep == TraceTypes /\ [TraceNext]_traceVars => TraceTypes'
<1> SUFFICES ASSUME TraceTypes, [TraceNext]_traceVars PROVE TraceTypes'
  OBVIOUS
<1> USE DEF TraceTypes
<1>1. ASSUME NEW p \in Above, NEW c \in TracePids, TraceFork(p, c) PROVE TraceTypes'
  <2> DEFINE new == [parent |-> p, life |-> proc[c].life + 1, family |-> p \in TracePids /\ proc[p].family]
  <2>1. new \in [parent : Up, life : Nat, family : BOOLEAN]
    <3>1. p \in Up /\ proc[c].life + 1 \in Nat
      BY DEF Up
    <3>2. (p \in TracePids /\ proc[p].family) \in BOOLEAN
      BY Zenon
    <3> HIDE DEF TraceTypes
    <3> QED BY <3>1, <3>2
  <2>2. proc' = [proc EXCEPT ![c] = new]
    BY <1>1 DEF TraceFork
  <2> HIDE DEF new
  <2>3. proc' \in [TracePids -> [parent : Up, life : Nat, family : BOOLEAN]]
    BY <2>1, <2>2
  <2> QED BY <1>1, <2>3 DEF TraceFork
<1>2. ASSUME NEW p \in TracePids, TraceExit(p) PROVE TraceTypes'
  <2> DEFINE next(c) == IF c = p THEN [proc[c] EXCEPT !.parent = NoPid]
                        ELSE IF proc[c].parent = p THEN [proc[c] EXCEPT !.parent = Reaper]
                        ELSE proc[c]
  <2>1. NoPid \in Up /\ Reaper \in Up
    BY DEF Up, Above
  <2>2. ASSUME NEW c \in TracePids PROVE next(c) \in [parent : Up, life : Nat, family : BOOLEAN]
    BY <2>1
  <2>3. proc' = [c \in TracePids |-> next(c)]
    BY <1>2 DEF TraceExit
  <2>4. proc' \in [TracePids -> [parent : Up, life : Nat, family : BOOLEAN]]
    BY <2>2, <2>3
  <2>5. scan' \in [on : BOOLEAN, todo : SUBSET Kids, found : [Kids -> Up], stable : SUBSET Kids]
    BY <1>2 DEF TraceExit
  <2> QED BY <1>2, <2>4, <2>5 DEF TraceExit
<1>3. ASSUME NEW p \in Kids, ExecSubmit(p) PROVE TraceTypes'
  <2>1. proc[p].parent \in Up
    BY DEF Kids
  <2>2. execProg' \in [Kids -> Up] /\ execRing' \in Seq(Kids)
    BY <1>3, <2>1 DEF ExecSubmit
  <2> QED BY <1>3, <2>2 DEF ExecSubmit
<1>4. ASSUME NEW p \in Kids, ExecNote(p) PROVE TraceTypes'
  BY <1>4 DEF ExecNote, Up
<1>5. CASE HandleExec
  <2>1. Head(execRing) \in Kids /\ Tail(execRing) \in Seq(Kids)
    BY <1>5 DEF HandleExec
  <2> QED BY <1>5, <2>1 DEF HandleExec
<1>6. ASSUME NEW p \in Kids, ScanRead(p) PROVE TraceTypes'
  <2>1. proc[p].parent \in Up
    BY DEF Kids
  <2> QED BY <1>6, <2>1 DEF ScanRead
<1>7. CASE ScanStart
  <2>1. Nobody \in [Kids -> Up]
    BY DEF Nobody, Up
  <2> QED BY <1>7, <2>1 DEF ScanStart, ListProc
<1>8. CASE ScanDone
  <2>1. Nobody \in [Kids -> Up]
    BY DEF Nobody, Up
  <2> QED BY <1>8, <2>1 DEF ScanDone, NoScan
<1>9. CASE UNCHANGED traceVars
  BY <1>9 DEF traceVars
<1> QED
  BY <1>1, <1>2, <1>3, <1>4, <1>5, <1>6, <1>7, <1>8, <1>9 DEF TraceNext, ExecUnreported

\* A step that makes no process and no link but by copying one.
LEMMA CopiedKin ==
  ASSUME TraceTypes, LinksAreKin, UNCHANGED proc,
         \A p \in Kids, q \in TracePids : Linked(p, q)' => Linked(p, q)
  PROVE  LinksAreKin'
BY DEF LinksAreKin

\* A first-born is of the family if its parent is; who gets a pid again may
\* not be, and who dies leaves what it was on record.
LEMMA KinStep == TraceTypes /\ LinksAreKin /\ RootIsFamily /\ [TraceNext]_traceVars => LinksAreKin'
<1> SUFFICES ASSUME TraceTypes, LinksAreKin, RootIsFamily, [TraceNext]_traceVars PROVE LinksAreKin'
  OBVIOUS
<1>0. /\ proc \in [TracePids -> [parent : Up, life : Nat, family : BOOLEAN]]
      /\ execProg \in [Kids -> Up] /\ ppidMap \in [Kids -> Up] /\ tree \in [Kids -> Up]
      /\ scan.found \in [Kids -> Up]
      /\ Kids \subseteq TracePids /\ NoPid \notin TracePids /\ Reaper \notin TracePids
  BY TraceAssumption DEF TraceTypes, Kids, Above
<1>1. ASSUME NEW p \in Above, NEW c \in TracePids, TraceFork(p, c) PROVE LinksAreKin'
  <2> SUFFICES ASSUME NEW x \in Kids, NEW q \in TracePids, Linked(x, q)'
               PROVE  /\ proc'[x].life > 0 /\ proc'[q].life > 0
                      /\ proc'[x].life = 1 /\ proc'[q].life = 1 /\ proc'[q].family => proc'[x].family
    BY DEF LinksAreKin
  <2>1. /\ \A y \in TracePids : y # c => proc'[y] = proc[y]
        /\ proc'[c].parent = p /\ proc'[c].life = proc[c].life + 1
        /\ proc'[c].family <=> p \in TracePids /\ proc[p].family
        /\ UNCHANGED <<execProg, ppidMap, tree, scan>>
        /\ p \in TracePids => Alive(p)
        /\ ~Alive(c)
    BY <1>0, <1>1 DEF TraceFork
  <2>2. CASE Linked(x, q)
    <3>1. /\ proc[x].life > 0 /\ proc[q].life > 0
          /\ proc[x].life = 1 /\ proc[q].life = 1 /\ proc[q].family => proc[x].family
      BY <2>2 DEF LinksAreKin
    <3>2. x \in TracePids /\ proc[x].life \in Nat /\ proc[q].life \in Nat
      BY <1>0
    <3>3. CASE x = c \/ q = c
      BY <2>1, <3>1, <3>2, <3>3
    <3>4. CASE x # c /\ q # c
      BY <2>1, <3>1, <3>2, <3>4
    <3> QED BY <3>3, <3>4
  <2>3. CASE ~Linked(x, q)
    <3>1. x = c /\ q = p
      BY <1>0, <2>1, <2>3 DEF Linked
    <3>2. Alive(p) /\ p # c /\ proc[p].life > 0 /\ proc[c].life \in Nat
      BY <1>0, <2>1, <3>1 DEF RootIsFamily
    <3> QED BY <2>1, <3>1, <3>2
  <2> QED BY <2>2, <2>3
<1>2. ASSUME NEW p \in TracePids, TraceExit(p) PROVE LinksAreKin'
  <2> SUFFICES ASSUME NEW x \in Kids, NEW q \in TracePids, Linked(x, q)'
               PROVE  /\ proc'[x].life > 0 /\ proc'[q].life > 0
                      /\ proc'[x].life = 1 /\ proc'[q].life = 1 /\ proc'[q].family => proc'[x].family
    BY DEF LinksAreKin
  <2>1. \A y \in TracePids :
          /\ proc'[y].life = proc[y].life /\ proc'[y].family = proc[y].family
          /\ proc'[y].parent \in {proc[y].parent, NoPid, Reaper}
    BY <1>0, <1>2 DEF TraceExit
  <2>2. UNCHANGED <<execProg, ppidMap, tree, scan.found>>
    BY <1>2 DEF TraceExit, TraceTypes
  <2>3. Linked(x, q)
    BY <1>0, <2>1, <2>2 DEF Linked
  <2> QED BY <1>0, <2>1, <2>3 DEF LinksAreKin
<1>3. ASSUME NEW p \in Kids, ExecSubmit(p) \/ ExecNote(p) \/ ScanRead(p) PROVE LinksAreKin'
  <2>1. \A x \in Kids, q \in TracePids : Linked(x, q)' => Linked(x, q)
    <3>1. CASE ExecSubmit(p)
      BY <1>0, <3>1 DEF ExecSubmit, Linked
    <3>2. CASE ExecNote(p)
      BY <1>0, <3>2 DEF ExecNote, Linked
    <3>3. CASE ScanRead(p)
      <4>1. /\ scan'.found = [scan.found EXCEPT ![p] = proc[p].parent]
            /\ UNCHANGED <<proc, execProg, ppidMap, execRing, tree>>
        BY <3>3 DEF ScanRead, TraceTypes
      <4> QED BY <1>0, <4>1 DEF Linked
    <3> QED BY <1>3, <3>1, <3>2, <3>3
  <2>2. UNCHANGED proc
    BY <1>3 DEF ExecSubmit, ExecNote, ScanRead
  <2> QED BY <2>1, <2>2, CopiedKin
<1>4. CASE HandleExec
  <2>1. \A x \in Kids, q \in TracePids : Linked(x, q)' => Linked(x, q)
    BY <1>0, <1>4 DEF HandleExec, Linked
  <2> QED BY <1>4, <2>1, CopiedKin DEF HandleExec
<1>5. CASE ScanStart \/ ScanDone
  <2>1. scan'.found = Nobody
    BY <1>5 DEF ScanStart, ScanDone, NoScan
  <2>2. \A x \in Kids, q \in TracePids : Linked(x, q)' => Linked(x, q)
    BY <1>0, <1>5, <2>1 DEF ScanStart, ScanDone, Linked, Nobody
  <2> QED BY <1>5, <2>2, CopiedKin DEF ScanStart, ScanDone
<1>6. CASE UNCHANGED traceVars
  BY <1>6 DEF traceVars, LinksAreKin, Linked
<1> QED
  BY <1>1, <1>2, <1>3, <1>4, <1>5, <1>6 DEF TraceNext, ExecUnreported

\* The pid of the root is the star's until it is used again.
LEMMA RootStep == TraceTypes /\ RootIsFamily /\ [TraceNext]_traceVars => RootIsFamily'
<1> SUFFICES ASSUME TraceTypes, RootIsFamily, [TraceNext]_traceVars PROVE RootIsFamily'
  OBVIOUS
<1>0. proc \in [TracePids -> [parent : Up, life : Nat, family : BOOLEAN]] /\ Root \in TracePids
  BY TraceAssumption DEF TraceTypes
<1>1. ASSUME NEW p \in Above, NEW c \in TracePids, TraceFork(p, c) PROVE RootIsFamily'
  <2>1. /\ \A y \in TracePids : y # c => proc'[y] = proc[y]
        /\ proc'[c].life = proc[c].life + 1
    BY <1>0, <1>1 DEF TraceFork
  <2>2. proc[c].life \in Nat /\ proc[Root].life \in Nat
    BY <1>0
  <2> QED BY <1>0, <2>1, <2>2 DEF RootIsFamily, Alive
<1>2. ASSUME NEW p \in TracePids, TraceExit(p) PROVE RootIsFamily'
  <2>1. \A y \in TracePids :
          /\ proc'[y].life = proc[y].life /\ proc'[y].family = proc[y].family
          /\ proc'[y].parent = NoPid \/ Alive(y)
    BY <1>0, <1>2, TraceAssumption DEF TraceExit, Alive, Above
  <2> QED BY <1>0, <2>1 DEF RootIsFamily, Alive
<1>3. CASE UNCHANGED proc
  BY <1>3 DEF RootIsFamily, Alive
<1> QED
  BY <1>1, <1>2, <1>3 DEF TraceNext, traceVars, ExecUnreported, ExecSubmit, ExecNote, ScanRead,
     HandleExec, ScanStart, ScanDone

\* A process that keeps its parent through a scan has been found with it.
LEMMA StableStep == TraceTypes /\ StableFound /\ [TraceNext]_traceVars => StableFound'
<1> SUFFICES ASSUME TraceTypes, StableFound, [TraceNext]_traceVars PROVE StableFound'
  OBVIOUS
<1>0. /\ proc \in [TracePids -> [parent : Up, life : Nat, family : BOOLEAN]]
      /\ scan \in [on : BOOLEAN, todo : SUBSET Kids, found : [Kids -> Up], stable : SUBSET Kids]
      /\ Kids \subseteq TracePids
  BY DEF TraceTypes, Kids
<1>1. ASSUME NEW p \in Above, NEW c \in TracePids, TraceFork(p, c) PROVE StableFound'
  <2>1. ~Alive(c) /\ scan' = scan /\ \A y \in TracePids : y # c => proc'[y] = proc[y]
    BY <1>0, <1>1 DEF TraceFork
  <2> QED BY <1>0, <2>1 DEF StableFound, Alive
<1>2. ASSUME NEW p \in TracePids, TraceExit(p) PROVE StableFound'
  <2>1. /\ scan'.found = scan.found /\ scan'.todo = scan.todo
        /\ scan'.stable = {c \in scan.stable : c # p /\ proc[c].parent # p}
    BY <1>0, <1>2 DEF TraceExit
  <2>2. \A c \in scan'.stable : proc'[c] = proc[c]
    BY <1>0, <1>2, <2>1 DEF TraceExit
  <2> QED BY <2>1, <2>2 DEF StableFound, Alive
<1>3. ASSUME NEW p \in Kids, ScanRead(p) PROVE StableFound'
  <2>1. /\ scan'.found = [scan.found EXCEPT ![p] = proc[p].parent]
        /\ scan'.todo = scan.todo \ {p} /\ scan'.stable = scan.stable /\ proc' = proc
    BY <1>0, <1>3 DEF ScanRead
  <2> QED BY <1>0, <2>1 DEF StableFound, Alive
<1>4. CASE ScanStart
  BY <1>4 DEF ScanStart, ListProc, StableFound, Alive
<1>5. CASE ScanDone
  BY <1>5 DEF ScanDone, NoScan, StableFound
<1>6. CASE UNCHANGED <<proc, scan>>
  BY <1>6 DEF StableFound, Alive
<1> QED
  BY <1>1, <1>2, <1>3, <1>4, <1>5, <1>6
     DEF TraceNext, traceVars, ExecUnreported, ExecSubmit, ExecNote, HandleExec

\* The inductive invariant of the tree, its map and its rebuild.
THEOREM TraceInductive == TraceSpec => []DInv
<1>1. DInv /\ [TraceNext]_traceVars => DInv'
  BY TraceTypeStep, KinStep, RootStep, StableStep DEF DInv
<1> QED BY TraceInitInv, <1>1, PTL DEF TraceSpec

\* Up a line of descent in the tree everybody is of the family whose elder is,
\* unless a pid on it has been used again.
LEMMA FamilyClimb ==
  ASSUME TraceTypes, LinksAreKin, NEW p \in TracePids, NEW n \in 0 .. MaxDepth,
         \A m \in 0 .. n : LET q == Climb(tree, p)[m] IN q \in TracePids => proc[q].life <= 1,
         Climb(tree, p)[n] \in TracePids, proc[Climb(tree, p)[n]].family
  PROVE  proc[p].family
<1> DEFINE c == Climb(tree, p)
           T == {m \in 0 .. n : c[m] \in TracePids /\ proc[c[m]].family}
<1>0. MaxDepth \in Nat /\ n \in Nat /\ n <= MaxDepth
  BY TraceAssumption
<1>1. n \in T /\ T \subseteq Nat
  BY <1>0
<1>2. PICK m \in T : \A k \in T : m <= k
  BY <1>1, Least
<1>3. m \in 0 .. n /\ c[m] \in TracePids /\ proc[c[m]].family
  OBVIOUS
<1>4. c[0] = p /\ \A k \in 1 .. MaxDepth : c[k] = ParentIn(tree, c[k - 1])
  BY ClimbDef
<1>5. \A k \in 0 .. n : c[k] \in TracePids => proc[c[k]].life <= 1
  OBVIOUS
<1> HIDE DEF c
<1>6. CASE m = 0
  BY <1>3, <1>4, <1>6
<1>7. CASE m # 0
  <2>1. m \in 1 .. MaxDepth /\ m - 1 \in 0 .. n
    BY <1>0, <1>3, <1>7
  <2>2. c[m - 1] \in Kids /\ tree[c[m - 1]] = c[m]
    BY <1>3, <1>4, <2>1, TraceAssumption DEF ParentIn, Above
  <2>3. /\ c[m - 1] \in TracePids
        /\ proc[c[m - 1]].life \in Nat /\ proc[c[m]].life \in Nat
    BY <1>3, <2>2 DEF TraceTypes, Kids
  <2>4. proc[c[m - 1]].life <= 1 /\ proc[c[m]].life <= 1
    BY <1>3, <1>5, <2>1, <2>3
  <2>5. Linked(c[m - 1], c[m])
    BY <2>2 DEF Linked
  <2>6. proc[c[m - 1]].life = 1 /\ proc[c[m]].life = 1
    BY <1>3, <2>2, <2>3, <2>4, <2>5 DEF LinksAreKin
  <2>7. proc[c[m - 1]].family
    BY <1>3, <2>2, <2>5, <2>6 DEF LinksAreKin
  <2>8. m - 1 \in T
    BY <2>1, <2>3, <2>7
  <2>9. m <= m - 1
    BY <1>2, <2>8
  <2> QED BY <1>0, <2>1, <2>9
<1> QED BY <1>6, <1>7

\* Only the family matches: the parents the star has noted, at whatever times
\* and by whatever means, make up a line of descent.
THEOREM MatchCorrect == TraceSpec => []MatchIsFamily
<1>1. DInv => MatchIsFamily
  <2> SUFFICES ASSUME DInv, NEW p \in TracePids, MatchesIn(tree, p),
                      \A n \in 0 .. MaxDepth : LET q == Climb(tree, p)[n] IN
                        q \in TracePids => ~(proc[q].life > 1)
               PROVE  proc[p].family
    BY DEF MatchIsFamily
  <2>1. TraceTypes /\ LinksAreKin /\ RootIsFamily /\ Root \in TracePids /\ MaxDepth \in Nat
    BY TraceAssumption DEF DInv
  <2>2. \A q \in TracePids : proc[q].life \in Nat
    BY <2>1 DEF TraceTypes
  <2>3. \A n \in 0 .. MaxDepth : LET q == Climb(tree, p)[n] IN
          q \in TracePids => proc[q].life <= 1
    BY <2>2
  <2>4. ASSUME NEW n \in 0 .. MaxDepth, Climb(tree, p)[n] = Root PROVE proc[p].family
    <3>1. proc[Root].life = 1
      BY <2>1, <2>2, <2>3, <2>4 DEF RootIsFamily
    <3>2. proc[Root].family
      BY <2>1, <3>1 DEF RootIsFamily
    <3>3. \A m \in 0 .. n : m \in 0 .. MaxDepth
      BY <2>1
    <3>4. \A m \in 0 .. n : LET q == Climb(tree, p)[m] IN q \in TracePids => proc[q].life <= 1
      BY <2>3, <3>3
    <3> QED BY <2>1, <2>4, <3>2, <3>4, FamilyClimb
  <2>5. CASE p = Root
    <3>1. Climb(tree, p)[0] = Root /\ 0 \in 0 .. MaxDepth
      BY <2>1, <2>5, ClimbDef
    <3> QED BY <2>4, <3>1
  <2>6. CASE \E n \in 1 .. MaxDepth : Climb(tree, p)[n] = Root
    <3>1. \A n \in 1 .. MaxDepth : n \in 0 .. MaxDepth
      BY <2>1
    <3> QED BY <2>4, <2>6, <3>1
  <2> QED BY <2>5, <2>6 DEF MatchesIn
<1> QED BY TraceInductive, <1>1, PTL

\* Where two trees agree on the way, they are climbed alike.
LEMMA ClimbSame ==
  ASSUME NEW f, NEW g, NEW p, NEW n \in 0 .. MaxDepth,
         \A m \in 0 .. n - 1 : ParentIn(f, Climb(f, p)[m]) = ParentIn(g, Climb(f, p)[m])
  PROVE  Climb(g, p)[n] = Climb(f, p)[n]
<1> DEFINE a == Climb(f, p)
           b == Climb(g, p)
           T == {m \in 0 .. n : a[m] # b[m]}
<1>0. MaxDepth \in Nat /\ n \in Nat /\ n <= MaxDepth
  BY TraceAssumption
<1>1. /\ a[0] = p /\ \A k \in 1 .. MaxDepth : a[k] = ParentIn(f, a[k - 1])
      /\ b[0] = p /\ \A k \in 1 .. MaxDepth : b[k] = ParentIn(g, b[k - 1])
  BY ClimbDef
<1>2. \A m \in 0 .. n - 1 : ParentIn(f, a[m]) = ParentIn(g, a[m])
  OBVIOUS
<1> HIDE DEF a, b
<1>3. ASSUME T # {} PROVE FALSE
  <2>1. T \subseteq Nat
    BY <1>0
  <2>2. PICK m \in T : \A k \in T : m <= k
    BY <1>3, <2>1, Least
  <2>3. m # 0 /\ m \in 1 .. MaxDepth /\ m - 1 \in 0 .. n /\ m - 1 \in 0 .. n - 1
    BY <1>0, <1>1
  <2>4. m - 1 \notin T
    BY <2>2, <2>3
  <2>5. a[m - 1] = b[m - 1]
    BY <2>3, <2>4
  <2> QED BY <1>1, <1>2, <2>3, <2>5
<1>4. n \in 0 .. n
  BY <1>0
<1> QED BY <1>3, <1>4 DEF a, b

\* A rebuild finds whoever descends from the root by a line that has not
\* changed since the directory was listed.
THEOREM RebuildCorrect == TraceSpec => RebuildFinds
<1> DEFINE Found == ScanDone =>
       \A p \in Kids : \A n \in 1 .. MaxDepth :
         /\ Climb(Truth, p)[n] = Root
         /\ \A m \in 0 .. n - 1 : Climb(Truth, p)[m] \in scan.stable
         => MatchesIn(tree', p)
<1>1. DInv /\ [TraceNext]_traceVars => [Found]_traceVars
  <2> SUFFICES ASSUME DInv, ScanDone, NEW p \in Kids, NEW n \in 1 .. MaxDepth,
                      Climb(Truth, p)[n] = Root,
                      \A m \in 0 .. n - 1 : Climb(Truth, p)[m] \in scan.stable
               PROVE  MatchesIn(tree', p)
    OBVIOUS
  <2>1. tree' = scan.found /\ scan.todo = {}
    BY DEF ScanDone
  <2>2. \A q \in scan.stable : q \in Kids /\ scan.found[q] = proc[q].parent
    BY <2>1 DEF DInv, StableFound, TraceTypes
  <2>3. \A q \in scan.stable : ParentIn(Truth, q) = ParentIn(scan.found, q)
    BY <2>2 DEF ParentIn, Truth
  <2>4. n \in 0 .. MaxDepth
    BY TraceAssumption
  <2>5. Climb(scan.found, p)[n] = Climb(Truth, p)[n]
    BY <2>3, <2>4, ClimbSame
  <2> QED BY <2>1, <2>5 DEF MatchesIn
<1>2. TraceSpec => [][Found]_traceVars
  BY TraceInductive, <1>1, PTL DEF TraceSpec
<1> QED BY <1>2 DEF RebuildFinds

-----------------------------------------------------------------------------
(*****************************************************************************)
(* The alerts.  What suppresses is the last alert or too old to (LastKept),  *)
(* and an event that is not counted any more is older than the window        *)
(* (Counted); so whoever counts an event of a burst sees the burst, and      *)
(* either raises the alert or is about to decide on it (Deciding).           *)
(*****************************************************************************)

AlertTypes ==
  /\ rule \in Rules /\ rule = Decoded(file)
  /\ clock \in Nat
  /\ freqCount \subseteq DOMAIN matched
  /\ matched \in Seq(0 .. clock) /\ raised \in Seq(0 .. clock)
  /\ report \in [Reports -> [pc : {"idle", "count", "dedup"}, rule : Rules \cup {NoRule}, at : 0 .. clock]]
  /\ \A h \in Reports : report[h].pc # "idle" => report[h].rule \in Rules

\* What suppresses is the last alert, unless that is too old to.
LastKept ==
  /\ lastAlert # Never => raised # <<>> /\ lastAlert = raised[Len(raised)]
  /\ lastAlert = Never /\ raised # <<>> => clock - raised[Len(raised)] > DedupMax

\* Without an edit there is one rule, and an event that is not counted any more
\* is older than the window.
Counted ==
  ~edited =>
    /\ \A h \in Reports : report[h].pc # "idle" => report[h].rule = rule
    /\ rule.count > 0 =>
         \A i \in DOMAIN matched \ freqCount : matched[i] <= clock - rule.window

\* A burst has been noticed, or a goroutine is about to decide on its last event.
Deciding ==
  ~edited =>
    \A i \in DOMAIN matched :
      Within(matched, matched[i] - rule.window, matched[i]) >= rule.count
        => \/ \E j \in DOMAIN raised : raised[j] > matched[i] - rule.dedup
           \/ \E h \in Reports : report[h].pc = "dedup" /\ report[h].at = matched[i]

AInv == AlertTypes /\ LastKept /\ AlertsSpaced /\ AlertJustified /\ Counted /\ Deciding

\* What the rules of the engine look like.
LEMMA RuleTyped ==
  /\ DedupMax \in Int /\ DedupMax < 1000
  /\ \A r \in Rules : r.count \in Nat /\ r.window \in Nat /\ r.dedup \in 1 .. DedupMax
  /\ \A f \in Files : Decoded(f) \in Rules
<1>1. ASSUME NEW r \in Rules PROVE r.count \in Nat /\ r.window \in Nat /\ r.dedup \in 1 .. DedupMax
  <2>1. PICK f \in Files : r = Decoded(f)
    BY DEF Rules
  <2>2. /\ f.count \in Nat /\ f.window \in Nat /\ f.dedup \in 1 .. DedupMax
    BY AlertAssumption
  <2> QED BY <2>1, <2>2 DEF Decoded
<1> QED BY <1>1, AlertAssumption DEF Rules

\* Nothing has happened at first.
LEMMA AlertInitInv == AlertInit => AInv
<1> SUFFICES ASSUME AlertInit PROVE AInv
  OBVIOUS
<1>1. AlertTypes
  <2>1. report \in [Reports -> [pc : {"idle", "count", "dedup"}, rule : Rules \cup {NoRule}, at : 0 .. 0]]
    BY DEF AlertInit, Waiting
  <2>2. rule \in Rules /\ rule = Decoded(file)
    BY RuleTyped DEF AlertInit
  <2>3. \A h \in Reports : report[h].pc = "idle"
    BY DEF AlertInit, Waiting
  <2>4. clock = 0 /\ freqCount = {} /\ matched = <<>> /\ raised = <<>> 
    BY DEF AlertInit
  <2>6. matched \in Seq(0 .. clock) /\ raised \in Seq(0 .. clock) /\ freqCount \subseteq DOMAIN matched
    BY <2>4
  <2>7. report \in [Reports -> [pc : {"idle", "count", "dedup"}, rule : Rules \cup {NoRule}, at : 0 .. clock]]
    BY <2>1, <2>4
  <2>8. clock \in Nat
    BY <2>4
  <2> QED BY <2>2, <2>3, <2>6, <2>7, <2>8 DEF AlertTypes
<1>2. LastKept /\ AlertsSpaced
  BY DEF AlertInit, LastKept, AlertsSpaced
<1>3. AlertJustified /\ Counted /\ Deciding
  BY DEF AlertInit, AlertJustified, Counted, Deciding, Waiting
<1> QED BY <1>1, <1>2, <1>3 DEF AInv

\* The events of an interval are finitely many.
LEMMA WithinFinite ==
  ASSUME AlertTypes, NEW from, NEW to
  PROVE  LET w == {i \in DOMAIN matched : from < matched[i] /\ matched[i] <= to}
         IN  IsFiniteSet(w) /\ Cardinality(w) \in Nat
<1> DEFINE w == {i \in DOMAIN matched : from < matched[i] /\ matched[i] <= to}
<1>1. DOMAIN matched = 1 .. Len(matched) /\ Len(matched) \in Nat
  BY DEF AlertTypes
<1>2. IsFiniteSet(DOMAIN matched)
  BY <1>1, FS_Interval
<1> QED BY <1>2, FS_Subset, FS_CardinalityType

\* The times an event adds to and the interval it adds to.
LEMMA Appended ==
  ASSUME AlertTypes, matched' = Append(matched, clock)
  PROVE  /\ DOMAIN matched = 1 .. Len(matched) /\ Len(matched) \in Nat
         /\ DOMAIN matched' = 1 .. Len(matched) + 1
         /\ matched'[Len(matched) + 1] = clock
         /\ \A i \in DOMAIN matched : matched'[i] = matched[i] /\ matched[i] \in 0 .. clock
         /\ matched' \in Seq(0 .. clock)
         /\ \A from, to \in Int : Within(matched', from, to) >= Within(matched, from, to)
         /\ \A from, to \in Int : to < clock => Within(matched', from, to) = Within(matched, from, to)
<1>1. /\ DOMAIN matched = 1 .. Len(matched) /\ Len(matched) \in Nat
      /\ DOMAIN matched' = 1 .. Len(matched) + 1
      /\ matched'[Len(matched) + 1] = clock
      /\ \A i \in DOMAIN matched : matched'[i] = matched[i] /\ matched[i] \in 0 .. clock
      /\ clock \in Nat
  BY DEF AlertTypes
<1>2. matched' \in Seq(0 .. clock)
  BY <1>1 DEF AlertTypes
<1>3. ASSUME NEW from \in Int, NEW to \in Int
      PROVE  /\ Within(matched', from, to) >= Within(matched, from, to)
             /\ to < clock => Within(matched', from, to) = Within(matched, from, to)
  <2> DEFINE w == {i \in DOMAIN matched : from < matched[i] /\ matched[i] <= to}
             v == {i \in DOMAIN matched' : from < matched'[i] /\ matched'[i] <= to}
  <2>0. IsFiniteSet(1 .. Len(matched) + 1)
    BY <1>1, FS_Interval
  <2>1. IsFiniteSet(v)
    BY <1>1, <2>0, FS_Subset
  <2>2. w \subseteq v
    BY <1>1
  <2>3. to < clock => w = v
    BY <1>1
  <2>4. Cardinality(w) <= Cardinality(v) /\ Cardinality(w) \in Nat /\ Cardinality(v) \in Nat
    BY <2>1, <2>2, FS_Subset, FS_CardinalityType
  <2> QED BY <2>3, <2>4 DEF Within
<1> QED BY <1>1, <1>2, <1>3

Checking == [pc : {"idle", "count", "dedup"}, rule : Rules \cup {NoRule}, at : 0 .. clock]

\* Every action keeps the types.
LEMMA AlertTypeStep == AlertTypes /\ [AlertNext]_alertVars => AlertTypes'
<1> SUFFICES ASSUME AlertTypes, [AlertNext]_alertVars PROVE AlertTypes'
  OBVIOUS
<1>0. /\ clock \in Nat /\ rule \in Rules /\ report \in [Reports -> Checking]
      /\ matched \in Seq(0 .. clock) /\ raised \in Seq(0 .. clock)
      /\ freqCount \subseteq DOMAIN matched
      /\ \A x \in Reports : report[x].pc # "idle" => report[x].rule \in Rules
  BY DEF AlertTypes, Checking
<1>a. Waiting \in Checking /\ Waiting.pc = "idle"
  BY <1>0 DEF Checking, Waiting
<1>1. CASE Later
  <2>1. 0 .. clock \subseteq 0 .. clock' /\ clock' \in Nat
    BY <1>0, <1>1 DEF Later
  <2>2. matched' \in Seq(0 .. clock') /\ raised' \in Seq(0 .. clock')
    <3>1. matched \in Seq(0 .. clock') /\ raised \in Seq(0 .. clock')
      BY <1>0, <2>1, SeqMonotonic
    <3> QED BY <1>1, <3>1 DEF Later
  <2>3. report' \in [Reports -> [pc : {"idle", "count", "dedup"}, rule : Rules \cup {NoRule}, at : 0 .. clock']]
    BY <1>0, <1>1, <2>1 DEF Later, Checking
  <2> QED BY <1>1, <2>1, <2>2, <2>3 DEF Later, AlertTypes
<1>2. ASSUME NEW f \in Files, LoadRules(f) PROVE AlertTypes'
  BY <1>2, RuleTyped DEF LoadRules, AlertTypes
<1>3. ASSUME NEW h \in Reports, BeginCheck(h) PROVE AlertTypes'
  <2>2. report' = [report EXCEPT ![h] = [pc |-> "count", rule |-> rule, at |-> 0]]
    BY <1>3 DEF BeginCheck
  <2>3. report' \in [Reports -> Checking]
    BY <1>0, <2>2 DEF Checking
  <2>4. \A x \in Reports : report'[x].pc # "idle" => report'[x].rule \in Rules
    BY <1>0, <2>2 DEF AlertTypes
  <2> QED BY <1>3, <2>3, <2>4 DEF BeginCheck, AlertTypes, Checking
<1>4. ASSUME NEW h \in Reports, report' = [report EXCEPT ![h] = Waiting] \/ UNCHANGED report,
             UNCHANGED <<file, rule, clock>>,
             UNCHANGED <<freqCount, matched>>, raised' \in Seq(0 .. clock)
      PROVE  AlertTypes'
  <2>1. report' \in [Reports -> Checking]
    BY <1>0, <1>4, <1>a
  <2>2. \A x \in Reports : report'[x].pc # "idle" => report'[x].rule \in Rules
    BY <1>0, <1>4, <1>a
  <2> QED BY <1>4, <2>1, <2>2 DEF AlertTypes, Checking
<1>5. ASSUME NEW h \in Reports, NoMatch(h) \/ Suppress(h) \/ Raise(h) PROVE AlertTypes'
  <2>1. Append(raised, clock) \in Seq(0 .. clock)
    BY <1>0
  <2>2. raised' \in Seq(0 .. clock)
    BY <1>0, <1>5, <2>1 DEF NoMatch, Suppress, Raise
  <2>3. /\ report' = [report EXCEPT ![h] = Waiting]
        /\ UNCHANGED <<file, rule, clock, freqCount, matched>>
    BY <1>5 DEF NoMatch, Suppress, Raise
  <2> QED BY <1>4, <2>2, <2>3
<1>6. ASSUME NEW h \in Reports, MatchAlone(h) PROVE AlertTypes'
  <2>1. report' \in [Reports -> Checking]
    BY <1>0, <1>6 DEF MatchAlone, Checking
  <2>2. \A x \in Reports : report'[x].pc # "idle" => report'[x].rule \in Rules
    BY <1>0, <1>6 DEF AlertTypes, MatchAlone, Checking
  <2>3. matched' \in Seq(0 .. clock) /\ freqCount \subseteq DOMAIN matched'
    BY <1>0, <1>6, Appended DEF MatchAlone
  <2> QED BY <1>6, <2>1, <2>2, <2>3 DEF MatchAlone, AlertTypes, Checking
<1>7. ASSUME NEW h \in Reports, CountEvent(h) PROVE AlertTypes'
  <2> DEFINE r == report[h].rule
             new == [pc |-> "dedup", rule |-> r, at |-> clock]
  <2>1. report' \in {[report EXCEPT ![h] = Waiting], [report EXCEPT ![h] = new]} /\ r \in Rules
    BY <1>7 DEF CountEvent, AlertTypes
  <2>5. new \in Checking /\ new.rule = r
    BY <1>0, <2>1 DEF Checking
  <2> HIDE DEF r, new
  <2>2. report' \in [Reports -> Checking]
    BY <1>0, <1>a, <2>1, <2>5
  <2>3. \A x \in Reports : report'[x].pc # "idle" => report'[x].rule \in Rules
    BY <1>0, <1>a, <2>1, <2>5
  <2>4. matched' \in Seq(0 .. clock) /\ freqCount' \subseteq DOMAIN matched'
    BY <1>0, <1>7, Appended DEF CountEvent, After
  <2> QED BY <1>7, <2>2, <2>3, <2>4 DEF CountEvent, AlertTypes, Checking
<1>8. CASE Cleanup
  BY <1>8 DEF Cleanup, AlertTypes
<1>9. CASE UNCHANGED alertVars
  BY <1>9 DEF alertVars, AlertTypes
<1> QED
  BY <1>1, <1>2, <1>3, <1>5, <1>6, <1>7, <1>8, <1>9 DEF AlertNext

\* The alerts are far enough apart, and the last of them is remembered as long
\* as it matters.
LEMMA SpacedStep ==
  AlertTypes /\ LastKept /\ AlertsSpaced /\ [AlertNext]_alertVars => LastKept' /\ AlertsSpaced'
<1> SUFFICES ASSUME AlertTypes, LastKept, AlertsSpaced, [AlertNext]_alertVars
             PROVE  LastKept' /\ AlertsSpaced'
  OBVIOUS
<1>0. /\ clock \in Nat /\ raised \in Seq(0 .. clock) /\ Len(raised) \in Nat
      /\ raised # <<>> => Len(raised) \in 1 .. Len(raised) /\ raised[Len(raised)] \in 0 .. clock
      /\ DedupMax \in Nat /\ DedupMax < 1000
  BY RuleTyped, AlertAssumption DEF AlertTypes
<1>1. CASE Later
  BY <1>0, <1>1 DEF Later, LastKept, AlertsSpaced
<1>2. CASE Cleanup
  <2>1. CASE lastAlert < clock - DedupMax
    BY <1>0, <1>2, <2>1 DEF Cleanup, LastKept, AlertsSpaced, Never
  <2>2. CASE ~(lastAlert < clock - DedupMax)
    BY <1>2, <2>2 DEF Cleanup, LastKept, AlertsSpaced
  <2> QED BY <2>1, <2>2
<1>3. ASSUME NEW h \in Reports, Raise(h) PROVE LastKept' /\ AlertsSpaced'
  <2> DEFINE r == report[h].rule
             n == Len(raised)
  <2>1. r \in Rules /\ r.dedup \in 1 .. DedupMax /\ clock - lastAlert >= r.dedup
    BY <1>3, RuleTyped DEF Raise, AlertTypes
  <2>2. /\ raised' = Append(raised, clock) /\ lastAlert' = clock /\ clock' = clock
    BY <1>3 DEF Raise
  <2> HIDE DEF r
  <2>3. /\ Len(raised') = n + 1 /\ raised'[n + 1] = clock
        /\ \A i \in 1 .. n : raised'[i] = raised[i]
        /\ raised' # <<>>
    BY <1>0, <2>2
  <2>4. LastKept'
    BY <1>0, <2>2, <2>3 DEF LastKept, Never
  <2>5. n > 0 => clock - raised[n] >= r.dedup
    BY <1>0, <2>1 DEF LastKept
  <2>6. ASSUME NEW i \in 1 .. n PROVE \E x \in Rules : raised'[i + 1] - raised'[i] >= x.dedup
    <3>1. CASE i = n
      BY <1>0, <2>1, <2>3, <2>5, <3>1
    <3>2. CASE i \in 1 .. n - 1
      <4>1. i + 1 \in 1 .. n
        BY <1>0, <3>2
      <4> QED BY <2>3, <3>2, <4>1 DEF AlertsSpaced
    <3> QED BY <1>0, <3>1, <3>2
  <2>7. 1 .. Len(raised') - 1 = 1 .. n
    BY <1>0, <2>3
  <2> HIDE DEF n
  <2>8. AlertsSpaced' = \A i \in 1 .. Len(raised') - 1 : \E x \in Rules : raised'[i + 1] - raised'[i] >= x.dedup
    BY DEF AlertsSpaced
  <2> QED BY <2>4, <2>6, <2>7, <2>8
<1>4. CASE UNCHANGED <<raised, lastAlert, clock>>
  BY <1>4 DEF LastKept, AlertsSpaced
<1> QED
  BY <1>1, <1>2, <1>3, <1>4
     DEF AlertNext, alertVars, LoadRules, BeginCheck, NoMatch, MatchAlone, CountEvent, Suppress

\* The events that are counted when one is are events of the window.
LEMMA CountedAre ==
  ASSUME AlertTypes, NEW h \in Reports, CountEvent(h)
  PROVE  LET r == report[h].rule
             w == {i \in DOMAIN matched' : clock - r.window < matched'[i] /\ matched'[i] <= clock}
         IN  /\ r \in Rules
             /\ freqCount' = {i \in freqCount \cup {Len(matched) + 1} : matched'[i] > clock - r.window}
             /\ freqCount' \subseteq w /\ IsFiniteSet(w)
             /\ Within(matched', clock - r.window, clock) = Cardinality(w)
             /\ Cardinality(w) \in Nat
             /\ Cardinality(freqCount') \in Nat /\ Cardinality(freqCount') <= Cardinality(w)
             /\ \/ Cardinality(freqCount') < r.count /\ report' = [report EXCEPT ![h] = Waiting]
                \/ /\ Cardinality(freqCount') >= r.count
                   /\ report' = [report EXCEPT ![h] = [pc |-> "dedup", rule |-> r, at |-> clock]]
<1> DEFINE r == report[h].rule
           w == {i \in DOMAIN matched' : clock - r.window < matched'[i] /\ matched'[i] <= clock}
<1>1. r \in Rules /\ r.window \in Nat /\ r.count \in Nat /\ clock \in Nat /\ report[h].pc = "count"
  BY RuleTyped DEF CountEvent, AlertTypes
<1>2. matched' = Append(matched, clock)
  BY DEF CountEvent
<1>3. /\ DOMAIN matched = 1 .. Len(matched) /\ Len(matched) \in Nat
      /\ DOMAIN matched' = 1 .. Len(matched) + 1
      /\ \A i \in DOMAIN matched' : matched'[i] \in 0 .. clock
      /\ Len(matched') = Len(matched) + 1
  BY <1>1, <1>2, Appended
<1>4. freqCount' = {i \in freqCount \cup {Len(matched) + 1} : matched'[i] > clock - r.window}
  BY <1>2, <1>3 DEF CountEvent, After
<1>5. freqCount' \subseteq w
  BY <1>1, <1>3, <1>4 DEF AlertTypes
<1>6. IsFiniteSet(w)
  <2>1. IsFiniteSet(1 .. Len(matched) + 1)
    BY <1>3, FS_Interval
  <2> QED BY <1>3, <2>1, FS_Subset
<1>7. /\ Cardinality(w) \in Nat /\ Cardinality(freqCount') \in Nat
      /\ Cardinality(freqCount') <= Cardinality(w)
  BY <1>5, <1>6, FS_Subset, FS_CardinalityType
<1>8. Within(matched', clock - r.window, clock) = Cardinality(w)
  BY DEF Within
<1>9. \/ Cardinality(freqCount') < r.count /\ report' = [report EXCEPT ![h] = Waiting]
      \/ /\ Cardinality(freqCount') >= r.count
         /\ report' = [report EXCEPT ![h] = [pc |-> "dedup", rule |-> r, at |-> clock]]
  <2> DEFINE recent == After(freqCount \cup {Len(Append(matched, clock))}, Append(matched, clock), clock - r.window)
             next == [pc |-> "dedup", rule |-> r, at |-> clock]
  <2>1. /\ freqCount' = recent
        /\ report' = [report EXCEPT ![h] = IF Cardinality(recent) < r.count THEN Waiting ELSE next]
    BY DEF CountEvent
  <2> HIDE DEF recent, next, r
  <2>2. report' = [report EXCEPT ![h] = IF Cardinality(freqCount') < r.count THEN Waiting ELSE next]
    BY <2>1
  <2>3. CASE Cardinality(freqCount') < r.count
    BY <2>2, <2>3
  <2>4. CASE ~(Cardinality(freqCount') < r.count)
    <3>1. Cardinality(freqCount') >= r.count
      BY <1>1, <1>7, <2>4
    <3> QED BY <2>2, <2>4, <3>1 DEF next
  <2> QED BY <2>3, <2>4
<1> QED BY <1>1, <1>4, <1>5, <1>6, <1>7, <1>8, <1>9

\* A goroutine goes on to the suppression with enough events behind it, and
\* those that come later take none of them away.
LEMMA JustifiedStep == AlertTypes /\ AlertJustified /\ [AlertNext]_alertVars => AlertJustified'
<1> SUFFICES ASSUME AlertTypes, AlertJustified, [AlertNext]_alertVars,
                    NEW x \in Reports, report'[x].pc = "dedup"
             PROVE  LET r == report'[x].rule
                    IN  Within(matched', report'[x].at - r.window, report'[x].at) >= r.count
  BY DEF AlertJustified
<1>0. /\ clock \in Nat /\ report \in [Reports -> Checking]
      /\ \A h \in Reports : report[h].pc # "idle" => report[h].rule \in Rules
  BY DEF AlertTypes, Checking
<1>a. Waiting.pc = "idle"
  BY DEF Waiting
<1>1. CASE report[x].pc = "dedup" /\ report'[x] = report[x]
           /\ (matched' = matched \/ matched' = Append(matched, clock))
  <2> DEFINE r == report[x].rule
             t == report[x].at
  <2>1. Within(matched, t - r.window, t) >= r.count
    BY <1>1 DEF AlertJustified
  <2>2. r.window \in Nat /\ r.count \in Nat /\ t \in Nat
    BY <1>0, <1>1, RuleTyped DEF Checking
  <2>3. Within(matched, t - r.window, t) \in Nat
    BY WithinFinite DEF Within
  <2> HIDE DEF r, t
  <2>4. Within(matched', t - r.window, t) >= r.count
    <3>1. CASE matched' = matched
      BY <2>1, <3>1
    <3>2. CASE matched' = Append(matched, clock)
      <4>1. Within(matched', t - r.window, t) >= Within(matched, t - r.window, t)
        BY <2>2, <3>2, Appended
      <4>2. Within(matched', t - r.window, t) \in Nat
        <5>1. DOMAIN matched' = 1 .. Len(matched) + 1 /\ Len(matched) \in Nat
          BY <3>2, Appended
        <5>2. IsFiniteSet(1 .. Len(matched) + 1)
          BY <5>1, FS_Interval
        <5> QED BY <5>1, <5>2, FS_Subset, FS_CardinalityType DEF Within
      <4> QED BY <2>1, <2>2, <2>3, <4>1, <4>2
    <3> QED BY <1>1, <3>1, <3>2
  <2> QED BY <1>1, <2>4 DEF r, t
<1>2. ASSUME NEW h \in Reports, MatchAlone(h), x = h
      PROVE  LET r == report'[x].rule
             IN  Within(matched', report'[x].at - r.window, report'[x].at) >= r.count
  <2>1. report'[x].rule = report[h].rule /\ report[h].rule.count = 0
    BY <1>0, <1>2 DEF MatchAlone
  <2>2. ASSUME NEW from, NEW to PROVE Within(matched', from, to) \in Nat
    <3>1. DOMAIN matched' = 1 .. Len(matched) + 1 /\ Len(matched) \in Nat
      BY <1>2, Appended DEF MatchAlone
    <3>2. IsFiniteSet(1 .. Len(matched) + 1)
      BY <3>1, FS_Interval
    <3> QED BY <3>1, <3>2, FS_Subset, FS_CardinalityType DEF Within
  <2> QED BY <2>1, <2>2
<1>3. ASSUME NEW h \in Reports, CountEvent(h), x = h
      PROVE  LET r == report'[x].rule
             IN  Within(matched', report'[x].at - r.window, report'[x].at) >= r.count
  <2> DEFINE r == report[h].rule
  <2>1. /\ Cardinality(freqCount') >= r.count /\ r.count \in Nat
        /\ report'[x] = [pc |-> "dedup", rule |-> r, at |-> clock]
    BY <1>0, <1>3, <1>a, CountedAre, RuleTyped
  <2>2. /\ Within(matched', clock - r.window, clock) \in Nat
        /\ Cardinality(freqCount') \in Nat
        /\ Within(matched', clock - r.window, clock) >= Cardinality(freqCount')
    BY <1>3, CountedAre
  <2> QED BY <2>1, <2>2
<1>4. ASSUME NEW h \in Reports, MatchAlone(h) \/ CountEvent(h), x # h
      PROVE  /\ report[x].pc = "dedup" /\ report'[x] = report[x]
             /\ matched' = Append(matched, clock)
  BY <1>0, <1>4 DEF MatchAlone, CountEvent
<1>5. ASSUME NEW h \in Reports, BeginCheck(h) \/ NoMatch(h) \/ Suppress(h) \/ Raise(h)
      PROVE  report[x].pc = "dedup" /\ report'[x] = report[x] /\ matched' = matched
  BY <1>0, <1>5, <1>a DEF BeginCheck, NoMatch, Suppress, Raise
<1>6. CASE UNCHANGED <<report, matched>>
  BY <1>1, <1>6
<1> QED
  BY <1>1, <1>2, <1>3, <1>4, <1>5, <1>6 DEF AlertNext, alertVars, Later, LoadRules, Cleanup

\* Without an edit every goroutine works with the one rule, and what is not
\* counted is too old to be.
LEMMA CountedStep == AlertTypes /\ Counted /\ [AlertNext]_alertVars => Counted'
<1> SUFFICES ASSUME AlertTypes, Counted, [AlertNext]_alertVars, ~edited'
             PROVE  /\ \A h \in Reports : report'[h].pc # "idle" => report'[h].rule = rule'
                    /\ rule'.count > 0 =>
                         \A i \in DOMAIN matched' \ freqCount' : matched'[i] <= clock' - rule'.window
  BY DEF Counted
<1>0. /\ clock \in Nat /\ report \in [Reports -> Checking]
      /\ rule \in Rules /\ rule.window \in Nat /\ rule.count \in Nat
      /\ \A i \in DOMAIN matched : matched[i] \in 0 .. clock
      /\ ~edited /\ rule' = rule
  BY RuleTyped DEF AlertTypes, Checking, AlertNext, alertVars, Later, LoadRules, BeginCheck,
     NoMatch, MatchAlone, CountEvent, Suppress, Raise, Cleanup
<1>b. /\ \A h \in Reports : report[h].pc # "idle" => report[h].rule = rule
      /\ rule.count > 0 => \A i \in DOMAIN matched \ freqCount : matched[i] <= clock - rule.window
  BY <1>0 DEF Counted
<1>a. Waiting.pc = "idle"
  BY DEF Waiting
<1>1. CASE Later
  BY <1>0, <1>1, <1>b DEF Later
<1>2. ASSUME NEW h \in Reports, BeginCheck(h) \/ NoMatch(h) \/ Suppress(h) \/ Raise(h)
      PROVE  /\ \A x \in Reports : report'[x].pc # "idle" => report'[x].rule = rule
             /\ UNCHANGED <<freqCount, matched, clock>>
  BY <1>0, <1>2, <1>a, <1>b DEF BeginCheck, NoMatch, Suppress, Raise
<1>3. ASSUME NEW h \in Reports, MatchAlone(h)
      PROVE  /\ \A x \in Reports : report'[x].pc # "idle" => report'[x].rule = rule
             /\ rule.count = 0
  BY <1>0, <1>3, <1>b DEF MatchAlone
<1>4. ASSUME NEW h \in Reports, CountEvent(h)
      PROVE  /\ \A x \in Reports : report'[x].pc # "idle" => report'[x].rule = rule
             /\ \A i \in DOMAIN matched' \ freqCount' : matched'[i] <= clock' - rule.window
  <2>1. /\ report[h].rule = rule /\ clock' = clock /\ rule.count > 0
        /\ matched' = Append(matched, clock)
    BY <1>4, <1>b DEF CountEvent
  <2>2. freqCount' = {i \in freqCount \cup {Len(matched) + 1} : matched'[i] > clock - rule.window}
    BY <1>4, <2>1, CountedAre
  <2>3. \A x \in Reports : report'[x].pc # "idle" => report'[x].rule = rule
    <3>1. report' \in {[report EXCEPT ![h] = Waiting],
                       [report EXCEPT ![h] = [pc |-> "dedup", rule |-> rule, at |-> clock]]}
      BY <1>4, <2>1, CountedAre
    <3> QED BY <1>0, <1>a, <1>b, <3>1
  <2>4. /\ DOMAIN matched' = 1 .. Len(matched) + 1 /\ DOMAIN matched = 1 .. Len(matched)
        /\ Len(matched) \in Nat
        /\ \A i \in DOMAIN matched : matched'[i] = matched[i] /\ matched[i] \in 0 .. clock
        /\ matched'[Len(matched) + 1] = clock
    BY <2>1, Appended
  <2>5. ASSUME NEW i \in DOMAIN matched', i \notin freqCount' PROVE matched'[i] <= clock - rule.window
    <3>1. CASE i \in freqCount \cup {Len(matched) + 1}
      BY <1>0, <2>2, <2>4, <2>5, <3>1
    <3>2. CASE i \notin freqCount \cup {Len(matched) + 1}
      BY <1>0, <1>b, <2>1, <2>4, <3>2
    <3> QED BY <3>1, <3>2
  <2> QED BY <2>1, <2>3, <2>5
<1>5. CASE Cleanup \/ UNCHANGED alertVars
  BY <1>5, <1>b, <1>0 DEF Cleanup, alertVars
<1>6. ASSUME NEW f \in Files, LoadRules(f) PROVE FALSE
  BY <1>6 DEF LoadRules
<1> QED
  BY <1>0, <1>1, <1>2, <1>3, <1>4, <1>5, <1>6, <1>b DEF AlertNext

\* A burst at one moment: the alert has been raised, or is about to be decided.
Seen(t) ==
  \/ \E j \in DOMAIN raised : raised[j] > t - rule.dedup
  \/ \E h \in Reports : report[h].pc = "dedup" /\ report[h].at = t

Burst(t) == Within(matched, t - rule.window, t) >= rule.count

\* Who has seen a burst is not forgotten: a goroutine that decides on it raises
\* the alert, or finds that one has been raised within the time of suppression.
LEMMA SeenStep ==
  ASSUME AlertTypes, LastKept, Counted, [AlertNext]_alertVars, ~edited', NEW t \in 0 .. clock, Seen(t)
  PROVE  \/ \E j \in DOMAIN raised' : raised'[j] > t - rule'.dedup
         \/ \E h \in Reports : report'[h].pc = "dedup" /\ report'[h].at = t
<1>0. /\ clock \in Nat /\ report \in [Reports -> Checking]
      /\ rule \in Rules /\ rule.dedup \in 1 .. DedupMax
      /\ raised \in Seq(0 .. clock)
      /\ ~edited /\ rule' = rule
  BY RuleTyped DEF AlertTypes, Checking, AlertNext, alertVars, Later, LoadRules, BeginCheck,
     NoMatch, MatchAlone, CountEvent, Suppress, Raise, Cleanup
<1>1. ASSUME NEW h \in Reports, Raise(h) PROVE \E j \in DOMAIN raised' : raised'[j] > t - rule.dedup
  <2>1. raised' = Append(raised, clock)
    BY <1>1 DEF Raise
  <2>2. Len(raised) + 1 \in DOMAIN raised' /\ raised'[Len(raised) + 1] = clock
    BY <1>0, <2>1
  <2>3. clock > t - rule.dedup
    BY <1>0
  <2> QED BY <2>2, <2>3
<1>2. ASSUME NEW h \in Reports, Suppress(h) PROVE \E j \in DOMAIN raised' : raised'[j] > t - rule.dedup
  <2>1. report[h].rule = rule /\ clock - lastAlert < rule.dedup /\ raised' = raised
    BY <1>0, <1>2 DEF Suppress, Counted
  <2>2. lastAlert # Never
    BY <1>0, <2>1, RuleTyped DEF Never
  <2>3. raised # <<>> /\ lastAlert = raised[Len(raised)]
    BY <2>2 DEF LastKept
  <2>4. Len(raised) \in DOMAIN raised /\ raised[Len(raised)] \in 0 .. clock
    BY <1>0, <2>3
  <2>5. raised[Len(raised)] > t - rule.dedup
    BY <1>0, <2>1, <2>3, <2>4
  <2> QED BY <2>1, <2>4, <2>5
<1>3. ASSUME NEW h \in Reports, BeginCheck(h) \/ NoMatch(h) \/ MatchAlone(h) \/ CountEvent(h)
      PROVE  /\ raised' = raised /\ report[h].pc # "dedup"
             /\ \A x \in Reports : x # h => report'[x] = report[x]
  BY <1>0, <1>3 DEF BeginCheck, NoMatch, MatchAlone, CountEvent
<1>4. CASE UNCHANGED <<raised, report>>
  BY <1>0, <1>4 DEF Seen
<1>5. ASSUME NEW h \in Reports, BeginCheck(h) \/ NoMatch(h) \/ MatchAlone(h) \/ CountEvent(h)
      PROVE  \/ \E j \in DOMAIN raised' : raised'[j] > t - rule'.dedup
             \/ \E x \in Reports : report'[x].pc = "dedup" /\ report'[x].at = t
  <2>1. CASE \E j \in DOMAIN raised : raised[j] > t - rule.dedup
    BY <1>0, <1>3, <1>5, <2>1
  <2>2. ASSUME NEW x \in Reports, report[x].pc = "dedup", report[x].at = t
        PROVE  report'[x].pc = "dedup" /\ report'[x].at = t
    <3>1. report'[x] = report[x]
      BY <1>3, <1>5, <2>2
    <3> QED BY <2>2, <3>1
  <2> QED BY <2>1, <2>2 DEF Seen
<1> QED
  BY <1>0, <1>1, <1>2, <1>4, <1>5 DEF AlertNext, alertVars, Later, LoadRules, Cleanup

\* The event that completes a burst is the one whose goroutine decides on it:
\* what the list has lost of the window is nothing.
LEMMA BurstSeen ==
  ASSUME AlertTypes, Counted, ~edited, NEW h \in Reports, MatchAlone(h) \/ CountEvent(h),
         Within(matched', clock - rule.window, clock) >= rule.count
  PROVE  report'[h].pc = "dedup" /\ report'[h].at = clock
<1>0. /\ clock \in Nat /\ report \in [Reports -> Checking]
      /\ rule \in Rules /\ rule.window \in Nat /\ rule.count \in Nat
  BY RuleTyped DEF AlertTypes, Checking
<1>1. CASE MatchAlone(h)
  BY <1>0, <1>1 DEF MatchAlone
<1>2. CASE CountEvent(h)
  <2> DEFINE w == {i \in DOMAIN matched' : clock - rule.window < matched'[i] /\ matched'[i] <= clock}
  <2>1. report[h].rule = rule /\ rule.count > 0 /\ matched' = Append(matched, clock)
    BY <1>2 DEF CountEvent, Counted
  <2>2. /\ DOMAIN matched' = 1 .. Len(matched) + 1 /\ DOMAIN matched = 1 .. Len(matched)
        /\ Len(matched) \in Nat
        /\ \A i \in DOMAIN matched : matched'[i] = matched[i] /\ matched[i] \in 0 .. clock
    BY <2>1, Appended
  <2>3. /\ freqCount' = {i \in freqCount \cup {Len(matched) + 1} : matched'[i] > clock - rule.window}
        /\ Within(matched', clock - rule.window, clock) = Cardinality(w)
        /\ freqCount' \subseteq w
    BY <1>2, <2>1, CountedAre
  <2>4. ASSUME NEW i \in w PROVE i \in freqCount'
    <3>1. CASE i = Len(matched) + 1
      BY <1>0, <2>3, <2>4, <3>1
    <3>2. CASE i \in DOMAIN matched
      <4>1. matched[i] > clock - rule.window
        BY <1>0, <2>2, <2>4, <3>2
      <4>2. i \in freqCount
        BY <1>0, <2>1, <2>2, <3>2, <4>1 DEF Counted
      <4> QED BY <1>0, <2>2, <2>3, <3>2, <4>1, <4>2
    <3> QED BY <2>2, <2>4, <3>1, <3>2
  <2>5. w = freqCount'
    BY <2>3, <2>4
  <2>6. Cardinality(freqCount') >= rule.count /\ Cardinality(freqCount') \in Nat
    BY <1>2, <2>3, <2>5, CountedAre
  <2>7. ~(Cardinality(freqCount') < rule.count)
    BY <1>0, <2>6
  <2>8. report' = [report EXCEPT ![h] = [pc |-> "dedup", rule |-> rule, at |-> clock]]
    BY <1>2, <2>1, <2>7, CountedAre
  <2> QED BY <1>0, <2>8
<1> QED BY <1>1, <1>2

\* No burst gets lost between its last event and the alert.
LEMMA DecidingStep ==
  AlertTypes /\ LastKept /\ Counted /\ Deciding /\ [AlertNext]_alertVars => Deciding'
<1> SUFFICES ASSUME AlertTypes, LastKept, Counted, Deciding, [AlertNext]_alertVars, ~edited',
                    NEW i \in DOMAIN matched',
                    Within(matched', matched'[i] - rule'.window, matched'[i]) >= rule'.count
             PROVE  \/ \E j \in DOMAIN raised' : raised'[j] > matched'[i] - rule'.dedup
                    \/ \E h \in Reports : report'[h].pc = "dedup" /\ report'[h].at = matched'[i]
  BY DEF Deciding
<1>0. /\ clock \in Nat /\ rule \in Rules /\ rule.window \in Nat
      /\ \A x \in DOMAIN matched : matched[x] \in 0 .. clock
  BY RuleTyped DEF AlertTypes
<1>a. ~edited /\ rule' = rule
  BY DEF AlertNext, alertVars, Later, LoadRules, BeginCheck,
     NoMatch, MatchAlone, CountEvent, Suppress, Raise, Cleanup
<1> DEFINE t == matched'[i]
<1>1. ASSUME i \in DOMAIN matched, matched[i] = t, Within(matched, t - rule.window, t) >= rule.count
      PROVE  t \in 0 .. clock /\ Seen(t)
  BY <1>0, <1>a, <1>1 DEF Deciding, Seen
<1>2. CASE matched' = matched
  BY <1>0, <1>a, <1>1, <1>2, SeenStep
<1>3. ASSUME NEW h \in Reports, MatchAlone(h) \/ CountEvent(h)
      PROVE  \/ \E j \in DOMAIN raised' : raised'[j] > matched'[i] - rule'.dedup
             \/ \E x \in Reports : report'[x].pc = "dedup" /\ report'[x].at = matched'[i]
  <2>1. matched' = Append(matched, clock)
    BY <1>3 DEF MatchAlone, CountEvent
  <2>2. /\ DOMAIN matched' = 1 .. Len(matched) + 1 /\ DOMAIN matched = 1 .. Len(matched)
        /\ matched'[Len(matched) + 1] = clock
        /\ \A x \in DOMAIN matched : matched'[x] = matched[x] /\ matched[x] \in 0 .. clock
        /\ Len(matched) \in Nat
    BY <2>1, Appended
  <2>3. CASE t = clock
    <3>1. Within(matched', clock - rule.window, clock) >= rule.count
      BY <1>0, <1>a, <2>3
    <3> QED BY <1>0, <1>a, <1>3, <2>3, <3>1, BurstSeen
  <2>4. CASE t # clock
    <3>1. i \in DOMAIN matched /\ matched[i] = t /\ t < clock /\ t \in Nat
      BY <1>0, <2>2, <2>4
    <3>2. t - rule.window \in Int /\ t \in Int
      BY <1>0, <3>1
    <3>3. Within(matched', t - rule.window, t) = Within(matched, t - rule.window, t)
      BY <2>1, <3>1, <3>2, Appended
    <3>4. Seen(t) /\ t \in 0 .. clock
      BY <1>0, <1>a, <1>1, <3>1, <3>3
    <3> QED BY <1>0, <1>a, <3>4, SeenStep
  <2> QED BY <2>3, <2>4
<1> QED
  BY <1>2, <1>3 DEF AlertNext, alertVars, Later, LoadRules, BeginCheck, NoMatch, Suppress, Raise, Cleanup

\* The conjunction is inductive.
THEOREM AlertInductive == AlertSpec => []AInv
<1>1. AInv /\ [AlertNext]_alertVars => AInv'
  BY AlertTypeStep, SpacedStep, JustifiedStep, CountedStep, DecidingStep DEF AInv
<1> QED BY AlertInitInv, <1>1, PTL DEF AlertSpec

\* Two alerts are never closer than the shortest time a severity asks for, however
\* many goroutines check at once, reload the rules or clean the maps.
THEOREM SpacedCorrect == AlertSpec => []AlertsSpaced
<1>1. AInv => AlertsSpaced
  BY DEF AInv
<1> QED BY AlertInductive, <1>1, PTL

\* No alert without as many events within the window as the rule it is of asks for.
THEOREM JustifiedCorrect == AlertSpec => []AlertJustified
<1>1. AInv => AlertJustified
  BY DEF AInv
<1> QED BY AlertInductive, <1>1, PTL

\* ... and no burst without an alert, unless the rules were edited meanwhile.
THEOREM BurstCorrect == AlertSpec => []BurstAlerted
<1>1. AInv => BurstAlerted
  BY DEF AInv, Deciding, BurstAlerted, Noticed
<1> QED BY AlertInductive, <1>1, PTL
=============================================================================

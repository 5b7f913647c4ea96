----------------------------- MODULE StarTracking -----------------------------
(***************************************************************************)
(* Star tracking: an alert makes the server queue an activation for the    *)
(* agent, the next heartbeat carries it, and the agent tracks the process  *)
(* tree of the alert for ten minutes, at the full observation level and    *)
(* with the TCP probe in detail mode (agent/internal/agent/heartbeat.go,   *)
(* star_trace_helper.go, observation.go; server/internal/grpcservice,      *)
(* the alert callback of server/cmd/main.go).                              *)
(*                                                                         *)
(* One agent.  Its heartbeat loop, its mutationEndLoop and its             *)
(* observationDowngradeLoop are goroutines; each holds a lock for single   *)
(* steps only, so these steps interleave.  Command n is of the n-th alert. *)
(* All stars live equally long, so the oldest one expires first.           *)
(***************************************************************************)
EXTENDS Integers, Sequences, FiniteSets, SequencesExt

CONSTANTS
  Stars,           \* correlation ids; one alert may get that of an earlier one
  Rootless,        \* ids of alerts without a process: their root_pid is 0
  MaxActiveStars,  \* MaxActiveStars
  MaxAlerts,       \* bound: alerts
  MaxFaults        \* bound: lost calls, server restarts, reloads of probe or agents

ASSUME StarsAssumption == Rootless \subseteq Stars
ASSUME BoundsAssumption ==
  MaxActiveStars \in Nat \ {0} /\ MaxAlerts \in Nat /\ MaxFaults \in Nat

VARIABLES
  alerts,   \* the star of each alert so far
  queue,    \* server: AgentInfo.Commands
  known,    \* server: the agent's token is valid
  hb,       \* heartbeat loop: "idle", "answered", "failed" or "handle"
  cmds,     \* the commands of the answer, less those handled
  step,     \* the next call of handleCommand
  stars,    \* a.stars by StartAt
  due,      \* those whose EndAt has passed
  sweep,    \* checkStarExpire has found that no star is left
  watch,    \* observationDowngradeLoop has seen that no star is active
  level,    \* observation level
  cooling,  \* less than the cooldown has passed since lastUp
  tcp,      \* the TCP probe is loaded
  mode,     \* its collection mode
  handled,  \* history: the commands handleCommand was called for
  faults

server == <<alerts, queue, known>>
beat   == <<hb, cmds, step>>
agent  == <<stars, due, sweep, watch, level, cooling>>
probe  == <<tcp, mode>>
vars   == <<server, beat, agent, probe, handled, faults>>

Commands == 1 .. MaxAlerts

TypeOK ==
  /\ alerts \in Seq(Stars) /\ Len(alerts) <= MaxAlerts
  /\ queue \in Seq(Commands)
  /\ known \in BOOLEAN
  /\ hb \in {"idle", "answered", "failed", "handle"}
  /\ cmds \in Seq(Commands)
  /\ step \in {"activate", "upgrade", "switch"}
  /\ stars \in Seq(Stars \ Rootless) /\ Len(stars) <= MaxActiveStars
  /\ due \subseteq ToSet(stars)
  /\ sweep \in BOOLEAN /\ watch \in BOOLEAN
  /\ level \in {"reduced", "full"}
  /\ cooling \in BOOLEAN
  /\ tcp \in BOOLEAN
  /\ mode \in {"count", "detail"}
  /\ handled \subseteq Commands
  /\ faults \in 0 .. MaxFaults

Init ==
  /\ alerts = <<>> /\ queue = <<>> /\ known = TRUE
  /\ hb = "idle" /\ cmds = <<>> /\ step = "activate"
  /\ stars = <<>> /\ due = {} /\ sweep = FALSE /\ watch = FALSE
  /\ level = "reduced" /\ cooling = FALSE
  /\ tcp = FALSE /\ mode = "count"
  /\ handled = {}
  /\ faults = 0

Fault == faults < MaxFaults /\ faults' = faults + 1

(***************************************************************************)
(* The server.                                                             *)
(***************************************************************************)

\* An alert on an event of the agent; the id is that of the process, an
\* earlier one if the process raised an alert less than a minute ago.
Alert(s) ==
  /\ known
  /\ Len(alerts) < MaxAlerts
  /\ alerts' = Append(alerts, s)
  /\ queue' = Append(queue, Len(alerts) + 1)
  /\ UNCHANGED <<known, beat, agent, probe, handled, faults>>

\* A restart, or an administrator's ReloadAgents: fresh AgentInfo records.
ForgetAgents ==
  /\ Fault
  /\ known' \in {known, FALSE}
  /\ queue' = <<>>
  /\ UNCHANGED <<alerts, beat, agent, probe, handled>>

\* A defect: the queue is not emptied.
HeartbeatKeeps ==
  /\ hb = "idle"
  /\ known
  /\ hb' = "answered"
  /\ cmds' = queue
  /\ UNCHANGED <<server, step, agent, probe, handled, faults>>

\* Heartbeat: the queue moves into the answer.
Heartbeat ==
  /\ hb = "idle"
  /\ known
  /\ hb' = "answered"
  /\ cmds' = queue
  /\ queue' = <<>>
  /\ UNCHANGED <<alerts, known, step, agent, probe, handled, faults>>

(***************************************************************************)
(* The heartbeat loop of the agent.                                        *)
(***************************************************************************)

HeartbeatRefused ==
  /\ hb = "idle"
  /\ ~known
  /\ hb' = "failed"
  /\ UNCHANGED <<server, cmds, step, agent, probe, handled, faults>>

\* The request or the answer is lost, or the answer is later than 5 seconds.
HeartbeatLost ==
  /\ hb \in {"idle", "answered"}
  /\ Fault
  /\ hb' = "failed"
  /\ cmds' = <<>>
  /\ UNCHANGED <<server, step, agent, probe, handled>>

\* connectAndRegister: Register replaces the AgentInfo with a fresh one.
Register ==
  /\ hb = "failed"
  /\ hb' = "idle"
  /\ \/ known' = TRUE /\ queue' = <<>> /\ UNCHANGED faults
     \/ Fault /\ UNCHANGED <<known, queue>>
  /\ UNCHANGED <<alerts, cmds, step, agent, probe, handled>>

Receive ==
  /\ hb = "answered"
  /\ hb' = IF cmds = <<>> THEN "idle" ELSE "handle"
  /\ UNCHANGED <<server, cmds, step, agent, probe, handled, faults>>

Star == alerts[Head(cmds)]

\* At the limit the oldest star goes, also if the new one is active already.
Evict(set) == IF Len(set) >= MaxActiveStars THEN Tail(set) ELSE set

\* handleCommand, first call: activateStar.
Activate ==
  /\ hb = "handle" /\ step = "activate"
  /\ step' = "upgrade"
  /\ handled' = handled \cup {Head(cmds)}
  /\ IF Star \in Rootless
     THEN UNCHANGED <<stars, due>>
     ELSE /\ stars' = Append(Remove(Evict(stars), Star), Star)
          /\ due' = (due \cap ToSet(Evict(stars))) \ {Star}
  /\ UNCHANGED <<server, hb, cmds, sweep, watch, level, cooling, probe, faults>>

\* Second call: Upgrade, which takes the time only when the level changes.
Upgrade ==
  /\ hb = "handle" /\ step = "upgrade"
  /\ step' = "switch"
  /\ level' = "full"
  /\ cooling' = (cooling \/ level # "full")
  /\ UNCHANGED <<server, hb, cmds, stars, due, sweep, watch, probe, handled, faults>>

SwitchMode(m) == mode' = IF tcp THEN m ELSE mode

\* Third call: switchTCPCollectMode(1); then the next command.
SwitchDetail ==
  /\ hb = "handle" /\ step = "switch"
  /\ SwitchMode("detail")
  /\ step' = "activate"
  /\ cmds' = Tail(cmds)
  /\ hb' = IF Len(cmds) = 1 THEN "idle" ELSE "handle"
  /\ UNCHANGED <<server, agent, tcp, handled, faults>>

(***************************************************************************)
(* Time, and the two loops that undo an activation.                        *)
(***************************************************************************)

\* Ten minutes are longer than handleCommand takes.
Expire(s) ==
  /\ s \in ToSet(stars) \ due
  /\ \A i, j \in DOMAIN stars : i < j /\ stars[j] = s => stars[i] \in due
  /\ step = "activate" \/ s # Last(stars)
  /\ due' = due \cup {s}
  /\ UNCHANGED <<server, beat, stars, sweep, watch, level, cooling, probe,
                 handled, faults>>

\* Two minutes pass, but not between two statements of the loop below.
CooldownEnds ==
  /\ cooling
  /\ ~watch
  /\ cooling' = FALSE
  /\ UNCHANGED <<server, beat, stars, due, sweep, watch, level, probe, handled, faults>>

\* A defect: the switch back is decided by the oldest star alone.
SweepOldest ==
  /\ ~sweep
  /\ due # {}
  /\ stars' = SelectSeq(stars, LAMBDA s : s \notin due)
  /\ due' = {}
  /\ sweep' = (Len(stars) = 1)
  /\ UNCHANGED <<server, beat, watch, level, cooling, probe, handled, faults>>

\* checkStarExpire up to the unlock; an expired star is not looked at earlier.
Sweep ==
  /\ ~sweep
  /\ due # {}
  /\ stars' = SelectSeq(stars, LAMBDA s : s \notin due)
  /\ due' = {}
  /\ sweep' = (stars' = <<>>)
  /\ UNCHANGED <<server, beat, watch, level, cooling, probe, handled, faults>>

\* ... and after it.
SwitchCount ==
  /\ sweep
  /\ sweep' = FALSE
  /\ SwitchMode("count")
  /\ UNCHANGED <<server, beat, stars, due, watch, level, cooling, tcp, handled, faults>>

\* observationDowngradeLoop: hasActiveStar, then Downgrade.
SeeNoStar ==
  /\ ~watch
  /\ stars = <<>>
  /\ watch' = TRUE
  /\ UNCHANGED <<server, beat, stars, due, sweep, level, cooling, probe, handled, faults>>

\* A defect: the comparison with the cooldown is turned round.
DowngradeEarly ==
  /\ watch
  /\ watch' = FALSE
  /\ level' = IF cooling THEN "reduced" ELSE level
  /\ UNCHANGED <<server, beat, stars, due, sweep, cooling, probe, handled, faults>>

Downgrade ==
  /\ watch
  /\ watch' = FALSE
  /\ level' = IF cooling THEN level ELSE "reduced"
  /\ UNCHANGED <<server, beat, stars, due, sweep, cooling, probe, handled, faults>>

(***************************************************************************)
(* The TCP probe: Load creates the tables and counts; it may be attached   *)
(* anew, when the agent connects after a start without the server.         *)
(***************************************************************************)
LoadTcp ==
  /\ ~tcp
  /\ tcp' = TRUE
  /\ mode' = "count"
  /\ UNCHANGED <<server, beat, agent, handled, faults>>

ReattachTcp ==
  /\ tcp
  /\ Fault
  /\ tcp' = FALSE
  /\ mode' = "count"
  /\ UNCHANGED <<server, beat, agent, handled>>

HandleCommand == Activate \/ Upgrade \/ SwitchDetail
HeartbeatLoop == \/ Heartbeat \/ HeartbeatRefused \/ Register \/ Receive
                 \/ HandleCommand
SweepLoop == Sweep \/ SwitchCount
WatchLoop == SeeNoStar \/ Downgrade
TimePasses == CooldownEnds \/ \E s \in Stars : Expire(s)

Next == \/ \E s \in Stars : Alert(s)
        \/ ForgetAgents
        \/ HeartbeatLoop
        \/ HeartbeatLost
        \/ TimePasses
        \/ SweepLoop
        \/ WatchLoop
        \/ LoadTcp
        \/ ReattachTcp

Spec == Init /\ [][Next]_vars

\* The two local loops tick for ever, a command that is being handled goes on,
\* and time passes, also while they wait.  No heartbeat is assumed to be sent or
\* answered: it has no deadline, and one without an answer holds its loop.
FairSpec == /\ Spec
            /\ WF_vars(HandleCommand) /\ WF_vars(SweepLoop) /\ WF_vars(WatchLoop)
            /\ SF_vars(CooldownEnds) /\ WF_vars(\E s \in Stars : Expire(s))

-----------------------------------------------------------------------------
(* Properties. *)

\* No command is handled twice and none after a later one, whatever was lost
\* or forgotten in between (Heartbeat swaps the queue under the lock).
EachOnceInOrder ==
  [][Activate => \A n \in handled : n < Head(cmds)]_vars

\* When tracking has ended for good, the observation level comes down,
\* although the loop may find it cooling and may read the stars before it is
\* raised again (observationDowngradeLoop, Downgrade).
LevelReturns == <>[](stars = <<>>) => <>[](level = "reduced")

\* ... and, if every command named a process, the TCP probe counts again:
\* checkStarExpire switches back only in the sweep that finds the last star.
NamesProcess(n) == alerts[n] \notin Rootless
ModeReturns == [](\A n \in handled : NamesProcess(n)) /\ <>[](stars = <<>>)
                 => <>[](mode = "count")

(* What the comments and the documentation say and the code does not do. *)

AtRest == hb = "idle" /\ ~sweep /\ ~watch

\* star_trace_helper.go, checkStarExpire: the TCP probe is switched back when
\* no star is left, so not after a new one has been activated.
CountsOnlyWithoutStars ==
  [][SwitchCount /\ stars # <<>> /\ hb = "idle" => mode' = mode]_vars

\* DESIGN.txt 2.2: TCP counts by default, a star turns it to detail; without a
\* star it counts.
CountsWithoutStars == AtRest /\ stars = <<>> /\ due = {} => mode = "count"

\* agent.go, observationDowngradeLoop: the level goes down only when no star
\* is active.
FullWhileTracking == [][Downgrade /\ stars # <<>> => level' = level]_vars
=============================================================================

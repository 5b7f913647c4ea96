------------------------------ MODULE RulesSync ------------------------------
(***************************************************************************)
(* Distribution of signed rule sets from the server to one agent: the      *)
(* agent's start-up from its local cache, the synchronisation loop with    *)
(* its two round trips, the apply gate (debounce and breaker), the hint    *)
(* the heartbeat carries, and the probes whose kernel tables the rules     *)
(* are written to (agent/internal/agent/rules_sync.go, heartbeat.go and    *)
(* the loading part of agent.go; server/internal/grpcservice).             *)
(*                                                                         *)
(* A rule set is its version: the hash agrees with the version here, and   *)
(* RulesPublish studies how the server comes to hold two rule sets of one  *)
(* version.  Time is abstracted to two facts, whether the cooldown of the  *)
(* breaker is still running and whether the last apply is less than the    *)
(* minimal interval old.                                                   *)
(***************************************************************************)
EXTENDS Integers, FiniteSets

CONSTANTS
  Probes,         \* the probes that implement framework.ConfigApplier
  FileProbe,      \* a.fileProbe, the one whose update decides the outcome
  BootModes,      \* how Run may start: "online", "listless", "offline"
  FailThreshold,  \* RulesApplyFailThreshold
  MaxVersion,     \* bound: rule versions the server publishes
  MaxFaults,      \* bound: failed calls, map writes and file writes
  MaxRestarts     \* bound: restarts of the agent process

ASSUME ProbesAssumption == IsFiniteSet(Probes) /\ FileProbe \in Probes
ASSUME BoundsAssumption ==
  /\ FailThreshold \in Nat \ {0}
  /\ MaxVersion \in Nat
  /\ MaxFaults \in Nat
  /\ MaxRestarts \in Nat
ASSUME BootAssumption == BootModes \subseteq {"online", "listless", "offline"}

VARIABLES
  latest,     \* server: the largest version in agent_rules, 0 if none
  connected,  \* a.client # nil and a.token # ""
  toLoad,     \* probes whose Manager.Start goroutine has not run yet
  phase,      \* how far the current instance of each probe has come
  loaded,     \* the rule version in the kernel tables of that instance
  cached,     \* the version in the local rule cache, 0 if none
  rules,      \* rulesStatus, rulesVersion and the version of rulesSha256
  gate,       \* failures, closed, and the two timers of the apply gate
  trigger,    \* rulesSyncTrigger holds a signal
  pc,         \* where Run and rulesSyncLoop are
  force,      \* the sync under way was started by the heartbeat
  got,        \* the version GetRulesFull returned
  hb,         \* the version the heartbeat in flight reports, NoBeat if none
  listing,    \* a GetProbeList is under way
  silent,     \* the calls under way that the server never answers
  faults, restarts,
  replaced    \* history: the file probe was loaded again since the last apply

server == <<latest>>
kernel == <<toLoad, phase, loaded, replaced>>
loop   == <<pc, force, got>>
calls  == <<listing, silent>>
vars   == <<latest, connected, toLoad, phase, loaded, cached, rules, gate,
            trigger, pc, force, got, hb, listing, silent, faults, restarts,
            replaced>>

Versions == 0 .. MaxVersion
Torn     == -1     \* an update that failed half-way: parts of two versions
NoBeat   == -1
Calls    == {"list", "rules", "beat"}

Phases == {"off", "loading", "mapped", "on"}
HasMaps(p) == phase[p] \in {"mapped", "on"}
Mapped     == {p \in Probes : HasMaps(p)}

RulesStates == [status : {"synced", "stale", "unknown"},
                version : Versions, sha : Versions]
GateStates  == [fails : 0 .. FailThreshold, closed : BOOLEAN,
                cooling : BOOLEAN, recent : BOOLEAN]

TypeOK ==
  /\ latest \in Versions
  /\ connected \in BOOLEAN
  /\ toLoad \subseteq Probes
  /\ phase \in [Probes -> Phases]
  /\ loaded \in [Probes -> Versions \cup {Torn}]
  /\ cached \in Versions
  /\ rules \in RulesStates
  /\ gate \in GateStates
  /\ trigger \in BOOLEAN
  /\ pc \in {"boot", "list", "startup", "first", "idle", "query", "full",
           "fetched"}
  /\ force \in BOOLEAN
  /\ got \in Versions
  /\ hb \in Versions \cup {NoBeat}
  /\ listing \in BOOLEAN
  /\ silent \subseteq Calls
  /\ faults \in 0 .. MaxFaults
  /\ restarts \in 0 .. MaxRestarts
  /\ replaced \in BOOLEAN

\* The memory of an agent process that has just started.
NoRules    == [status |-> "unknown", version |-> 0, sha |-> 0]
OpenGate   == [fails |-> 0, closed |-> FALSE, cooling |-> FALSE, recent |-> FALSE]
AllOff     == [p \in Probes |-> "off"]
NothingIn  == [p \in Probes |-> 0]

Init ==
  /\ latest = 0
  /\ connected = FALSE
  /\ toLoad = {}
  /\ phase = AllOff
  /\ loaded = NothingIn
  /\ cached = 0
  /\ rules = NoRules
  /\ gate = OpenGate
  /\ trigger = FALSE
  /\ pc = "boot"
  /\ force = FALSE
  /\ got = 0
  /\ hb = NoBeat
  /\ listing = FALSE
  /\ silent = {}
  /\ faults = 0
  /\ restarts = 0
  /\ replaced = FALSE

(***************************************************************************)
(* The server publishes a new version.                                     *)
(***************************************************************************)
Publish ==
  /\ latest < MaxVersion
  /\ latest' = latest + 1
  /\ UNCHANGED <<connected, kernel, cached, rules, gate, trigger, loop, hb,
                 calls, faults, restarts>>

(***************************************************************************)
(* Run: register and ask for the list of probes, which may be refused, or  *)
(* start with the cached list when the server cannot be reached.  Loading  *)
(* a probe is a goroutine of its own.  Dialling and Register have          *)
(* deadlines; getAuthContext drops those of every later call.              *)
(***************************************************************************)
Run ==
  /\ pc = "boot"
  /\ \/ /\ {"online", "listless"} \cap BootModes # {}
        /\ connected' = TRUE
        /\ listing' = TRUE
        /\ pc' = "list"
        /\ UNCHANGED toLoad
     \/ /\ "offline" \in BootModes
        /\ connected' = FALSE
        /\ toLoad' = Probes
        /\ pc' = "startup"
        /\ UNCHANGED listing
  /\ UNCHANGED <<server, phase, loaded, replaced, cached, rules, gate, trigger,
                 force, got, hb, silent, faults, restarts>>

\* retryConnectLoop after an offline start: connect, and ask for the list.
Reconnect ==
  /\ pc # "boot"
  /\ ~connected
  /\ connected' = TRUE
  /\ listing' = TRUE
  /\ UNCHANGED <<server, kernel, cached, rules, gate, trigger, loop, hb, silent,
                 faults, restarts>>

\* fetchProbeList and loadProbesByList: every listed probe is loaded, after an
\* offline start those already running included; a refused list loads none.
ListAnswered ==
  /\ listing
  /\ "list" \notin silent
  /\ listing' = FALSE
  /\ \/ /\ pc = "list"
        /\ \E mode \in BootModes \ {"offline"} :
             toLoad' = IF mode = "online" THEN Probes ELSE {}
        /\ pc' = "startup"
     \/ /\ pc # "list"
        /\ \E list \in {{}, Probes} : toLoad' = toLoad \cup list
        /\ UNCHANGED pc
  /\ UNCHANGED <<server, connected, phase, loaded, replaced, cached, rules,
                 gate, trigger, force, got, hb, silent, faults, restarts>>

\* Manager.Start: Attach stores a new loader, whose tables do not exist yet.
StartProbe(p) ==
  /\ p \in toLoad
  /\ toLoad' = toLoad \ {p}
  /\ phase' = [phase EXCEPT ![p] = "loading"]
  /\ loaded' = [loaded EXCEPT ![p] = 0]
  /\ replaced' = (replaced \/ (p = FileProbe /\ phase[p] # "off"))
  /\ UNCHANGED <<server, connected, cached, rules, gate, trigger, loop, hb,
                 calls, faults, restarts>>

\* Load creates the maps and then attaches; a load that fails stays where it is.
LoadStep(p) ==
  /\ \/ phase[p] = "loading" /\ phase' = [phase EXCEPT ![p] = "mapped"]
     \/ phase[p] = "mapped"  /\ phase' = [phase EXCEPT ![p] = "on"]
  /\ UNCHANGED <<server, connected, toLoad, loaded, replaced, cached, rules,
                 gate, trigger, loop, hb, calls, faults, restarts>>

(***************************************************************************)
(* verifyAndApplyRules.  An error of one probe's ApplyConfig is logged and *)
(* skipped; a probe without maps takes nothing; only the sensitive paths   *)
(* of the file probe, written last, make the whole apply fail.             *)
(***************************************************************************)
Written(v, bad) == [p \in Probes |-> IF p \in bad THEN Torn
                                     ELSE IF HasMaps(p) THEN v ELSE loaded[p]]

Rejected ==         \* the CA cannot be read or the signature does not verify
  /\ faults < MaxFaults
  /\ faults' = faults + 1
  /\ UNCHANGED loaded

Failed(v) ==        \* rejected, or the file probe could not be written
  \/ Rejected /\ UNCHANGED replaced
  \/ \E bad \in SUBSET Mapped :
       /\ HasMaps(FileProbe) => FileProbe \in bad
       /\ faults + Cardinality(bad) <= MaxFaults
       /\ faults' = faults + Cardinality(bad)
       /\ loaded' = Written(v, bad)
       /\ UNCHANGED replaced

Applied(v) ==
  /\ HasMaps(FileProbe)
  /\ \E bad \in SUBSET (Mapped \ {FileProbe}) :
       /\ faults + Cardinality(bad) <= MaxFaults
       /\ faults' = faults + Cardinality(bad)
       /\ loaded' = Written(v, bad)
  /\ replaced' = FALSE

\* setRulesStatus overwrites the hash only with a non-empty one.
SetRulesStatus(status, version, sha) ==
  rules' = [status |-> status, version |-> version,
            sha |-> IF sha # 0 THEN sha ELSE rules.sha]

\* A defect: the status is not touched.
KeepRules == rules' = rules

MarkRulesStale == rules' = [rules EXCEPT !.status = "stale"]

\* syncRulesOnStartup: waits for the file probe, but for 15 seconds at most.
SyncOnStartup ==
  /\ pc = "startup"
  /\ pc' = "first"
  /\ \/ /\ cached = 0
        /\ SetRulesStatus("unknown", 0, 0)
        /\ UNCHANGED <<loaded, replaced, faults>>
     \/ cached # 0 /\ Failed(cached)  /\ SetRulesStatus("unknown", 0, 0)
     \/ cached # 0 /\ Applied(cached) /\ SetRulesStatus("synced", cached, cached)
  /\ UNCHANGED <<server, connected, toLoad, phase, cached, gate, trigger,
                 force, got, hb, calls, restarts>>

(***************************************************************************)
(* rulesSyncLoop: a first synchronisation, then one per poll or per hint.  *)
(* Five minutes pass before a poll, so the minimal interval (3 s) is over. *)
(***************************************************************************)
FirstSync ==
  /\ pc = "first"
  /\ pc' = "query"
  /\ force' = FALSE
  /\ UNCHANGED <<server, connected, kernel, cached, rules, gate, trigger, got,
                 hb, calls, faults, restarts>>

\* A defect: the poll is left out after a failed synchronisation.
PollUnlessStale ==
  /\ pc = "idle"
  /\ ~gate.recent
  /\ rules.status # "stale"
  /\ pc' = "query"
  /\ force' = FALSE
  /\ UNCHANGED <<server, connected, kernel, cached, rules, gate, trigger, got,
                 hb, calls, faults, restarts>>

Poll ==
  /\ pc = "idle"
  /\ ~gate.recent
  /\ pc' = "query"
  /\ force' = FALSE
  /\ UNCHANGED <<server, connected, kernel, cached, rules, gate, trigger, got,
                 hb, calls, faults, restarts>>

TakeTrigger ==
  /\ pc = "idle"
  /\ trigger
  /\ trigger' = FALSE
  /\ pc' = "query"
  /\ force' = TRUE
  /\ UNCHANGED <<server, connected, kernel, cached, rules, gate, got, hb,
                 calls, faults, restarts>>

\* syncRulesFromServer up to the version comparison.
QueryVersion ==
  /\ pc = "query"
  /\ "rules" \notin silent
  /\ \/ ~connected /\ pc' = "idle" /\ UNCHANGED <<rules, faults>>
     \/ /\ connected /\ faults < MaxFaults
        /\ faults' = faults + 1
        /\ MarkRulesStale
        /\ pc' = "idle"
     \/ /\ connected /\ latest = 0
        /\ SetRulesStatus("synced", 0, 0)
        /\ pc' = "idle"
        /\ UNCHANGED faults
     \/ /\ connected /\ latest # 0
        /\ rules.version = latest /\ rules.sha = latest
        /\ SetRulesStatus("synced", rules.version, rules.sha)
        /\ pc' = "idle"
        /\ UNCHANGED faults
     \/ /\ connected /\ latest # 0
        /\ rules.version # latest \/ rules.sha # latest
        /\ pc' = "full"
        /\ UNCHANGED <<rules, faults>>
  /\ UNCHANGED <<server, connected, kernel, cached, gate, trigger, force, got,
                 hb, calls, restarts>>

\* A defect: when the rule set cannot be fetched the cached one is applied.
FetchOrCached ==
  /\ pc = "full"
  /\ "rules" \notin silent
  /\ \/ /\ faults < MaxFaults
        /\ faults' = faults + 1
        /\ got' = cached
     \/ got' = latest /\ UNCHANGED faults
  /\ pc' = "fetched"
  /\ UNCHANGED <<server, connected, kernel, cached, rules, gate, trigger, force,
                 hb, calls, restarts>>

FetchFull ==
  /\ pc = "full"
  /\ "rules" \notin silent
  /\ \/ /\ faults < MaxFaults
        /\ faults' = faults + 1
        /\ MarkRulesStale
        /\ pc' = "idle"
        /\ UNCHANGED got
     \/ /\ got' = latest
        /\ pc' = "fetched"
        /\ UNCHANGED <<rules, faults>>
  /\ UNCHANGED <<server, connected, kernel, cached, gate, trigger, force, hb,
                 calls, restarts>>

\* A defect: the breaker never half-opens.
NeverHalfOpen == ~gate.closed /\ (force \/ ~gate.recent)

\* checkApplyGate: refused while the breaker cools down, and within the
\* minimal interval unless forced.
GateOpen == /\ gate.closed => ~gate.cooling
            /\ force \/ ~gate.recent

MarkApplySuccess ==
  gate' = [fails |-> 0, closed |-> FALSE, cooling |-> gate.cooling, recent |-> TRUE]

\* The counter saturates at the threshold; the opening time is taken only
\* when the breaker trips.
MarkApplyFailure ==
  LET n == IF gate.fails < FailThreshold THEN gate.fails + 1 ELSE gate.fails
      trips == n >= FailThreshold /\ ~gate.closed
  IN  gate' = [gate EXCEPT !.fails = n,
                           !.closed = @ \/ trips,
                           !.cooling = @ \/ trips]

\* saveRulesCache: afterwards the cache holds v, or an older rule set of a save
\* that was interrupted, or nothing (CachePromise; RulesCache implements it).
SaveCache(v) == cached' \in {0} \cup cached .. v

SkipApply ==
  /\ pc = "fetched"
  /\ ~GateOpen
  /\ pc' = "idle"
  /\ UNCHANGED <<server, connected, kernel, cached, rules, gate, trigger,
                 force, got, hb, calls, faults, restarts>>

\* A defect: the rule set is saved whether or not it could be applied.
SaveAnyway ==
  /\ pc = "fetched"
  /\ GateOpen
  /\ Failed(got)
  /\ MarkApplyFailure
  /\ SaveCache(got)
  /\ MarkRulesStale
  /\ pc' = "idle"
  /\ UNCHANGED <<server, connected, toLoad, phase, trigger, force, got, hb,
                 calls, restarts>>

ApplyFails ==
  /\ pc = "fetched"
  /\ GateOpen
  /\ Failed(got)
  /\ MarkApplyFailure
  /\ MarkRulesStale
  /\ pc' = "idle"
  /\ UNCHANGED <<server, connected, toLoad, phase, cached, trigger, force, got,
                 hb, calls, restarts>>

ApplySucceeds ==
  /\ pc = "fetched"
  /\ GateOpen
  /\ Applied(got)
  /\ MarkApplySuccess
  /\ SaveCache(got)
  /\ SetRulesStatus("synced", got, got)
  /\ pc' = "idle"
  /\ UNCHANGED <<server, connected, toLoad, phase, trigger, force, got, hb,
                 calls, restarts>>

CooldownElapses ==
  /\ gate.cooling
  /\ gate' = [gate EXCEPT !.cooling = FALSE]
  /\ UNCHANGED <<server, connected, kernel, cached, rules, trigger, loop, hb,
                 calls, faults, restarts>>

MinIntervalElapses ==
  /\ gate.recent
  /\ gate' = [gate EXCEPT !.recent = FALSE]
  /\ UNCHANGED <<server, connected, kernel, cached, rules, trigger, loop, hb,
                 calls, faults, restarts>>

(***************************************************************************)
(* The heartbeat carries the agent's version; the server answers whether   *)
(* it differs from the current one, and the agent signals its loop.        *)
(***************************************************************************)
HeartbeatSend ==
  /\ pc \notin {"boot", "list", "startup"}
  /\ connected
  /\ hb = NoBeat
  /\ hb' = rules.version
  /\ UNCHANGED <<server, connected, kernel, cached, rules, gate, trigger, loop,
                 calls, faults, restarts>>

HeartbeatReply ==
  /\ hb # NoBeat
  /\ "beat" \notin silent
  /\ \/ trigger' = (trigger \/ hb # latest)
     \/ pc = "first" /\ trigger' = trigger   \* the channel is not made yet
  /\ hb' = NoBeat
  /\ UNCHANGED <<server, connected, kernel, cached, rules, gate, loop, calls,
                 faults, restarts>>

(***************************************************************************)
(* Calls that get no answer.  Every call after Register is made with       *)
(* authContext, whose parent is context.Background(): nothing ends it but  *)
(* an answer or the end of its connection, and its goroutine waits.        *)
(***************************************************************************)
UnderWay(c) ==
  \/ c = "list" /\ listing
  \/ c = "rules" /\ pc \in {"query", "full"} /\ connected
  \/ c = "beat" /\ hb # NoBeat

Unanswered ==
  /\ faults < MaxFaults
  /\ faults' = faults + 1
  /\ \E c \in Calls \ silent : UnderWay(c) /\ silent' = silent \cup {c}
  /\ UNCHANGED <<server, connected, kernel, cached, rules, gate, trigger, loop,
                 hb, listing, restarts>>

\* The connection is closed: every call on it returns an error.
CallsFail ==
  /\ IF UnderWay("rules") THEN MarkRulesStale ELSE UNCHANGED rules
  /\ pc' = IF pc = "list" THEN "startup"
           ELSE IF UnderWay("rules") THEN "idle" ELSE pc
  /\ listing' = FALSE
  /\ hb' = NoBeat
  /\ silent' = {}

\* A heartbeat fails or is refused.  connectAndRegister then dials anew; if it
\* succeeds it closes the old connection and the calls still under way on it.
HeartbeatLost ==
  /\ hb # NoBeat
  /\ "beat" \notin silent
  /\ faults < MaxFaults
  /\ faults' = faults + 1
  /\ \/ hb' = NoBeat /\ UNCHANGED <<rules, pc, calls>>
     \/ CallsFail
  /\ UNCHANGED <<server, connected, kernel, cached, gate, trigger, force, got,
                 restarts>>

\* The server, or in the end TCP, closes a connection that went silent.
\* Nothing in the agent makes this happen.
ConnectionCloses ==
  /\ silent # {}
  /\ CallsFail
  /\ UNCHANGED <<server, connected, kernel, cached, gate, trigger, force, got,
                 faults, restarts>>

\* The process dies and is started again; only the cache survives.
Restart ==
  /\ pc # "boot"
  /\ restarts < MaxRestarts
  /\ restarts' = restarts + 1
  /\ connected' = FALSE
  /\ toLoad' = {}
  /\ phase' = AllOff
  /\ loaded' = NothingIn
  /\ rules' = NoRules
  /\ gate' = OpenGate
  /\ trigger' = FALSE
  /\ pc' = "boot"
  /\ force' = FALSE
  /\ got' = 0
  /\ hb' = NoBeat
  /\ listing' = FALSE
  /\ silent' = {}
  /\ replaced' = FALSE
  /\ UNCHANGED <<server, cached, faults>>

ProbeStep == \E p \in Probes : StartProbe(p) \/ LoadStep(p)
LoopStep  == FirstSync \/ TakeTrigger \/ QueryVersion \/ FetchFull
             \/ SkipApply \/ ApplyFails \/ ApplySucceeds
Heartbeat == HeartbeatSend \/ HeartbeatReply
Timers    == CooldownElapses \/ MinIntervalElapses

Next == \/ Publish
        \/ Run
        \/ Reconnect
        \/ ListAnswered
        \/ ProbeStep
        \/ SyncOnStartup
        \/ Poll
        \/ LoopStep
        \/ Timers
        \/ Heartbeat
        \/ HeartbeatLost
        \/ Unanswered
        \/ ConnectionCloses
        \/ Restart

Spec == Init /\ [][Next]_vars

\* The goroutines run, timers expire, a load completes, and a call the server
\* answers returns.  That it answers, or that a silent connection is closed, is
\* not assumed.  The poll is left out, to see what the hint achieves alone.
Fairness ==
  /\ WF_vars(Run) /\ WF_vars(Reconnect) /\ WF_vars(ListAnswered)
  /\ WF_vars(SyncOnStartup)
  /\ WF_vars(ProbeStep) /\ WF_vars(LoopStep)
  /\ WF_vars(CooldownElapses) /\ WF_vars(MinIntervalElapses)
  /\ WF_vars(HeartbeatSend) /\ WF_vars(HeartbeatReply)

FairSpec == Spec /\ Fairness

-----------------------------------------------------------------------------
(* Safety. *)

\* An agent that reports "synced" with a version has that version in the
\* tables of the file probe, whatever failed or was skipped before, and the
\* version it would skip as "already current" is one it really applied
\* (verifyAndApplyRules, the early return of syncRulesFromServer).  The one
\* exception is a file probe loaded again since, whose tables are empty.
SyncedIsEnforced ==
  rules.version > 0 /\ (rules.status = "synced" \/ rules.version = latest)
    => \/ loaded[FileProbe] = rules.version
       \/ replaced /\ loaded[FileProbe] = 0

\* The breaker trips with the FailThreshold-th failure in a row, not before
\* and not later, and only a successful apply resets it (markApplyFailure,
\* markApplySuccess).
BreakerMatchesFailures == gate.closed <=> gate.fails = FailThreshold

\* The cache only ever holds a rule set the probes accepted: it is never newer
\* than what the server has published nor than what this process reports, also
\* after failed applies, failed saves and restarts (the order of the steps at
\* the end of syncRulesFromServer).
CacheNotAhead ==
  /\ cached <= latest
  /\ rules.version > 0 => cached <= rules.version

\* While the breaker cools down no kernel table is rewritten, except that a
\* probe (re)started then comes up empty ("silent mode, keep the old rules",
\* DESIGN.txt 3.5).
SilentWhileCooling ==
  [][gate.closed /\ gate.cooling /\ restarts' = restarts
       => \A p \in Probes : loaded'[p] \in {loaded[p], 0}]_vars

\* Within one life of the process no probe goes back to an older rule set,
\* although version and content are fetched by two calls and the start-up
\* cache is applied without asking the server.
NoRegress ==
  [][restarts' = restarts =>
       \A p \in Probes : loaded'[p] > 0 => loaded'[p] >= loaded[p]]_vars

(* Liveness. *)

\* No call stays without an answer for ever, and the agent got a list of probes:
\* without it the file probe is never loaded.
Served == []<>(silent = {} /\ phase[FileProbe] # "off")

\* With the heartbeat's hint alone (no poll) an agent that is served ends up
\* with the version the server ends up with, after any bounded number of failed
\* and unanswered calls, failed applies, trips of the breaker and restarts.
VersionConverges == Served => <>[](rules.version = latest)

\* With the poll as well it also ends up reporting "synced".
StatusConverges ==
  WF_vars(Poll) /\ Served => <>[](rules.status = "synced")

(* What the documentation says and the code does not do. *)

\* DESIGN.txt, the steps of a reconnection: "loadProbesByList (incremental,
\* those already loaded are skipped)", so that a probe keeps its tables.
SyncedAlwaysEnforced ==
  rules.version > 0 /\ (rules.status = "synced" \/ rules.version = latest)
    => loaded[FileProbe] = rules.version

\* rules_sync.go: after the cooldown the half-open breaker allows one
\* attempt.  If that attempt fails, the breaker has to be cooling again.
HalfOpenSingleTry ==
  [][gate.closed /\ ~gate.cooling /\ ApplyFails => gate'.cooling]_vars

\* DESIGN.txt 3.2: the agent distributes a rule set to every probe, so that
\* in the end each running probe holds the current rules.
EveryProbeEnforced ==
  WF_vars(Poll) => <>[](\A p \in Probes : phase[p] = "on" => loaded[p] = latest)
=============================================================================

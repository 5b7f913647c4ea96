--------------------------- MODULE RulesSyncProofs ---------------------------
(***************************************************************************)
(* Proofs about RulesSync, for every set of probes and every bound.        *)
(*                                                                         *)
(* TypeOK is inductive by itself.  The other properties follow from one    *)
(* inductive invariant, IInv, which adds to them what the control points   *)
(* of the synchronisation loop guarantee: before the start-up cache has    *)
(* been applied nothing is in the tables and the gate is untouched; a rule *)
(* set in flight ("fetched") is at least as new as everything applied or   *)
(* cached; and the loop only goes on to fetch a version it does not have.  *)
(***************************************************************************)
EXTENDS RulesSync, FiniteSetTheorems, TLAPS


(* What the parts the actions are built from keep typed. *)

\* The initial values, each in its type.
LEMMA InitialTypes ==
  /\ 0 \in Versions
  /\ NoRules \in RulesStates
  /\ OpenGate \in GateStates
  /\ AllOff \in [Probes -> Phases]
  /\ NothingIn \in [Probes -> Versions \cup {Torn}]
BY BoundsAssumption
   DEF Versions, NoRules, RulesStates, OpenGate, GateStates, AllOff, Phases,
       NothingIn

\* setRulesStatus keeps the type of the status,
LEMMA StatusTyped ==
  ASSUME rules \in RulesStates, NEW status \in {"synced", "stale", "unknown"},
         NEW version \in Versions, NEW sha \in Versions,
         SetRulesStatus(status, version, sha)
  PROVE  rules' \in RulesStates
BY DEF RulesStates, SetRulesStatus

\* ... so does markRulesStale,
LEMMA StaleTyped ==
  ASSUME rules \in RulesStates, MarkRulesStale
  PROVE  rules' \in RulesStates
BY DEF RulesStates, MarkRulesStale

\* ... and the two outcomes of an apply keep the type of the gate.
LEMMA GateTyped ==
  ASSUME gate \in GateStates, MarkApplySuccess \/ MarkApplyFailure
  PROVE  gate' \in GateStates
<1>1. CASE MarkApplySuccess
  BY <1>1, BoundsAssumption DEF GateStates, MarkApplySuccess
<1>2. CASE MarkApplyFailure
  <2> DEFINE n == IF gate.fails < FailThreshold THEN gate.fails + 1
                                                ELSE gate.fails
             trips == n >= FailThreshold /\ ~gate.closed
  <2>1. n \in 0 .. FailThreshold
    BY BoundsAssumption DEF GateStates
  <2>2. trips \in BOOLEAN
    OBVIOUS
  <2>3. gate' = [gate EXCEPT !.fails = n, !.closed = @ \/ trips,
                             !.cooling = @ \/ trips]
    BY <1>2, Zenon DEF MarkApplyFailure
  <2> HIDE DEF n, trips
  <2> QED BY <2>1, <2>2, <2>3 DEF GateStates
<1> QED BY <1>1, <1>2

\* Writing a version into the tables, some of them half-way.
LEMMA WrittenTyped ==
  ASSUME loaded \in [Probes -> Versions \cup {Torn}], NEW v \in Versions,
         NEW bad
  PROVE  Written(v, bad) \in [Probes -> Versions \cup {Torn}]
BY DEF Written

\* The tables that fail can be counted.
LEMMA BadCounted ==
  ASSUME NEW bad \in SUBSET Probes
  PROVE  Cardinality(bad) \in Nat
BY ProbesAssumption, FS_Subset, FS_CardinalityType

\* A failed apply keeps the types,
LEMMA FailedTyped ==
  ASSUME TypeOK, NEW v \in Versions, Failed(v)
  PROVE  /\ loaded' \in [Probes -> Versions \cup {Torn}]
         /\ faults' \in 0 .. MaxFaults
         /\ replaced' = replaced
<1>0. replaced' = replaced
  BY DEF Failed
<1>1. ASSUME Rejected
      PROVE  /\ loaded' \in [Probes -> Versions \cup {Torn}]
             /\ faults' \in 0 .. MaxFaults
  BY <1>1, BoundsAssumption DEF Rejected, TypeOK
<1>2. ASSUME NEW bad \in SUBSET Mapped,
             faults + Cardinality(bad) <= MaxFaults,
             faults' = faults + Cardinality(bad),
             loaded' = Written(v, bad)
      PROVE  /\ loaded' \in [Probes -> Versions \cup {Torn}]
             /\ faults' \in 0 .. MaxFaults
  <2>1. Cardinality(bad) \in Nat
    BY BadCounted DEF Mapped
  <2>2. loaded' \in [Probes -> Versions \cup {Torn}]
    BY <1>2, WrittenTyped DEF TypeOK
  <2>3. faults' \in 0 .. MaxFaults
    BY <1>2, <2>1, BoundsAssumption DEF TypeOK
  <2> QED BY <2>2, <2>3
<1> QED BY <1>0, <1>1, <1>2 DEF Failed

\* ... and so does a successful one.
LEMMA AppliedTyped ==
  ASSUME TypeOK, NEW v \in Versions, Applied(v)
  PROVE  /\ loaded' \in [Probes -> Versions \cup {Torn}]
         /\ faults' \in 0 .. MaxFaults
         /\ replaced' = FALSE
<1>0. replaced' = FALSE
  BY DEF Applied
<1>1. PICK bad \in SUBSET (Mapped \ {FileProbe}) :
         /\ faults + Cardinality(bad) <= MaxFaults
         /\ faults' = faults + Cardinality(bad)
         /\ loaded' = Written(v, bad)
  BY DEF Applied
<1>2. Cardinality(bad) \in Nat
  BY BadCounted DEF Mapped
<1>3. loaded' \in [Probes -> Versions \cup {Torn}]
  BY <1>1, WrittenTyped DEF TypeOK
<1>4. faults' \in 0 .. MaxFaults
  BY <1>1, <1>2, BoundsAssumption DEF TypeOK
<1> QED BY <1>0, <1>3, <1>4

\* A connection that ends takes the calls on it with it.
LEMMA CallsFailTyped ==
  ASSUME TypeOK, CallsFail
  PROVE  /\ rules' \in RulesStates
         /\ pc' \in {"startup", "idle", pc}
         /\ pc' \in {"boot", "startup", "first", "idle", "query", "full",
                    "fetched"}
         /\ listing' = FALSE /\ hb' = NoBeat /\ silent' = {}
<1>1. rules' \in RulesStates
  BY StaleTyped DEF CallsFail, TypeOK
<1> QED BY <1>1 DEF CallsFail, TypeOK

\* The types hold initially,
LEMMA TypeInit == Init => TypeOK
<1> SUFFICES ASSUME Init PROVE TypeOK
  OBVIOUS
<1>1. faults \in 0 .. MaxFaults /\ restarts \in 0 .. MaxRestarts
  BY BoundsAssumption DEF Init
<1>2. toLoad \subseteq Probes /\ hb \in Versions \cup {NoBeat}
  BY DEF Init
<1>3. rules \in RulesStates /\ gate \in GateStates
  BY InitialTypes DEF Init
<1>4. phase \in [Probes -> Phases]
  BY InitialTypes DEF Init
<1>5. loaded \in [Probes -> Versions \cup {Torn}]
  BY InitialTypes DEF Init
<1> QED BY <1>1, <1>2, <1>3, <1>4, <1>5, InitialTypes DEF Init, TypeOK

\* ... and after every step.
LEMMA TypeStep == TypeOK /\ [Next]_vars => TypeOK'
<1> SUFFICES ASSUME TypeOK, [Next]_vars PROVE TypeOK'
  OBVIOUS
<1> USE InitialTypes DEF TypeOK, server, kernel, loop, calls
<1>1. CASE Publish
  BY <1>1, BoundsAssumption DEF Publish, Versions, RulesStates
<1>2. CASE Run BY <1>2 DEF Run
<1>3. CASE Reconnect BY <1>3 DEF Reconnect
<1>4. CASE ProbeStep
  <2>1. ASSUME NEW p \in Probes, StartProbe(p) PROVE TypeOK'
    BY <2>1 DEF StartProbe, Phases
  <2>2. ASSUME NEW p \in Probes, LoadStep(p) PROVE TypeOK'
    BY <2>2 DEF LoadStep, Phases
  <2> QED BY <1>4, <2>1, <2>2 DEF ProbeStep
<1>5. CASE SyncOnStartup
  <2>1. rules' \in RulesStates
    BY <1>5, StatusTyped DEF SyncOnStartup
  <2>2. /\ loaded' \in [Probes -> Versions \cup {Torn}]
        /\ faults' \in 0 .. MaxFaults
        /\ replaced' \in BOOLEAN
    BY <1>5, FailedTyped, AppliedTyped DEF SyncOnStartup
  <2> QED BY <1>5, <2>1, <2>2 DEF SyncOnStartup
<1>6. CASE Poll BY <1>6 DEF Poll
<1>7. CASE FirstSync BY <1>7 DEF FirstSync
<1>8. CASE TakeTrigger BY <1>8 DEF TakeTrigger
<1>9. CASE QueryVersion
  <2>1. rules.version \in Versions /\ rules.sha \in Versions
    BY DEF RulesStates
  <2>2. rules' \in RulesStates
    BY <1>9, <2>1, StatusTyped, StaleTyped DEF QueryVersion
  <2>3. faults' \in 0 .. MaxFaults
    BY <1>9, BoundsAssumption DEF QueryVersion
  <2> QED BY <1>9, <2>2, <2>3 DEF QueryVersion
<1>10. CASE FetchFull
  <2>1. rules' \in RulesStates
    BY <1>10, StaleTyped DEF FetchFull
  <2>2. faults' \in 0 .. MaxFaults
    BY <1>10, BoundsAssumption DEF FetchFull
  <2> QED BY <1>10, <2>1, <2>2 DEF FetchFull
<1>11. CASE SkipApply BY <1>11 DEF SkipApply
<1>12. CASE ApplyFails
  BY <1>12, FailedTyped, GateTyped, StaleTyped DEF ApplyFails
<1>13. CASE ApplySucceeds
  <2>1. cached' \in Versions
    BY <1>13, BoundsAssumption DEF ApplySucceeds, SaveCache, Versions
  <2>2. rules' \in RulesStates
    BY <1>13, StatusTyped DEF ApplySucceeds
  <2>3. gate' \in GateStates
    BY <1>13, GateTyped DEF ApplySucceeds
  <2> QED BY <1>13, <2>1, <2>2, <2>3, AppliedTyped DEF ApplySucceeds
<1>14. CASE Timers
  <2>1. gate' \in GateStates
    BY <1>14 DEF Timers, CooldownElapses, MinIntervalElapses, GateStates
  <2> QED BY <1>14, <2>1 DEF Timers, CooldownElapses, MinIntervalElapses
<1>15. CASE Heartbeat
  BY <1>15 DEF Heartbeat, HeartbeatSend, HeartbeatReply, RulesStates
<1>16. CASE HeartbeatLost
  <2>1. faults' \in 0 .. MaxFaults
    BY <1>16, BoundsAssumption DEF HeartbeatLost
  <2> QED BY <1>16, <2>1, CallsFailTyped DEF HeartbeatLost
<1>17. CASE ListAnswered BY <1>17 DEF ListAnswered
<1>18. CASE Unanswered
  BY <1>18, BoundsAssumption DEF Unanswered
<1>19. CASE ConnectionCloses
  BY <1>19, CallsFailTyped DEF ConnectionCloses
<1>20. CASE Restart
  <2>1. phase' \in [Probes -> Phases]
    BY <1>20, InitialTypes DEF Restart
  <2>2. loaded' \in [Probes -> Versions \cup {Torn}]
    BY <1>20, InitialTypes DEF Restart
  <2>3. rules' \in RulesStates /\ gate' \in GateStates
    BY <1>20, InitialTypes DEF Restart
  <2>4. restarts' \in 0 .. MaxRestarts
    BY <1>20, BoundsAssumption DEF Restart
  <2> QED BY <1>20, <2>1, <2>2, <2>3, <2>4 DEF Restart
<1>21. CASE UNCHANGED vars BY <1>21 DEF vars
<1> QED
  BY <1>1, <1>2, <1>3, <1>4, <1>5, <1>6, <1>7, <1>8, <1>9, <1>10, <1>11,
     <1>12, <1>13, <1>14, <1>15, <1>16, <1>20, <1>21, <1>17, <1>18, <1>19
     DEF Next, LoopStep

\* Type correctness of the agent and the server.
THEOREM TypeCorrect == Spec => []TypeOK
BY TypeInit, TypeStep, PTL DEF Spec

-----------------------------------------------------------------------------
(* The inductive invariant of the order of versions, for every BootModes.  *)

Untouched ==
  pc \in {"boot", "list", "startup"} =>
    rules = NoRules /\ gate = OpenGate /\ loaded = NothingIn

Monotone ==
  /\ rules.version <= latest /\ got <= latest /\ cached <= latest
  /\ \A p \in Probes : loaded[p] <= latest
  /\ rules.version > 0 => rules.sha = rules.version /\ cached <= rules.version
  /\ pc \in {"full", "fetched"} => rules.version # latest
  /\ pc = "fetched" => cached <= got /\ \A p \in Probes : loaded[p] <= got

IInv == TypeOK /\ Untouched /\ Monotone /\ BreakerMatchesFailures

\* The inductive invariant holds initially.
LEMMA InitIInv == Init => IInv
<1> SUFFICES ASSUME Init PROVE IInv
  OBVIOUS
<1>1. TypeOK
  BY TypeInit
<1>2. Untouched
  BY DEF Init, Untouched
<1>3. Monotone
  BY DEF Init, Monotone, NoRules, NothingIn
<1>4. BreakerMatchesFailures
  BY BoundsAssumption DEF Init, BreakerMatchesFailures, OpenGate
<1> QED BY <1>1, <1>2, <1>3, <1>4 DEF IInv

\* Whatever is written, no table gets a version newer than the one applied.
LEMMA WrittenBounded ==
  ASSUME TypeOK, NEW v \in Versions, NEW b \in Versions, v <= b,
         \A p \in Probes : loaded[p] <= b,
         Failed(v) \/ Applied(v)
  PROVE  \A p \in Probes : loaded'[p] <= b
<1> TAKE p \in Probes
<1>1. loaded[p] \in Versions \cup {Torn}
  BY DEF TypeOK
<1>2. \/ loaded' = loaded
      \/ \E bad \in SUBSET Probes : loaded' = Written(v, bad)
  BY DEF Failed, Rejected, Applied, Mapped
<1>3. loaded'[p] \in {loaded[p], v, Torn}
  BY <1>2 DEF Written
<1> QED BY <1>1, <1>3, BoundsAssumption DEF Versions, Torn

\* Before the first synchronisation the gate and the tables are as Run left them.
LEMMA StepUntouched == TypeOK /\ Untouched /\ [Next]_vars => Untouched'
<1> SUFFICES ASSUME TypeOK, Untouched, [Next]_vars PROVE Untouched'
  OBVIOUS
<1> USE DEF Untouched, server, kernel, loop, calls
<1>1. CASE Publish BY <1>1 DEF Publish
<1>2. CASE Run BY <1>2 DEF Run
<1>3. CASE Reconnect BY <1>3 DEF Reconnect
<1>4. CASE ProbeStep
  <2>1. ASSUME NEW p \in Probes, StartProbe(p) PROVE Untouched'
    BY <2>1 DEF StartProbe, NothingIn
  <2>2. ASSUME NEW p \in Probes, LoadStep(p) PROVE Untouched'
    BY <2>2 DEF LoadStep
  <2> QED BY <1>4, <2>1, <2>2 DEF ProbeStep
<1>5. CASE SyncOnStartup BY <1>5 DEF SyncOnStartup
<1>6. CASE Poll BY <1>6 DEF Poll
<1>7. CASE FirstSync BY <1>7 DEF FirstSync
<1>8. CASE TakeTrigger BY <1>8 DEF TakeTrigger
<1>9. CASE QueryVersion BY <1>9 DEF QueryVersion
<1>10. CASE FetchFull BY <1>10 DEF FetchFull
<1>11. CASE SkipApply BY <1>11 DEF SkipApply
<1>12. CASE ApplyFails BY <1>12 DEF ApplyFails
<1>13. CASE ApplySucceeds BY <1>13 DEF ApplySucceeds
<1>14. CASE Timers
  BY <1>14 DEF Timers, CooldownElapses, MinIntervalElapses, OpenGate
<1>15. CASE Heartbeat BY <1>15 DEF Heartbeat, HeartbeatSend, HeartbeatReply
<1>16. CASE HeartbeatLost
  BY <1>16 DEF HeartbeatLost, CallsFail, UnderWay
<1>17. CASE ListAnswered BY <1>17 DEF ListAnswered
<1>18. CASE Unanswered BY <1>18 DEF Unanswered
<1>19. CASE ConnectionCloses
  BY <1>19 DEF ConnectionCloses, CallsFail, UnderWay
<1>20. CASE Restart BY <1>20 DEF Restart
<1>21. CASE UNCHANGED vars BY <1>21 DEF vars
<1> QED
  BY <1>1, <1>2, <1>3, <1>4, <1>5, <1>6, <1>7, <1>8, <1>9, <1>10, <1>11,
     <1>12, <1>13, <1>14, <1>15, <1>16, <1>20, <1>21, <1>17, <1>18, <1>19
     DEF Next, LoopStep

\* The end of a connection leaves the versions alone, and takes the loop to no
\* point where it holds a rule set.
LEMMA CallsFailKeeps ==
  ASSUME TypeOK, CallsFail
  PROVE  /\ rules'.version = rules.version /\ rules'.sha = rules.sha
         /\ rules'.status \in {rules.status, "stale"}
         /\ pc' \in {"startup", "idle", pc}
         /\ pc' = "startup" => pc \in {"list", "startup"}
BY DEF CallsFail, MarkRulesStale, TypeOK, RulesStates

\* The versions stay in order in every step.
LEMMA StepMonotone ==
  TypeOK /\ Untouched /\ Monotone /\ [Next]_vars => Monotone'
<1> SUFFICES ASSUME TypeOK, Untouched, Monotone, [Next]_vars PROVE Monotone'
  OBVIOUS
<1> USE DEF Monotone, server, kernel, loop, calls
<1>0. /\ latest \in Int /\ got \in Int /\ cached \in Int
      /\ rules.version \in Int /\ rules.sha \in Int
      /\ loaded \in [Probes -> Int]
      /\ latest >= 0 /\ cached >= 0
  BY BoundsAssumption DEF TypeOK, Versions, RulesStates, Torn
<1>1. CASE Publish
  BY <1>0, <1>1 DEF Publish
<1>2. CASE Run BY <1>2 DEF Run
<1>3. CASE Reconnect BY <1>3 DEF Reconnect
<1>4. CASE ProbeStep
  <2>1. ASSUME NEW p \in Probes, StartProbe(p) PROVE Monotone'
    <3>1. pc = "fetched" => got >= 0
      BY <1>0
    <3>2. \A q \in Probes : loaded'[q] \in {loaded[q], 0}
      BY <1>0, <2>1 DEF StartProbe
    <3> QED BY <1>0, <2>1, <3>1, <3>2 DEF StartProbe
  <2>2. ASSUME NEW p \in Probes, LoadStep(p) PROVE Monotone'
    BY <2>2 DEF LoadStep
  <2> QED BY <1>4, <2>1, <2>2 DEF ProbeStep
<1>5. CASE SyncOnStartup
  <2>1. rules.version = 0 /\ rules.sha = 0
    BY <1>5 DEF SyncOnStartup, Untouched, NoRules
  <2>2. \A p \in Probes : loaded'[p] <= latest
    BY <1>0, <1>5, WrittenBounded DEF SyncOnStartup, TypeOK
  <2>3. /\ rules'.version \in {0, cached}
        /\ rules'.version > 0 => rules'.sha = cached
    BY <1>0, <1>5 DEF SyncOnStartup, SetRulesStatus
  <2> QED BY <1>0, <1>5, <2>2, <2>3 DEF SyncOnStartup
<1>6. CASE Poll BY <1>6 DEF Poll
<1>7. CASE FirstSync BY <1>7 DEF FirstSync
<1>8. CASE TakeTrigger BY <1>8 DEF TakeTrigger
<1>9. CASE QueryVersion
  <2>1. rules'.version \in {0, rules.version}
    BY <1>9 DEF QueryVersion, MarkRulesStale, SetRulesStatus, TypeOK,
                RulesStates
  <2>2. rules'.version > 0 =>
          rules'.version = rules.version /\ rules'.sha = rules.sha
    BY <1>0, <1>9 DEF QueryVersion, MarkRulesStale, SetRulesStatus, TypeOK,
                RulesStates
  <2>3. pc' = "full" => rules' = rules /\ rules.version # latest
    BY <1>0, <1>9 DEF QueryVersion
  <2> QED BY <1>0, <1>9, <2>1, <2>2, <2>3 DEF QueryVersion
<1>10. CASE FetchFull
  <2>1. rules'.version = rules.version /\ rules'.sha = rules.sha
    BY <1>10 DEF FetchFull, MarkRulesStale, TypeOK, RulesStates
  <2> QED BY <1>0, <1>10, <2>1 DEF FetchFull
<1>11. CASE SkipApply BY <1>11 DEF SkipApply
<1>12. CASE ApplyFails
  <2>1. rules'.version = rules.version /\ rules'.sha = rules.sha
    BY <1>12 DEF ApplyFails, MarkRulesStale, TypeOK, RulesStates
  <2>2. \A p \in Probes : loaded'[p] <= latest
    BY <1>0, <1>12, WrittenBounded DEF ApplyFails, TypeOK
  <2> QED BY <1>0, <1>12, <2>1, <2>2 DEF ApplyFails
<1>13. CASE ApplySucceeds
  <2>1. rules'.version = got /\ (got > 0 => rules'.sha = got)
    BY <1>0, <1>13 DEF ApplySucceeds, SetRulesStatus
  <2>2. \A p \in Probes : loaded'[p] <= latest
    BY <1>0, <1>13, WrittenBounded DEF ApplySucceeds, TypeOK
  <2> QED BY <1>0, <1>13, <2>1, <2>2 DEF ApplySucceeds, SaveCache
<1>14. CASE Timers BY <1>14 DEF Timers, CooldownElapses, MinIntervalElapses
<1>15. CASE Heartbeat BY <1>15 DEF Heartbeat, HeartbeatSend, HeartbeatReply
<1>16. CASE HeartbeatLost
  BY <1>16, CallsFailKeeps DEF HeartbeatLost
<1>17. CASE ListAnswered BY <1>17 DEF ListAnswered
<1>18. CASE Unanswered BY <1>18 DEF Unanswered
<1>19. CASE ConnectionCloses
  BY <1>19, CallsFailKeeps DEF ConnectionCloses
<1>20. CASE Restart
  BY <1>0, <1>20 DEF Restart, NoRules, NothingIn
<1>21. CASE UNCHANGED vars BY <1>21 DEF vars
<1> QED
  BY <1>1, <1>2, <1>3, <1>4, <1>5, <1>6, <1>7, <1>8, <1>9, <1>10, <1>11,
     <1>12, <1>13, <1>14, <1>15, <1>16, <1>20, <1>21, <1>17, <1>18, <1>19
     DEF Next, LoopStep

\* The breaker follows the failure counter in every step.
LEMMA StepBreaker ==
  TypeOK /\ BreakerMatchesFailures /\ [Next]_vars => BreakerMatchesFailures'
<1> SUFFICES ASSUME TypeOK, BreakerMatchesFailures, [Next]_vars
             PROVE  BreakerMatchesFailures'
  OBVIOUS
<1>1. CASE ApplyFails
  <2> DEFINE n == IF gate.fails < FailThreshold THEN gate.fails + 1
                                                ELSE gate.fails
             trips == n >= FailThreshold /\ ~gate.closed
  <2>1. gate' = [gate EXCEPT !.fails = n, !.closed = @ \/ trips,
                             !.cooling = @ \/ trips]
    BY <1>1, Zenon DEF ApplyFails, MarkApplyFailure
  <2>2. n \in 0 .. FailThreshold /\ gate.fails \in 0 .. FailThreshold
    BY BoundsAssumption DEF TypeOK, GateStates
  <2>3. gate'.fails = n /\ gate'.closed = (gate.closed \/ trips)
    BY <2>1 DEF TypeOK, GateStates
  <2>4. CASE gate.fails >= FailThreshold - 1
    <3>1. n = FailThreshold
      BY <2>2, <2>4, BoundsAssumption
    <3>2. gate.closed \/ trips
      BY <3>1, BoundsAssumption
    <3> QED BY <2>3, <3>1, <3>2 DEF BreakerMatchesFailures
  <2>5. CASE gate.fails < FailThreshold - 1
    <3>1. n < FailThreshold /\ gate.fails # FailThreshold
      BY <2>2, <2>5, BoundsAssumption
    <3>2. ~gate.closed /\ ~trips
      BY <2>2, <3>1, BoundsAssumption DEF BreakerMatchesFailures
    <3>3. gate'.fails # FailThreshold
      BY <2>2, <2>3, <3>1, BoundsAssumption
    <3>4. ~gate'.closed
      BY <2>3, <3>2
    <3> QED BY <3>3, <3>4 DEF BreakerMatchesFailures
  <2> QED BY <2>2, <2>4, <2>5, BoundsAssumption
<1>2. CASE ApplySucceeds
  BY <1>2, BoundsAssumption
     DEF ApplySucceeds, MarkApplySuccess, BreakerMatchesFailures
<1>3. CASE Timers
  BY <1>3 DEF Timers, CooldownElapses, MinIntervalElapses,
              BreakerMatchesFailures, TypeOK, GateStates
<1>4. CASE Restart
  BY <1>4, BoundsAssumption DEF Restart, OpenGate, BreakerMatchesFailures
<1>5. CASE UNCHANGED gate
  BY <1>5 DEF BreakerMatchesFailures
<1> QED
  BY <1>1, <1>2, <1>3, <1>4, <1>5
     DEF Next, LoopStep, Publish, Run, Reconnect, ProbeStep, StartProbe,
         LoadStep, SyncOnStartup, Poll, FirstSync, TakeTrigger, QueryVersion,
         FetchFull, SkipApply, Heartbeat, HeartbeatSend, HeartbeatReply,
         HeartbeatLost, ListAnswered, Unanswered, ConnectionCloses, CallsFail,
         vars

\* The inductive invariant holds in every reachable state.
THEOREM Inductive == Spec => []IInv
<1>1. IInv /\ [Next]_vars => IInv'
  BY TypeStep, StepUntouched, StepMonotone, StepBreaker DEF IInv
<1> QED BY InitIInv, <1>1, PTL DEF Spec

\* The breaker is closed exactly when the failure counter is at the threshold.
THEOREM BreakerCorrect == Spec => []BreakerMatchesFailures
BY Inductive, PTL DEF IInv

\* The cache never runs ahead of the server nor of what the agent reports.
THEOREM CacheCorrect == Spec => []CacheNotAhead
<1>1. IInv => CacheNotAhead
  BY DEF IInv, Monotone, CacheNotAhead
<1> QED BY <1>1, Inductive, PTL

\* No apply takes a probe back to an older version within one process life.
THEOREM NeverRegresses == Spec => NoRegress
<1> DEFINE Step == restarts' = restarts =>
             \A p \in Probes : loaded'[p] > 0 => loaded'[p] >= loaded[p]
<1>1. IInv /\ [Next]_vars => [Step]_vars
  <2> SUFFICES ASSUME IInv, [Next]_vars, restarts' = restarts,
                      NEW p \in Probes, loaded'[p] > 0
               PROVE  loaded'[p] >= loaded[p]
    OBVIOUS
  <2>0. /\ loaded \in [Probes -> Int] /\ got \in Int /\ cached \in Int
        /\ got \in Versions /\ cached \in Versions
    BY BoundsAssumption DEF IInv, TypeOK, Versions, Torn
  <2>1. CASE SyncOnStartup
    <3>1. loaded[p] = 0
      BY <2>1 DEF IInv, Untouched, SyncOnStartup, NothingIn
    <3>2. loaded' \in [Probes -> Versions \cup {Torn}]
      BY <2>0, <2>1, FailedTyped, AppliedTyped DEF SyncOnStartup, IInv, TypeOK
    <3> QED BY <3>1, <3>2, BoundsAssumption DEF Versions, Torn
  <2>2. CASE ApplyFails \/ ApplySucceeds
    <3>1. loaded[p] <= got /\ (Failed(got) \/ Applied(got))
      BY <2>2 DEF IInv, Monotone, ApplyFails, ApplySucceeds
    <3>2. loaded'[p] \in {loaded[p], got, Torn}
      BY <2>0, <3>1 DEF Failed, Rejected, Applied, Written, Mapped
    <3> QED BY <2>0, <3>1, <3>2 DEF Torn
  <2>3. CASE ProbeStep
    <3>1. loaded'[p] \in {loaded[p], 0}
      BY <2>0, <2>3 DEF ProbeStep, StartProbe, LoadStep
    <3> QED BY <2>0, <3>1
  <2>4. CASE Restart
    BY <2>4 DEF Restart, IInv, TypeOK
  <2>5. CASE UNCHANGED loaded
    BY <2>0, <2>5
  <2> QED
    BY <2>1, <2>2, <2>3, <2>4, <2>5
       DEF Next, LoopStep, Publish, Run, Reconnect, Poll, FirstSync,
           TakeTrigger, QueryVersion, FetchFull, SkipApply, Timers,
           CooldownElapses, MinIntervalElapses, Heartbeat, HeartbeatSend,
           HeartbeatReply, HeartbeatLost, ListAnswered, Unanswered,
           ConnectionCloses, vars, kernel
<1> QED BY <1>1, Inductive, PTL DEF Spec, NoRegress

\* While the breaker cools down, nothing is written into any probe's tables.
THEOREM SilentCorrect == Spec => SilentWhileCooling
<1> DEFINE Step == gate.closed /\ gate.cooling /\ restarts' = restarts
                     => \A p \in Probes : loaded'[p] \in {loaded[p], 0}
<1>1. IInv /\ [Next]_vars => [Step]_vars
  <2> SUFFICES ASSUME IInv, [Next]_vars, restarts' = restarts,
                      gate.closed, gate.cooling, NEW p \in Probes
               PROVE  loaded'[p] \in {loaded[p], 0}
    OBVIOUS
  <2>0. loaded \in [Probes -> Versions \cup {Torn}]
    BY DEF IInv, TypeOK
  <2>1. CASE SyncOnStartup
    BY <2>1 DEF IInv, Untouched, SyncOnStartup, OpenGate
  <2>2. CASE ApplyFails \/ ApplySucceeds
    BY <2>2 DEF ApplyFails, ApplySucceeds, GateOpen
  <2>3. CASE ProbeStep
    BY <2>0, <2>3 DEF ProbeStep, StartProbe, LoadStep
  <2>4. CASE Restart
    BY <2>4, BoundsAssumption DEF Restart, IInv, TypeOK
  <2>5. CASE UNCHANGED loaded
    BY <2>5
  <2> QED
    BY <2>1, <2>2, <2>3, <2>4, <2>5
       DEF Next, LoopStep, Publish, Run, Reconnect, Poll, FirstSync,
           TakeTrigger, QueryVersion, FetchFull, SkipApply, Timers,
           CooldownElapses, MinIntervalElapses, Heartbeat, HeartbeatSend,
           HeartbeatReply, HeartbeatLost, ListAnswered, Unanswered,
           ConnectionCloses, vars, kernel
<1> QED BY <1>1, Inductive, PTL DEF Spec, SilentWhileCooling

-----------------------------------------------------------------------------
(* The table of the file probe, for every way in which the agent starts.   *)

FileTable ==
  /\ ~HasMaps(FileProbe) => loaded[FileProbe] = 0
  /\ SyncedIsEnforced

\* What one call of verifyAndApplyRules does to the file probe.
LEMMA FileOutcome ==
  ASSUME TypeOK, NEW v \in Versions
  PROVE  /\ Failed(v) /\ ~HasMaps(FileProbe)
              => loaded'[FileProbe] = loaded[FileProbe]
         /\ Applied(v) => HasMaps(FileProbe) /\ loaded'[FileProbe] = v
         /\ Failed(v) => replaced' = replaced
<1>0. Failed(v) => replaced' = replaced
  BY DEF Failed
<1>1. ASSUME Failed(v), ~HasMaps(FileProbe)
      PROVE  loaded'[FileProbe] = loaded[FileProbe]
  BY <1>1, ProbesAssumption DEF Failed, Rejected, Written, Mapped, TypeOK
<1>2. ASSUME Applied(v)
      PROVE  HasMaps(FileProbe) /\ loaded'[FileProbe] = v
  BY <1>2, ProbesAssumption DEF Applied, Written
<1> QED BY <1>0, <1>1, <1>2

\* The table of the file probe agrees with the status in every step.
LEMMA StepFileTable == IInv /\ FileTable /\ [Next]_vars => FileTable'
<1> SUFFICES ASSUME IInv, FileTable, [Next]_vars PROVE FileTable'
  OBVIOUS
<1> USE ProbesAssumption
        DEF FileTable, SyncedIsEnforced, HasMaps, server, kernel, loop, calls
<1>0. /\ TypeOK /\ Untouched /\ Monotone
      /\ latest \in Int /\ got \in Int /\ cached \in Int
      /\ got \in Versions /\ cached \in Versions
      /\ rules.version \in Int
  BY BoundsAssumption DEF IInv, TypeOK, Versions, RulesStates
<1>1. CASE Publish
  BY <1>0, <1>1 DEF Publish, Monotone
<1>2. CASE Run
  BY <1>2 DEF Run
<1>3. CASE Reconnect BY <1>3 DEF Reconnect
<1>4. CASE ProbeStep
  <2>1. ASSUME NEW p \in Probes, StartProbe(p) PROVE FileTable'
    <3>1. CASE p # FileProbe
      BY <1>0, <2>1, <3>1 DEF StartProbe, TypeOK
    <3>2. CASE p = FileProbe
      <4>1. loaded'[FileProbe] = 0 /\ phase'[FileProbe] = "loading"
        BY <1>0, <2>1, <3>2 DEF StartProbe, TypeOK
      <4>2. CASE phase[FileProbe] = "off"    \* its first instance
        <5>1. loaded[FileProbe] = 0 /\ replaced' = replaced
          BY <1>0, <2>1, <3>2, <4>2 DEF StartProbe, TypeOK
        <5> QED BY <2>1, <4>1, <5>1 DEF StartProbe
      <4>3. CASE phase[FileProbe] # "off"    \* one that takes its place
        <5>1. replaced'
          BY <2>1, <3>2, <4>3 DEF StartProbe
        <5> QED BY <4>1, <5>1
      <4> QED BY <4>2, <4>3
    <3> QED BY <3>1, <3>2
  <2>2. ASSUME NEW p \in Probes, LoadStep(p) PROVE FileTable'
    <3>1. HasMaps(FileProbe) => phase'[FileProbe] \in {"mapped", "on"}
      BY <1>0, <2>2 DEF LoadStep, TypeOK
    <3> QED BY <2>2, <3>1 DEF LoadStep
  <2> QED BY <1>4, <2>1, <2>2 DEF ProbeStep
<1>5. CASE SyncOnStartup
  <2>1. rules.version = 0 /\ loaded[FileProbe] = 0
    BY <1>0, <1>5 DEF SyncOnStartup, Untouched, NoRules, NothingIn
  <2>2. ~HasMaps(FileProbe) => loaded'[FileProbe] = 0
    BY <1>0, <1>5, <2>1, FileOutcome DEF SyncOnStartup
  <2>3. rules'.version > 0 => loaded'[FileProbe] = rules'.version
    BY <1>0, <1>5, FileOutcome DEF SyncOnStartup, SetRulesStatus
  <2> QED BY <1>5, <2>2, <2>3 DEF SyncOnStartup
<1>6. CASE Poll BY <1>6 DEF Poll
<1>7. CASE FirstSync BY <1>7 DEF FirstSync
<1>8. CASE TakeTrigger BY <1>8 DEF TakeTrigger
<1>9. CASE QueryVersion
  <2>1. \/ rules'.version = 0
        \/ /\ rules'.version = rules.version
           /\ rules'.status = "synced" =>
                rules.status = "synced" \/ rules.version = latest
    BY <1>0, <1>9 DEF QueryVersion, MarkRulesStale, SetRulesStatus, TypeOK,
                      RulesStates
  <2> QED BY <1>0, <1>9, <2>1 DEF QueryVersion
<1>10. CASE FetchFull
  BY <1>0, <1>10 DEF FetchFull, MarkRulesStale, TypeOK, RulesStates
<1>11. CASE SkipApply BY <1>11 DEF SkipApply
<1>12. CASE ApplyFails
  <2>1. /\ rules'.version = rules.version
        /\ rules'.version # latest
        /\ rules'.status = "stale"
    BY <1>0, <1>12 DEF ApplyFails, MarkRulesStale, TypeOK, RulesStates,
                       Monotone
  <2>2. ~HasMaps(FileProbe) => loaded'[FileProbe] = 0
    BY <1>0, <1>12, FileOutcome DEF ApplyFails
  <2> QED BY <1>12, <2>1, <2>2 DEF ApplyFails
<1>13. CASE ApplySucceeds
  BY <1>0, <1>13, FileOutcome DEF ApplySucceeds, SetRulesStatus
<1>14. CASE Timers BY <1>14 DEF Timers, CooldownElapses, MinIntervalElapses
<1>15. CASE Heartbeat BY <1>15 DEF Heartbeat, HeartbeatSend, HeartbeatReply
<1>16. CASE HeartbeatLost
  BY <1>0, <1>16, CallsFailKeeps DEF HeartbeatLost
<1>17. CASE ListAnswered BY <1>17 DEF ListAnswered
<1>18. CASE Unanswered BY <1>18 DEF Unanswered
<1>19. CASE ConnectionCloses
  BY <1>0, <1>19, CallsFailKeeps DEF ConnectionCloses
<1>20. CASE Restart
  BY <1>20 DEF Restart, NoRules, NothingIn
<1>21. CASE UNCHANGED vars BY <1>21 DEF vars
<1> QED
  BY <1>1, <1>2, <1>3, <1>4, <1>5, <1>6, <1>7, <1>8, <1>9, <1>10, <1>11,
     <1>12, <1>13, <1>14, <1>15, <1>16, <1>20, <1>21, <1>17, <1>18, <1>19
     DEF Next, LoopStep

\* What an agent reports as "synced" is what its file probe enforces, and what
\* it would skip as current is what it applied, unless the file probe has been
\* loaded again since and its tables are empty; however the agent started.
THEOREM SyncedCorrect == Spec => []SyncedIsEnforced
<1>1. Init => FileTable
  BY ProbesAssumption
     DEF Init, FileTable, SyncedIsEnforced, NoRules, NothingIn
<1>2. IInv /\ FileTable /\ [Next]_vars => FileTable'
  BY StepFileTable
<1>3. FileTable => SyncedIsEnforced
  BY DEF FileTable
<1> QED BY <1>1, <1>2, <1>3, Inductive, PTL DEF Spec

=============================================================================

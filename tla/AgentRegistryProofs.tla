-------------------------- MODULE AgentRegistryProofs --------------------------
(***************************************************************************)
(* Proofs about AgentRegistry, for any number of hosts, uses of the token  *)
(* and disturbances.                                                       *)
(*                                                                         *)
(* What carries them is the life of an id.  Before its enrolment nothing   *)
(* of it is anywhere (Unborn), so the token counts it once and it cannot   *)
(* have been deleted.  After its deletion no row of it has a key again     *)
(* (Keyless), since only an enrolment writes one, and a request that came  *)
(* after the deletion gets no further than the key's check (Tardy).        *)
(* The commands travel from the queue to the call to the agent, each place *)
(* ordered and before the next (Travel).                                   *)
(***************************************************************************)
EXTENDS AgentRegistry, FiniteSetTheorems, SequenceTheorems, TLAPS

Budget == sent + left <= MaxDisturbances

Unborn ==
  \A id \in Ids : enrol[id] \in {"new", "peeked"} =>
    /\ ~row[id].here /\ ~mem[id].here /\ ~agent[id].up
    /\ \A s \in Slots : call[id][s].at = "none"
    /\ id \notin deleted /\ id \notin granted
    /\ reload # <<>> => id \notin reload[1]

Keyless == \A id \in deleted : ~row[id].key

Tardy ==
  \A id \in Ids, s \in Slots : call[id][s].tardy =>
    /\ id \in deleted
    /\ strict => call[id][s].at \in {"none", "arrived"}

Sorted(q) == \A i, j \in DOMAIN q : i < j => q[i] < q[j]
Before(q, r) == \A i \in DOMAIN q, j \in DOMAIN r : q[i] < r[j]
UpTo(q, n) == \A i \in DOMAIN q : q[i] <= n

Held(id) == call[id]["awaited"].cmds

TravelOf(id) ==
  /\ Sorted(delivered[id]) /\ Sorted(Held(id)) /\ Sorted(mem[id].cmds)
  /\ Before(delivered[id], Held(id)) /\ Before(delivered[id], mem[id].cmds)
  /\ Before(Held(id), mem[id].cmds)
  /\ UpTo(delivered[id], sent) /\ UpTo(Held(id), sent) /\ UpTo(mem[id].cmds, sent)

Travel == \A id \in Ids : TravelOf(id)

IInv == TypeOK /\ Budget /\ Unborn /\ Keyless /\ Tardy /\ Travel /\ TokenBudget

-----------------------------------------------------------------------------
(* The types.                                                              *)

Calls == [Ids -> [Slots -> Call]]

LEMMA TokenFields ==
  ASSUME NEW t \in TokenRow
  PROVE  /\ [t EXCEPT !.revoked = TRUE] \in TokenRow
         /\ [t EXCEPT !.expired = TRUE] \in TokenRow
  BY DEF TokenRow

\* A use of the token that leaves its counter within the limit.
LEMMA TokenUsed ==
  ASSUME NEW t \in TokenRow, t.used < MaxUses
  PROVE  [t EXCEPT !.used = @ + 1, !.revoked = t.used + 1 >= MaxUses] \in TokenRow
<1> DEFINE b == t.used + 1 >= MaxUses
<1>1. t.used + 1 \in 0 .. MaxUses
  BY RegistryAssumption DEF TokenRow
<1>2. b \in BOOLEAN
  OBVIOUS
<1> HIDE DEF b
<1>3. [t EXCEPT !.used = t.used + 1, !.revoked = b] \in TokenRow
  BY <1>1, <1>2 DEF TokenRow
<1> QED BY <1>3 DEF b

LEMMA RowFields ==
  /\ NoRow \in Row
  /\ [here |-> TRUE, key |-> TRUE, revoked |-> FALSE] \in Row
  /\ \A r \in Row : Upserted(r) \in Row /\ [r EXCEPT !.revoked = TRUE] \in Row
  BY DEF Row, NoRow, Upserted

LEMMA AgentFields ==
  /\ Down \in Agent /\ [Down EXCEPT !.up = TRUE] \in Agent
  /\ \A t \in Tokens : [Down EXCEPT !.up = TRUE, !.tok = t] \in Agent
  /\ \A a \in Agent : \A b \in BOOLEAN :
       /\ [a EXCEPT !.reconnect = b] \in Agent
       /\ [a EXCEPT !.hung = b] \in Agent
       /\ [a EXCEPT !.hung = FALSE, !.reconnect = TRUE] \in Agent
  BY DEF Agent, Down

LEMMA CallFields ==
  ASSUME NEW c \in Call
  PROVE  /\ \A at \in {"none", "arrived", "keyed"} \cup Admitted :
              [c EXCEPT !.at = at] \in Call
         /\ \A q \in Seq(Commands) : [c EXCEPT !.at = "save", !.cmds = q] \in Call
         /\ \A t \in Tokens : [c EXCEPT !.at = "save", !.tok = t] \in Call
  BY DEF Call, Admitted

LEMMA NoCallTyped == NoCall \in Call
<1>1. <<>> \in Seq(Commands)
  OBVIOUS
<1> QED BY <1>1 DEF NoCall, Call

LEMMA CallTyped ==
  ASSUME TypeOK, NEW id \in Ids, NEW s \in Slots, NEW c \in Call,
         call' = [call EXCEPT ![id][s] = c]
  PROVE  call' \in Calls
  BY DEF TypeOK, Calls

\* A call that only moves on.
LEMMA ToTyped ==
  ASSUME TypeOK, NEW id \in Ids, NEW s \in Slots,
         NEW at \in {"none", "arrived", "keyed"} \cup Admitted, To(id, s, at)
  PROVE  call' \in Calls
<1>1. call[id][s] \in Call
  BY DEF TypeOK
<1>2. call' = [call EXCEPT ![id][s] = [call[id][s] EXCEPT !.at = at]]
  BY DEF To
<1> QED BY <1>1, <1>2, CallTyped, CallFields

LEMMA FinishTyped ==
  ASSUME TypeOK, NEW id \in Ids, NEW s \in Slots, Finish(id, s)
  PROVE  call' \in Calls
  BY NoCallTyped, CallTyped DEF Finish

\* Whether to register again is all that a refusal or a timeout changes.
LEMMA ReconnectTyped ==
  ASSUME TypeOK, NEW id \in Ids, NEW kind,
         agent' = [agent EXCEPT ![id].reconnect = kind = "heartbeat"]
  PROVE  agent' \in [Ids -> Agent]
<1> DEFINE b == kind = "heartbeat"
<1>1. b \in BOOLEAN /\ agent[id] \in Agent
  BY DEF TypeOK
<1>2. agent' = [agent EXCEPT ![id] = [agent[id] EXCEPT !.reconnect = b]]
  OBVIOUS
<1> HIDE DEF b
<1> QED BY <1>1, <1>2, AgentFields DEF TypeOK

LEMMA RefuseTyped ==
  ASSUME TypeOK, NEW id \in Ids, NEW s \in Slots, Refuse(id, s)
  PROVE  call' \in Calls /\ agent' \in [Ids -> Agent]
<1>1. CASE s = "awaited"
  BY <1>1, FinishTyped, ReconnectTyped DEF Refuse
<1>2. CASE s # "awaited"
  BY <1>2, FinishTyped DEF Refuse, TypeOK
<1> QED BY <1>1, <1>2

LEMMA ArrivesTyped ==
  ASSUME TypeOK, NEW id \in Ids, NEW s \in Slots,
         NEW kind \in {"register", "heartbeat", "shutdown"}, Arrives(id, s, kind)
  PROVE  call' \in Calls
<1> DEFINE late == id \in deleted
           c == [kind |-> kind, at |-> "arrived", tok |-> agent[id].tok,
                 cmds |-> <<>>, tardy |-> late]
<1>1. <<>> \in Seq(Commands) /\ late \in BOOLEAN
  OBVIOUS
<1>2. agent[id].tok \in {NoToken} \cup Tokens
  BY DEF TypeOK, Agent
<1>3. call' = [call EXCEPT ![id][s] = c]
  BY DEF Arrives
<1> HIDE DEF late
<1>4. c \in Call
  BY <1>1, <1>2 DEF Call
<1> HIDE DEF c
<1> QED BY <1>3, <1>4, CallTyped

\* The awaited handler becomes the late one.
LEMMA LateTyped ==
  ASSUME TypeOK, NEW id \in Ids, BecomesLate(id)
  PROVE  call' \in Calls
<1>1. [awaited |-> NoCall, late |-> call[id]["awaited"]] \in [Slots -> Call]
  BY NoCallTyped DEF TypeOK, Slots
<1> QED BY <1>1 DEF BecomesLate, TypeOK, Calls

LEMMA SaveTyped ==
  ASSUME TypeOK, NEW id \in Ids, SaveAgent(id)
  PROVE  row' \in [Ids -> Row]
<1>1. row[id] \in Row /\ Upserted(row[id]) \in Row
  BY RowFields DEF TypeOK
<1>2. row' = [row EXCEPT ![id] = Upserted(row[id])] \/ row' = row
  BY DEF SaveAgent
<1> QED BY <1>1, <1>2 DEF TypeOK

\* A heartbeat takes the commands of the queue with it.
LEMMA TakeCall ==
  ASSUME TypeOK, NEW id \in Ids, NEW s \in Slots, HeartbeatTake(id, s), mem[id].here
  PROVE  \E c \in Call :
           /\ call' = [call EXCEPT ![id][s] = c]
           /\ c.kind = "heartbeat" /\ c.at = "save" /\ c.cmds = mem[id].cmds
           /\ c.tardy = call[id][s].tardy
<1> DEFINE c == [call[id][s] EXCEPT !.at = "save", !.cmds = mem[id].cmds]
<1>1. call' = [call EXCEPT ![id][s] = c]
  BY DEF HeartbeatTake, TypeOK
<1>2. call[id][s] \in Call /\ mem[id].cmds \in Seq(Commands)
  BY DEF TypeOK, Entry
<1>3. c \in Call
  BY <1>2, CallFields
<1>4. /\ c.at = "save" /\ c.cmds = mem[id].cmds
      /\ c.kind = call[id][s].kind /\ c.tardy = call[id][s].tardy
  BY <1>2 DEF Call
<1>5. call[id][s].kind = "heartbeat"
  BY DEF HeartbeatTake
<1> HIDE DEF c
<1> QED BY <1>1, <1>3, <1>4, <1>5

LEMMA EntryFields ==
  ASSUME NEW e \in Entry, NEW q \in Seq(Commands)
  PROVE  [e EXCEPT !.cmds = q] \in Entry
  BY DEF Entry

LEMMA EntriesTyped ==
  /\ Fresh \in Entry /\ Gone \in Entry
  /\ \A listed \in SUBSET Ids : Loaded(listed) \in [Ids -> Entry]
<1>1. <<>> \in Seq(Commands)
  OBVIOUS
<1>2. Fresh \in Entry /\ Gone \in Entry
  BY <1>1 DEF Fresh, Gone, Entry
<1> QED BY <1>2 DEF Loaded

\* Every action keeps the type invariant.
LEMMA TypeStep == TypeOK /\ Budget /\ [Next]_vars => TypeOK'
<1> SUFFICES ASSUME TypeOK, Budget, [Next]_vars PROVE TypeOK'
  OBVIOUS
<1> USE RegistryAssumption DEF Calls
<1>1. ASSUME NEW id \in Ids, PeekEnrollToken(id)
      PROVE  TypeOK'
  BY <1>1 DEF PeekEnrollToken, enrolled, Disturb, TypeOK, Stages
<1>2. ASSUME NEW id \in Ids, EnrollAgent(id)
      PROVE  TypeOK'
  <2>1. token \in TokenRow /\ token.used < MaxUses
    BY <1>2 DEF EnrollAgent, LookAgain, TokenGood, TypeOK
  <2>2. token' \in TokenRow
    BY <1>2, <2>1, TokenUsed DEF EnrollAgent
  <2>3. /\ row' \in [Ids -> Row] /\ enrol' \in [Ids -> Stages]
        /\ granted' \subseteq Ids
    BY <1>2, RowFields DEF EnrollAgent, TypeOK, Stages
  <2> QED BY <1>2, <2>2, <2>3 DEF EnrollAgent, enrolled, TypeOK
<1>3. ASSUME NEW id \in Ids, EnrollReply(id) \/ EnrollFails(id)
      PROVE  TypeOK'
  BY <1>3 DEF EnrollReply, EnrollFails, enrolled, Disturb, TypeOK, Stages
<1>4. ASSUME NEW id \in Ids, EnrollTimeout(id)
      PROVE  TypeOK'
  BY <1>4 DEF EnrollTimeout, enrolled, Disturb, TypeOK, Stages
<1>5. ASSUME NEW id \in Ids, Start(id)
      PROVE  TypeOK'
  <2>1. agent' \in [Ids -> Agent]
    BY <1>5, AgentFields DEF Start, TypeOK
  <2> QED BY <1>5, <2>1 DEF Start, asking, TypeOK
<1>6. ASSUME NEW id \in Ids, SendRegister(id)
      PROVE  TypeOK'
  BY <1>6, ArrivesTyped DEF SendRegister, asking, TypeOK, Slots
<1>7. ASSUME NEW id \in Ids, SendHeartbeat(id)
      PROVE  TypeOK'
  BY <1>7, ArrivesTyped DEF SendHeartbeat, asking, TypeOK, Slots
<1>8. ASSUME NEW id \in Ids, RegisterTimeout(id) \/ AnswerLost(id)
      PROVE  TypeOK'
  <2>1. call' \in Calls
    BY <1>8, LateTyped DEF RegisterTimeout, AnswerLost
  <2>2. \/ agent' = [agent EXCEPT ![id] = [agent[id] EXCEPT !.reconnect = FALSE]]
        \/ agent' = [agent EXCEPT ![id] = [agent[id] EXCEPT !.hung = TRUE]]
    BY <1>8 DEF RegisterTimeout, AnswerLost
  <2>3. agent[id] \in Agent /\ agent \in [Ids -> Agent]
    BY DEF TypeOK
  <2>4. /\ [agent[id] EXCEPT !.reconnect = FALSE] \in Agent
        /\ [agent[id] EXCEPT !.hung = TRUE] \in Agent
    BY <2>3, AgentFields
  <2>5. agent' \in [Ids -> Agent]
    BY <2>2, <2>3, <2>4
  <2> QED BY <1>8, <2>1, <2>5 DEF RegisterTimeout, AnswerLost, asking, Disturb, TypeOK
<1>32. ASSUME NEW id \in Ids, ConnectionEnds(id)
       PROVE  TypeOK'
  <2>1. agent' \in [Ids -> Agent]
    BY <1>32, AgentFields DEF ConnectionEnds, TypeOK
  <2> QED BY <1>32, <2>1 DEF ConnectionEnds, asking, TypeOK
<1>9. ASSUME NEW id \in Ids, Shutdown(id)
      PROVE  TypeOK'
  <2>1. call' \in Calls
    BY <1>9, ArrivesTyped DEF Shutdown, TypeOK, Slots
  <2>2. agent' \in [Ids -> Agent]
    BY <1>9, AgentFields DEF Shutdown, TypeOK
  <2> QED BY <1>9, <2>1, <2>2 DEF Shutdown, asking, Disturb, TypeOK
<1>10. ASSUME NEW id \in Ids, Crash(id)
      PROVE  TypeOK'
  <2>1. call' \in Calls /\ agent' \in [Ids -> Agent]
    BY <1>10, LateTyped, AgentFields DEF Crash, TypeOK
  <2> QED BY <1>10, <2>1 DEF Crash, asking, Disturb, TypeOK
<1>11. ASSUME NEW id \in Ids, SendCommand(id)
      PROVE  TypeOK'
  <2>1. sent + 1 \in Commands /\ sent + 1 \in 0 .. MaxDisturbances
    BY <1>11 DEF SendCommand, Disturb, Budget, TypeOK, Commands
  <2>2. mem[id] \in Entry /\ mem[id].cmds \in Seq(Commands)
    BY DEF TypeOK, Entry
  <2>3. Append(mem[id].cmds, sent + 1) \in Seq(Commands)
    BY <2>1, <2>2
  <2>4. mem' = [mem EXCEPT ![id] =
                  [mem[id] EXCEPT !.cmds = Append(mem[id].cmds, sent + 1)]]
    BY <1>11 DEF SendCommand
  <2>5. mem' \in [Ids -> Entry]
    BY <2>2, <2>3, <2>4, EntryFields DEF TypeOK
  <2> QED BY <1>11, <2>1, <2>5 DEF SendCommand, untouched, Disturb, TypeOK
<1>12. ASSUME NEW id \in Ids, RevokeAgent(id)
      PROVE  TypeOK'
  <2>1. row' \in [Ids -> Row]
    BY <1>12, RowFields DEF RevokeAgent, TypeOK
  <2> QED BY <1>12, <2>1 DEF RevokeAgent, untouched, Disturb, TypeOK
<1>13. ASSUME NEW id \in Ids, DeleteRow(id)
      PROVE  TypeOK'
  <2>1. row' \in [Ids -> Row]
    BY <1>13, RowFields DEF DeleteRow, TypeOK
  <2> QED BY <1>13, <2>1 DEF DeleteRow, untouched, Disturb, TypeOK
<1>14. ASSUME NEW id \in Ids, DeleteEntry(id)
      PROVE  TypeOK'
  BY <1>14, EntriesTyped DEF DeleteEntry, untouched, TypeOK
<1>15. ASSUME NEW id \in Ids, NEW s \in Slots, VerifyKeyBinding(id, s)
      PROVE  TypeOK'
  <2>1. call' \in Calls /\ agent' \in [Ids -> Agent]
    BY <1>15, ToTyped, RefuseTyped DEF VerifyKeyBinding, Admitted, TypeOK
  <2> QED BY <1>15, <2>1 DEF VerifyKeyBinding, handling, TypeOK
<1>16. ASSUME NEW id \in Ids, NEW s \in Slots, CheckRevoked(id, s)
      PROVE  TypeOK'
  <2>1. call' \in Calls /\ agent' \in [Ids -> Agent]
    BY <1>16, ToTyped, RefuseTyped DEF CheckRevoked, Admitted, TypeOK
  <2> QED BY <1>16, <2>1 DEF CheckRevoked, handling, TypeOK
<1>17. ASSUME NEW id \in Ids, NEW s \in Slots, VerifyToken(id, s)
      PROVE  TypeOK'
  <2>1. call' \in Calls /\ agent' \in [Ids -> Agent]
    BY <1>17, ToTyped, RefuseTyped DEF VerifyToken, Admitted, TypeOK
  <2> QED BY <1>17, <2>1 DEF VerifyToken, handling, TypeOK
<1>18. ASSUME NEW id \in Ids, NEW s \in Slots, RegisterEntry(id, s)
      PROVE  TypeOK'
  <2>1. mem' \in [Ids -> Entry]
    BY <1>18, EntriesTyped DEF RegisterEntry, TypeOK
  <2>2. PICK t \in Tokens : call' = [call EXCEPT ![id][s].at = "save", ![id][s].tok = t]
    BY <1>18 DEF RegisterEntry
  <2>3. call[id][s] \in Call
    BY DEF TypeOK
  <2>4. call' = [call EXCEPT ![id][s] = [call[id][s] EXCEPT !.at = "save", !.tok = t]]
    BY <2>2 DEF TypeOK
  <2>5. call' \in Calls
    BY <2>3, <2>4, CallTyped, CallFields
  <2> QED BY <1>18, <2>1, <2>5 DEF RegisterEntry, handling, TypeOK
<1>19. ASSUME NEW id \in Ids, NEW s \in Slots, RegisterSave(id, s)
      PROVE  TypeOK'
  BY <1>19, ToTyped, SaveTyped DEF RegisterSave, handling, TypeOK, Admitted
<1>20. ASSUME NEW id \in Ids, NEW s \in Slots, RegisterReply(id, s)
      PROVE  TypeOK'
  <2>1. call[id][s].tok \in {NoToken} \cup Tokens
    BY DEF TypeOK, Call
  <2>2. issued' \in [Ids -> {NoToken} \cup Tokens] /\ agent' \in [Ids -> Agent]
    BY <1>20, <2>1 DEF RegisterReply, TypeOK, Agent, Down
  <2> QED BY <1>20, <2>2, FinishTyped DEF RegisterReply, handling, TypeOK
<1>21. ASSUME NEW id \in Ids, NEW s \in Slots, HeartbeatTake(id, s)
      PROVE  TypeOK'
  <2>1. CASE mem[id].here
    <3>1. call[id][s] \in Call /\ mem[id] \in Entry
      BY DEF TypeOK
    <3>2. mem[id].cmds \in Seq(Commands) /\ <<>> \in Seq(Commands)
      BY <3>1 DEF Entry
    <3>3. call' \in Calls
      BY <1>21, <2>1, TakeCall, CallTyped
    <3>4. mem' = [mem EXCEPT ![id] = [mem[id] EXCEPT !.cmds = <<>>]]
      BY <1>21, <2>1 DEF HeartbeatTake, Emptied
    <3>5. mem' \in [Ids -> Entry]
      BY <3>1, <3>2, <3>4, EntryFields DEF TypeOK
    <3> QED BY <1>21, <2>1, <3>3, <3>5 DEF HeartbeatTake, handling, TypeOK
  <2>2. CASE ~mem[id].here
    BY <1>21, <2>2, RefuseTyped DEF HeartbeatTake, handling, TypeOK
  <2> QED BY <2>1, <2>2
<1>22. ASSUME NEW id \in Ids, NEW s \in Slots, HeartbeatReply(id, s)
      PROVE  TypeOK'
  <2>1. call[id][s].cmds \in Seq(Commands) /\ delivered[id] \in Seq(Commands)
    BY DEF TypeOK, Call
  <2>2. delivered[id] \o call[id][s].cmds \in Seq(Commands)
    BY <2>1
  <2>3. delivered' \in [Ids -> Seq(Commands)]
    BY <1>22, <2>2 DEF HeartbeatReply, TypeOK
  <2> QED BY <1>22, <2>3, FinishTyped, SaveTyped DEF HeartbeatReply, handling, TypeOK
<1>23. ASSUME NEW id \in Ids, NEW s \in Slots, ShutdownSave(id, s)
      PROVE  TypeOK'
  BY <1>23, ToTyped, SaveTyped DEF ShutdownSave, handling, TypeOK, Admitted
<1>24. ASSUME NEW id \in Ids, NEW s \in Slots, ShutdownReply(id, s)
      PROVE  TypeOK'
  BY <1>24, FinishTyped DEF ShutdownReply, handling, TypeOK
<1>25. CASE RevokeToken
  <2>1. token' \in TokenRow
    BY <1>25, TokenFields DEF RevokeToken, TypeOK
  <2> QED BY <1>25, <2>1 DEF RevokeToken, enrolled, Disturb, TypeOK
<1>26. CASE TokenExpires
  <2>1. token' \in TokenRow
    BY <1>26, TokenFields DEF TokenExpires, TypeOK
  <2> QED BY <1>26, <2>1 DEF TokenExpires, enrolled, Disturb, TypeOK
<1>27. CASE ReloadList
  <2>1. \A listed \in Listed : listed \subseteq Ids
    BY DEF Listed
  <2> QED BY <1>27, <2>1 DEF ReloadList, untouched, Disturb, TypeOK
<1>28. CASE ReloadSwap
  <2>1. reload[1] \subseteq Ids
    BY <1>28 DEF ReloadSwap, TypeOK
  <2> QED BY <1>28, <2>1, EntriesTyped DEF ReloadSwap, untouched, TypeOK
<1>29. CASE Restart
  <2>1. \A listed \in Listed : listed \in SUBSET Ids
    BY DEF Listed
  <2>2. mem' \in [Ids -> Entry]
    BY <1>29, <2>1, EntriesTyped DEF Restart
  <2>3. call' \in Calls
    BY <1>29, NoCallTyped DEF Restart
  <2>4. agent' \in [Ids -> Agent]
    BY <1>29 DEF Restart, TypeOK, Agent
  <2>5. enrol' \in [Ids -> Stages]
    BY <1>29 DEF Restart, TypeOK, Stages
  <2> QED BY <1>29, <2>2, <2>3, <2>4, <2>5 DEF Restart, Disturb, TypeOK
<1>30. CASE UNCHANGED vars
  BY <1>30 DEF vars, TypeOK
<1>31. ASSUME NEW id \in Ids, QueryFails(id)
        PROVE  TypeOK'
  <2>1. call' \in Calls /\ agent' \in [Ids -> Agent]
    BY <1>31, RefuseTyped DEF QueryFails
  <2> QED BY <1>31, <2>1 DEF QueryFails, asking, Disturb, TypeOK
<1> QED
  BY <1>1, <1>2, <1>3, <1>4, <1>5, <1>6, <1>7, <1>8, <1>9, <1>10, <1>11,
     <1>12, <1>13, <1>14, <1>15, <1>16, <1>17, <1>18, <1>19, <1>20,
     <1>21, <1>22, <1>23, <1>24, <1>25, <1>26, <1>27, <1>28, <1>29,
     <1>30, <1>31, <1>32
  DEF Next, Enrolment, Process, Handler, Console

-----------------------------------------------------------------------------
(* What a step of one id leaves alone.                                     *)

LEMMA ToOne ==
  ASSUME TypeOK, NEW id \in Ids, NEW s \in Slots, NEW at, To(id, s, at)
  PROVE  /\ call'[id][s].at = at
         /\ call'[id][s].kind = call[id][s].kind
         /\ call'[id][s].tardy = call[id][s].tardy
         /\ call'[id][s].cmds = call[id][s].cmds
<1>1. call'[id][s] = [call[id][s] EXCEPT !.at = at]
  BY DEF To, TypeOK
<1>2. call[id][s] \in Call
  BY DEF TypeOK
<1> QED BY <1>1, <1>2 DEF Call

LEMMA FinishOne ==
  ASSUME TypeOK, NEW id \in Ids, NEW s \in Slots, Finish(id, s)
  PROVE  /\ call'[id][s] = NoCall
         /\ call'[id][s].cmds = <<>> /\ ~call'[id][s].tardy
  BY DEF Finish, NoCall, TypeOK

LEMMA ArrivesOne ==
  ASSUME TypeOK, NEW id \in Ids, NEW s \in Slots, NEW kind, Arrives(id, s, kind)
  PROVE  /\ call'[id][s].at = "arrived" /\ call'[id][s].cmds = <<>>
         /\ call'[id][s].tardy => id \in deleted
         /\ \A t \in Slots : t # s => call'[id][t] = call[id][t]
  BY DEF Arrives, TypeOK

\* A handler is at work, and touches its own call and its id's state only.
LEMMA HandlerLocal ==
  ASSUME TypeOK, NEW id \in Ids, NEW s \in Slots, Handler(id, s)
  PROVE  /\ call[id][s].at # "none"
         /\ UNCHANGED handling
         /\ row'[id] = row[id] \/ row'[id] = Upserted(row[id])
         /\ \A x \in Ids : x # id =>
              /\ row'[x] = row[x] /\ mem'[x] = mem[x] /\ agent'[x] = agent[x]
              /\ call'[x] = call[x] /\ delivered'[x] = delivered[x]
         /\ \A t \in Slots : t # s => call'[id][t] = call[id][t]
<1>1. CASE VerifyKeyBinding(id, s)
  BY <1>1 DEF VerifyKeyBinding, To, Finish, Refuse, SaveAgent, Admitted, TypeOK
<1>2. CASE CheckRevoked(id, s)
  BY <1>2 DEF CheckRevoked, To, Finish, Refuse, SaveAgent, Admitted, TypeOK
<1>3. CASE VerifyToken(id, s)
  BY <1>3 DEF VerifyToken, To, Finish, Refuse, SaveAgent, Admitted, TypeOK
<1>4. CASE RegisterEntry(id, s)
  BY <1>4 DEF RegisterEntry, To, Finish, Refuse, SaveAgent, Admitted, TypeOK
<1>5. CASE RegisterSave(id, s)
  BY <1>5 DEF RegisterSave, To, Finish, Refuse, SaveAgent, Admitted, TypeOK
<1>6. CASE RegisterReply(id, s)
  BY <1>6 DEF RegisterReply, To, Finish, Refuse, SaveAgent, Admitted, TypeOK
<1>7. CASE HeartbeatTake(id, s)
  BY <1>7 DEF HeartbeatTake, To, Finish, Refuse, SaveAgent, Admitted, TypeOK
<1>8. CASE HeartbeatReply(id, s)
  BY <1>8 DEF HeartbeatReply, To, Finish, Refuse, SaveAgent, Admitted, TypeOK
<1>9. CASE ShutdownSave(id, s)
  BY <1>9 DEF ShutdownSave, To, Finish, Refuse, SaveAgent, Admitted, TypeOK
<1>10. CASE ShutdownReply(id, s)
  BY <1>10 DEF ShutdownReply, To, Finish, Refuse, SaveAgent, Admitted, TypeOK
<1> QED
  BY <1>1, <1>2, <1>3, <1>4, <1>5, <1>6, <1>7, <1>8, <1>9, <1>10 DEF Handler

\* A process that does anything is up, or starts after a certificate.
LEMMA ProcessLocal ==
  ASSUME TypeOK, NEW id \in Ids, Process(id)
  PROVE  /\ \/ agent[id].up \/ enrol[id] = "certified"
            \/ \E s \in Slots : call[id][s].at # "none"
         /\ UNCHANGED asking
         /\ \A x \in Ids : x # id => agent'[x] = agent[x] /\ call'[x] = call[x]
<1>1. CASE Start(id)
  BY <1>1 DEF Start, Arrives, TypeOK
<1>2. CASE SendRegister(id)
  BY <1>2 DEF SendRegister, Arrives, TypeOK
<1>3. CASE SendHeartbeat(id)
  BY <1>3 DEF SendHeartbeat, Arrives, TypeOK
<1>4. CASE RegisterTimeout(id) \/ AnswerLost(id) \/ ConnectionEnds(id)
  BY <1>4 DEF RegisterTimeout, AnswerLost, ConnectionEnds, BecomesLate, TypeOK
<1>5. CASE Shutdown(id)
  BY <1>5 DEF Shutdown, Arrives, TypeOK
<1>6. CASE Crash(id)
  BY <1>6 DEF Crash, BecomesLate, TypeOK
<1>7. CASE QueryFails(id)
  BY <1>7 DEF QueryFails, Refuse, Finish, TypeOK
<1> QED
  BY <1>1, <1>2, <1>3, <1>4, <1>5, <1>6, <1>7 DEF Process

-----------------------------------------------------------------------------
(* The life of an id.                                                      *)

\* The bound on commands.
LEMMA BudgetStep == TypeOK /\ Budget /\ [Next]_vars => Budget'
<1> SUFFICES ASSUME TypeOK, Budget, [Next]_vars PROVE Budget'
  OBVIOUS
<1> USE RegistryAssumption DEF Budget, TypeOK
<1>1. ASSUME NEW id \in Ids, Enrolment(id) PROVE Budget'
  BY <1>1 DEF Enrolment, PeekEnrollToken, EnrollAgent, EnrollReply,
       EnrollFails, EnrollTimeout,
     enrolled, Disturb
<1>2. ASSUME NEW id \in Ids, Process(id) PROVE Budget'
  BY <1>2 DEF Process, Start, SendRegister, SendHeartbeat, RegisterTimeout, AnswerLost,
     ConnectionEnds, BecomesLate, Shutdown, Crash, QueryFails, asking, Disturb
<1>3. ASSUME NEW id \in Ids, NEW s \in Slots, Handler(id, s) PROVE Budget'
  BY <1>3, HandlerLocal DEF handling
<1>4. ASSUME NEW id \in Ids, Console(id) PROVE Budget'
  BY <1>4 DEF Console, SendCommand, RevokeAgent, DeleteRow, DeleteEntry, untouched,
     Disturb
<1>5. CASE RevokeToken \/ TokenExpires
  BY <1>5 DEF RevokeToken, TokenExpires, enrolled, Disturb
<1>6. CASE ReloadList \/ ReloadSwap \/ Restart
  BY <1>6 DEF ReloadList, ReloadSwap, Restart, untouched, Disturb
<1>7. CASE UNCHANGED vars
  BY <1>7 DEF vars
<1> QED BY <1>1, <1>2, <1>3, <1>4, <1>5, <1>6, <1>7 DEF Next

\* Before its enrolment nothing of an id is anywhere.
LEMMA UnbornStep == TypeOK /\ Unborn /\ [Next]_vars => Unborn'
<1> SUFFICES ASSUME TypeOK, Unborn, [Next]_vars PROVE Unborn'
  OBVIOUS
<1> USE DEF Unborn
<1>1. ASSUME NEW id \in Ids, PeekEnrollToken(id) PROVE Unborn'
  BY <1>1 DEF PeekEnrollToken, enrolled, TypeOK
<1>2. ASSUME NEW id \in Ids, EnrollAgent(id) PROVE Unborn'
  <2>1. enrol'[id] \notin {"new", "peeked"}
    BY <1>2 DEF EnrollAgent, TypeOK
  <2>2. ASSUME NEW x \in Ids, x # id
        PROVE  enrol'[x] = enrol[x] /\ row'[x] = row[x]
               /\ (x \in granted' <=> x \in granted)
    BY <1>2, <2>2 DEF EnrollAgent, TypeOK
  <2>3. UNCHANGED <<mem, agent, call, deleted, reload>>
    BY <1>2 DEF EnrollAgent, enrolled
  <2> QED BY <2>1, <2>2, <2>3
<1>3. ASSUME NEW id \in Ids, EnrollReply(id) \/ EnrollFails(id) PROVE Unborn'
  BY <1>3 DEF EnrollReply, EnrollFails, enrolled, TypeOK
<1>4. ASSUME NEW id \in Ids, EnrollTimeout(id) PROVE Unborn'
  BY <1>4 DEF EnrollTimeout, enrolled
<1>5. ASSUME NEW id \in Ids, Process(id) PROVE Unborn'
  BY <1>5, ProcessLocal DEF asking
<1>6. ASSUME NEW id \in Ids, NEW s \in Slots, Handler(id, s) PROVE Unborn'
  BY <1>6, HandlerLocal DEF handling
<1>7. ASSUME NEW id \in Ids, SendCommand(id) PROVE Unborn'
  BY <1>7 DEF SendCommand, untouched, TypeOK
<1>8. ASSUME NEW id \in Ids, RevokeAgent(id) PROVE Unborn'
  BY <1>8 DEF RevokeAgent, untouched, TypeOK
<1>9. ASSUME NEW id \in Ids, DeleteRow(id) PROVE Unborn'
  BY <1>9 DEF DeleteRow, untouched, TypeOK
<1>10. ASSUME NEW id \in Ids, DeleteEntry(id) PROVE Unborn'
  BY <1>10 DEF DeleteEntry, untouched, TypeOK, Gone
<1>11. CASE RevokeToken \/ TokenExpires
  BY <1>11 DEF RevokeToken, TokenExpires, enrolled
<1>12. CASE ReloadList
  BY <1>12 DEF ReloadList, untouched, Listed
<1>13. CASE ReloadSwap
  BY <1>13 DEF ReloadSwap, untouched, Loaded, Gone
<1>14. CASE Restart
  <2>1. \A id \in Ids : enrol'[id] \in {"new", "peeked"} => enrol[id] \in {"new", "peeked"}
    BY <1>14 DEF Restart
  <2>2. \A id \in Ids : ~row[id].here => ~mem'[id].here
    BY <1>14 DEF Restart, Loaded, Listed, Gone
  <2>3. \A id \in Ids : agent'[id].up = agent[id].up
    BY <1>14 DEF Restart, TypeOK, Agent
  <2>4. \A id \in Ids, s \in Slots : call'[id][s].at = "none"
    BY <1>14 DEF Restart, NoCall
  <2> QED BY <1>14, <2>1, <2>2, <2>3, <2>4 DEF Restart
<1>15. CASE UNCHANGED vars
  BY <1>15 DEF vars
<1> QED
  BY <1>1, <1>2, <1>3, <1>4, <1>5, <1>6, <1>7, <1>8, <1>9, <1>10, <1>11, <1>12,
     <1>13, <1>14, <1>15 DEF Next, Enrolment, Console

\* After a deletion no row has a key.
LEMMA KeylessStep == TypeOK /\ Unborn /\ Keyless /\ [Next]_vars => Keyless'
<1> SUFFICES ASSUME TypeOK, Unborn, Keyless, [Next]_vars PROVE Keyless'
  OBVIOUS
<1> USE DEF Keyless
<1>1. ASSUME NEW id \in Ids, EnrollAgent(id) PROVE Keyless'
  <2>1. id \notin deleted
    BY <1>1 DEF EnrollAgent, Unborn
  <2>2. \A x \in Ids : x # id => row'[x] = row[x]
    BY <1>1 DEF EnrollAgent, TypeOK
  <2> QED BY <1>1, <2>1, <2>2 DEF EnrollAgent, enrolled, TypeOK
<1>2. ASSUME NEW id \in Ids,
             \/ PeekEnrollToken(id) \/ EnrollReply(id)
             \/ EnrollFails(id) \/ EnrollTimeout(id)
      PROVE  Keyless'
  BY <1>2 DEF PeekEnrollToken, EnrollReply, EnrollFails, EnrollTimeout, enrolled
<1>3. ASSUME NEW id \in Ids, Process(id) PROVE Keyless'
  BY <1>3, ProcessLocal DEF asking
<1>4. ASSUME NEW id \in Ids, NEW s \in Slots, Handler(id, s) PROVE Keyless'
  <2>1. \A x \in Ids : row'[x] = row[x] \/ row'[x] = Upserted(row[x])
    BY <1>4, HandlerLocal
  <2>2. \A x \in Ids : ~row[x].key => ~row'[x].key
    BY <2>1 DEF Upserted
  <2>3. deleted' = deleted /\ deleted \subseteq Ids
    BY <1>4, HandlerLocal DEF handling, TypeOK
  <2> QED BY <2>2, <2>3
<1>5. ASSUME NEW id \in Ids, Console(id) PROVE Keyless'
  <2>1. CASE RevokeAgent(id)
    <3>1. \A x \in Ids : row'[x].key = row[x].key
      BY <2>1 DEF RevokeAgent, TypeOK, Row
    <3> QED BY <2>1, <3>1 DEF RevokeAgent, untouched, TypeOK
  <2>2. CASE DeleteRow(id)
    BY <2>2 DEF DeleteRow, untouched, TypeOK, NoRow
  <2>3. CASE SendCommand(id) \/ DeleteEntry(id)
    BY <2>3 DEF SendCommand, DeleteEntry, untouched
  <2> QED BY <1>5, <2>1, <2>2, <2>3 DEF Console
<1>6. CASE RevokeToken \/ TokenExpires
  BY <1>6 DEF RevokeToken, TokenExpires, enrolled
<1>7. CASE ReloadList \/ ReloadSwap \/ Restart
  BY <1>7 DEF ReloadList, ReloadSwap, Restart, untouched
<1>8. CASE UNCHANGED vars
  BY <1>8 DEF vars
<1> QED
  BY <1>1, <1>2, <1>3, <1>4, <1>5, <1>6, <1>7, <1>8 DEF Next, Enrolment

\* In strict mode a request after the deletion stops at the check of the key.
LEMMA TardyStep == TypeOK /\ Keyless /\ Tardy /\ [Next]_vars => Tardy'
<1> SUFFICES ASSUME TypeOK, Keyless, Tardy, [Next]_vars PROVE Tardy'
  OBVIOUS
<1> USE DEF Tardy
<1>1. ASSUME NEW id \in Ids, Enrolment(id) PROVE Tardy'
  BY <1>1 DEF Enrolment, PeekEnrollToken, EnrollAgent, EnrollReply,
       EnrollFails, EnrollTimeout,
     enrolled
<1>2. ASSUME NEW id \in Ids, Process(id) PROVE Tardy'
  <2>1. \A s \in Slots : \/ call'[id][s].tardy => id \in deleted
                             /\ call'[id][s].at \in {"none", "arrived"}
                         \/ \E t \in Slots : call'[id][s] = call[id][t]
    <3>1. CASE Start(id)
      BY <3>1 DEF Start
    <3>2. CASE SendRegister(id) \/ SendHeartbeat(id) \/ Shutdown(id)
      BY <3>2, ArrivesOne DEF SendRegister, SendHeartbeat, Shutdown, Slots
    <3>3. CASE RegisterTimeout(id) \/ AnswerLost(id) \/ Crash(id)
      BY <3>3 DEF RegisterTimeout, AnswerLost, Crash, BecomesLate, NoCall, TypeOK, Slots
    <3>5. CASE ConnectionEnds(id)
      BY <3>5 DEF ConnectionEnds
    <3>4. CASE QueryFails(id)
      BY <3>4 DEF QueryFails, Refuse, Finish, NoCall, TypeOK, Slots
    <3> QED BY <1>2, <3>1, <3>2, <3>3, <3>4, <3>5 DEF Process
  <2> QED BY <1>2, <2>1, ProcessLocal DEF asking
<1>3. ASSUME NEW id \in Ids, NEW s \in Slots, Handler(id, s) PROVE Tardy'
  <2>1. \/ call'[id][s] = NoCall
        \/ /\ call'[id][s].tardy = call[id][s].tardy
           /\ strict => KeyBound(id) \/ call[id][s].at \notin {"none", "arrived"}
    <3>1. CASE VerifyKeyBinding(id, s)
      BY <3>1, ToOne, FinishOne DEF VerifyKeyBinding, Refuse
    <3>2. CASE CheckRevoked(id, s) \/ VerifyToken(id, s)
      BY <3>2, ToOne, FinishOne DEF CheckRevoked, VerifyToken, Refuse
    <3>3. CASE RegisterEntry(id, s)
      BY <3>3 DEF RegisterEntry, TypeOK, Call
    <3>4. CASE HeartbeatTake(id, s)
      <4>1. CASE mem[id].here
        <5>1. PICK c \in Call : /\ call' = [call EXCEPT ![id][s] = c]
                               /\ c.tardy = call[id][s].tardy
          BY <3>4, <4>1, TakeCall
        <5>2. call'[id][s] = c
          BY <5>1 DEF TypeOK
        <5> QED BY <3>4, <5>1, <5>2 DEF HeartbeatTake
      <4> QED BY <3>4, <4>1, FinishOne DEF HeartbeatTake, Refuse
    <3>5. CASE RegisterSave(id, s) \/ ShutdownSave(id, s)
      BY <3>5, ToOne DEF RegisterSave, ShutdownSave
    <3>6. CASE RegisterReply(id, s) \/ HeartbeatReply(id, s) \/ ShutdownReply(id, s)
      BY <3>6, FinishOne DEF RegisterReply, HeartbeatReply, ShutdownReply
    <3> QED BY <1>3, <3>1, <3>2, <3>3, <3>4, <3>5, <3>6 DEF Handler
  <2>2. strict /\ call[id][s].tardy => ~KeyBound(id) /\ call[id][s].at \in {"none", "arrived"}
    BY DEF Keyless, KeyBound
  <2>3. ~NoCall.tardy
    BY DEF NoCall
  <2> QED BY <1>3, <2>1, <2>2, <2>3, HandlerLocal DEF handling
<1>4. ASSUME NEW id \in Ids, Console(id) PROVE Tardy'
  BY <1>4 DEF Console, SendCommand, RevokeAgent, DeleteRow, DeleteEntry, untouched
<1>5. CASE RevokeToken \/ TokenExpires
  BY <1>5 DEF RevokeToken, TokenExpires, enrolled
<1>6. CASE ReloadList \/ ReloadSwap
  BY <1>6 DEF ReloadList, ReloadSwap, untouched
<1>7. CASE Restart
  BY <1>7 DEF Restart, NoCall
<1>8. CASE UNCHANGED vars
  BY <1>8 DEF vars
<1> QED
  BY <1>1, <1>2, <1>3, <1>4, <1>5, <1>6, <1>7, <1>8 DEF Next

-----------------------------------------------------------------------------
(* The token.                                                              *)

\* Each use is counted once, and the last one revokes.
LEMMA TokenStep == TypeOK /\ Unborn /\ TokenBudget /\ [Next]_vars => TokenBudget'
<1> SUFFICES ASSUME TypeOK, Unborn, TokenBudget, [Next]_vars PROVE TokenBudget'
  OBVIOUS
<1> USE DEF TokenBudget
<1>1. ASSUME NEW id \in Ids, EnrollAgent(id) PROVE TokenBudget'
  <2>1. /\ granted' = granted \cup {id} /\ id \notin granted
        /\ IsFiniteSet(granted)
    BY <1>1, RegistryAssumption, FS_Subset DEF EnrollAgent, Unborn, TypeOK
  <2>2. Cardinality(granted') = Cardinality(granted) + 1
    BY <2>1, FS_AddElement
  <2>3. token \in TokenRow /\ token.used < MaxUses /\ token.used \in Nat
    BY <1>1 DEF EnrollAgent, LookAgain, TokenGood, TypeOK, TokenRow
  <2>4. token' = [token EXCEPT !.used = token.used + 1,
                               !.revoked = token.used + 1 >= MaxUses]
    BY <1>1 DEF EnrollAgent
  <2>5. token'.used = token.used + 1 /\ token.used + 1 <= MaxUses
    BY <2>3, <2>4, RegistryAssumption DEF TokenRow
  <2>6. token.used + 1 = MaxUses => token'.revoked
    <3>1. DOMAIN token = {"used", "revoked", "expired"}
      BY <2>3 DEF TokenRow
    <3>2. token'.revoked = (token.used + 1 >= MaxUses)
      BY <2>4, <3>1
    <3>3. token.used + 1 = MaxUses => (token.used + 1 >= MaxUses) = TRUE
      BY <2>3, RegistryAssumption
    <3> QED BY <3>2, <3>3
  <2> QED BY <2>2, <2>5, <2>6
<1>2. ASSUME NEW id \in Ids,
             \/ PeekEnrollToken(id) \/ EnrollReply(id)
             \/ EnrollFails(id) \/ EnrollTimeout(id)
      PROVE  TokenBudget'
  BY <1>2 DEF PeekEnrollToken, EnrollReply, EnrollFails, EnrollTimeout, enrolled
<1>3. ASSUME NEW id \in Ids, Process(id) PROVE TokenBudget'
  BY <1>3, ProcessLocal DEF asking
<1>4. ASSUME NEW id \in Ids, NEW s \in Slots, Handler(id, s) PROVE TokenBudget'
  BY <1>4, HandlerLocal DEF handling
<1>5. ASSUME NEW id \in Ids, Console(id) PROVE TokenBudget'
  BY <1>5 DEF Console, SendCommand, RevokeAgent, DeleteRow, DeleteEntry, untouched
<1>6. CASE RevokeToken \/ TokenExpires
  <2>1. /\ token'.used = token.used /\ (token.revoked => token'.revoked)
        /\ granted' = granted
    BY <1>6 DEF RevokeToken, TokenExpires, TypeOK, TokenRow
  <2> QED BY <2>1
<1>7. CASE ReloadList \/ ReloadSwap \/ Restart
  BY <1>7 DEF ReloadList, ReloadSwap, Restart, untouched
<1>8. CASE UNCHANGED vars
  BY <1>8 DEF vars
<1> QED
  BY <1>1, <1>2, <1>3, <1>4, <1>5, <1>6, <1>7, <1>8 DEF Next, Enrolment

-----------------------------------------------------------------------------
(* The commands.                                                           *)

LEMMA EmptyOrder ==
  ASSUME NEW q \in Seq(Nat), NEW n \in Nat
  PROVE  Sorted(<<>>) /\ Before(<<>>, q) /\ Before(q, <<>>) /\ UpTo(<<>>, n)
  BY DEF Sorted, Before, UpTo

LEMMA ConcatOrder ==
  ASSUME NEW q \in Seq(Nat), NEW r \in Seq(Nat), NEW t \in Seq(Nat), NEW n \in Nat,
         Sorted(q), Sorted(r), Before(q, r), Before(q, t), Before(r, t),
         UpTo(q, n), UpTo(r, n)
  PROVE  Sorted(q \o r) /\ Before(q \o r, t) /\ UpTo(q \o r, n)
<1>1. /\ q \o r \in Seq(Nat) /\ DOMAIN (q \o r) = 1 .. Len(q) + Len(r)
      /\ Len(q) \in Nat /\ Len(r) \in Nat
      /\ DOMAIN q = 1 .. Len(q) /\ DOMAIN r = 1 .. Len(r)
  OBVIOUS
<1>2. ASSUME NEW i \in DOMAIN (q \o r)
      PROVE  \/ i \in DOMAIN q /\ (q \o r)[i] = q[i]
             \/ /\ i > Len(q) /\ i - Len(q) \in DOMAIN r
                /\ (q \o r)[i] = r[i - Len(q)]
  BY <1>1
<1>3. Sorted(q \o r)
  BY <1>1, <1>2 DEF Sorted, Before
<1>4. Before(q \o r, t)
  BY <1>2 DEF Before
<1>5. UpTo(q \o r, n)
  BY <1>2 DEF UpTo
<1> QED BY <1>3, <1>4, <1>5

LEMMA AppendOrder ==
  ASSUME NEW q \in Seq(Nat), NEW r \in Seq(Nat), NEW n \in Nat,
         UpTo(q, n), UpTo(r, n), Sorted(q), Before(r, q)
  PROVE  /\ Sorted(Append(q, n + 1)) /\ UpTo(Append(q, n + 1), n + 1)
         /\ Before(r, Append(q, n + 1)) /\ UpTo(r, n + 1)
<1>1. /\ DOMAIN Append(q, n + 1) = 1 .. Len(q) + 1 /\ Len(q) \in Nat
      /\ DOMAIN q = 1 .. Len(q) /\ DOMAIN r = 1 .. Len(r) /\ Len(r) \in Nat
      /\ \A i \in DOMAIN q : Append(q, n + 1)[i] = q[i] /\ q[i] \in Nat
      /\ Append(q, n + 1)[Len(q) + 1] = n + 1
      /\ \A i \in DOMAIN r : r[i] \in Nat
  OBVIOUS
<1>2. \A i \in DOMAIN Append(q, n + 1) : i \in DOMAIN q \/ i = Len(q) + 1
  BY <1>1
<1> QED BY <1>1, <1>2 DEF Sorted, Before, UpTo

\* What a step may do with the commands of an id, apart from queueing one.
Moves(id) ==
  /\ sent' = sent
  /\ \/ /\ delivered'[id] = delivered[id]
        /\ Held(id)' \in {Held(id), <<>>}
        /\ mem'[id].cmds \in {mem[id].cmds, <<>>}
     \/ /\ delivered'[id] = delivered[id]
        /\ Held(id)' = mem[id].cmds
        /\ mem'[id].cmds = <<>>
     \/ /\ delivered'[id] = delivered[id] \o Held(id)
        /\ Held(id)' = <<>>
        /\ mem'[id].cmds = mem[id].cmds

LEMMA CommandsTyped ==
  ASSUME TypeOK, NEW id \in Ids
  PROVE  /\ delivered[id] \in Seq(Nat) /\ Held(id) \in Seq(Nat)
         /\ mem[id].cmds \in Seq(Nat) /\ sent \in Nat
<1>1. /\ delivered[id] \in Seq(Commands) /\ Held(id) \in Seq(Commands)
      /\ mem[id].cmds \in Seq(Commands)
  BY DEF TypeOK, Held, Call, Entry, Slots
<1>2. Commands \subseteq Nat
  BY DEF Commands
<1>3. \A q \in Seq(Commands) : q \in Seq(Nat)
  BY <1>2, SeqMonotonic
<1> QED BY <1>1, <1>3 DEF TypeOK

LEMMA MovesKeep ==
  ASSUME TypeOK, NEW id \in Ids, TravelOf(id), Moves(id)
  PROVE  TravelOf(id)'
<1>1. /\ delivered[id] \in Seq(Nat) /\ Held(id) \in Seq(Nat)
      /\ mem[id].cmds \in Seq(Nat) /\ sent \in Nat
  BY CommandsTyped
<1>2. CASE /\ delivered'[id] = delivered[id]
           /\ Held(id)' \in {Held(id), <<>>}
           /\ mem'[id].cmds \in {mem[id].cmds, <<>>}
  <2>1. /\ Sorted(Held(id)') /\ UpTo(Held(id)', sent) /\ Before(delivered[id], Held(id)')
        /\ Before(Held(id)', mem[id].cmds)
    BY <1>1, <1>2, EmptyOrder DEF TravelOf
  <2>2. /\ Sorted(mem'[id].cmds) /\ UpTo(mem'[id].cmds, sent)
        /\ Before(delivered[id], mem'[id].cmds)
    BY <1>1, <1>2, EmptyOrder DEF TravelOf
  <2>3. Held(id)' \in Seq(Nat)
    <3>1. <<>> \in Seq(Nat)
      OBVIOUS
    <3> QED BY <1>1, <1>2, <3>1
  <2>4. Before(Held(id)', mem'[id].cmds)
    BY <1>2, <2>1, <2>3, EmptyOrder
  <2> QED BY <1>2, <2>1, <2>2, <2>4 DEF TravelOf, Moves
<1>3. CASE /\ delivered'[id] = delivered[id]
           /\ Held(id)' = mem[id].cmds
           /\ mem'[id].cmds = <<>>
  BY <1>1, <1>3, EmptyOrder DEF TravelOf, Moves
<1>4. CASE /\ delivered'[id] = delivered[id] \o Held(id)
           /\ Held(id)' = <<>>
           /\ mem'[id].cmds = mem[id].cmds
  <2>1. delivered[id] \o Held(id) \in Seq(Nat)
    BY <1>1
  <2> QED BY <1>1, <1>4, <2>1, EmptyOrder, ConcatOrder DEF TravelOf, Moves
<1> QED BY <1>2, <1>3, <1>4 DEF Moves

\* The commands stay in order, wherever they are.
LEMMA TravelStep == TypeOK /\ Travel /\ [Next]_vars => Travel'
<1> SUFFICES ASSUME TypeOK, Travel, [Next]_vars PROVE Travel'
  OBVIOUS
<1> DEFINE Moving == \A x \in Ids : Moves(x)
<1>0. Moving => Travel'
  BY MovesKeep DEF Travel
<1> USE DEF Moves, Held
<1>1. ASSUME NEW id \in Ids, Enrolment(id) PROVE Travel'
  <2>1. Moving
    BY <1>1 DEF Enrolment, PeekEnrollToken, EnrollAgent, EnrollReply,
       EnrollFails, EnrollTimeout,
       enrolled
  <2> QED BY <2>1, <1>0
<1>2. ASSUME NEW id \in Ids, Process(id) PROVE Travel'
  <2>1. call'[id]["awaited"] = call[id]["awaited"] \/ call'[id]["awaited"].cmds = <<>>
    <3>1. CASE Start(id)
      BY <3>1 DEF Start
    <3>2. CASE SendRegister(id) \/ SendHeartbeat(id) \/ Shutdown(id)
      BY <3>2, ArrivesOne DEF SendRegister, SendHeartbeat, Shutdown, Slots
    <3>3. CASE RegisterTimeout(id) \/ AnswerLost(id) \/ Crash(id)
      BY <3>3 DEF RegisterTimeout, AnswerLost, Crash, BecomesLate, NoCall, TypeOK
    <3>5. CASE ConnectionEnds(id)
      BY <3>5 DEF ConnectionEnds
    <3>4. CASE QueryFails(id)
      BY <3>4 DEF QueryFails, Refuse, Finish, NoCall, TypeOK, Slots
    <3> QED BY <1>2, <3>1, <3>2, <3>3, <3>4, <3>5 DEF Process
  <2>2. Moving
    BY <1>2, <2>1, ProcessLocal DEF asking
  <2> QED BY <2>2, <1>0
<1>3. ASSUME NEW id \in Ids, NEW s \in Slots, Handler(id, s) PROVE Travel'
  <2>1. Moves(id)
    <3>1. CASE s = "awaited"
      <4>1. CASE VerifyKeyBinding(id, s)
        <5>1. call'[id][s].cmds \in {call[id][s].cmds, <<>>}
          BY <4>1, ToOne, FinishOne DEF VerifyKeyBinding, Refuse
        <5> QED BY <3>1, <4>1, <5>1 DEF VerifyKeyBinding, handling
      <4>2. CASE CheckRevoked(id, s) \/ VerifyToken(id, s)
        <5>1. call'[id][s].cmds \in {call[id][s].cmds, <<>>}
          BY <4>2, ToOne, FinishOne DEF CheckRevoked, VerifyToken, Refuse
        <5> QED BY <3>1, <4>2, <5>1 DEF CheckRevoked, VerifyToken, handling
      <4>3. CASE RegisterEntry(id, s)
        <5>1. call'[id][s].cmds = call[id][s].cmds
          BY <4>3 DEF RegisterEntry, TypeOK, Call
        <5>2. mem'[id].cmds = <<>>
          BY <4>3 DEF RegisterEntry, TypeOK, Fresh
        <5> QED BY <3>1, <4>3, <5>1, <5>2 DEF RegisterEntry, handling
      <4>4. CASE HeartbeatTake(id, s)
        <5>1. CASE mem[id].here
          <6>1. call'[id][s].cmds = mem[id].cmds
            BY <4>4, <5>1, TakeCall DEF TypeOK
          <6>2. mem'[id].cmds = <<>>
            BY <4>4, <5>1 DEF HeartbeatTake, Emptied, TypeOK, Entry
          <6> QED BY <3>1, <4>4, <6>1, <6>2 DEF HeartbeatTake, handling
        <5>2. CASE ~mem[id].here
          <6>1. call'[id][s].cmds = <<>> /\ mem' = mem
            BY <4>4, <5>2, FinishOne DEF HeartbeatTake, Refuse
          <6> QED BY <3>1, <4>4, <6>1 DEF HeartbeatTake, handling
        <5> QED BY <5>1, <5>2
      <4>5. CASE RegisterSave(id, s) \/ ShutdownSave(id, s)
        BY <3>1, <4>5, ToOne DEF RegisterSave, ShutdownSave, handling
      <4>6. CASE RegisterReply(id, s) \/ ShutdownReply(id, s)
        <5>1. call'[id][s].cmds = <<>>
          BY <4>6, FinishOne DEF RegisterReply, ShutdownReply
        <5> QED BY <3>1, <4>6, <5>1 DEF RegisterReply, ShutdownReply, handling
      <4>7. CASE HeartbeatReply(id, s)
        <5>1. delivered'[id] = delivered[id] \o call[id][s].cmds
          BY <3>1, <4>7 DEF HeartbeatReply, TypeOK
        <5>2. call'[id][s].cmds = <<>>
          BY <4>7, FinishOne DEF HeartbeatReply
        <5> QED BY <3>1, <4>7, <5>1, <5>2 DEF HeartbeatReply, handling
      <4> QED BY <1>3, <4>1, <4>2, <4>3, <4>4, <4>5, <4>6, <4>7 DEF Handler
    <3>2. CASE s # "awaited"
      <4>1. call'[id]["awaited"] = call[id]["awaited"]
        BY <1>3, <3>2, HandlerLocal DEF Slots
      <4>2. delivered'[id] = delivered[id] /\ mem'[id].cmds \in {mem[id].cmds, <<>>}
        <5>1. CASE RegisterEntry(id, s)
          BY <5>1 DEF RegisterEntry, TypeOK, Fresh
        <5>2. CASE HeartbeatTake(id, s)
          BY <5>2 DEF HeartbeatTake, Emptied, TypeOK, Entry
        <5>3. CASE ~RegisterEntry(id, s) /\ ~HeartbeatTake(id, s)
          BY <1>3, <3>2, <5>3 DEF Handler, VerifyKeyBinding, CheckRevoked, VerifyToken,
             RegisterSave, RegisterReply, HeartbeatReply, ShutdownSave, ShutdownReply
        <5> QED BY <5>1, <5>2, <5>3
      <4>3. sent' = sent
        BY <1>3, HandlerLocal DEF handling
      <4> QED BY <4>1, <4>2, <4>3
    <3> QED BY <3>1, <3>2
  <2>2. Moving
    BY <1>3, <2>1, HandlerLocal DEF handling
  <2> QED BY <2>2, <1>0
<1>4. ASSUME NEW id \in Ids, SendCommand(id) PROVE Travel'
  <2>1. mem' = [mem EXCEPT ![id] =
                  [mem[id] EXCEPT !.cmds = Append(mem[id].cmds, sent + 1)]]
    BY <1>4 DEF SendCommand
  <2>2. mem[id] \in Entry
    BY DEF TypeOK
  <2>3. /\ mem'[id].cmds = Append(mem[id].cmds, sent + 1) /\ sent' = sent + 1
        /\ \A x \in Ids : x # id => mem'[x] = mem[x]
    BY <1>4, <2>1, <2>2 DEF SendCommand, TypeOK, Entry
  <2>4. UNCHANGED <<call, delivered>>
    BY <1>4 DEF SendCommand, untouched
  <2>5. ASSUME NEW x \in Ids, x # id PROVE TravelOf(x)'
    <3>1. \A q \in Seq(Nat) : UpTo(q, sent) => UpTo(q, sent + 1)
      BY DEF UpTo, TypeOK
    <3>2. TravelOf(x) /\ mem'[x] = mem[x] /\ sent' = sent + 1
      BY <2>3, <2>5 DEF Travel
    <3> QED BY <2>4, <3>1, <3>2, CommandsTyped DEF TravelOf
  <2>6. TravelOf(id)'
    <3>1. TravelOf(id)
      BY DEF Travel
    <3>2. /\ delivered[id] \in Seq(Nat) /\ Held(id) \in Seq(Nat)
          /\ mem[id].cmds \in Seq(Nat) /\ sent \in Nat
      BY CommandsTyped
    <3> HIDE DEF Held
    <3>3. Held(id)' = Held(id)
      BY <2>4 DEF Held
    <3> QED BY <2>3, <2>4, <3>1, <3>2, <3>3, AppendOrder DEF TravelOf
  <2> QED BY <2>5, <2>6 DEF Travel
<1>5. ASSUME NEW id \in Ids, RevokeAgent(id) \/ DeleteRow(id) \/ DeleteEntry(id)
      PROVE  Travel'
  <2>1. Moving
    <3>1. mem' = mem \/ mem' = [mem EXCEPT ![id] = Gone]
      BY <1>5 DEF RevokeAgent, DeleteRow, DeleteEntry, untouched
    <3>2. \A x \in Ids : mem'[x].cmds \in {mem[x].cmds, <<>>}
      BY <3>1 DEF Gone, TypeOK
    <3>3. UNCHANGED <<call, delivered, sent>>
      BY <1>5 DEF RevokeAgent, DeleteRow, DeleteEntry, untouched
    <3> QED BY <3>2, <3>3
  <2> QED BY <2>1, <1>0
<1>6. CASE RevokeToken \/ TokenExpires
  <2>1. Moving
    BY <1>6 DEF RevokeToken, TokenExpires, enrolled
  <2> QED BY <2>1, <1>0
<1>7. CASE ReloadList \/ ReloadSwap
  <2>1. Moving
    <3>1. \A x \in Ids : mem'[x].cmds \in {mem[x].cmds, <<>>}
      BY <1>7 DEF ReloadList, ReloadSwap, untouched, Loaded, Fresh, Gone
    <3>2. UNCHANGED <<call, delivered, sent>>
      BY <1>7 DEF ReloadList, ReloadSwap, untouched
    <3> QED BY <3>1, <3>2
  <2> QED BY <2>1, <1>0
<1>8. CASE Restart
  <2>1. \A x \in Ids : mem'[x].cmds = <<>> /\ call'[x]["awaited"].cmds = <<>>
    BY <1>8 DEF Restart, Loaded, Fresh, Gone, NoCall, Slots
  <2>2. Moving
    BY <1>8, <2>1 DEF Restart
  <2> QED BY <2>2, <1>0
<1>9. CASE UNCHANGED vars
  <2>1. Moving
    BY <1>9 DEF vars
  <2> QED BY <2>1, <1>0
<1> QED
  BY <1>1, <1>2, <1>3, <1>4, <1>5, <1>6, <1>7, <1>8, <1>9 DEF Next, Console

-----------------------------------------------------------------------------
(* The results.                                                            *)

LEMMA InitIInv == Init => IInv
<1> SUFFICES ASSUME Init PROVE IInv
  OBVIOUS
<1> USE RegistryAssumption DEF Init
<1>1. TypeOK
  <2>1. row \in [Ids -> Row] /\ mem \in [Ids -> Entry] /\ agent \in [Ids -> Agent]
    BY RowFields, EntriesTyped, AgentFields
  <2>2. call \in Calls
    BY NoCallTyped DEF Calls
  <2>3. token \in TokenRow /\ enrol \in [Ids -> Stages]
    BY DEF TokenRow, Stages
  <2>4. delivered \in [Ids -> Seq(Commands)] /\ issued \in [Ids -> {NoToken} \cup Tokens]
    OBVIOUS
  <2> QED BY <2>1, <2>2, <2>3, <2>4 DEF TypeOK, Calls
<1>2. Budget /\ Keyless
  BY DEF Budget, Keyless
<1>3. Unborn
  BY DEF Unborn, NoRow, Gone, Down, NoCall
<1>4. Tardy
  BY DEF Tardy, NoCall
<1>5. Travel
  <2>1. \A id \in Ids : delivered[id] = <<>> /\ Held(id) = <<>> /\ mem[id].cmds = <<>>
    BY DEF Held, NoCall, Gone, Slots
  <2>2. <<>> \in Seq(Nat) /\ 0 \in Nat
    OBVIOUS
  <2> QED BY <2>1, <2>2, EmptyOrder DEF Travel, TravelOf
<1>6. TokenBudget
  BY FS_EmptySet DEF TokenBudget
<1> QED BY <1>1, <1>2, <1>3, <1>4, <1>5, <1>6 DEF IInv

(* The invariant the other results rest on holds in every reachable state. *)
THEOREM Inductive == Spec => []IInv
<1>1. Init => IInv
  BY InitIInv
<1>2. IInv /\ [Next]_vars => IInv'
  BY TypeStep, BudgetStep, UnbornStep, KeylessStep, TardyStep, TravelStep, TokenStep
     DEF IInv
<1> QED BY <1>1, <1>2, PTL DEF Spec

(* The tables, the entries, the agents and the calls keep their types.     *)
THEOREM TypeCorrect == Spec => []TypeOK
<1>1. IInv => TypeOK
  BY DEF IInv
<1> QED BY <1>1, Inductive, PTL

(* An enrolment token admits at most max_uses ids however the enrolments   *)
(* of any number of hosts overlap (enroll_repo.go:62).                     *)
THEOREM TokenCorrect == Spec => []TokenBudget
<1>1. IInv => TokenBudget
  BY DEF IInv
<1> QED BY <1>1, Inductive, PTL

(* In strict mode a request that arrives after its agent was deleted is    *)
(* not let in, whatever late handlers put back (mtls_identity.go:122).     *)
THEOREM DeletedCorrect == Spec => []DeletedStaysOut
<1>1. IInv => DeletedStaysOut
  BY DEF IInv, Tardy, DeletedStaysOut, Admitted
<1> QED BY <1>1, Inductive, PTL

(* An agent is handed its commands in order and none twice, whatever is    *)
(* lost on the way (service.go:113-115).                                   *)
THEOREM CommandsCorrect == Spec => []CommandsInOrder
<1>1. IInv => CommandsInOrder
  BY DEF IInv, Travel, TravelOf, Sorted, CommandsInOrder
<1> QED BY <1>1, Inductive, PTL

\* No step changes the key of a row that stays, nor takes back a revocation.
LEMMA IdentityStep ==
  ASSUME TypeOK, [Next]_vars, NEW x \in Ids, row[x].here, row'[x].here
  PROVE  row'[x].key = row[x].key /\ (row[x].revoked => row'[x].revoked)
<1>1. ASSUME NEW id \in Ids, Enrolment(id), row'[x] # row[x] PROVE FALSE
  <2>1. EnrollAgent(id) /\ id # x
    BY <1>1 DEF Enrolment, PeekEnrollToken, EnrollAgent, EnrollReply,
       EnrollFails, EnrollTimeout
  <2> QED BY <1>1, <2>1 DEF EnrollAgent, TypeOK
<1>2. ASSUME NEW id \in Ids, Process(id) PROVE row' = row
  BY <1>2, ProcessLocal DEF asking
<1>3. ASSUME NEW id \in Ids, NEW s \in Slots, Handler(id, s) PROVE row'[x] = row[x]
  BY <1>3, HandlerLocal DEF Upserted
<1>4. ASSUME NEW id \in Ids, RevokeAgent(id)
      PROVE  row'[x].key = row[x].key /\ (row[x].revoked => row'[x].revoked)
  BY <1>4 DEF RevokeAgent, TypeOK, Row
<1>5. ASSUME NEW id \in Ids, DeleteRow(id) PROVE row'[x] = row[x]
  BY <1>5 DEF DeleteRow, NoRow, TypeOK
<1>6. ASSUME NEW id \in Ids, SendCommand(id) \/ DeleteEntry(id) PROVE row' = row
  BY <1>6 DEF SendCommand, DeleteEntry
<1>7. CASE RevokeToken \/ TokenExpires \/ ReloadList \/ ReloadSwap \/ Restart
  BY <1>7 DEF RevokeToken, TokenExpires, ReloadList, ReloadSwap, Restart
<1>8. CASE UNCHANGED vars
  BY <1>8 DEF vars
<1> QED
  BY <1>1, <1>2, <1>3, <1>4, <1>5, <1>6, <1>7, <1>8 DEF Next, Console

(* As long as a row lives its key stays and its revocation is not undone,  *)
(* whichever saves of late handlers reach it (agent_repo.go:25).           *)
THEOREM IdentityCorrect == Spec => IdentityKept
<1>1. TypeOK /\ [Next]_vars =>
        [\A id \in Ids :
           row[id].here /\ row'[id].here =>
             /\ row'[id].key = row[id].key
             /\ row[id].revoked => row'[id].revoked]_vars
  BY IdentityStep
<1> QED BY <1>1, TypeCorrect, PTL DEF Spec, IdentityKept
===============================================================================

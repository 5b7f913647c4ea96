----------------------------- MODULE AgentRegistry -----------------------------
(***************************************************************************)
(* How a host becomes an agent of the server and stays one.                *)
(*                                                                         *)
(* A host enrols over HTTP with an enrolment token and gets a certificate  *)
(* (agent/internal/enroll, handler/enroll_handler.go,                      *)
(* repository/psql/enroll_repo.go).  Its agent then registers over gRPC,   *)
(* sends heartbeats and says goodbye (agent/internal/agent,                *)
(* grpcservice/service.go).  The server keeps a row per agent in the       *)
(* database and an entry per agent in memory; a deletion, a reload and a   *)
(* restart move the two one after the other.  Every call goes through the  *)
(* interceptors: the certificate's key and the revocation in strict mode,  *)
(* the token of the last registration otherwise.                           *)
(*                                                                         *)
(* Each run of enroll makes a new key, and the key's hash is the agent's   *)
(* id: an id enrols once.  A handler is not stopped by a caller that has   *)
(* gone, its database calls use context.Background(): it runs on as a late *)
(* handler whose answer nobody reads.                                      *)
(*                                                                         *)
(* A registration has a deadline.  A heartbeat has none once the agent has *)
(* a token: the context made with five seconds is replaced by authContext, *)
(* made from context.Background() (agent.go:381, 493-498).  A heartbeat    *)
(* whose answer does not come holds its loop until the connection ends.    *)
(***************************************************************************)
EXTENDS Integers, Sequences, FiniteSets

CONSTANTS
  Ids,               \* agent ids, one per enrolment
  MaxUses,           \* max_uses of the enrolment token
  MaxDisturbances    \* bound: lost answers, stops, restarts, reloads,
                     \* commands, revocations and deletions, all together

ASSUME RegistryAssumption ==
  /\ IsFiniteSet(Ids)
  /\ MaxUses \in Nat \ {0}
  /\ MaxDisturbances \in Nat

VARIABLES
  strict,     \* cfg.TLS.StrictMTLS
  token,      \* the enrolment token's row
  enrol,      \* how far each id's enrolment has come
  gaveUp,     \* ids whose host stopped waiting for the enrolment's answer
  row,        \* the agents table
  mem,        \* h.Agents: the entry and its queued commands
  issued,     \* AgentAuthInterceptor.tokens
  agent,      \* the agent process of each id
  call,       \* the handlers at work: the one awaited and a late one
  erasing,    \* ids whose row is deleted and whose entry is not yet
  reload,     \* the ids a reload has listed, <<>> when none is under way
  left,       \* disturbances left
  sent,       \* commands queued so far
  granted,    \* history: ids the token has admitted
  deleted,    \* history: ids whose row was deleted
  delivered   \* history: the commands each agent was handed

vars == <<strict, token, enrol, gaveUp, row, mem, issued, agent, call, erasing,
          reload, left, sent, granted, deleted, delivered>>

Slots    == {"awaited", "late"}
Tokens   == 1 .. 4      \* enough for one to be free; only equality matters
NoToken  == 0
Commands == 1 .. MaxDisturbances

TokenRow == [used : 0 .. MaxUses, revoked : BOOLEAN, expired : BOOLEAN]
Stages   == {"new", "peeked", "stored", "certified", "failed"}

Row   == [here : BOOLEAN, key : BOOLEAN, revoked : BOOLEAN]
NoRow == [here |-> FALSE, key |-> FALSE, revoked |-> FALSE]
Entry == [here : BOOLEAN, cmds : Seq(Commands)]
Fresh == [here |-> TRUE, cmds |-> <<>>]
Gone  == [here |-> FALSE, cmds |-> <<>>]
Agent == [up : BOOLEAN, tok : {NoToken} \cup Tokens, reconnect : BOOLEAN,
          hung : BOOLEAN]       \* in a heartbeat whose answer does not come
Down  == [up |-> FALSE, tok |-> NoToken, reconnect |-> FALSE, hung |-> FALSE]

Admitted == {"admitted", "save", "token"}
Call  == [kind : {"none", "register", "heartbeat", "shutdown"},
          at : {"none", "arrived", "keyed"} \cup Admitted,
          tok : {NoToken} \cup Tokens,
          cmds : Seq(Commands),
          tardy : BOOLEAN]      \* history: it arrived after the deletion
NoCall == [kind |-> "none", at |-> "none", tok |-> NoToken, cmds |-> <<>>,
           tardy |-> FALSE]

TypeOK ==
  /\ strict \in BOOLEAN
  /\ token \in TokenRow
  /\ enrol \in [Ids -> Stages]
  /\ gaveUp \subseteq Ids
  /\ row \in [Ids -> Row]
  /\ mem \in [Ids -> Entry]
  /\ issued \in [Ids -> {NoToken} \cup Tokens]
  /\ agent \in [Ids -> Agent]
  /\ call \in [Ids -> [Slots -> Call]]
  /\ erasing \subseteq Ids
  /\ reload \in {<<>>} \cup {<<listed>> : listed \in SUBSET Ids}
  /\ left \in 0 .. MaxDisturbances
  /\ sent \in 0 .. MaxDisturbances
  /\ granted \subseteq Ids
  /\ deleted \subseteq Ids
  /\ delivered \in [Ids -> Seq(Commands)]

Init ==
  /\ strict \in BOOLEAN
  /\ token = [used |-> 0, revoked |-> FALSE, expired |-> FALSE]
  /\ enrol = [id \in Ids |-> "new"]
  /\ gaveUp = {}
  /\ row = [id \in Ids |-> NoRow]
  /\ mem = [id \in Ids |-> Gone]
  /\ issued = [id \in Ids |-> NoToken]
  /\ agent = [id \in Ids |-> Down]
  /\ call = [id \in Ids |-> [s \in Slots |-> NoCall]]
  /\ erasing = {}
  /\ reload = <<>>
  /\ left = MaxDisturbances
  /\ sent = 0
  /\ granted = {}
  /\ deleted = {}
  /\ delivered = [id \in Ids |-> <<>>]

\* One disturbance less to come.
Disturb == left > 0 /\ left' = left - 1

-----------------------------------------------------------------------------
(* Enrolment: a look at the token without a lock, the certificate, then    *)
(* the transaction that locks the token's row and looks again.             *)

TokenGood == ~token.revoked /\ ~token.expired /\ token.used < MaxUses

enrolled == <<strict, mem, issued, agent, call, erasing, reload, sent, deleted,
              delivered>>

\* Mutant: the transaction trusts the first look.
TrustFirstLook == TRUE
\* Under FOR UPDATE, the token's row as it is by then.
LookAgain == TokenGood

PeekEnrollToken(id) ==
  /\ enrol[id] = "new" /\ TokenGood
  /\ enrol' = [enrol EXCEPT ![id] = "peeked"]
  /\ UNCHANGED <<enrolled, token, gaveUp, row, left, granted>>

EnrollAgent(id) ==
  /\ enrol[id] = "peeked" /\ LookAgain /\ ~row[id].here
  /\ row' = [row EXCEPT ![id] = [here |-> TRUE, key |-> TRUE, revoked |-> FALSE]]
  /\ token' = [token EXCEPT !.used = @ + 1,
                            !.revoked = token.used + 1 >= MaxUses]
  /\ enrol' = [enrol EXCEPT ![id] = "stored"]
  /\ granted' = granted \cup {id}
  /\ UNCHANGED <<enrolled, gaveUp, left>>

\* The host checks the answer and writes its key and its certificate.
EnrollReply(id) ==
  /\ enrol[id] = "stored" /\ id \notin gaveUp
  /\ enrol' = [enrol EXCEPT ![id] = "certified"]
  /\ UNCHANGED <<enrolled, token, gaveUp, row, left, granted>>

\* Refused, or a query, the signature or the writing of the files fails, or
\* nobody waits: a transaction is rolled back, a row that is committed stays.
EnrollFails(id) ==
  /\ enrol[id] \in {"new", "peeked", "stored"}
  /\ enrol' = [enrol EXCEPT ![id] = "failed"]
  /\ UNCHANGED <<enrolled, token, gaveUp, row, left, granted>>

\* The host's HTTP client times out; the handler goes on.
EnrollTimeout(id) ==
  /\ Disturb
  /\ enrol[id] \in {"peeked", "stored"}
  /\ gaveUp' = gaveUp \cup {id}
  /\ UNCHANGED <<enrolled, token, enrol, row, granted>>

RevokeToken ==
  /\ Disturb
  /\ ~token.revoked
  /\ token' = [token EXCEPT !.revoked = TRUE]
  /\ UNCHANGED <<enrolled, enrol, gaveUp, row, granted>>

\* expires_at passes; the clean-up that deletes the row later changes no answer.
TokenExpires ==
  /\ Disturb
  /\ ~token.expired
  /\ token' = [token EXCEPT !.expired = TRUE]
  /\ UNCHANGED <<enrolled, enrol, gaveUp, row, granted>>

-----------------------------------------------------------------------------
(* The agent process.                                                      *)

asking == <<strict, token, enrol, gaveUp, row, mem, issued, erasing, reload, sent,
            granted, deleted, delivered>>

Start(id) ==
  /\ enrol[id] = "certified" /\ ~agent[id].up
  /\ call[id]["awaited"] = NoCall
  /\ agent' = [agent EXCEPT ![id] = [Down EXCEPT !.up = TRUE]]
  /\ UNCHANGED <<asking, call, left>>

\* A request reaches the server.
Arrives(id, s, kind) ==
  call' = [call EXCEPT ![id][s] =
             [kind |-> kind, at |-> "arrived", tok |-> agent[id].tok,
              cmds |-> <<>>, tardy |-> id \in deleted]]

\* connectAndRegister, from Run, from retryConnectLoop or after a heartbeat
\* that failed.
SendRegister(id) ==
  /\ agent[id].up /\ ~agent[id].hung /\ call[id]["awaited"] = NoCall
  /\ agent[id].tok = NoToken \/ agent[id].reconnect
  /\ Arrives(id, "awaited", "register")
  /\ UNCHANGED <<asking, agent, left>>

SendHeartbeat(id) ==
  /\ agent[id].up /\ ~agent[id].hung /\ call[id]["awaited"] = NoCall
  /\ agent[id].tok # NoToken /\ ~agent[id].reconnect
  /\ Arrives(id, "awaited", "heartbeat")
  /\ UNCHANGED <<asking, agent, left>>

\* Nobody reads the awaited handler's answer.
BecomesLate(id) ==
  /\ call[id]["late"] = NoCall
  /\ call' = [call EXCEPT ![id] = [awaited |-> NoCall, late |-> @["awaited"]]]

\* The ten seconds of a registration pass; it is tried again at the next tick,
\* or after the next heartbeat that fails.
RegisterTimeout(id) ==
  /\ Disturb
  /\ agent[id].up /\ call[id]["awaited"].kind = "register"
  /\ BecomesLate(id)
  /\ agent' = [agent EXCEPT ![id].reconnect = FALSE]
  /\ UNCHANGED asking

\* The answer to a heartbeat does not come, and no deadline ends the wait.
AnswerLost(id) ==
  /\ Disturb
  /\ agent[id].up /\ call[id]["awaited"].kind = "heartbeat"
  /\ BecomesLate(id)
  /\ agent' = [agent EXCEPT ![id].hung = TRUE]
  /\ UNCHANGED asking

\* The connection ends: the heartbeat fails, which leads to connectAndRegister.
\* Nothing in the code makes it end.
ConnectionEnds(id) ==
  /\ agent[id].up /\ agent[id].hung
  /\ agent' = [agent EXCEPT ![id].hung = FALSE, ![id].reconnect = TRUE]
  /\ UNCHANGED <<asking, call, left>>

\* Run has returned, so no heartbeat is waiting.  Shutdown tells the server,
\* when the agent has a token, and does nothing more that the server sees.
Shutdown(id) ==
  /\ Disturb
  /\ agent[id].up /\ ~agent[id].hung /\ call[id] = [s \in Slots |-> NoCall]
  /\ agent' = [agent EXCEPT ![id] = Down]
  /\ IF agent[id].tok = NoToken
       THEN UNCHANGED call
       ELSE Arrives(id, "late", "shutdown")
  /\ UNCHANGED asking

\* The process is killed; its handler goes on.
Crash(id) ==
  /\ Disturb
  /\ agent[id].up /\ BecomesLate(id)
  /\ agent' = [agent EXCEPT ![id] = Down]
  /\ UNCHANGED asking

-----------------------------------------------------------------------------
(* The interceptors.                                                       *)

handling == <<strict, token, enrol, gaveUp, erasing, reload, left, sent, granted,
              deleted>>

To(id, s, at) == call' = [call EXCEPT ![id][s].at = at]
Finish(id, s) == call' = [call EXCEPT ![id][s] = NoCall]

\* An error, or success = false: the awaiting agent registers again after a
\* heartbeat and waits for its next tick after a registration.
Refuse(id, s) ==
  /\ Finish(id, s)
  /\ agent' = IF s = "awaited"
                THEN [agent EXCEPT ![id].reconnect = call[id][s].kind = "heartbeat"]
                ELSE agent

\* Mutant: a row without a key is let in.
RowPresent(id) == row[id].here
\* L3: the certificate's key against the row.  A row without a key refuses.
KeyBound(id) == row[id].here /\ row[id].key
\* L4, a second query: a row that has gone is an error.
NotRevoked(id) == row[id].here /\ ~row[id].revoked
\* VerifyToken; Register needs none.
TokenValid(id, s) ==
  \/ call[id][s].kind = "register"
  \/ issued[id] # NoToken /\ issued[id] = call[id][s].tok

VerifyKeyBinding(id, s) ==
  /\ strict /\ call[id][s].at = "arrived"
  /\ IF KeyBound(id) THEN To(id, s, "keyed") /\ UNCHANGED agent ELSE Refuse(id, s)
  /\ UNCHANGED <<handling, row, mem, issued, delivered>>

CheckRevoked(id, s) ==
  /\ call[id][s].at = "keyed"
  /\ IF NotRevoked(id) THEN To(id, s, "admitted") /\ UNCHANGED agent
                       ELSE Refuse(id, s)
  /\ UNCHANGED <<handling, row, mem, issued, delivered>>

VerifyToken(id, s) ==
  /\ ~strict /\ call[id][s].at = "arrived"
  /\ IF TokenValid(id, s) THEN To(id, s, "admitted") /\ UNCHANGED agent
                          ELSE Refuse(id, s)
  /\ UNCHANGED <<handling, row, mem, issued, delivered>>

\* One of the two queries fails.
QueryFails(id) ==
  /\ Disturb
  /\ strict
  /\ \E s \in Slots : call[id][s].at \in {"arrived", "keyed"} /\ Refuse(id, s)
  /\ UNCHANGED asking

-----------------------------------------------------------------------------
(* The handlers.                                                           *)

\* Mutant: the update resets the revocation.
UpsertedAnew(r) == [r EXCEPT !.here = TRUE, !.revoked = FALSE]
\* INSERT ... ON CONFLICT DO UPDATE: a missing row comes back without a key,
\* an existing one keeps its key and its revocation.
Upserted(r) ==
  IF r.here THEN r ELSE [here |-> TRUE, key |-> FALSE, revoked |-> FALSE]

\* An error of the database is logged and forgotten.
SaveAgent(id) ==
  \/ row' = [row EXCEPT ![id] = Upserted(@)]
  \/ UNCHANGED row

\* The token a registration hands out is random: here, the least one unused.
InUse(id) == {issued[id], agent[id].tok} \cup {call[id][s].tok : s \in Slots}
NewToken(id, t) ==
  /\ t \in Tokens \ InUse(id)
  /\ \A u \in Tokens \ InUse(id) : t <= u

RegisterEntry(id, s) ==
  /\ call[id][s].kind = "register" /\ call[id][s].at = "admitted"
  /\ mem' = [mem EXCEPT ![id] = Fresh]
  /\ \E t \in Tokens :
       /\ NewToken(id, t)
       /\ call' = [call EXCEPT ![id][s].at = "save", ![id][s].tok = t]
  /\ UNCHANGED <<handling, row, issued, agent, delivered>>

RegisterSave(id, s) ==
  /\ call[id][s].kind = "register" /\ call[id][s].at = "save"
  /\ SaveAgent(id)
  /\ To(id, s, "token")
  /\ UNCHANGED <<handling, mem, issued, agent, delivered>>

\* SetToken, and the answer.
RegisterReply(id, s) ==
  /\ call[id][s].kind = "register" /\ call[id][s].at = "token"
  /\ issued' = [issued EXCEPT ![id] = call[id][s].tok]
  /\ agent' = IF s = "awaited"
                THEN [agent EXCEPT ![id] = [Down EXCEPT !.up = TRUE,
                                                        !.tok = call[id][s].tok]]
                ELSE agent
  /\ Finish(id, s)
  /\ UNCHANGED <<handling, row, mem, delivered>>

\* Mutant: the queue is handed over and kept.
Kept(entry) == entry
Emptied(entry) == [entry EXCEPT !.cmds = <<>>]

\* Under the lock: the queue is handed over and emptied.
HeartbeatTake(id, s) ==
  /\ call[id][s].kind = "heartbeat" /\ call[id][s].at = "admitted"
  /\ IF mem[id].here
       THEN /\ call' = [call EXCEPT ![id][s].at = "save",
                                    ![id][s].cmds = mem[id].cmds]
            /\ mem' = [mem EXCEPT ![id] = Emptied(@)]
            /\ UNCHANGED agent
       ELSE Refuse(id, s) /\ UNCHANGED mem
  /\ UNCHANGED <<handling, row, issued, delivered>>

HeartbeatReply(id, s) ==
  /\ call[id][s].kind = "heartbeat" /\ call[id][s].at = "save"
  /\ SaveAgent(id)
  /\ delivered' = IF s = "awaited"
                    THEN [delivered EXCEPT ![id] = @ \o call[id][s].cmds]
                    ELSE delivered
  /\ Finish(id, s)
  /\ UNCHANGED <<handling, mem, issued, agent>>

\* Under the lock too, the save included.
ShutdownSave(id, s) ==
  /\ call[id][s].kind = "shutdown" /\ call[id][s].at = "admitted"
  /\ IF mem[id].here THEN SaveAgent(id) ELSE UNCHANGED row
  /\ To(id, s, "token")
  /\ UNCHANGED <<handling, mem, issued, agent, delivered>>

\* RemoveToken, whatever token is there by now.
ShutdownReply(id, s) ==
  /\ call[id][s].kind = "shutdown" /\ call[id][s].at = "token"
  /\ issued' = [issued EXCEPT ![id] = NoToken]
  /\ Finish(id, s)
  /\ UNCHANGED <<handling, row, mem, agent, delivered>>

-----------------------------------------------------------------------------
(* The console, and the server's own restarts.                             *)

untouched == <<strict, token, enrol, gaveUp, agent, call, granted, delivered>>

\* sendCommand: from the console, or from an alert that starts a star.
SendCommand(id) ==
  /\ Disturb
  /\ mem[id].here
  /\ sent' = sent + 1
  /\ mem' = [mem EXCEPT ![id].cmds = Append(@, sent + 1)]
  /\ UNCHANGED <<untouched, row, issued, erasing, reload, deleted>>

RevokeAgent(id) ==
  /\ Disturb
  /\ row[id].here /\ ~row[id].revoked
  /\ row' = [row EXCEPT ![id].revoked = TRUE]
  /\ UNCHANGED <<untouched, mem, issued, erasing, reload, sent, deleted>>

\* DeleteAgent: the row first, the entry after; the token stays.
DeleteRow(id) ==
  /\ Disturb
  /\ row[id].here \/ mem[id].here
  /\ id \notin erasing
  /\ row' = [row EXCEPT ![id] = NoRow]
  /\ erasing' = erasing \cup {id}
  /\ deleted' = deleted \cup {id}
  /\ UNCHANGED <<untouched, mem, issued, reload, sent>>

DeleteEntry(id) ==
  /\ id \in erasing
  /\ mem' = [mem EXCEPT ![id] = Gone]
  /\ erasing' = erasing \ {id}
  /\ UNCHANGED <<untouched, row, issued, reload, left, sent, deleted>>

\* ListAgents: nobody asks rows.Err(), so an iteration that breaks off looks
\* like the end of a shorter list.
Listed == SUBSET {id \in Ids : row[id].here}
Loaded(listed) == [id \in Ids |-> IF id \in listed THEN Fresh ELSE Gone]

\* ReloadAgents: the list is read first, the map is replaced after.
ReloadList ==
  /\ Disturb
  /\ reload = <<>>
  /\ \E listed \in Listed : reload' = <<listed>>
  /\ UNCHANGED <<untouched, row, mem, issued, erasing, sent, deleted>>

ReloadSwap ==
  /\ reload # <<>>
  /\ mem' = Loaded(reload[1])
  /\ reload' = <<>>
  /\ UNCHANGED <<untouched, row, issued, erasing, left, sent, deleted>>

\* The server's process ends and starts again: the handlers are gone, the
\* entries come from the database (a list that fails leaves none), the tokens
\* from nowhere.  An agent that was waiting gets an error, a host that was
\* enrolling too.
Restart ==
  /\ Disturb
  /\ \E listed \in Listed : mem' = Loaded(listed)
  /\ issued' = [id \in Ids |-> NoToken]
  /\ call' = [id \in Ids |-> [s \in Slots |-> NoCall]]
  /\ agent' = [id \in Ids |->
                 IF call[id]["awaited"] = NoCall THEN agent[id]
                 ELSE [agent[id] EXCEPT !.reconnect =
                         call[id]["awaited"].kind = "heartbeat"]]
  /\ enrol' = [id \in Ids |-> IF enrol[id] \in {"peeked", "stored"}
                                THEN "failed" ELSE enrol[id]]
  /\ erasing' = {}
  /\ reload' = <<>>
  /\ UNCHANGED <<strict, token, gaveUp, row, sent, granted, deleted, delivered>>

-----------------------------------------------------------------------------
Enrolment(id) ==
  \/ PeekEnrollToken(id) \/ EnrollAgent(id) \/ EnrollReply(id)
  \/ EnrollFails(id) \/ EnrollTimeout(id)
Process(id) ==
  \/ Start(id) \/ SendRegister(id) \/ SendHeartbeat(id)
  \/ RegisterTimeout(id) \/ AnswerLost(id) \/ ConnectionEnds(id)
  \/ Shutdown(id) \/ Crash(id) \/ QueryFails(id)
Handler(id, s) ==
  \/ VerifyKeyBinding(id, s) \/ CheckRevoked(id, s) \/ VerifyToken(id, s)
  \/ RegisterEntry(id, s) \/ RegisterSave(id, s) \/ RegisterReply(id, s)
  \/ HeartbeatTake(id, s) \/ HeartbeatReply(id, s)
  \/ ShutdownSave(id, s) \/ ShutdownReply(id, s)
Console(id) ==
  SendCommand(id) \/ RevokeAgent(id) \/ DeleteRow(id) \/ DeleteEntry(id)

Next ==
  \/ \E id \in Ids : Enrolment(id) \/ Process(id) \/ Console(id)
  \/ \E id \in Ids, s \in Slots : Handler(id, s)
  \/ RevokeToken \/ TokenExpires \/ ReloadList \/ ReloadSwap \/ Restart

Spec == Init /\ [][Next]_vars

\* The agent's loop ticks while it is not held by a heartbeat, a handler's
\* goroutine runs, and a reload or a deletion that has begun goes on.
Fairness ==
  /\ \A id \in Ids : WF_vars(SendRegister(id) \/ SendHeartbeat(id))
  /\ \A id \in Ids, s \in Slots : WF_vars(Handler(id, s))
  /\ \A id \in Ids : WF_vars(DeleteEntry(id))
  /\ WF_vars(ReloadSwap)

FairSpec == Spec /\ Fairness

-----------------------------------------------------------------------------
(* An enrolment token admits at most max_uses ids however the enrolments   *)
(* overlap, counts every one, and is revoked with the last: the look       *)
(* before the certificate decides nothing (enroll_repo.go:62).             *)
TokenBudget ==
  /\ Cardinality(granted) = token.used
  /\ token.used <= MaxUses
  /\ token.used = MaxUses => token.revoked

(* In strict mode a request that arrives after its agent was deleted is    *)
(* never let in, although a late heartbeat or a late registration may put  *)
(* the row back: the row that comes back has no key (mtls_identity.go:122).*)
DeletedStaysOut ==
  strict => \A id \in Ids, s \in Slots :
              call[id][s].tardy => call[id][s].at \notin Admitted

(* As long as a row lives, registrations and heartbeats never change the   *)
(* key that enrolled it nor take back its revocation (agent_repo.go:25).   *)
IdentityKept ==
  [][\A id \in Ids :
       row[id].here /\ row'[id].here =>
         /\ row'[id].key = row[id].key
         /\ row[id].revoked => row'[id].revoked]_vars

(* An agent is handed its commands in the order they were queued and none  *)
(* twice, whatever is lost with a timeout, a new registration, a reload or *)
(* a restart (service.go:113-115).                                         *)
CommandsInOrder ==
  \A id \in Ids : \A i, j \in DOMAIN delivered[id] :
    i < j => delivered[id][i] < delivered[id][j]

\* The server would let the agent in and its heartbeats succeed.
Admissible(id) == strict => KeyBound(id) /\ NotRevoked(id)
Connected(id) ==
  /\ mem[id].here
  /\ agent[id].tok # NoToken
  /\ ~strict => issued[id] = agent[id].tok


(* Not so without the premise on the answers: the deadline of a heartbeat  *)
(* (heartbeat.go:34) does not reach the call (agent.go:493-498), and one   *)
(* heartbeat without an answer holds the loop for good.                    *)
ReconnectsUnanswered ==
  \A id \in Ids :
    <>[](agent[id].up /\ Admissible(id)) => <>[]Connected(id)

(* The agents page's promise "Agent 已删除" (agent_admin_handler.go:38): once *)
(* a deletion has ended, the agent is neither in memory nor in the         *)
(* database until it registers again.                                      *)
DeletionIsFinal ==
  [][\A id \in Ids :
       id \in deleted /\ id \notin erasing /\ ~mem[id].here /\ ~row[id].here =>
         \/ ~mem'[id].here /\ ~row'[id].here
         \/ \E s \in Slots : call[id][s].kind = "register"]_vars
=============================================================================

----------------------------- MODULE RulesPublish -----------------------------
(***************************************************************************)
(* How the server turns the exclusion tables the administrators edit into  *)
(* signed rule sets (server/internal/rulessvc/service.go, the exclusion    *)
(* handlers, probe_exclude_repo.go and agent_rules_repo.go).               *)
(*                                                                         *)
(* A request writes one exclusion table, or replaces all three in a        *)
(* transaction, and then rebuilds: it reads the tables one after the other,*)
(* reads the newest row of agent_rules for everything else, reads the      *)
(* largest version and inserts a row.  Nothing serialises the requests:    *)
(* gin serves each in a goroutine, and every step is its own statement.    *)
(* Signing and hashing are left out; "base" stands for the parts of a rule *)
(* set no exclusion table manages.  The list Handler.ProbeExcludeComms is  *)
(* a mirror nobody reads while a database is configured and is left out.   *)
(***************************************************************************)
EXTENDS Integers, Sequences, FiniteSets, SequencesExt

CONSTANTS
  Requests,     \* the HTTP requests served concurrently
  Items,        \* comms or IPs that may be excluded
  Edits,        \* <<table, item>>: what single requests may add or remove
  Bodies,       \* the final states an Apply request may ask for
  MaxEntries,   \* rules.MaxEntries
  MaxRows,      \* bound: rows of agent_rules
  MaxFaults     \* bound: failed statements, lists that break off, and
                \* crashes of the server

TableNames == {"comms", "files", "ips"}
Tables     == [TableNames -> SUBSET Items]
NoTables   == [t \in TableNames |-> {}]
Bases      == {"default", "legacy"}

ASSUME InputsAssumption == /\ Edits \subseteq TableNames \X Items
                           /\ Bodies \subseteq Tables
ASSUME BoundsAssumption == MaxEntries \in Nat /\ MaxRows \in Nat /\ MaxFaults \in Nat

VARIABLES
  tables,   \* probe_exclude_comms, .._comms_file_access, probe_exclude_ips
  rows,     \* agent_rules in the order of their ids
  up,       \* the server process serves requests
  svc,      \* the rule service exists (the CA key could be read)
  req,      \* what each request has read so far
  faults

vars == <<tables, rows, up, svc, req, faults>>

Row == [version : Nat, base : Bases, comms : SUBSET Items,
        files : SUBSET Items, ips : SUBSET Items]

\* The tables a rebuild reads.
Rebuilt == {"comms", "ips"}

Idle == [pc |-> "idle", seen |-> NoTables, body |-> NoTables, comms |-> {},
         ips |-> {}, short |-> {}, base |-> "default", version |-> 0,
         alone |-> FALSE]

TypeOK ==
  /\ tables \in Tables
  /\ rows \in Seq(Row)
  /\ up \in BOOLEAN
  /\ svc \in BOOLEAN
  /\ req \in [Requests ->
       [pc : {"idle", "replace", "comms", "ips", "base", "version", "insert"},
        seen : Tables, body : Tables, comms : SUBSET Items, ips : SUBSET Items,
        short : SUBSET Rebuilt,      \* history: the lists that broke off
        base : Bases, version : Nat, alone : BOOLEAN]]
  /\ faults \in 0 .. MaxFaults

LegacyRow == [version |-> 1, base |-> "legacy", comms |-> {}, files |-> {},
              ips |-> {}]

Init ==
  /\ tables = NoTables
  /\ rows \in {<<>>, <<LegacyRow>>}
  /\ up = FALSE
  /\ svc = FALSE
  /\ req = [r \in Requests |-> Idle]
  /\ faults = 0

Fault == faults < MaxFaults /\ faults' = faults + 1

(* GetAgentRulesVersion and GetLatestAgentRules: ORDER BY version DESC      *)
(* LIMIT 1 picks any of the rows that share the largest version.            *)
Newest == {row \in ToSet(rows) : \A other \in ToSet(rows) :
                                    other.version <= row.version}
CurrentVersion == IF rows = <<>> THEN 0
                  ELSE (CHOOSE row \in Newest : TRUE).version

(***************************************************************************)
(* Start of the server: EnsureDefault publishes version 1 when there is no *)
(* rule; a failure is only logged.  Without the CA key there is no service *)
(* and the handlers skip the rebuild.                                      *)
(***************************************************************************)
DefaultRow == [version |-> 1, base |-> "default", comms |-> {}, files |-> {},
               ips |-> {}]

Boot ==
  /\ ~up
  /\ up' = TRUE
  /\ \/ /\ svc' = TRUE
        /\ rows' = IF CurrentVersion = 0 THEN Append(rows, DefaultRow) ELSE rows
        /\ UNCHANGED faults
     \/ Fault /\ svc' \in BOOLEAN /\ UNCHANGED rows
  /\ UNCHANGED <<tables, req>>

Crash ==    \* requests in progress are lost, the database stays
  /\ up
  /\ Fault
  /\ up' = FALSE
  /\ svc' = FALSE
  /\ req' = [r \in Requests |-> Idle]
  /\ UNCHANGED <<tables, rows>>

-----------------------------------------------------------------------------
(* The write a request starts with. *)

Active == {r \in Requests : req[r].pc # "idle"}

\* A row an open transaction has deleted is locked until it ends.
Locked(t, x) == \E r \in Requests : req[r].pc = "replace" /\ x \in req[r].seen[t]

CanStart(r) == up /\ req[r].pc = "idle" /\ Len(rows) + Cardinality(Active) < MaxRows

\* The request goes on with the given fields; others are no longer alone.
Enter(r, fields) ==
  req' = [q \in Requests |->
            IF q = r THEN [fields EXCEPT !.alone = (Active \subseteq {r})]
                     ELSE [req[q] EXCEPT !.alone = FALSE]]

Rebuilding == IF svc THEN [Idle EXCEPT !.pc = "comms"] ELSE Idle

AddExclude(r, t, x) ==
  /\ CanStart(r)
  /\ ~Locked(t, x)
  /\ tables' = [tables EXCEPT ![t] = @ \cup {x}]
  /\ Enter(r, Rebuilding)
  /\ UNCHANGED <<rows, up, svc, faults>>

RemoveExclude(r, t, x) ==
  /\ CanStart(r)
  /\ ~Locked(t, x)
  /\ tables' = [tables EXCEPT ![t] = @ \ {x}]
  /\ Enter(r, Rebuilding)
  /\ UNCHANGED <<rows, up, svc, faults>>

\* ReplaceAllExcludes, at the database's default isolation: the DELETEs
\* remove the rows committed when they run, ...
BeginReplace(r, body) ==
  /\ CanStart(r)
  /\ Enter(r, [Idle EXCEPT !.pc = "replace", !.seen = tables, !.body = body])
  /\ UNCHANGED <<tables, rows, up, svc, faults>>

\* ... and the INSERTs collide with rows another request has added since.
Collides(r) == \E t \in TableNames :
                 req[r].body[t] \cap (tables[t] \ req[r].seen[t]) # {}

CommitReplace(r) ==
  /\ req[r].pc = "replace"
  /\ ~Collides(r)
  /\ tables' = [t \in TableNames |->
                  (tables[t] \ req[r].seen[t]) \cup req[r].body[t]]
  /\ req' = [req EXCEPT ![r] = [Rebuilding EXCEPT !.alone = req[r].alone]]
  /\ UNCHANGED <<rows, up, svc, faults>>

RollbackReplace(r) ==
  /\ req[r].pc = "replace"
  /\ \/ Collides(r) /\ UNCHANGED faults
     \/ Fault
  /\ req' = [req EXCEPT ![r] = Idle]
  /\ UNCHANGED <<tables, rows, up, svc>>

-----------------------------------------------------------------------------
(* RebuildFromDB and Publish, one statement at a time. *)

(* ListProbeExcludeComms and ListExcludeIPs skip a row that cannot be       *)
(* scanned and do not ask rows.Err(): an iteration that breaks off returns  *)
(* what it has, without an error, and the rebuild goes on with it.          *)
List(t, got) ==
  /\ got \subseteq tables[t]
  /\ \/ got = tables[t] /\ UNCHANGED faults
     \/ got # tables[t] /\ Fault
Short(t, got) == IF got = tables[t] THEN {} ELSE {t}

ReadComms(r) ==
  /\ req[r].pc = "comms"
  /\ \E got \in SUBSET Items :
       /\ List("comms", got)
       /\ req' = [req EXCEPT ![r].comms = got, ![r].pc = "ips",
                             ![r].short = Short("comms", got)]
  /\ UNCHANGED <<tables, rows, up, svc>>

ReadIPs(r) ==
  /\ req[r].pc = "ips"
  /\ \E got \in SUBSET Items :
       /\ List("ips", got)
       /\ req' = [req EXCEPT ![r].ips = got, ![r].pc = "base",
                             ![r].short = @ \cup Short("ips", got)]
  /\ UNCHANGED <<tables, rows, up, svc>>

\* A defect: the defaults are always taken.
BaseIsDefault(r) ==
  /\ req[r].pc = "base"
  /\ req' = [req EXCEPT ![r].base = "default", ![r].pc = "version"]
  /\ UNCHANGED <<tables, rows, up, svc, faults>>

\* The newest row gives everything but the exclusions; defaultRules if none.
ReadBase(r) ==
  /\ req[r].pc = "base"
  /\ \E base \in IF rows = <<>> THEN {"default"} ELSE {row.base : row \in Newest} :
       req' = [req EXCEPT ![r].base = base, ![r].pc = "version"]
  /\ UNCHANGED <<tables, rows, up, svc, faults>>

\* Publish numbers the rule set and validates it.
Valid(comms, ips) == Cardinality(comms) <= MaxEntries /\ Cardinality(ips) <= MaxEntries

\* A defect: the version is not advanced.
NumberAgain(r) ==
  /\ req[r].pc = "version"
  /\ req' = IF Valid(req[r].comms, req[r].ips)
            THEN [req EXCEPT ![r].version = CurrentVersion, ![r].pc = "insert"]
            ELSE [req EXCEPT ![r] = Idle]
  /\ UNCHANGED <<tables, rows, up, svc, faults>>

ReadVersion(r) ==
  /\ req[r].pc = "version"
  /\ req' = IF Valid(req[r].comms, req[r].ips)
            THEN [req EXCEPT ![r].version = CurrentVersion + 1, ![r].pc = "insert"]
            ELSE [req EXCEPT ![r] = Idle]
  /\ UNCHANGED <<tables, rows, up, svc, faults>>

Insert(r) ==
  /\ req[r].pc = "insert"
  /\ rows' = Append(rows, [version |-> req[r].version, base |-> req[r].base,
                           comms |-> req[r].comms, files |-> {},
                           ips |-> req[r].ips])
  /\ req' = [req EXCEPT ![r] = Idle]
  /\ UNCHANGED <<tables, up, svc, faults>>

\* A statement of the rebuild fails with an error, a list that cannot be begun
\* included: the handler answers 500.
StatementFails(r) ==
  /\ req[r].pc \in {"comms", "ips", "base", "version", "insert"}
  /\ Fault
  /\ req' = [req EXCEPT ![r] = Idle]
  /\ UNCHANGED <<tables, rows, up, svc>>

Write(r) == \/ \E e \in Edits : \/ AddExclude(r, e[1], e[2])
                                \/ RemoveExclude(r, e[1], e[2])
            \/ \E body \in Bodies : BeginReplace(r, body)
            \/ CommitReplace(r)
            \/ RollbackReplace(r)

Rebuild(r) == ReadComms(r) \/ ReadIPs(r) \/ ReadBase(r) \/ ReadVersion(r) \/ Insert(r)

Next == \/ Boot
        \/ Crash
        \/ \E r \in Requests : Write(r) \/ Rebuild(r) \/ StatementFails(r)

Spec == Init /\ [][Next]_vars

-----------------------------------------------------------------------------
(* Properties. *)

\* A rebuild that overlaps no other request publishes, as the one newest rule
\* set, exactly what the comm and IP tables hold, whatever failed, crashed or
\* raced before it: earlier damage is repaired.  A list that breaks off takes
\* entries of its own table away and does nothing else (RebuildFromDB, Publish).
LonePublishIsExact ==
  [][\A r \in Requests : req[r].alone /\ Insert(r) =>
       \A row \in Newest' : \A t \in Rebuilt :
         /\ row[t] \subseteq tables[t]
         /\ t \notin req[r].short => row[t] = tables[t]]_vars

\* What no exclusion table manages is carried from rule set to rule set, also
\* by concurrent requests and by the bootstrap of the defaults.
BaseKept ==
  [][rows # <<>> /\ rows' # rows => Last(rows').base = Head(rows).base]_vars

(* What the comments and the documentation say and the code does not do. *)

\* 005_agent_rules.sql: the version grows monotonically, the largest one is
\* in force.
VersionsUnique ==
  \A i, j \in DOMAIN rows : i < j => rows[i].version < rows[j].version

\* rulessvc/service.go: the rebuild after a table change synchronises that
\* change into agent_rules.
ChangesSynchronised ==
  Active = {} /\ up => \A row \in Newest : /\ row.comms = tables["comms"]
                                           /\ row.ips = tables["ips"]

\* rulessvc/service.go: the rebuild reads the exclusions and merges them, and a
\* read that fails is an error of the rebuild.
EveryPublishIsExact ==
  [][\A r \in Requests : req[r].alone /\ Insert(r) =>
       \A row \in Newest' : row.comms = tables["comms"] /\ row.ips = tables["ips"]]_vars

\* probe_exclude_repo.go: the three lists of an Apply are the final state.
\* Where nobody edits single entries, the tables are therefore always the body
\* of one Apply: of the one that commits, or of one that counts as later.
ApplyIsFinal ==
  [][\A r \in Requests : CommitReplace(r) => tables' \in {req[r].body, tables}]_vars

\* probe_exclude_3dim_handler.go: the file_access exclusion has been added and
\* distributed.
FilesDistributed ==
  [][\A r \in Requests : req[r].alone /\ Insert(r) =>
       \A row \in Newest' : row.files = tables["files"]]_vars
=============================================================================

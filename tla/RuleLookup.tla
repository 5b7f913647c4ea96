------------------------------- MODULE RuleLookup -------------------------------
(***************************************************************************)
(* The readers of the kernel tables: the programs decide by their rules    *)
(* while an update deletes and writes them one by one.  is_sensitive_path  *)
(* and is_excluded_cmdline consult an exact and a prefix table, the        *)
(* connection probe three tables, each in a lookup of its own; a hit in    *)
(* any of them decides.  Nothing tells a program that an update is on.     *)
(*                                                                         *)
(* One lookup at a time is enough: the programs only read.                 *)
(***************************************************************************)
EXTENDS KernelTable

CONSTANTS
  Subjects,   \* what is looked up: paths, command lines, connections
  Matching    \* the entries that match a subject: itself, or its prefixes

ASSUME MatchingAssumption == Matching \in [Subjects -> SUBSET Entries]

VARIABLES
  lookup,  \* the program: its subject, the tables left, its answer
  inForce, \* history: what the lists in force during the lookup consist of
  quiet    \* history: no update ran during the lookup, and none had failed

lookupVars == <<lookup, inForce, quiet>>

Answers  == {"none", "hit", "miss"}
NoLookup == [subject |-> "nothing", left |-> {}, answer |-> "none"]

LookupInit == lookup = NoLookup /\ inForce = {} /\ quiet = TRUE

Matches(subject, set) == Matching[subject] \cap set # {}

LookupStart(s) ==
  /\ lookup = NoLookup
  /\ lookup' = [subject |-> s, left |-> Tables, answer |-> "none"]
  /\ inForce' = last \cup want \cup (IF failed THEN entries ELSE {})
  /\ quiet' = (pc = "idle" /\ ~failed)

\* A defect: the first table consulted decides.
AskOnlyOne(t) ==
  LET found == Matches(lookup.subject, In(entries, t)) IN
  lookup' = [lookup EXCEPT !.left = @ \ {t},
                           !.answer = IF found THEN "hit" ELSE "miss"]

\* One table is looked up; a hit, or the last miss, is the answer.
Ask(t) ==
  LET found == Matches(lookup.subject, In(entries, t)) IN
  lookup' = [lookup EXCEPT !.left = @ \ {t},
                           !.answer = IF found THEN "hit"
                                      ELSE IF lookup.left = {t} THEN "miss"
                                      ELSE "none"]

LookupTable(t) ==
  /\ lookup.answer = "none"
  /\ t \in lookup.left
  /\ Ask(t)
  /\ UNCHANGED <<inForce, quiet>>

\* The program goes on: it reports, or leaves the event out.
LookupEnd ==
  /\ lookup.answer # "none"
  /\ lookup' = NoLookup
  /\ inForce' = {}
  /\ quiet' = TRUE

\* History: an update that runs during the lookup.
Observe ==
  /\ lookup' = lookup
  /\ inForce' = IF lookup = NoLookup THEN {} ELSE inForce \cup want'
  /\ quiet' = (lookup = NoLookup)

LookupNext ==
  \/ Next /\ Observe
  \/ UNCHANGED vars /\ ( \/ \E s \in Subjects : LookupStart(s)
                         \/ \E t \in Tables : LookupTable(t)
                         \/ LookupEnd )

LookupSpec == Init /\ LookupInit /\ [][LookupNext]_<<vars, lookupVars>>

-----------------------------------------------------------------------------
(* Properties. *)

\* No program acts on a rule that is in no list: a hit is due to the list
\* before an update or to the one it writes (or to what a failed one has left),
\* and without an update a lookup answers exactly by the list.  During one, a
\* subject that both lists match may still be missed: its rule is deleted and
\* written again.
AnswerIsGrounded ==
  /\ lookup.answer = "hit" => Matches(lookup.subject, inForce)
  /\ lookup.answer # "none" /\ quiet =>
       (lookup.answer = "hit" <=> Matches(lookup.subject, last))
=============================================================================

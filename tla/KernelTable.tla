------------------------------ MODULE KernelTable ------------------------------
(***************************************************************************)
(* Rewriting the kernel tables of a running probe, one entry per system    *)
(* call (agent/internal/v3_loader).  Two strategies are in use:            *)
(*                                                                         *)
(*   tracked   UpdateSensitivePaths and the two UpdateExcludeCmdlines:     *)
(*             delete the keys recorded by the last successful update,     *)
(*             write the new ones, record them;                            *)
(*   ~tracked  UpdateExcludeComms, -IPs and -Combos: iterate over the      *)
(*             table, delete everything, write the new keys.               *)
(*                                                                         *)
(* An entry is <<table, key>>; a tracked update serves an exact and a      *)
(* prefix table at once.  The order of the entries within one loop is left *)
(* open.  The update holds the probe's mutex, so there is one at a time,   *)
(* but the kernel's lookups see every intermediate state.                  *)
(***************************************************************************)
EXTENDS Integers, FiniteSets

CONSTANTS
  Tables,     \* the tables one update rewrites
  Keys,
  Capacity,   \* max_entries of each table; rules.MaxEntries is the same
  MaxFaults   \* bound: failed system calls

Entries == Tables \X Keys

ASSUME FiniteAssumption == IsFiniteSet(Entries)
ASSUME BoundsAssumption == Capacity \in Nat /\ MaxFaults \in Nat

VARIABLES
  tracked,  \* which of the two strategies; it never changes
  entries,  \* what is in the kernel
  last,     \* lastExact and lastPrefix, lastExcludeComms, ...
  pc,       \* "idle", "delete" or "put"
  want,     \* the arguments of the update under way
  todo,     \* the entries its loop has not reached
  failed,   \* history: an update of this loader has failed
  faults

vars == <<tracked, entries, last, pc, want, todo, failed, faults>>

In(set, t) == {e \in set : e[1] = t}
Fits(set)  == \A t \in Tables : Cardinality(In(set, t)) <= Capacity

\* The rule sets that pass rules.Validate.
Lists == {set \in SUBSET Entries : Fits(set)}

TypeOK ==
  /\ tracked \in BOOLEAN /\ failed \in BOOLEAN
  /\ entries \subseteq Entries
  /\ last \subseteq Entries
  /\ pc \in {"idle", "delete", "put"}
  /\ want \in Lists
  /\ todo \subseteq Entries
  /\ faults \in 0 .. MaxFaults

Init ==
  /\ tracked \in BOOLEAN /\ failed = FALSE
  /\ entries = {}
  /\ last = {}
  /\ pc = "idle"
  /\ want = {}
  /\ todo = {}
  /\ faults = 0

Fault == faults < MaxFaults /\ faults' = faults + 1

\* Two defects: the new list is merged with the recorded one; the recorded
\* keys are deleted where the whole table has to be.
BeginMerged(list) ==
  /\ pc = "idle"
  /\ want' = list \cup last
  /\ todo' = IF tracked THEN last ELSE entries
  /\ pc' = "delete"
  /\ UNCHANGED <<tracked, entries, last, failed, faults>>

BeginWithRecorded(list) ==
  /\ pc = "idle"
  /\ want' = list
  /\ todo' = last
  /\ pc' = "delete"
  /\ UNCHANGED <<tracked, entries, last, failed, faults>>

Begin(list) ==
  /\ pc = "idle"
  /\ want' = list
  /\ todo' = IF tracked THEN last ELSE entries
  /\ pc' = "delete"
  /\ UNCHANGED <<tracked, entries, last, failed, faults>>

\* The result of Delete is ignored: the only error is that there is no entry.
DeleteEntry(e) ==
  /\ pc = "delete"
  /\ e \in todo
  /\ entries' = entries \ {e}
  /\ todo' = todo \ {e}
  /\ UNCHANGED <<tracked, last, pc, want, failed, faults>>

IterationFails ==
  /\ ~tracked
  /\ pc = "delete"
  /\ Fault
  /\ failed' = TRUE
  /\ pc' = "idle"
  /\ todo' = {}
  /\ UNCHANGED <<tracked, entries, last, want>>

StartWriting ==
  /\ pc = "delete"
  /\ todo = {}
  /\ pc' = "put"
  /\ todo' = want
  /\ UNCHANGED <<tracked, entries, last, want, failed, faults>>

\* The table has room for e, or holds it already.
Room(e) == e \in entries \/ Cardinality(In(entries, e[1])) < Capacity

PutEntry(e) ==
  /\ pc = "put"
  /\ e \in todo
  /\ Room(e)
  /\ entries' = entries \cup {e}
  /\ todo' = todo \ {e}
  /\ UNCHANGED <<tracked, last, pc, want, failed, faults>>

\* The first error of a write ends the update; nothing is recorded.
PutFails(e) ==
  /\ pc = "put"
  /\ e \in todo
  /\ \/ ~Room(e) /\ UNCHANGED faults
     \/ Fault
  /\ failed' = TRUE
  /\ pc' = "idle"
  /\ todo' = {}
  /\ UNCHANGED <<tracked, entries, last, want>>

\* A defect: the keys written are not recorded.
FinishUnrecorded ==
  /\ pc = "put"
  /\ todo = {}
  /\ pc' = "idle"
  /\ UNCHANGED <<tracked, entries, last, want, todo, failed, faults>>

Finish ==
  /\ pc = "put"
  /\ todo = {}
  /\ last' = want
  /\ pc' = "idle"
  /\ UNCHANGED <<tracked, entries, want, todo, failed, faults>>

\* Attach replaces the loader: new tables, and no record of the old ones.
Reattach ==
  /\ pc = "idle"
  /\ entries' = {}
  /\ last' = {}
  /\ failed' = FALSE
  /\ UNCHANGED <<tracked, pc, want, todo, faults>>

Next == \/ \E list \in Lists : Begin(list)
        \/ \E e \in Entries : DeleteEntry(e) \/ PutEntry(e) \/ PutFails(e)
        \/ IterationFails
        \/ StartWriting
        \/ Finish
        \/ Reattach

Spec == Init /\ [][Next]_vars

-----------------------------------------------------------------------------
(* Properties. *)

\* The clearing strategy has to cope with what failed updates left behind; the
\* tracking one can only as long as none has failed since Attach.
Sound == tracked => ~failed

\* An update that reports success leaves exactly the rules it was given in
\* the kernel.
UpdateIsExact == [][Finish /\ Sound => entries = want]_vars

\* A rule set that passes the validation always finds room: no debris of
\* earlier updates fills a table.
ValidListFits == pc = "put" /\ Sound => \A e \in todo : Room(e)

(* What a comment says and the code does not do. *)

\* file_loader.go:317: the keys written last time are deleted one by one
\* before the new ones are written; nothing else stays in force.
UpdateAlwaysExact == [][Finish => entries = want]_vars
=============================================================================

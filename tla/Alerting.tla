-------------------------------- MODULE Alerting --------------------------------
(***************************************************************************)
(* The alert engine of the server (server/internal/alert/engine.go) for    *)
(* one rule and one agent: the two maps have one entry per agent and rule, *)
(* and entries do not interact.  Events are checked by the goroutines of   *)
(* the reports, several at a time; each works on the rules it found when   *)
(* it began, while the file may be loaded anew.  The engine's mutex makes  *)
(* the counting one step and the suppression another.                      *)
(***************************************************************************)
EXTENDS Integers, Sequences, FiniteSets

CONSTANTS
  Reports,      \* goroutines that check events
  Files,        \* editions of the rule in rules.toml: [count, window, named, dedup]
  NoRule,
  DedupMax,     \* dedupMaxWindow
  MaxEvents,    \* bound: events that match
  MaxNow        \* bound: the clock

Never == -1000   \* no entry in dedupMap

\* count = 0: the rule has no frequency.  The decoder finds the field of the
\* window by the name of the Go field; `named` says whether the file uses it.
Decoded(f) == [count |-> f.count, dedup |-> f.dedup,
               window |-> IF f.named THEN f.window ELSE 0]

Rules == {Decoded(f) : f \in Files}

ASSUME AlertAssumption ==
  /\ \A f \in Files : /\ f.count \in Nat /\ f.window \in Nat /\ f.named \in BOOLEAN
                      /\ f.dedup \in 1 .. DedupMax
  /\ DedupMax \in Nat /\ DedupMax < 1000 /\ MaxEvents \in Nat /\ MaxNow \in Nat
  /\ NoRule \notin Rules

VARIABLES
  file,      \* the rule as it is written
  rule,      \* the rule in the engine
  freqCount, \* the events whose times it holds, as positions in matched
  lastAlert, \* dedupMap
  report,    \* what each goroutine is doing, and with which rule
  clock,
  matched,   \* history: when events matched
  raised,    \* history: when alerts were raised
  edited     \* history: the rule has been edited

alertVars == <<file, rule, freqCount, lastAlert, report, clock, matched, raised, edited>>

Waiting == [pc |-> "idle", rule |-> NoRule, at |-> 0]

AlertInit ==
  /\ file \in Files
  /\ rule = Decoded(file)
  /\ freqCount = {}
  /\ lastAlert = Never
  /\ report = [h \in Reports |-> Waiting]
  /\ clock = 0
  /\ matched = <<>> /\ raised = <<>>
  /\ edited = FALSE

Later ==
  /\ clock < MaxNow
  /\ clock' = clock + 1
  /\ UNCHANGED <<file, rule, freqCount, lastAlert, report, matched, raised, edited>>

\* loadRules: a changed file replaces the rules; the counts stay.
LoadRules(f) ==
  /\ f # file
  /\ file' = f
  /\ rule' = Decoded(f)
  /\ edited' = TRUE
  /\ UNCHANGED <<freqCount, lastAlert, report, clock, matched, raised>>

\* CheckEvent takes the rules.
BeginCheck(h) ==
  /\ report[h].pc = "idle"
  /\ report' = [report EXCEPT ![h] = [pc |-> "count", rule |-> rule, at |-> 0]]
  /\ UNCHANGED <<file, rule, freqCount, lastAlert, clock, matched, raised, edited>>

\* A defect: an event that is as old as the window counts.
AfterOrAt(events, times, cutoff) == {i \in events : times[i] >= cutoff}
After(events, times, cutoff) == {i \in events : times[i] > cutoff}

\* The event does not match.
NoMatch(h) ==
  /\ report[h].pc = "count"
  /\ report' = [report EXCEPT ![h] = Waiting]
  /\ UNCHANGED <<file, rule, freqCount, lastAlert, clock, matched, raised, edited>>

\* It matches a rule without a frequency.
MatchAlone(h) ==
  /\ report[h].pc = "count" /\ report[h].rule.count = 0
  /\ Len(matched) < MaxEvents
  /\ matched' = Append(matched, clock)
  /\ report' = [report EXCEPT ![h] = [pc |-> "dedup", rule |-> @.rule, at |-> clock]]
  /\ UNCHANGED <<file, rule, freqCount, lastAlert, clock, raised, edited>>

\* It matches one with a frequency: its time is appended, those before the
\* window are dropped, and the rest is counted.
CountEvent(h) ==
  LET r == report[h].rule
      times == Append(matched, clock)
      recent == After(freqCount \cup {Len(times)}, times, clock - r.window)
  IN
  /\ report[h].pc = "count" /\ r.count > 0
  /\ Len(matched) < MaxEvents
  /\ freqCount' = recent
  /\ matched' = times
  /\ report' = [report EXCEPT ![h] =
       IF Cardinality(recent) < r.count THEN Waiting
       ELSE [pc |-> "dedup", rule |-> r, at |-> clock]]
  /\ UNCHANGED <<file, rule, lastAlert, clock, raised, edited>>

\* An alert of the rule was raised not long ago.
Suppress(h) ==
  /\ report[h].pc = "dedup"
  /\ clock - lastAlert < report[h].rule.dedup
  /\ report' = [report EXCEPT ![h] = Waiting]
  /\ UNCHANGED <<file, rule, freqCount, lastAlert, clock, matched, raised, edited>>

\* OnAlert is called with the mutex released.
Raise(h) ==
  /\ report[h].pc = "dedup"
  /\ clock - lastAlert >= report[h].rule.dedup
  /\ lastAlert' = clock
  /\ raised' = Append(raised, clock)
  /\ report' = [report EXCEPT ![h] = Waiting]
  /\ UNCHANGED <<file, rule, freqCount, clock, matched, edited>>

\* Defects: the counts are dropped with the rest; the time an alert is kept
\* for is shorter than the longest suppression.
CleanupDropsCounts ==
  /\ lastAlert' = IF lastAlert < clock - DedupMax THEN Never ELSE lastAlert
  /\ freqCount' = {}
  /\ UNCHANGED <<file, rule, report, clock, matched, raised, edited>>

CleanupTooSoon ==
  /\ lastAlert' = IF lastAlert <= clock - 1 THEN Never ELSE lastAlert
  /\ UNCHANGED <<file, rule, freqCount, report, clock, matched, raised, edited>>

\* cleanup, every thousandth check: what is too old to suppress anything goes;
\* the counts of the rule are not empty and stay.
Cleanup ==
  /\ lastAlert' = IF lastAlert < clock - DedupMax THEN Never ELSE lastAlert
  /\ UNCHANGED <<file, rule, freqCount, report, clock, matched, raised, edited>>

AlertNext ==
  \/ Later
  \/ \E f \in Files : LoadRules(f)
  \/ \E h \in Reports :
       \/ BeginCheck(h) \/ NoMatch(h) \/ MatchAlone(h) \/ CountEvent(h)
       \/ Suppress(h) \/ Raise(h)
  \/ Cleanup

AlertSpec == AlertInit /\ [][AlertNext]_alertVars

-----------------------------------------------------------------------------
(* Properties. *)

Within(times, from, to) == Cardinality({i \in DOMAIN times : from < times[i] /\ times[i] <= to})

\* Alerts of one rule and agent are never closer than the shortest time a
\* severity asks for, whatever the goroutines, the cleanup and the edits do.
AlertsSpaced ==
  \A i \in 1 .. Len(raised) - 1 : \E r \in Rules : raised[i + 1] - raised[i] >= r.dedup

\* A goroutine that is about to raise an alert has as many events of the
\* window behind it as its rule asks for, although others append to and trim
\* the same list and the rule may be edited meanwhile.
AlertJustified ==
  \A h \in Reports : report[h].pc = "dedup" =>
    LET r == report[h].rule IN Within(matched, report[h].at - r.window, report[h].at) >= r.count

Noticed(r) ==
  ~edited /\ (\A h \in Reports : report[h].pc # "dedup") =>
    \A i \in DOMAIN matched :
      Within(matched, matched[i] - r.window, matched[i]) >= r.count
        => \E j \in DOMAIN raised : raised[j] > matched[i] - r.dedup

\* Without an edit no burst goes by unnoticed: where enough events fall into
\* one window, an alert is raised or one has just been.
BurstAlerted == Noticed(rule)

(* What the shipped file says and the code does not do. *)

\* server/configs/rules.toml:22: three attempts within window_sec = 10 make an
\* alert.  The window is not decoded, and nothing falls into one of length 0.
WrittenFrequencyFires == Noticed(file)
=============================================================================

------------------------------ MODULE EventQueue ------------------------------
(***************************************************************************)
(* The way of an event from the probe callbacks to the server              *)
(* (agent/internal/agent/event_queue.go; eventReporter and flushEvents in  *)
(* agent.go): two bounded queues by priority that drop what they cannot    *)
(* hold, a goroutine that pops and forwards into a channel and gives up    *)
(* after a second, and the reporter that sends batches, full ones at once  *)
(* and the others at a tick.  Whatever the server does not take is gone.   *)
(*                                                                         *)
(* An event is its priority and its number among the accepted events of    *)
(* that priority.                                                          *)
(***************************************************************************)
EXTENDS Integers, Sequences, FiniteSets

CONSTANTS
  Producers,    \* the goroutines that call Push
  Capacity,     \* of the queue of each priority
  OutSize,      \* of the channel Consume returns
  BatchSize,    \* events in a full batch
  MaxPushes     \* bound: calls of Push that find the queue running

Priorities == {"high", "normal"}

ASSUME SizesAssumption ==
  /\ IsFiniteSet(Producers)
  /\ Capacity \in [Priorities -> Nat \ {0}]
  /\ OutSize \in Nat \ {0}
  /\ BatchSize \in Nat \ {0}
  /\ MaxPushes \in Nat

VARIABLES
  queue,      \* highQueue and lowQueue
  stopped,
  total,      \* totalHigh and totalLow
  dropped,    \* droppedHigh and droppedLow
  producer,   \* the priority a Push has counted and not yet queued, or "idle"
  sent,       \* history: how many events each queue has accepted
  consumer,   \* "check", "block" (in the two selects of Pop) or "forward"
  hand,       \* the event popped last
  out,        \* the channel to the reporter
  reporter,   \* "wait" or "flush"
  batch,
  unanswered, \* the ReportEvents under way is one the server never answers
  reported,   \* history: what the server has taken, in order
  overtaken   \* history: normal events popped while the first high one waits

vars == <<queue, stopped, total, dropped, producer, sent, consumer, hand, out,
          reporter, batch, unanswered, reported, overtaken>>

Events == Priorities \X (Nat \ {0})

TypeOK ==
  /\ queue \in [Priorities -> Seq(Events)]
  /\ \A p \in Priorities : Len(queue[p]) <= Capacity[p]
  /\ stopped \in BOOLEAN
  /\ total \in [Priorities -> Nat]
  /\ dropped \in [Priorities -> Nat]
  /\ producer \in [Producers -> Priorities \cup {"idle"}]
  /\ sent \in [Priorities -> Nat]
  /\ consumer \in {"check", "block", "forward"}
  /\ hand \in {<<>>} \cup Events
  /\ out \in Seq(Events) /\ Len(out) <= OutSize
  /\ reporter \in {"wait", "flush"}
  /\ batch \in Seq(Events) /\ Len(batch) <= BatchSize
  /\ unanswered \in BOOLEAN
  /\ reported \in Seq(Events)
  /\ overtaken \in Nat

Init ==
  /\ queue = [p \in Priorities |-> <<>>]
  /\ stopped = FALSE
  /\ total = [p \in Priorities |-> 0]
  /\ dropped = [p \in Priorities |-> 0]
  /\ producer = [r \in Producers |-> "idle"]
  /\ sent = [p \in Priorities |-> 0]
  /\ consumer = "check"
  /\ hand = <<>>
  /\ out = <<>>
  /\ reporter = "wait"
  /\ batch = <<>>
  /\ unanswered = FALSE
  /\ reported = <<>>
  /\ overtaken = 0

-----------------------------------------------------------------------------
(* Push: never blocks.  The check of stopped, the counter and the channel  *)
(* are three separate steps of the caller; the first two are taken as one. *)

Count(r, p) ==
  /\ producer[r] = "idle"
  /\ ~stopped
  /\ total["high"] + total["normal"] < MaxPushes
  /\ total' = [total EXCEPT ![p] = @ + 1]
  /\ producer' = [producer EXCEPT ![r] = p]
  /\ UNCHANGED <<queue, stopped, dropped, sent, consumer, hand, out, reporter,
                 batch, unanswered, reported, overtaken>>

Room(p) == Len(queue[p]) < Capacity[p]

Enqueue(r) ==
  /\ producer[r] # "idle"
  /\ LET p == producer[r] IN
       /\ Room(p)
       /\ queue' = [queue EXCEPT ![p] = Append(@, <<p, sent[p] + 1>>)]
       /\ sent' = [sent EXCEPT ![p] = @ + 1]
  /\ producer' = [producer EXCEPT ![r] = "idle"]
  /\ UNCHANGED <<stopped, total, dropped, consumer, hand, out, reporter, batch,
                 unanswered, reported, overtaken>>

Drop(r) ==
  /\ producer[r] # "idle"
  /\ ~Room(producer[r])
  /\ dropped' = [dropped EXCEPT ![producer[r]] = @ + 1]
  /\ producer' = [producer EXCEPT ![r] = "idle"]
  /\ UNCHANGED <<queue, stopped, total, sent, consumer, hand, out, reporter,
                 batch, unanswered, reported, overtaken>>

Stop ==
  /\ ~stopped
  /\ stopped' = TRUE
  /\ UNCHANGED <<queue, total, dropped, producer, sent, consumer, hand, out,
                 reporter, batch, unanswered, reported, overtaken>>

-----------------------------------------------------------------------------
(* The goroutine of Consume: Pop looks at the high queue first, then waits *)
(* for either; a select with both ready takes any.                         *)

Take(p) ==
  /\ queue[p] # <<>>
  /\ hand' = Head(queue[p])
  /\ queue' = [queue EXCEPT ![p] = Tail(@)]
  /\ overtaken' = IF p = "high" THEN 0
                  ELSE IF queue["high"] = <<>> THEN overtaken ELSE overtaken + 1
  /\ consumer' = "forward"

PassOn == /\ consumer' = "block"
          /\ UNCHANGED <<queue, hand, overtaken>>

LookAtEither == PassOn      \* a defect: Pop waits for both queues at once

LookAtHigh == IF queue["high"] # <<>> THEN Take("high") ELSE PassOn

PopCheck ==
  /\ consumer = "check"
  /\ LookAtHigh
  /\ UNCHANGED <<stopped, total, dropped, producer, sent, out, reporter, batch,
                 unanswered, reported>>

PopBlock ==
  /\ consumer = "block"
  /\ \E p \in Priorities : Take(p)
  /\ UNCHANGED <<stopped, total, dropped, producer, sent, out, reporter, batch,
                 unanswered, reported>>

Forward ==
  /\ consumer = "forward"
  /\ Len(out) < OutSize
  /\ out' = Append(out, hand)
  /\ consumer' = "check"
  /\ hand' = <<>>
  /\ UNCHANGED <<queue, stopped, total, dropped, producer, sent, reporter,
                 batch, unanswered, reported, overtaken>>

ForwardTimeout ==   \* after a second with the channel full
  /\ consumer = "forward"
  /\ Len(out) = OutSize
  /\ consumer' = "check"
  /\ hand' = <<>>
  /\ UNCHANGED <<queue, stopped, total, dropped, producer, sent, out, reporter,
                 batch, unanswered, reported, overtaken>>

-----------------------------------------------------------------------------
(* eventReporter and flushEvents. *)

Gather ==
  /\ reporter = "wait"
  /\ out # <<>>
  /\ batch' = Append(batch, Head(out))
  /\ out' = Tail(out)
  /\ reporter' = IF Len(batch) + 1 >= BatchSize THEN "flush" ELSE "wait"
  /\ UNCHANGED <<queue, stopped, total, dropped, producer, sent, consumer,
                 hand, unanswered, reported, overtaken>>

DueWhenFull == Len(batch) >= BatchSize  \* a defect: the tick waits for a full batch

Due == batch # <<>>

Tick ==
  /\ reporter = "wait"
  /\ Due
  /\ reporter' = "flush"
  /\ UNCHANGED <<queue, stopped, total, dropped, producer, sent, consumer,
                 hand, out, batch, unanswered, reported, overtaken>>

\* The server takes the batch, or the agent is not connected, the call is
\* refused or its connection ends; then the batch may have arrived all the same.
SendAgain ==    \* a defect: a batch that seems to have failed is kept for later
  \/ reported' = reported \o batch /\ batch' = <<>>
  \/ reported' \in {reported, reported \o batch} /\ UNCHANGED batch

Send ==
  /\ reported' \in {reported, reported \o batch}
  /\ batch' = <<>>

Flush ==
  /\ reporter = "flush"
  /\ ~unanswered
  /\ Send
  /\ reporter' = "wait"
  /\ UNCHANGED <<queue, stopped, total, dropped, producer, sent, consumer,
                 hand, out, unanswered, overtaken>>

\* The server does not answer.  The 5 seconds flushEvents allows do not reach
\* the call: getAuthContext puts authContext, which has no deadline, in their
\* place.  The reporter waits until the connection ends.
Unanswered ==
  /\ reporter = "flush"
  /\ ~unanswered
  /\ unanswered' = TRUE
  /\ UNCHANGED <<queue, stopped, total, dropped, producer, sent, consumer,
                 hand, out, reporter, batch, reported, overtaken>>

\* The heartbeat loop dials anew, or the server or TCP closes the connection.
ConnectionEnds ==
  /\ unanswered
  /\ unanswered' = FALSE
  /\ Send
  /\ reporter' = "wait"
  /\ UNCHANGED <<queue, stopped, total, dropped, producer, sent, consumer,
                 hand, out, overtaken>>

Push == \E r \in Producers : (\E p \in Priorities : Count(r, p)) \/ Enqueue(r) \/ Drop(r)
Consume == PopCheck \/ PopBlock \/ Forward \/ ForwardTimeout
Report  == Gather \/ Tick \/ Flush

Next == Push \/ Stop \/ Consume \/ Report \/ Unanswered \/ ConnectionEnds

Spec == Init /\ [][Next]_vars

\* The goroutines run, the ticker fires, a call of Push does not pause, and an
\* answered call returns.  That an unanswered one ends is not assumed.
Fairness ==
  /\ \A r \in Producers : WF_vars(Enqueue(r) \/ Drop(r))
  /\ WF_vars(Consume)
  /\ WF_vars(Gather) /\ WF_vars(Tick) /\ WF_vars(Flush)

FairSpec == Spec /\ Fairness

-----------------------------------------------------------------------------
(* Properties. *)

\* Everything not reported or dropped yet, in the order of its way.
InHand   == IF hand = <<>> THEN <<>> ELSE <<hand>>
Pipeline == reported \o batch \o out \o InHand
Way(p)   == Pipeline \o queue[p]

\* The server sees the events of one priority in the order they were accepted
\* and none of them twice, through drops, slow forwarding and failed batches.
InOrder ==
  \A p \in Priorities : \A i, j \in DOMAIN Way(p) :
    i < j /\ Way(p)[i][1] = p /\ Way(p)[j][1] = p => Way(p)[i][2] < Way(p)[j][2]

\* The statistics account for every call: an event counted is an event queued,
\* or counted as dropped, or still in the hands of a Push.
StatsAddUp ==
  \A p \in Priorities :
    total[p] = sent[p] + dropped[p] + Cardinality({r \in Producers : producer[r] = p})

\* High events are delivered first: although the second select of Pop takes
\* either queue, at most one normal event gets past a waiting high event.
HighFirst == overtaken <= 1

\* Whatever is accepted leaves the agent, reported or dropped: nothing stays
\* behind in a queue or in a batch that is never full, as long as the reporter
\* is not left waiting for ever for the answer to a call.
Empty == batch = <<>> /\ out = <<>> /\ hand = <<>> /\ \A p \in Priorities : queue[p] = <<>>
EverythingLeaves == []<>~unanswered => (~Empty ~> Empty)

(* What the documents say and the code does not do. *)

\* DESIGN.txt 4.3, and the 5 seconds in flushEvents: when the server cannot
\* take events the report times out, and the agent goes on without them.
ReportTimesOut == ~Empty ~> Empty
=============================================================================

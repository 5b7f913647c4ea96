--------------------------- MODULE EventQueueProofs ---------------------------
(***************************************************************************)
(* Proofs about EventQueue, for any producers, capacities and batch size.  *)
(*                                                                         *)
(* HighFirst is inductive once it is known where the consumer stands: it   *)
(* only waits for both queues after it has found the high one empty, and   *)
(* from then on one normal event is all it can take before it looks again. *)
(***************************************************************************)
EXTENDS EventQueue, FiniteSetTheorems, SequenceTheorems, TLAPS

Standing ==
  /\ reporter = "wait" => Len(batch) < BatchSize
  /\ consumer = "forward" => hand \in Events

Overtaking ==
  /\ overtaken <= 1
  /\ queue["high"] = <<>> => overtaken = 0
  /\ consumer = "block" => overtaken = 0

IInv == TypeOK /\ Standing /\ Overtaking /\ StatsAddUp

\* Initially everything is empty and nothing is counted.
LEMMA InitIInv == Init => IInv
<1> SUFFICES ASSUME Init PROVE IInv
  OBVIOUS
<1> USE SizesAssumption DEF Init
<1>1. TypeOK
  <2>1. queue \in [Priorities -> Seq(Events)]
    OBVIOUS
  <2>2. \A p \in Priorities : Len(queue[p]) <= Capacity[p]
    OBVIOUS
  <2>3. total \in [Priorities -> Nat] /\ dropped \in [Priorities -> Nat]
    OBVIOUS
  <2>4. sent \in [Priorities -> Nat] /\ overtaken \in Nat
    OBVIOUS
  <2>5. producer \in [Producers -> Priorities \cup {"idle"}]
    OBVIOUS
  <2>6. /\ out \in Seq(Events) /\ Len(out) <= OutSize
        /\ batch \in Seq(Events) /\ Len(batch) <= BatchSize
        /\ reported \in Seq(Events)
    OBVIOUS
  <2> QED BY <2>1, <2>2, <2>3, <2>4, <2>5, <2>6 DEF TypeOK
<1>2. Standing /\ Overtaking
  BY DEF Standing, Overtaking, Priorities
<1>3. StatsAddUp
  <2>1. ASSUME NEW p \in Priorities
        PROVE  {r \in Producers : producer[r] = p} = {}
    BY DEF Priorities
  <2>2. ASSUME NEW p \in Priorities
        PROVE  total[p] = 0 /\ sent[p] = 0 /\ dropped[p] = 0
    OBVIOUS
  <2>3. ASSUME NEW p \in Priorities
        PROVE  Cardinality({r \in Producers : producer[r] = p}) = 0
    BY <2>1, FS_EmptySet
  <2> QED BY <2>2, <2>3 DEF StatsAddUp
<1> QED BY <1>1, <1>2, <1>3 DEF IInv

\* Taking the first event of a queue yields an event and leaves a shorter queue.
LEMMA TakeTyped ==
  ASSUME TypeOK, NEW p \in Priorities, Take(p)
  PROVE  /\ hand' \in Events
         /\ queue' \in [Priorities -> Seq(Events)]
         /\ \A q \in Priorities : Len(queue'[q]) <= Capacity[q]
         /\ overtaken' \in Nat
<1>1. /\ Head(queue[p]) \in Events /\ Tail(queue[p]) \in Seq(Events)
      /\ Len(Tail(queue[p])) <= Capacity[p]
  <2>1. /\ queue[p] \in Seq(Events) /\ Len(queue[p]) <= Capacity[p]
        /\ Capacity[p] \in Nat /\ queue[p] # <<>>
    BY SizesAssumption DEF Take, TypeOK
  <2> QED BY <2>1
<1>2. overtaken' \in Nat
  BY DEF Take, TypeOK
<1> QED BY <1>1, <1>2 DEF Take, TypeOK

\* Every action keeps the type invariant and the standing of the goroutines.
LEMMA TypeStep == TypeOK /\ Standing /\ [Next]_vars => TypeOK' /\ Standing'
<1> SUFFICES ASSUME TypeOK, Standing, [Next]_vars PROVE TypeOK' /\ Standing'
  OBVIOUS
<1> USE SizesAssumption
<1>1. ASSUME NEW r \in Producers, NEW p \in Priorities, Count(r, p)
      PROVE  TypeOK' /\ Standing'
  <2>1. total' \in [Priorities -> Nat]
    <3>1. total \in [Priorities -> Nat] /\ total[p] \in Nat
      BY DEF TypeOK
    <3>2. total' = [total EXCEPT ![p] = @ + 1]
      BY <1>1 DEF Count
    <3> QED BY <3>1, <3>2
  <2>2. producer' \in [Producers -> Priorities \cup {"idle"}]
    BY <1>1 DEF Count, TypeOK
  <2> QED BY <1>1, <2>1, <2>2 DEF Count, TypeOK, Standing
<1>2. ASSUME NEW r \in Producers, Enqueue(r) PROVE TypeOK' /\ Standing'
  <2> DEFINE p == producer[r]
             e == <<p, sent[p] + 1>>
  <2>1. p \in Priorities /\ sent[p] \in Nat /\ queue[p] \in Seq(Events)
    BY <1>2 DEF Enqueue, TypeOK
  <2>2. e \in Events
    BY <2>1 DEF Events
  <2>3. /\ queue' = [queue EXCEPT ![p] = Append(@, e)]
        /\ sent' = [sent EXCEPT ![p] = @ + 1]
        /\ Len(queue[p]) < Capacity[p]
    BY <1>2 DEF Enqueue, Room
  <2> HIDE DEF p, e
  <2>4. /\ queue' \in [Priorities -> Seq(Events)]
        /\ \A q \in Priorities : Len(queue'[q]) <= Capacity[q]
    BY <2>1, <2>2, <2>3 DEF TypeOK
  <2>5. sent' \in [Priorities -> Nat]
    BY <2>1, <2>3 DEF TypeOK
  <2> QED BY <1>2, <2>4, <2>5 DEF Enqueue, TypeOK, Standing
<1>3. ASSUME NEW r \in Producers, Drop(r) PROVE TypeOK' /\ Standing'
  BY <1>3 DEF Drop, TypeOK, Standing
<1>4. CASE Stop
  BY <1>4 DEF Stop, TypeOK, Standing
<1>5. CASE PopCheck
  <2>1. CASE queue["high"] # <<>>
    <3>1. Take("high") /\ "high" \in Priorities
      BY <1>5, <2>1 DEF PopCheck, LookAtHigh, Priorities
    <3> QED BY <1>5, <3>1, TakeTyped DEF PopCheck, Take, TypeOK, Standing
  <2>2. CASE queue["high"] = <<>>
    BY <1>5, <2>2 DEF PopCheck, LookAtHigh, PassOn, TypeOK, Standing
  <2> QED BY <2>1, <2>2
<1>6. CASE PopBlock
  <2>1. PICK p \in Priorities : Take(p)
    BY <1>6 DEF PopBlock
  <2> QED BY <1>6, <2>1, TakeTyped DEF PopBlock, Take, TypeOK, Standing
<1>7. CASE Forward
  BY <1>7 DEF Forward, TypeOK, Standing
<1>8. CASE ForwardTimeout
  BY <1>8 DEF ForwardTimeout, TypeOK, Standing
<1>9. CASE Gather
  <2>1. /\ batch' \in Seq(Events) /\ Len(batch') = Len(batch) + 1
        /\ out' \in Seq(Events) /\ Len(out') <= OutSize
    BY <1>9 DEF Gather, TypeOK
  <2> QED BY <1>9, <2>1 DEF Gather, TypeOK, Standing
<1>10. CASE Tick
  BY <1>10 DEF Tick, TypeOK, Standing
<1>11. CASE Flush \/ ConnectionEnds
  <2>1. reported' \in Seq(Events)
    <3>1. reported \in Seq(Events) /\ batch \in Seq(Events)
      BY DEF TypeOK
    <3>2. reported \o batch \in Seq(Events)
      BY <3>1
    <3> QED BY <1>11, <3>1, <3>2 DEF Flush, ConnectionEnds, Send
  <2>2. batch' = <<>> /\ batch' \in Seq(Events) /\ Len(batch') = 0
    <3>1. batch' = <<>>
      BY <1>11 DEF Flush, ConnectionEnds, Send
    <3> QED BY <3>1
  <2>3. unanswered' \in BOOLEAN
    BY <1>11 DEF Flush, ConnectionEnds, TypeOK
  <2>4. Standing'
    BY <1>11, <2>2 DEF Flush, ConnectionEnds, Standing
  <2> QED BY <1>11, <2>1, <2>2, <2>3, <2>4 DEF Flush, ConnectionEnds, TypeOK
<1>12. CASE Unanswered
  BY <1>12 DEF Unanswered, TypeOK, Standing
<1>13. CASE UNCHANGED vars
  BY <1>13 DEF vars, TypeOK, Standing
<1> QED
  BY <1>1, <1>2, <1>3, <1>4, <1>5, <1>6, <1>7, <1>8, <1>9, <1>10, <1>11,
     <1>12, <1>13 DEF Next, Push, Consume, Report

\* The consumer takes at most one normal event before it looks at the high
\* queue again.
LEMMA OvertakingStep == TypeOK /\ Overtaking /\ [Next]_vars => Overtaking'
<1> SUFFICES ASSUME TypeOK, Overtaking, [Next]_vars PROVE Overtaking'
  OBVIOUS
<1>0. /\ overtaken \in Nat
      /\ "high" \in Priorities /\ "normal" \in Priorities
      /\ queue \in [Priorities -> Seq(Events)]
  BY DEF TypeOK, Priorities
<1>1. ASSUME NEW r \in Producers, Enqueue(r) PROVE Overtaking'
  <2>1. queue'["high"] = <<>> => queue["high"] = <<>>
    <3>1. CASE producer[r] = "high"
      <4> DEFINE e == <<"high", sent["high"] + 1>>
      <4>1. queue'["high"] = Append(queue["high"], e)
        BY <1>0, <1>1, <3>1 DEF Enqueue
      <4> HIDE DEF e
      <4>2. queue["high"] \in Seq(Events)
        BY <1>0
      <4>3. Append(queue["high"], e) # <<>>
        BY <4>2
      <4> QED BY <4>1, <4>3
    <3>2. CASE producer[r] # "high"
      BY <1>0, <1>1, <3>2 DEF Enqueue
    <3> QED BY <3>1, <3>2
  <2> QED BY <1>1, <2>1 DEF Enqueue, Overtaking
<1>2. CASE PopCheck
  BY <1>0, <1>2 DEF PopCheck, LookAtHigh, PassOn, Take, Overtaking
<1>3. CASE PopBlock
  <2>1. PICK p \in Priorities : Take(p)
    BY <1>3 DEF PopBlock
  <2>2. overtaken = 0
    BY <1>3 DEF PopBlock, Overtaking
  <2>3. CASE p = "high"
    BY <2>1, <2>3 DEF Take, Overtaking
  <2>4. CASE p # "high"
    <3>1. queue'["high"] = queue["high"]
      BY <1>0, <2>1, <2>4 DEF Take
    <3> QED BY <2>1, <2>2, <2>4, <3>1 DEF Take, Overtaking
  <2> QED BY <2>3, <2>4
<1>4. CASE UNCHANGED <<queue, overtaken>> /\ (consumer' = "block" => consumer = "block")
  BY <1>4 DEF Overtaking
<1> QED
  BY <1>1, <1>2, <1>3, <1>4
     DEF Next, Push, Consume, Report, Count, Drop, Stop, Forward,
         ForwardTimeout, Gather, Tick, Flush, Unanswered, ConnectionEnds, vars

\* The producers that have counted an event of priority p.
Counting(p) == {r \in Producers : producer[r] = p}

\* A producer that starts or ends a Push changes one count by one.
LEMMA CountingStep ==
  ASSUME TypeOK, NEW r \in Producers, NEW p \in Priorities
  PROVE  /\ Cardinality(Counting(p)) \in Nat
         /\ producer[r] = "idle" /\ producer' = [producer EXCEPT ![r] = p]
              => Cardinality(Counting(p)') = Cardinality(Counting(p)) + 1
         /\ producer[r] = p /\ producer' = [producer EXCEPT ![r] = "idle"]
              => Cardinality(Counting(p)') = Cardinality(Counting(p)) - 1
         /\ \A q \in Priorities : q # p /\ (\/ producer' = [producer EXCEPT ![r] = p]
                                              /\ producer[r] = "idle"
                                            \/ producer' = [producer EXCEPT ![r] = "idle"]
                                              /\ producer[r] = p)
              => Counting(q)' = Counting(q)
<1>0. IsFiniteSet(Counting(p)) /\ p # "idle"
  BY SizesAssumption, FS_Subset DEF Counting, Priorities
<1>1. Cardinality(Counting(p)) \in Nat
  BY <1>0, FS_CardinalityType
<1>2. ASSUME producer[r] = "idle", producer' = [producer EXCEPT ![r] = p]
      PROVE  Cardinality(Counting(p)') = Cardinality(Counting(p)) + 1
  <2>1. Counting(p)' = Counting(p) \cup {r} /\ r \notin Counting(p)
    BY <1>0, <1>2 DEF TypeOK, Counting
  <2> QED BY <1>0, <2>1, FS_AddElement
<1>3. ASSUME producer[r] = p, producer' = [producer EXCEPT ![r] = "idle"]
      PROVE  Cardinality(Counting(p)') = Cardinality(Counting(p)) - 1
  <2>1. Counting(p)' = Counting(p) \ {r} /\ r \in Counting(p)
    BY <1>0, <1>3 DEF TypeOK, Counting
  <2> QED BY <1>0, <2>1, FS_RemoveElement
<1>4. ASSUME NEW q \in Priorities, q # p,
             \/ producer' = [producer EXCEPT ![r] = p] /\ producer[r] = "idle"
             \/ producer' = [producer EXCEPT ![r] = "idle"] /\ producer[r] = p
      PROVE  Counting(q)' = Counting(q)
  BY <1>4 DEF TypeOK, Counting, Priorities
<1> QED BY <1>1, <1>2, <1>3, <1>4

\* Every call of Push is counted once and ends as queued or as dropped.
LEMMA StatsStep == TypeOK /\ StatsAddUp /\ [Next]_vars => StatsAddUp'
<1> SUFFICES ASSUME TypeOK, StatsAddUp, [Next]_vars PROVE StatsAddUp'
  OBVIOUS
<1>0. /\ total \in [Priorities -> Nat] /\ dropped \in [Priorities -> Nat]
      /\ sent \in [Priorities -> Nat]
      /\ \A p \in Priorities :
           total[p] = sent[p] + dropped[p] + Cardinality(Counting(p))
  BY DEF TypeOK, StatsAddUp, Counting
<1> DEFINE Sum(q) == total[q] = sent[q] + dropped[q] + Cardinality(Counting(q))
<1>1. ASSUME NEW r \in Producers, NEW p \in Priorities, Count(r, p),
             NEW q \in Priorities
      PROVE  Sum(q)'
  <2>1. /\ producer[r] = "idle" /\ producer' = [producer EXCEPT ![r] = p]
        /\ sent' = sent /\ dropped' = dropped
        /\ total' = [total EXCEPT ![p] = @ + 1]
    BY <1>1 DEF Count
  <2>2. CASE q = p
    <3>1. Cardinality(Counting(p)') = Cardinality(Counting(p)) + 1
      BY <2>1, CountingStep
    <3>2. Cardinality(Counting(p)) \in Nat
      BY CountingStep
    <3> QED BY <1>0, <2>1, <2>2, <3>1, <3>2
  <2>3. CASE q # p
    <3>1. Counting(q)' = Counting(q)
      BY <2>1, <2>3, CountingStep
    <3> QED BY <1>0, <2>1, <2>3, <3>1
  <2> QED BY <2>2, <2>3
<1>2. ASSUME NEW r \in Producers, Enqueue(r) \/ Drop(r), NEW q \in Priorities
      PROVE  Sum(q)'
  <2>0. PICK p \in Priorities : p = producer[r]
    BY <1>2 DEF Enqueue, Drop, TypeOK
  <2>1. /\ producer' = [producer EXCEPT ![r] = "idle"]
        /\ total' = total
        /\ \/ sent' = [sent EXCEPT ![p] = @ + 1] /\ dropped' = dropped
           \/ dropped' = [dropped EXCEPT ![p] = @ + 1] /\ sent' = sent
    BY <1>2, <2>0 DEF Enqueue, Drop
  <2>2. producer[r] = p
    BY <2>0
  <2>3. CASE q = p
    <3>1. Cardinality(Counting(p)') = Cardinality(Counting(p)) - 1
      BY <2>1, <2>2, CountingStep
    <3>2. Cardinality(Counting(p)) \in Nat
      BY CountingStep
    <3> QED BY <1>0, <2>1, <2>3, <3>1, <3>2
  <2>4. CASE q # p
    <3>1. Counting(q)' = Counting(q)
      BY <2>1, <2>2, <2>4, CountingStep
    <3> QED BY <1>0, <2>1, <2>4, <3>1
  <2> QED BY <2>3, <2>4
<1>3. CASE UNCHANGED <<total, sent, dropped, producer>>
  BY <1>3 DEF StatsAddUp
<1>4. ASSUME \A q \in Priorities : Sum(q)' PROVE StatsAddUp'
  BY <1>4 DEF StatsAddUp, Counting
<1> HIDE DEF Sum
<1> QED
  BY <1>1, <1>2, <1>3, <1>4
     DEF Next, Push, Consume, Report, Stop, PopCheck, LookAtHigh, PassOn, Take,
         PopBlock, Forward, ForwardTimeout, Gather, Tick, Flush, Unanswered,
         ConnectionEnds, vars

-----------------------------------------------------------------------------
(* The order of the events.  What a step does to the pipeline is to add an *)
(* event at its end or to leave out events anywhere in it.                 *)

\* Events of one priority have increasing numbers ...
Ordered(s) == \A i, j \in DOMAIN s : i < j /\ s[i][1] = s[j][1] => s[i][2] < s[j][2]

\* ... and those of s smaller ones than those of t.
Ahead(s, t) == \A i \in DOMAIN s, j \in DOMAIN t : s[i][1] = t[j][1] => s[i][2] < t[j][2]

\* They are numbers of accepted events.
Bounded(s, counts) == \A i \in DOMAIN s : s[i][2] <= counts[s[i][1]]

\* The events of s are some of those of t, in the same order.
Thinned(s, t) ==
  \E f \in [DOMAIN s -> DOMAIN t] :
    /\ \A i \in DOMAIN s : s[i] = t[f[i]]
    /\ \A i, j \in DOMAIN s : i < j => f[i] < f[j]

Queued(p) ==
  /\ Ordered(queue[p]) /\ Bounded(queue[p], sent) /\ Ahead(Pipeline, queue[p])
  /\ \A i \in DOMAIN queue[p] : queue[p][i][1] = p

OInv ==
  /\ consumer # "forward" => hand = <<>>
  /\ Ordered(Pipeline) /\ Bounded(Pipeline, sent)
  /\ \A p \in Priorities : Queued(p)

\* Leaving out events disturbs nothing.
LEMMA ThinnedKeeps ==
  ASSUME NEW s \in Seq(Events), NEW t \in Seq(Events), Thinned(s, t)
  PROVE  /\ Ordered(t) => Ordered(s)
         /\ \A n : Bounded(t, n) => Bounded(s, n)
         /\ \A u : Ahead(t, u) => Ahead(s, u)
<1>1. PICK f \in [DOMAIN s -> DOMAIN t] :
        /\ \A i \in DOMAIN s : s[i] = t[f[i]]
        /\ \A i, j \in DOMAIN s : i < j => f[i] < f[j]
  BY DEF Thinned
<1>2. \A i \in DOMAIN s : f[i] \in DOMAIN t
  BY <1>1
<1>3. Ordered(t) => Ordered(s)
  BY <1>1, <1>2 DEF Ordered
<1>4. ASSUME NEW n, Bounded(t, n) PROVE Bounded(s, n)
  BY <1>1, <1>4, <1>2 DEF Bounded
<1>5. ASSUME NEW u, Ahead(t, u) PROVE Ahead(s, u)
  BY <1>1, <1>2, <1>5 DEF Ahead
<1> QED BY <1>3, <1>4, <1>5

\* The pipeline is a sequence of events.
LEMMA PipelineTyped == TypeOK => InHand \in Seq(Events) /\ Pipeline \in Seq(Events)
<1> SUFFICES ASSUME TypeOK PROVE InHand \in Seq(Events) /\ Pipeline \in Seq(Events)
  OBVIOUS
<1>1. InHand \in Seq(Events)
  BY DEF InHand, TypeOK
<1> QED BY <1>1 DEF Pipeline, TypeOK

\* A middle part of a sequence can be left out.
LEMMA CutThins ==
  ASSUME NEW a \in Seq(Events), NEW b \in Seq(Events), NEW c \in Seq(Events)
  PROVE  Thinned(a \o c, a \o b \o c)
<1> DEFINE s == a \o c
           t == a \o b \o c
           f == [i \in DOMAIN s |-> IF i <= Len(a) THEN i ELSE i + Len(b)]
<1>1. /\ Len(a) \in Nat /\ Len(b) \in Nat /\ Len(c) \in Nat
      /\ DOMAIN s = 1 .. Len(a) + Len(c)
      /\ DOMAIN t = 1 .. Len(a) + Len(b) + Len(c)
  OBVIOUS
<1>2. f \in [DOMAIN s -> DOMAIN t]
  BY <1>1
<1>3. \A i \in DOMAIN s : s[i] = t[f[i]]
  BY <1>1
<1>4. \A i, j \in DOMAIN s : i < j => f[i] < f[j]
  BY <1>1
<1> HIDE DEF s, t, f
<1>5. Thinned(s, t)
  BY <1>2, <1>3, <1>4 DEF Thinned
<1> QED BY <1>5 DEF s, t

\* Moving the first event of one sequence to the end of the one before it.
LEMMA MoveConcat ==
  ASSUME NEW a \in Seq(Events), NEW b \in Seq(Events), b # <<>>
  PROVE  Append(a, Head(b)) \o Tail(b) = a \o b
<1>1. Append(a, Head(b)) \in Seq(Events) /\ Tail(b) \in Seq(Events)
  OBVIOUS
<1>2. Append(a, Head(b)) \o Tail(b) \in Seq(Events) /\ a \o b \in Seq(Events)
  BY <1>1
<1>3. Len(Append(a, Head(b)) \o Tail(b)) = Len(a \o b)
  BY <1>1
<1>4. \A i \in 1 .. Len(a \o b) : (Append(a, Head(b)) \o Tail(b))[i] = (a \o b)[i]
  BY <1>1
<1> HIDE <1>1
<1> QED BY <1>2, <1>3, <1>4, SeqEqual, Zenon

\* Steps that only leave out events, or move them on.
LEMMA ThinStep ==
  ASSUME TypeOK, TypeOK', OInv, Thinned(Pipeline', Pipeline) \/ Pipeline' = Pipeline,
         UNCHANGED <<queue, sent>>, consumer' # "forward" => hand' = <<>>
  PROVE  OInv'
<1>1. Pipeline \in Seq(Events) /\ Pipeline' \in Seq(Events)
  <2>1. InHand' \in Seq(Events)
    BY DEF InHand, TypeOK
  <2> QED BY <2>1, PipelineTyped DEF Pipeline, TypeOK
<1>2. /\ Ordered(Pipeline') /\ Bounded(Pipeline', sent)
      /\ \A p \in Priorities : Ahead(Pipeline', queue[p])
  BY <1>1, ThinnedKeeps DEF OInv, Queued
<1>3. ASSUME NEW p \in Priorities PROVE Queued(p)'
  BY <1>2 DEF OInv, Queued
<1> QED BY <1>2, <1>3 DEF OInv

\* An event that enters a queue is numbered after all the others.
LEMMA EnqueueStep == ASSUME TypeOK, OInv, NEW r \in Producers, Enqueue(r) PROVE OInv'
<1> DEFINE p == producer[r]
           e == <<p, sent[p] + 1>>
<1>1. /\ p \in Priorities
      /\ queue' = [queue EXCEPT ![p] = Append(@, e)]
      /\ sent' = [sent EXCEPT ![p] = @ + 1]
      /\ UNCHANGED <<hand, out, batch, reported, consumer>>
  BY DEF Enqueue, TypeOK
<1>2. Pipeline' = Pipeline /\ Pipeline \in Seq(Events)
  BY <1>1, PipelineTyped DEF Pipeline, InHand
<1>3. \A q \in Priorities : sent[q] \in Nat /\ sent'[q] \in Nat /\ sent[q] <= sent'[q]
  BY <1>1 DEF TypeOK
<1>4. e \in Events /\ e[1] = p /\ e[2] = sent[p] + 1 /\ sent'[p] = sent[p] + 1
  BY <1>1, <1>3 DEF Events, TypeOK
<1> HIDE DEF p, e
<1>5. ASSUME NEW s \in Seq(Events), Bounded(s, sent) PROVE Bounded(s, sent')
  <2> SUFFICES ASSUME NEW i \in DOMAIN s PROVE s[i][2] <= sent'[s[i][1]]
    BY DEF Bounded
  <2>1. s[i] \in Events /\ s[i][1] \in Priorities /\ s[i][2] \in Nat
    BY DEF Events
  <2> QED BY <1>3, <1>5, <2>1 DEF Bounded
<1>6. ASSUME NEW q \in Priorities PROVE Queued(q)'
  <2>1. queue[q] \in Seq(Events) /\ Queued(q) /\ Bounded(queue[q], sent')
    BY <1>5 DEF TypeOK, OInv, Queued
  <2>2. CASE q # p
    <3>1. queue'[q] = queue[q]
      BY <1>1, <2>2 DEF TypeOK
    <3> QED BY <1>2, <2>1, <3>1 DEF Queued
  <2>3. CASE q = p
    <3>1. queue'[q] = Append(queue[q], e)
      BY <1>1, <2>3 DEF TypeOK
    <3> DEFINE s == queue[q]
               t == Append(s, e)
    <3>2. /\ t \in Seq(Events) /\ DOMAIN s = 1 .. Len(s) /\ Len(s) \in Nat
          /\ DOMAIN t = 1 .. Len(s) + 1 /\ t[Len(s) + 1] = e
          /\ \A i \in 1 .. Len(s) : t[i] = s[i] /\ s[i] \in Events
      BY <1>4, <2>1
    <3>3. \A i \in 1 .. Len(s) : s[i][1] = p /\ s[i][2] \in Nat /\ s[i][2] <= sent[p]
      BY <2>1, <2>3, <3>2 DEF Queued, OInv, Bounded, Events
    <3> HIDE DEF t
    <3>4. Ordered(t)
      <4> SUFFICES ASSUME NEW i \in DOMAIN t, NEW j \in DOMAIN t, i < j, t[i][1] = t[j][1]
                   PROVE  t[i][2] < t[j][2]
        BY DEF Ordered
      <4>1. i \in 1 .. Len(s)
        BY <3>2
      <4>2. CASE j = Len(s) + 1
        BY <1>1, <1>3, <1>4, <3>2, <3>3, <4>1, <4>2
      <4>3. CASE j \in 1 .. Len(s)
        BY <2>1, <3>2, <4>1, <4>3 DEF Ordered, Queued
      <4> QED BY <3>2, <4>2, <4>3
    <3>5. Bounded(t, sent')
      <4> SUFFICES ASSUME NEW i \in DOMAIN t PROVE t[i][2] <= sent'[t[i][1]]
        BY DEF Bounded
      <4>1. CASE i = Len(s) + 1
        BY <1>1, <1>3, <1>4, <3>2, <4>1
      <4>2. CASE i \in 1 .. Len(s)
        BY <1>1, <1>3, <3>2, <3>3, <4>2
      <4> QED BY <3>2, <4>1, <4>2
    <3>6. Ahead(Pipeline, t)
      <4>1. SUFFICES ASSUME NEW i \in DOMAIN Pipeline, Pipeline[i][1] = p
                     PROVE  Pipeline[i][2] < sent[p] + 1
        BY <1>4, <2>1, <3>2 DEF Ahead, Queued
      <4>2. Pipeline[i] \in Events /\ Pipeline[i][2] <= sent[p]
        BY <1>2, <4>1 DEF OInv, Bounded
      <4> QED BY <1>1, <1>3, <4>2 DEF Events
    <3>7. \A i \in DOMAIN t : t[i][1] = p
      BY <1>4, <3>2, <3>3
    <3> QED BY <1>2, <2>3, <3>1, <3>4, <3>5, <3>6, <3>7 DEF Queued, t
  <2> QED BY <2>2, <2>3
<1> QED BY <1>1, <1>2, <1>5, <1>6 DEF OInv

\* The first event of a queue is behind the pipeline and ahead of the rest.
LEMMA TakeStep ==
  ASSUME TypeOK, OInv, NEW p \in Priorities, Take(p), hand = <<>>,
         UNCHANGED <<reported, batch, out, sent>>
  PROVE  OInv'
<1> DEFINE q == queue[p]
           e == Head(q)
           s == Pipeline
           t == Append(s, e)
<1>1. /\ q \in Seq(Events) /\ q # <<>> /\ e \in Events
      /\ s \in Seq(Events) /\ Queued(p)
  BY PipelineTyped DEF Take, TypeOK, OInv
<1>2. Pipeline' = t
  <2>1. e # <<>>
    <3>1. \A x \in Events : x # <<>>
      BY DEF Events
    <3> QED BY <1>1, <3>1
  <2>2. InHand = <<>> /\ InHand' = <<e>>
    BY <2>1 DEF Take, InHand
  <2>3. reported \in Seq(Events) /\ batch \in Seq(Events) /\ out \in Seq(Events)
    BY DEF TypeOK
  <2> DEFINE a == reported \o batch \o out
  <2>4. a \in Seq(Events)
    BY <2>3
  <2>5. Pipeline = a /\ Pipeline' = a \o <<e>>
    BY <2>2, <2>4 DEF Pipeline
  <2> HIDE DEF a, e
  <2>6. a \o <<e>> = Append(a, e)
    BY <1>1, <2>4, AppendIsConcat
  <2> QED BY <2>5, <2>6
<1>3. /\ DOMAIN s = 1 .. Len(s) /\ Len(s) \in Nat /\ DOMAIN t = 1 .. Len(s) + 1
      /\ t[Len(s) + 1] = e /\ \A i \in 1 .. Len(s) : t[i] = s[i] /\ s[i] \in Events
  BY <1>1
<1>4. /\ e = q[1] /\ DOMAIN q = 1 .. Len(q) /\ Len(q) \in Nat \ {0}
      /\ DOMAIN Tail(q) = 1 .. Len(q) - 1
      /\ \A i \in 1 .. Len(q) - 1 : Tail(q)[i] = q[i + 1]
  BY <1>1
<1>5. /\ e[1] = p /\ e[2] <= sent[p]
      /\ \A i \in DOMAIN s : s[i][1] = p => s[i][2] < e[2]
      /\ \A i \in 1 .. Len(q) - 1 : Tail(q)[i][1] = p /\ e[2] < Tail(q)[i][2]
  BY <1>1, <1>4 DEF Queued, Ordered, Bounded, Ahead
<1> HIDE DEF s, t, q, e
<1>6. Ordered(t)
  BY <1>3, <1>5 DEF OInv, Ordered, s
<1>7. Bounded(t, sent)
  BY <1>3, <1>5 DEF OInv, Bounded, s
<1>8. ASSUME NEW x \in Priorities PROVE Queued(x)'
  <2>1. Queued(x) /\ Ahead(s, queue[x])
    BY DEF OInv, Queued, s
  <2>2. CASE x # p
    <3>1. queue'[x] = queue[x]
      BY <2>2 DEF Take, TypeOK
    <3>2. Ahead(t, queue[x])
      BY <1>3, <1>5, <2>1, <2>2 DEF Ahead, Queued
    <3> QED BY <1>2, <2>1, <3>1, <3>2 DEF Queued
  <2>3. CASE x = p
    <3>1. queue'[x] = Tail(q)
      BY <2>3 DEF Take, TypeOK, q
    <3>2. Ordered(Tail(q)) /\ Bounded(Tail(q), sent)
      <4> DEFINE u == Tail(q)
      <4>1. /\ DOMAIN u = 1 .. Len(q) - 1 /\ Ordered(q) /\ Bounded(q, sent)
            /\ \A i \in 1 .. Len(q) - 1 : u[i] = q[i + 1]
        BY <1>1, <1>4 DEF Queued, q
      <4> HIDE DEF u
      <4>2. Ordered(u)
        <5> SUFFICES ASSUME NEW i \in DOMAIN u, NEW j \in DOMAIN u, i < j, u[i][1] = u[j][1]
                     PROVE  u[i][2] < u[j][2]
          BY DEF Ordered
        <5>1. /\ i + 1 \in DOMAIN q /\ j + 1 \in DOMAIN q /\ i + 1 < j + 1
              /\ u[i] = q[i + 1] /\ u[j] = q[j + 1]
          BY <1>4, <4>1
        <5> QED BY <4>1, <5>1 DEF Ordered
      <4>3. Bounded(u, sent)
        BY <1>4, <4>1 DEF Bounded
      <4> QED BY <4>2, <4>3 DEF u
    <3>3. Ahead(t, Tail(q))
      BY <1>3, <1>4, <1>5, <2>1, <2>3 DEF Ahead, q
    <3> QED BY <1>2, <1>4, <1>5, <2>3, <3>1, <3>2, <3>3 DEF Queued
  <2> QED BY <2>2, <2>3
<1> QED BY <1>2, <1>6, <1>7, <1>8 DEF OInv, Take

\* Concatenation is associative.
LEMMA EventsAssoc ==
  ASSUME NEW a \in Seq(Events), NEW b \in Seq(Events), NEW c \in Seq(Events)
  PROVE  a \o b \o c = a \o (b \o c)
BY ConcatAssociative

\* Every action keeps the order of the events.
LEMMA OrderStep == TypeOK /\ TypeOK' /\ Standing /\ OInv /\ [Next]_vars => OInv'
<1> SUFFICES ASSUME TypeOK, TypeOK', Standing, OInv, [Next]_vars PROVE OInv'
  OBVIOUS
<1>0. /\ reported \in Seq(Events) /\ batch \in Seq(Events) /\ out \in Seq(Events)
      /\ InHand \in Seq(Events) /\ \A x \in Events : x # <<>>
  <2>1. \A x \in Events : x # <<>>
    BY DEF Events
  <2> QED BY <2>1, PipelineTyped DEF TypeOK
<1>1. ASSUME NEW r \in Producers, Enqueue(r) PROVE OInv'
  BY <1>1, EnqueueStep
<1>2. ASSUME NEW p \in Priorities, Take(p), PopCheck \/ PopBlock PROVE OInv'
  BY <1>2, TakeStep DEF PopCheck, PopBlock, OInv
<1>3. CASE Forward
  <2>1. hand \in Events /\ hand # <<>>
    BY <1>0, <1>3 DEF Forward, Standing
  <2>2. InHand = <<hand>> /\ InHand' = <<>> /\ out' = out \o <<hand>>
    <3>1. Append(out, hand) = out \o <<hand>>
      BY <1>0, <2>1, AppendIsConcat
    <3> QED BY <1>3, <2>1, <3>1 DEF Forward, InHand
  <2> DEFINE a == reported \o batch
             h == <<hand>>
  <2>3. a \in Seq(Events) /\ h \in Seq(Events)
    BY <1>0, <2>1
  <2>4. Pipeline = a \o out \o h /\ Pipeline' = a \o (out \o h) \o <<>>
    BY <1>3, <2>2 DEF Forward, Pipeline
  <2> HIDE DEF a, h
  <2>5. a \o out \o h = a \o (out \o h)
    <3>1. out \in Seq(Events)
      BY <1>0
    <3> QED BY <2>3, <3>1, EventsAssoc
  <2>6. a \o (out \o h) \in Seq(Events)
    BY <1>0, <2>3
  <2>7. Pipeline' = Pipeline
    BY <2>4, <2>5, <2>6, ConcatEmptySeq
  <2> QED BY <1>3, <2>7, ThinStep DEF Forward
<1>4. CASE ForwardTimeout
  <2>1. InHand' = <<>>
    BY <1>4 DEF ForwardTimeout, InHand
  <2> DEFINE a == reported \o batch \o out
  <2>2. a \in Seq(Events) /\ <<>> \in Seq(Events)
    BY <1>0
  <2>3. Pipeline = a \o InHand /\ Pipeline' = a \o <<>>
    BY <1>4, <2>1 DEF ForwardTimeout, Pipeline
  <2> HIDE DEF a
  <2>4. Pipeline = a \o InHand \o <<>>
    <3>1. a \o InHand \in Seq(Events)
      BY <1>0, <2>2, ConcatProperties
    <3> QED BY <2>3, <3>1, ConcatEmptySeq
  <2>5. Thinned(Pipeline', Pipeline)
    BY <1>0, <2>2, <2>3, <2>4, CutThins
  <2> QED BY <1>4, <2>5, ThinStep DEF ForwardTimeout
<1>5. CASE Gather
  <2>1. InHand' = InHand /\ batch' \in Seq(Events) /\ out' \in Seq(Events)
    BY <1>5 DEF Gather, InHand, TypeOK
  <2>2. batch' \o out' = batch \o out
    BY <1>0, <1>5, MoveConcat DEF Gather
  <2>3. reported \o batch \o out = reported \o (batch \o out)
    BY <1>0, EventsAssoc, Zenon
  <2>4. reported \o batch' \o out' = reported \o (batch' \o out')
    <3> DEFINE b == batch'
               c == out'
    <3>1. reported \in Seq(Events) /\ b \in Seq(Events) /\ c \in Seq(Events)
      BY <1>0, <2>1
    <3> HIDE DEF b, c
    <3>2. reported \o b \o c = reported \o (b \o c)
      BY ONLY <3>1, EventsAssoc
    <3> QED BY <3>2 DEF b, c
  <2>5. Pipeline' = Pipeline
    BY <1>5, <2>1, <2>2, <2>3, <2>4 DEF Gather, Pipeline
  <2> QED BY <1>5, <2>5, ThinStep DEF Gather, OInv
<1>6. CASE Flush \/ ConnectionEnds
  <2>1. InHand' = InHand /\ out' = out /\ batch' = <<>>
        /\ reported' \in {reported, reported \o batch}
    BY <1>6 DEF Flush, ConnectionEnds, Send, InHand
  <2>2. reported' \in Seq(Events) /\ reported' \o <<>> = reported'
    <3>1. reported' \in Seq(Events)
      BY DEF TypeOK
    <3> QED BY <3>1, ConcatEmptySeq
  <2>3. Pipeline' = reported' \o out \o InHand
    BY <2>1, <2>2 DEF Pipeline
  <2>4. CASE reported' = reported \o batch
    <3>1. Pipeline' = Pipeline
      BY <2>3, <2>4 DEF Pipeline
    <3> QED BY <1>6, <3>1, ThinStep DEF Flush, ConnectionEnds, OInv
  <2>5. CASE reported' = reported
    <3> DEFINE c == out \o InHand
    <3>1. c \in Seq(Events) /\ reported \o batch \in Seq(Events)
      BY <1>0, ConcatProperties
    <3>2. reported \o out \o InHand = reported \o c
      BY <1>0, EventsAssoc, Zenon
    <3>3. reported \o batch \o out \o InHand = reported \o batch \o c
      <4> DEFINE a == reported \o batch
      <4>1. a \in Seq(Events) /\ out \in Seq(Events) /\ InHand \in Seq(Events)
        BY <1>0, <3>1
      <4> HIDE DEF a
      <4>2. a \o out \o InHand = a \o (out \o InHand)
        BY <4>1, EventsAssoc
      <4> QED BY <4>2 DEF a, c
    <3>4. Pipeline' = reported \o c /\ Pipeline = reported \o batch \o c
      BY <2>3, <2>5, <3>2, <3>3, Zenon DEF Pipeline
    <3> HIDE DEF c
    <3>5. Thinned(Pipeline', Pipeline)
      BY <1>0, <3>1, <3>4, CutThins, Zenon
    <3> QED BY <1>6, <3>5, ThinStep DEF Flush, ConnectionEnds, OInv
  <2> QED BY <2>1, <2>4, <2>5
<1>7. CASE UNCHANGED <<hand, out, batch, reported, queue, sent>>
           /\ (consumer' = consumer \/ consumer # "forward")
  <2>1. Pipeline' = Pipeline
    BY <1>7 DEF Pipeline, InHand
  <2> QED BY <1>7, <2>1, ThinStep DEF OInv
<1>8. CASE PopCheck \/ PopBlock
  <2>1. CASE \E p \in Priorities : Take(p)
    BY <1>2, <1>8, <2>1
  <2>2. CASE PopCheck /\ PassOn
    BY <1>7, <2>2 DEF PopCheck, PassOn
  <2>3. "high" \in Priorities
    BY DEF Priorities
  <2> QED BY <1>8, <2>1, <2>2, <2>3, Zenon DEF PopCheck, PopBlock, LookAtHigh
<1>9. ASSUME NEW r \in Producers, (\E p \in Priorities : Count(r, p)) \/ Drop(r) PROVE OInv'
  BY <1>7, <1>9 DEF Count, Drop
<1>10. CASE Stop \/ Tick \/ Unanswered \/ UNCHANGED vars
  BY <1>7, <1>10 DEF Stop, Tick, Unanswered, vars
<1> QED
  BY <1>1, <1>3, <1>4, <1>5, <1>6, <1>8, <1>9, <1>10, Zenon DEF Next, Push, Consume, Report

\* Nothing is on its way at first.
LEMMA InitOInv == Init => OInv
<1> SUFFICES ASSUME Init PROVE OInv
  OBVIOUS
<1>1. hand = <<>> /\ Pipeline = <<>> /\ \A p \in Priorities : queue[p] = <<>>
  <2>1. reported \o batch \o out = <<>>
    BY DEF Init
  <2> QED BY <2>1 DEF Init, Pipeline, InHand
<1>2. \A s : s = <<>> => Ordered(s) /\ Bounded(s, sent) /\ \A t : Ahead(t, s)
  BY DEF Ordered, Bounded, Ahead
<1> QED BY <1>1, <1>2 DEF OInv, Queued

\* The way of a priority is ordered when its pipeline and its queue are, and
\* the one is ahead of the other.
LEMMA OrderedWay == TypeOK /\ OInv => InOrder
<1> SUFFICES ASSUME TypeOK, OInv, NEW p \in Priorities,
                    NEW i \in DOMAIN Way(p), NEW j \in DOMAIN Way(p),
                    i < j, Way(p)[i][1] = p, Way(p)[j][1] = p
             PROVE  Way(p)[i][2] < Way(p)[j][2]
  BY DEF InOrder
<1> DEFINE s == Pipeline
           t == queue[p]
<1>1. s \in Seq(Events) /\ t \in Seq(Events) /\ Way(p) = s \o t
  BY PipelineTyped DEF TypeOK, Way
<1>2. Ordered(s) /\ Ordered(t) /\ Ahead(s, t)
  BY DEF OInv, Queued
<1> HIDE DEF s, t
<1>3. /\ DOMAIN Way(p) = 1 .. Len(s) + Len(t) /\ Len(s) \in Nat /\ Len(t) \in Nat
      /\ \A k \in 1 .. Len(s) : Way(p)[k] = s[k] /\ k \in DOMAIN s
      /\ \A k \in Len(s) + 1 .. Len(s) + Len(t) :
           Way(p)[k] = t[k - Len(s)] /\ k - Len(s) \in DOMAIN t
  BY <1>1
<1>4. CASE j \in 1 .. Len(s)
  <2>1. i \in 1 .. Len(s)
    BY <1>3, <1>4
  <2> QED BY <1>2, <1>3, <1>4, <2>1 DEF Ordered
<1>5. CASE i \in 1 .. Len(s) /\ j \in Len(s) + 1 .. Len(s) + Len(t)
  BY <1>2, <1>3, <1>5 DEF Ahead
<1>6. CASE i \in Len(s) + 1 .. Len(s) + Len(t)
  <2>1. j \in Len(s) + 1 .. Len(s) + Len(t)
    BY <1>3, <1>6
  <2>2. i - Len(s) < j - Len(s)
    BY <1>3, <1>6, <2>1
  <2> QED BY <1>2, <1>3, <1>6, <2>1, <2>2 DEF Ordered
<1> QED BY <1>3, <1>4, <1>5, <1>6

\* The inductive invariant holds in every reachable state.
THEOREM Inductive == Spec => []IInv
<1>1. IInv /\ [Next]_vars => IInv'
  BY TypeStep, OvertakingStep, StatsStep DEF IInv
<1> QED BY InitIInv, <1>1, PTL DEF Spec

\* Type correctness: no queue, channel or batch exceeds its capacity.
THEOREM TypeCorrect == Spec => []TypeOK
BY Inductive, PTL DEF IInv

\* At most one normal event is delivered while a high event waits.
THEOREM HighFirstCorrect == Spec => []HighFirst
<1>1. IInv => HighFirst
  BY DEF IInv, Overtaking, HighFirst
<1> QED BY <1>1, Inductive, PTL

\* The statistics account for every event, whatever the producers interleave.
THEOREM StatsCorrect == Spec => []StatsAddUp
BY Inductive, PTL DEF IInv

\* The server sees the events of a priority in the order they were accepted and
\* none of them twice.
THEOREM InOrderCorrect == Spec => []InOrder
<1>1. IInv /\ IInv' /\ OInv /\ [Next]_vars => OInv'
  BY OrderStep DEF IInv
<1>2. IInv /\ OInv => InOrder
  BY OrderedWay DEF IInv
<1> QED BY InitOInv, <1>1, <1>2, Inductive, PTL DEF Spec
=============================================================================

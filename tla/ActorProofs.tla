----------------------------- MODULE ActorProofs -----------------------------
(***************************************************************************)
(* Proofs about Actor, for any goroutines, inbox size and number of calls. *)
(*                                                                         *)
(* The order of messages and the drain at Stop follow from one equation,   *)
(* Order: what was accepted is what was handled, then the message in the   *)
(* loop's hands, then the inbox.  That no Ask comes back empty-handed also *)
(* needs to know where the request of every waiting Ask is (Pending), and  *)
(* that reply channels are only closed once the loop has ended (Control).  *)
(***************************************************************************)
EXTENDS Actor, SequenceTheorems, TLAPS

Control ==
  /\ loop = "handle" <=> current # <<>>
  /\ loop = "done" => closed /\ inbox = <<>>
  /\ closed <=> stop \in {"closed", "returned"}
  /\ stop = "returned" => loop = "done"
  /\ stop # "returned" => \A m \in Calls : reply[m] # "closed"

Order == accepted = (handled \o current) \o inbox

\* Every goroutine inside a call has a number of its own, and the reply channel
\* of an Ask stays in the table as long as the Ask runs.
OwnCall ==
  \A c \in Callers : caller[c].pc # "idle" =>
    /\ caller[c].call \in 1 .. calls
    /\ caller[c].pc \in {"ask", "wait"} => reply[caller[c].call] # "none"
    /\ \A d \in Callers : caller[d].pc # "idle" /\ caller[d].call = caller[c].call
                            => c = d

\* The request of an unanswered Ask that waits is still on its way.
OnItsWay(m) == (\E i \in 1 .. Len(inbox) : inbox[i] = m) \/ current = <<m>>

Placed(c) ==
  caller[c].pc = "wait" =>
    \/ reply[caller[c].call] = "answered"
    \/ reply[caller[c].call] = "open" /\ OnItsWay(caller[c].call)

Pending == \A c \in Callers : Placed(c)

IInv == TypeOK /\ Control /\ Order

-----------------------------------------------------------------------------
(* Sequences. *)

\* Moving the head of the inbox into the loop's hands keeps the whole order.
LEMMA TakeHead ==
  ASSUME NEW S, NEW h \in Seq(S), NEW q \in Seq(S), q # <<>>
  PROVE  (h \o <<>>) \o q = (h \o <<Head(q)>>) \o Tail(q)
<1>1. Head(q) \in S /\ Tail(q) \in Seq(S)
  OBVIOUS
<1>2. q = <<Head(q)>> \o Tail(q)
  BY <1>1
<1>3. (h \o <<Head(q)>>) \o Tail(q) = h \o (<<Head(q)>> \o Tail(q))
  BY <1>1, <<Head(q)>> \in Seq(S), ConcatAssociative
<1>4. h \o <<>> = h
  BY ConcatEmptySeq
<1> QED BY <1>2, <1>3, <1>4

\* Putting a message behind the inbox puts it behind the whole order.
LEMMA PutLast ==
  ASSUME NEW S, NEW h \in Seq(S), NEW q \in Seq(S), NEW m \in S
  PROVE  h \o Append(q, m) = Append(h \o q, m)
OBVIOUS

-----------------------------------------------------------------------------
(* Types, control and order. *)

\* Initially nothing is under way.
LEMMA InitIInv == Init => IInv
<1> SUFFICES ASSUME Init PROVE IInv
  OBVIOUS
<1>1. TypeOK
  <2>1. caller \in [Callers -> CallerStates]
    BY DEF Init, CallerStates
  <2>2. reply \in [Calls -> {"none", "open", "answered", "closed"}]
    BY DEF Init
  <2>3. calls \in 0 .. MaxCalls /\ Len(inbox) <= InboxSize
    BY SizeAssumption DEF Init
  <2>4. inbox \in Seq(Calls) /\ accepted \in Seq(Calls) /\ handled \in Seq(Calls)
    BY DEF Init
  <2> QED BY <2>1, <2>2, <2>3, <2>4 DEF Init, TypeOK
<1>2. Control
  BY DEF Init, Control
<1>3. Order
  BY DEF Init, Order
<1> QED BY <1>1, <1>2, <1>3 DEF IInv

\* Every action keeps the type invariant.
LEMMA TypeStep == TypeOK /\ Control /\ [Next]_vars => TypeOK'
<1> SUFFICES ASSUME TypeOK, Control, [Next]_vars PROVE TypeOK'
  OBVIOUS
<1> USE SizeAssumption DEF TypeOK, Calls
<1>1. ASSUME NEW c \in Callers, BeginSend(c) PROVE TypeOK'
  BY <1>1 DEF BeginSend, CallerStates
<1>2. ASSUME NEW c \in Callers, BeginAsk(c) PROVE TypeOK'
  BY <1>2 DEF BeginAsk, CallerStates
<1>3. ASSUME NEW c \in Callers, SendOnClosed(c) PROVE TypeOK'
  BY <1>3 DEF SendOnClosed, Panic
<1>4. ASSUME NEW c \in Callers, SendAccepted(c) PROVE TypeOK'
  <2>1. caller[c].call \in Calls
    BY <1>4 DEF SendAccepted, CallerStates, Resting
  <2>2. /\ inbox' \in Seq(Calls) /\ Len(inbox') <= InboxSize
        /\ accepted' \in Seq(Calls)
    BY <1>4, <2>1 DEF SendAccepted, Accept, HasRoom
  <2>3. caller' \in [Callers -> CallerStates]
    <3>1. CASE caller[c].pc = "ask"
      <4>1. [pc |-> "wait", call |-> caller[c].call] \in CallerStates
        BY <2>1, <3>1 DEF CallerStates, Resting
      <4> QED BY <1>4, <3>1, <4>1 DEF SendAccepted
    <3>2. CASE caller[c].pc # "ask"
      BY <1>4, <3>2 DEF SendAccepted, CallerStates
    <3> QED BY <3>1, <3>2
  <2> QED BY <1>4, <2>2, <2>3 DEF SendAccepted
<1>5. ASSUME NEW c \in Callers, SendFull(c) PROVE TypeOK'
  BY <1>5 DEF SendFull, CallerStates
<1>6. ASSUME NEW c \in Callers, AskTimeout(c) PROVE TypeOK'
  BY <1>6 DEF AskTimeout, CallerStates, Forget
<1>7. ASSUME NEW c \in Callers, AskAnswer(c) PROVE TypeOK'
  BY <1>7 DEF AskAnswer, CallerStates, Forget
<1>8. CASE Receive BY <1>8 DEF Receive
<1>9. CASE Handle BY <1>9 DEF Handle, Deliver, Control
<1>10. CASE LoopEnds BY <1>10 DEF LoopEnds
<1>11. CASE StopMarks BY <1>11 DEF StopMarks
<1>12. CASE StopCloses BY <1>12 DEF StopCloses
<1>13. CASE StopReturns BY <1>13 DEF StopReturns
<1>14. CASE UNCHANGED vars BY <1>14 DEF vars
<1> QED
  BY <1>1, <1>2, <1>3, <1>4, <1>5, <1>6, <1>7, <1>8, <1>9, <1>10, <1>11,
     <1>12, <1>13, <1>14 DEF Next, Call, Resume, Loop, Stop

\* Every action keeps the control points of the loop and of Stop in step.
LEMMA ControlStep == TypeOK /\ Control /\ [Next]_vars => Control'
<1> SUFFICES ASSUME TypeOK, Control, [Next]_vars PROVE Control'
  OBVIOUS
<1> USE DEF TypeOK, Control, Calls
<1>1. ASSUME NEW c \in Callers, BeginSend(c) PROVE Control'
  BY <1>1 DEF BeginSend
<1>2. ASSUME NEW c \in Callers, BeginAsk(c) PROVE Control'
  BY <1>2 DEF BeginAsk
<1>3. ASSUME NEW c \in Callers, SendOnClosed(c) PROVE Control'
  BY <1>3 DEF SendOnClosed
<1>4. ASSUME NEW c \in Callers, SendAccepted(c) PROVE Control'
  BY <1>4 DEF SendAccepted, Accept
<1>5. ASSUME NEW c \in Callers, SendFull(c) PROVE Control'
  BY <1>5 DEF SendFull
<1>6. ASSUME NEW c \in Callers, AskTimeout(c) PROVE Control'
  BY <1>6 DEF AskTimeout, Forget
<1>7. ASSUME NEW c \in Callers, AskAnswer(c) PROVE Control'
  BY <1>7 DEF AskAnswer, Forget
<1>8. CASE Receive BY <1>8 DEF Receive
<1>9. CASE Handle BY <1>9 DEF Handle, Deliver
<1>10. CASE LoopEnds BY <1>10 DEF LoopEnds, Drained
<1>11. CASE StopMarks BY <1>11 DEF StopMarks
<1>12. CASE StopCloses BY <1>12 DEF StopCloses
<1>13. CASE StopReturns BY <1>13 DEF StopReturns
<1>14. CASE UNCHANGED vars BY <1>14 DEF vars
<1> QED
  BY <1>1, <1>2, <1>3, <1>4, <1>5, <1>6, <1>7, <1>8, <1>9, <1>10, <1>11,
     <1>12, <1>13, <1>14 DEF Next, Call, Resume, Loop, Stop

\* Only accepting, receiving and handling move messages, each in order.
LEMMA OrderStep == TypeOK /\ Control /\ Order /\ [Next]_vars => Order'
<1> SUFFICES ASSUME TypeOK, Control, Order, [Next]_vars PROVE Order'
  OBVIOUS
<1>0. /\ handled \in Seq(Calls) /\ inbox \in Seq(Calls)
      /\ current \in Seq(Calls)
      /\ handled \o current \in Seq(Calls)
  <2>1. handled \in Seq(Calls) /\ inbox \in Seq(Calls)
    BY DEF TypeOK
  <2>2. current = <<>> \/ \E m \in Calls : current = <<m>>
    BY DEF TypeOK
  <2>3. ASSUME NEW m \in Calls, current = <<m>>
        PROVE  <<m>> \in Seq(Calls)
    OBVIOUS
  <2>4. current \in Seq(Calls)
    BY <2>2, <2>3, <<>> \in Seq(Calls)
  <2> QED BY <2>1, <2>4
<1>1. ASSUME NEW c \in Callers, SendAccepted(c) PROVE Order'
  <2> DEFINE m == caller[c].call
  <2>1. m \in Calls
    BY <1>1 DEF SendAccepted, TypeOK, CallerStates, Resting
  <2>2. /\ inbox' = Append(inbox, m) /\ accepted' = Append(accepted, m)
        /\ handled' = handled /\ current' = current
    BY <1>1 DEF SendAccepted, Accept
  <2> HIDE DEF m
  <2>3. (handled \o current) \o Append(inbox, m)
          = Append((handled \o current) \o inbox, m)
    BY <1>0, <2>1, PutLast
  <2> QED BY <2>2, <2>3 DEF Order
<1>2. CASE Receive
  <2>1. current = <<>>
    BY <1>2 DEF Receive, Control
  <2> QED BY <1>0, <1>2, <2>1, TakeHead DEF Receive, Order
<1>3. CASE Handle
  <2>1. PICK m \in Calls : current = <<m>>
    BY <1>3 DEF Handle, Control, TypeOK
  <2>2. handled' = handled \o <<m>> /\ current' = <<>> /\ inbox' = inbox
    BY <1>0, <1>3, <2>1 DEF Handle
  <2>3. handled' \o current' = handled \o <<m>>
    BY <1>0, <2>2
  <2> QED BY <1>3, <2>1, <2>2, <2>3 DEF Order, Handle
<1>4. CASE UNCHANGED <<inbox, current, accepted, handled>>
  BY <1>4 DEF Order
<1> QED
  BY <1>1, <1>2, <1>3, <1>4
     DEF Next, Call, Resume, Loop, Stop, BeginSend, BeginAsk, SendOnClosed,
         SendFull, AskTimeout, AskAnswer, LoopEnds, StopMarks, StopCloses,
         StopReturns, vars

\* The inductive invariant holds in every reachable state.
THEOREM Inductive == Spec => []IInv
<1>1. IInv /\ [Next]_vars => IInv'
  BY TypeStep, ControlStep, OrderStep DEF IInv
<1> QED BY InitIInv, <1>1, PTL DEF Spec

\* Type correctness; in particular the inbox never exceeds its size.
THEOREM TypeCorrect == Spec => []TypeOK
BY Inductive, PTL DEF IInv

\* Messages are handled once each, in the order the inbox accepted them.
THEOREM OrderCorrect == Spec => []HandledInOrder
<1>1. IInv => HandledInOrder
  BY DEF IInv, TypeOK, Order, HandledInOrder
<1> QED BY <1>1, Inductive, PTL

\* When Stop returns, every accepted message has been handled.
THEOREM DrainCorrect == Spec => []StopDrains
<1>1. IInv => StopDrains
  <2> SUFFICES ASSUME IInv, stop = "returned" PROVE handled = accepted
    BY DEF StopDrains
  <2>1. inbox = <<>> /\ current = <<>>
    BY DEF IInv, Control
  <2> QED BY <2>1 DEF IInv, TypeOK, Order
<1> QED BY <1>1, Inductive, PTL

-----------------------------------------------------------------------------
(* The answers of Asks. *)

\* The numbers of calls stay apart, and pending Asks stay in the table.
LEMMA OwnCallStep == IInv /\ OwnCall /\ [Next]_vars => OwnCall'
<1> SUFFICES ASSUME IInv, OwnCall, [Next]_vars PROVE OwnCall'
  OBVIOUS
<1> USE DEF OwnCall
<1>0. /\ calls \in Nat /\ caller \in [Callers -> CallerStates]
      /\ reply \in [Calls -> {"none", "open", "answered", "closed"}]
      /\ \A c \in Callers : caller[c].pc # "idle" => caller[c].call \in Calls
  BY SizeAssumption DEF IInv, TypeOK, Calls, CallerStates, Resting
<1>1. ASSUME NEW c \in Callers, BeginSend(c) \/ BeginAsk(c) PROVE OwnCall'
  <2>1. /\ calls' = calls + 1 /\ calls + 1 \in Calls
        /\ caller[c].pc = "idle"
        /\ caller'[c].call = calls + 1
        /\ \A d \in Callers \ {c} : caller'[d] = caller[d]
    BY <1>0, <1>1, SizeAssumption DEF BeginSend, BeginAsk, Calls
  <2>2. 1 .. calls \subseteq Calls \ {calls + 1}
    BY <1>0, <2>1, SizeAssumption DEF Calls
  <2>3. \A m \in 1 .. calls : reply'[m] = reply[m]
    BY <1>0, <1>1, <2>2 DEF BeginSend, BeginAsk
  <2>4. CASE BeginSend(c)
    <3>1. caller'[c].pc = "send"
      BY <1>0, <2>4 DEF BeginSend
    <3> QED BY <1>0, <2>1, <2>3, <3>1
  <2>5. CASE BeginAsk(c)
    <3>1. reply'[calls + 1] = "open"
      BY <1>0, <2>1, <2>5 DEF BeginAsk
    <3> QED BY <1>0, <2>1, <2>3, <3>1
  <2> QED BY <1>1, <2>4, <2>5
<1>2. ASSUME NEW c \in Callers, SendOnClosed(c) PROVE OwnCall'
  BY <1>2 DEF SendOnClosed
<1>3. ASSUME NEW c \in Callers, SendAccepted(c) PROVE OwnCall'
  <2>1. /\ caller'[c].pc # "idle" => /\ caller'[c].call = caller[c].call
                                     /\ caller[c].pc = "ask"
        /\ caller[c].pc # "idle"
        /\ \A d \in Callers \ {c} : caller'[d] = caller[d]
        /\ calls' = calls /\ reply' = reply
    BY <1>0, <1>3 DEF SendAccepted, Resting
  <2> QED BY <1>0, <2>1
<1>4. ASSUME NEW c \in Callers, SendFull(c) \/ AskTimeout(c) \/ AskAnswer(c)
      PROVE  OwnCall'
  <2>1. /\ caller'[c].pc = "idle" /\ caller[c].pc # "idle"
        /\ \A d \in Callers \ {c} : caller'[d] = caller[d]
        /\ calls' = calls
        /\ \A m \in Calls \ {caller[c].call} : reply'[m] = reply[m]
    BY <1>0, <1>4 DEF SendFull, AskTimeout, AskAnswer, Forget, Resting
  <2> QED BY <1>0, <2>1
<1>5. CASE Handle
  <2>1. /\ caller' = caller /\ calls' = calls
        /\ \A m \in Calls : reply'[m] = "none" => reply[m] = "none"
    BY <1>0, <1>5 DEF Handle, Deliver
  <2> QED BY <1>0, <2>1
<1>6. CASE StopReturns
  <2>1. /\ caller' = caller /\ calls' = calls
        /\ \A m \in Calls : reply'[m] = "none" => reply[m] = "none"
    BY <1>0, <1>6 DEF StopReturns
  <2> QED BY <1>0, <2>1
<1>7. CASE UNCHANGED <<caller, calls, reply>>
  BY <1>7
<1> QED
  BY <1>1, <1>2, <1>3, <1>4, <1>5, <1>6, <1>7
     DEF Next, Call, Resume, Loop, Stop, Receive, LoopEnds, StopMarks,
         StopCloses, vars

\* A request leaves the inbox only into the loop's hands, and the loop's hands
\* only with an answer; nothing closes a channel before that.
LEMMA PendingStep == IInv /\ OwnCall /\ Pending /\ [Next]_vars => Pending'
<1> SUFFICES ASSUME IInv, OwnCall, Pending, [Next]_vars, NEW c \in Callers
             PROVE  Placed(c)'
  BY DEF Pending
<1> DEFINE m == caller[c].call
<1>0. /\ calls \in Nat /\ caller \in [Callers -> CallerStates]
      /\ reply \in [Calls -> {"none", "open", "answered", "closed"}]
      /\ caller[c].pc # "idle" => m \in Calls
      /\ inbox \in Seq(Calls)
  BY SizeAssumption DEF IInv, TypeOK, Calls, CallerStates, Resting
<1>1. Placed(c)
  BY DEF Pending
<1>2. ASSUME NEW d \in Callers, BeginSend(d) \/ BeginAsk(d) PROVE Placed(c)'
  <2>1. inbox' = inbox /\ current' = current
    BY <1>2 DEF BeginSend, BeginAsk
  <2>2. CASE d = c
    <3>1. caller'[c].pc # "wait"
      BY <1>0, <1>2, <2>2 DEF BeginSend, BeginAsk
    <3> QED BY <3>1 DEF Placed
  <2>3. CASE d # c
    <3>1. caller'[c] = caller[c]
      BY <1>0, <1>2, <2>3 DEF BeginSend, BeginAsk
    <3>2. caller[c].pc # "idle" => m # calls + 1
      BY <1>0 DEF OwnCall
    <3>3. caller[c].pc # "idle" => reply'[m] = reply[m]
      BY <1>0, <1>2, <3>2 DEF BeginSend, BeginAsk
    <3> QED BY <1>1, <2>1, <3>1, <3>3 DEF Placed, OnItsWay
  <2> QED BY <2>2, <2>3
<1>3. ASSUME NEW d \in Callers, SendAccepted(d) PROVE Placed(c)'
  <2>1. /\ reply' = reply /\ current' = current
        /\ inbox' = Append(inbox, caller[d].call)
    BY <1>3 DEF SendAccepted, Accept
  <2>2. caller[d].call \in Calls
    BY <1>0, <1>3 DEF SendAccepted, CallerStates, Resting
  <2>3. ASSUME NEW i \in 1 .. Len(inbox)
        PROVE  i \in 1 .. Len(inbox') /\ inbox'[i] = inbox[i]
    BY <1>0, <2>1, <2>2
  <2>4. CASE d # c
    <3>1. caller'[c] = caller[c]
      BY <1>0, <1>3, <2>4 DEF SendAccepted
    <3> QED BY <1>1, <2>1, <2>3, <3>1 DEF Placed, OnItsWay
  <2>5. CASE d = c /\ caller[c].pc = "ask"
    <3>1. caller'[c] = [pc |-> "wait", call |-> m]
      BY <1>0, <1>3, <2>5 DEF SendAccepted
    <3>2. reply[m] \in {"open", "answered"}
      BY <1>0, <1>3, <2>5 DEF SendAccepted, OwnCall, IInv, Control
    <3>3. (\E i \in 1 .. Len(inbox) : inbox[i] = m)'
      <4>1. /\ Len(inbox') = Len(inbox) + 1 /\ Len(inbox) \in Nat
            /\ inbox'[Len(inbox) + 1] = caller[d].call
        BY <1>0, <2>1, <2>2
      <4>2. m' = m
        BY <3>1
      <4> QED BY <2>5, <4>1, <4>2
    <3> QED BY <2>1, <3>1, <3>2, <3>3 DEF Placed, OnItsWay
  <2>6. CASE d = c /\ caller[c].pc # "ask"
    <3>1. caller'[c].pc = "idle"
      BY <1>0, <1>3, <2>6 DEF SendAccepted, Resting
    <3> QED BY <3>1 DEF Placed
  <2> QED BY <2>4, <2>5, <2>6
<1>4. ASSUME NEW d \in Callers, SendFull(d) \/ AskTimeout(d) \/ AskAnswer(d)
      PROVE  Placed(c)'
  <2>1. inbox' = inbox /\ current' = current
    BY <1>4 DEF SendFull, AskTimeout, AskAnswer
  <2>2. CASE d = c
    <3>1. caller'[c].pc = "idle"
      BY <1>0, <1>4, <2>2 DEF SendFull, AskTimeout, AskAnswer, Resting
    <3> QED BY <3>1 DEF Placed
  <2>3. CASE d # c
    <3>1. caller'[c] = caller[c]
      BY <1>0, <1>4, <2>3 DEF SendFull, AskTimeout, AskAnswer
    <3>2. caller[c].pc # "idle" => m # caller[d].call
      BY <1>4, <2>3 DEF OwnCall, SendFull, AskTimeout, AskAnswer
    <3>3. caller[c].pc # "idle" => reply'[m] = reply[m]
      BY <1>0, <1>4, <3>2 DEF SendFull, AskTimeout, AskAnswer, Forget
    <3> QED BY <1>1, <2>1, <3>1, <3>3 DEF Placed, OnItsWay
  <2> QED BY <2>2, <2>3
<1>5. CASE Receive
  <2>1. /\ caller' = caller /\ reply' = reply
        /\ inbox # <<>> /\ inbox' = Tail(inbox) /\ current' = <<Head(inbox)>>
        /\ current = <<>>
    BY <1>5 DEF Receive, IInv, Control
  <2>2. ASSUME OnItsWay(m) PROVE OnItsWay(m)'
    <3>1. PICK i \in 1 .. Len(inbox) : inbox[i] = m
      BY <2>1, <2>2 DEF OnItsWay
    <3>2. m' = m
      BY <2>1
    <3>3. CASE i = 1
      BY <1>0, <2>1, <3>1, <3>2, <3>3 DEF OnItsWay
    <3>4. CASE i # 1
      <4>1. i - 1 \in 1 .. Len(inbox') /\ inbox'[i - 1] = m
        BY <1>0, <2>1, <3>1, <3>4
      <4> QED BY <3>2, <4>1 DEF OnItsWay
    <3> QED BY <3>3, <3>4
  <2> QED BY <1>1, <2>1, <2>2 DEF Placed
<1>6. CASE Handle
  <2>1. PICK h \in Calls : current = <<h>>
    BY <1>6 DEF Handle, IInv, Control, TypeOK
  <2>2. /\ caller' = caller /\ inbox' = inbox
        /\ reply' = IF reply[h] = "open" THEN [reply EXCEPT ![h] = "answered"]
                                         ELSE reply
    BY <1>6, <2>1 DEF Handle, Deliver
  <2>3. CASE caller[c].pc = "wait" /\ m = h
    <3>1. reply'[m] = "answered"
      BY <1>0, <1>1, <2>2, <2>3 DEF Placed
    <3> QED BY <2>2, <3>1 DEF Placed
  <2>4. CASE caller[c].pc = "wait" /\ m # h
    <3>1. reply'[m] = reply[m]
      BY <1>0, <2>2, <2>4
    <3>2. current # <<m>>
      BY <2>1, <2>4
    <3> QED BY <1>1, <2>2, <3>1, <3>2 DEF Placed, OnItsWay
  <2>5. CASE caller[c].pc # "wait"
    BY <2>2, <2>5 DEF Placed
  <2> QED BY <2>3, <2>4, <2>5
<1>7. CASE StopReturns
  <2>1. inbox = <<>> /\ current = <<>>
    BY <1>7 DEF StopReturns, IInv, Control
  <2>2. ~OnItsWay(m)
    BY <2>1 DEF OnItsWay
  <2>3. caller[c].pc = "wait" => reply'[m] = "answered"
    BY <1>0, <1>1, <1>7, <2>2 DEF StopReturns, Placed
  <2> QED BY <1>7, <2>3 DEF StopReturns, Placed
<1>8. CASE UNCHANGED <<caller, reply, inbox, current>>
  BY <1>1, <1>8 DEF Placed, OnItsWay
<1> QED
  BY <1>2, <1>3, <1>4, <1>5, <1>6, <1>7, <1>8
     DEF Next, Call, Resume, Loop, Stop, SendOnClosed, LoopEnds, StopMarks,
         StopCloses, vars

\* No Ask ever returns nil without an error: Stop closes the reply channels
\* only when every accepted request has its answer.
THEOREM AsksCorrect == Spec => []AsksAnswered
<1> DEFINE J == IInv /\ OwnCall /\ Pending /\ AsksAnswered
<1>1. Init => OwnCall /\ Pending /\ AsksAnswered
  BY DEF Init, OwnCall, Pending, Placed, AsksAnswered, Resting
<1>2. IInv /\ Pending /\ AsksAnswered /\ [Next]_vars => AsksAnswered'
  <2> SUFFICES ASSUME IInv, Pending, AsksAnswered, [Next]_vars
               PROVE  AsksAnswered'
    OBVIOUS
  <2>1. ASSUME NEW c \in Callers, AskAnswer(c) PROVE AsksAnswered'
    <3>1. reply[caller[c].call] # "closed"
      BY <2>1 DEF Pending, Placed, AskAnswer
    <3> QED BY <2>1, <3>1 DEF AskAnswer, AsksAnswered
  <2>2. CASE UNCHANGED nilReply
    BY <2>2 DEF AsksAnswered
  <2> QED
    BY <2>1, <2>2
       DEF Next, Call, Resume, Loop, Stop, BeginSend, BeginAsk, SendOnClosed,
           SendAccepted, SendFull, AskTimeout, Receive, Handle, LoopEnds,
           StopMarks, StopCloses, StopReturns, vars
<1>3. IInv /\ IInv' /\ OwnCall /\ Pending /\ AsksAnswered /\ [Next]_vars
        => (OwnCall /\ Pending /\ AsksAnswered)'
  BY <1>2, OwnCallStep, PendingStep
<1> QED BY <1>1, <1>3, Inductive, PTL DEF Spec
=============================================================================

-------------------------------- MODULE Actor --------------------------------
(***************************************************************************)
(* The actor every piece of mutable agent state hides behind               *)
(* (agent/internal/actor/actor.go): a bounded inbox, one goroutine that    *)
(* handles the messages in turn, a non-blocking Send, an Ask that waits    *)
(* for an answer, and a Stop that drains the inbox.  The handler itself    *)
(* and the state it returns are left out; what is handled, and when, is    *)
(* what matters here.                                                      *)
(*                                                                         *)
(* A message is the number of the call that sends it.  A panic in any      *)
(* goroutine ends the process.  A second Stop returns at once and changes  *)
(* nothing.                                                                *)
(***************************************************************************)
EXTENDS Integers, Sequences

CONSTANTS
  Callers,      \* goroutines that send and ask
  InboxSize,    \* ActorConfig.InboxSize, at least 1 after New
  MaxCalls      \* bound: calls that pass the check of stopped

ASSUME SizeAssumption == InboxSize \in Nat \ {0} /\ MaxCalls \in Nat

VARIABLES
  inbox,      \* the messages in the channel
  closed,     \* the channel is closed
  stopped,    \* a.stopped
  loop,       \* "receive", "handle" or "done"
  current,    \* the message in the loop's hands, <<>> if none
  caller,     \* what each goroutine is doing, and for which call
  calls,      \* calls begun so far
  reply,      \* the reply channel of each Ask, by its call
  stop,       \* how far Stop has come
  accepted,   \* history: the messages the channel took, in order
  handled,    \* history: the messages the handler has run on, in order
  asked,      \* history: the calls that are Asks
  nilReply,   \* history: an Ask returned nothing, and no error
  panicked

vars == <<inbox, closed, stopped, loop, current, caller, calls, reply, stop,
          accepted, handled, asked, nilReply, panicked>>

Calls   == 1 .. MaxCalls
Resting == [pc |-> "idle", call |-> 0]
CallerStates == {Resting} \cup [pc : {"send", "ask", "wait"}, call : Calls]

TypeOK ==
  /\ inbox \in Seq(Calls) /\ Len(inbox) <= InboxSize
  /\ closed \in BOOLEAN /\ stopped \in BOOLEAN
  /\ loop \in {"receive", "handle", "done"}
  /\ current \in {<<>>} \cup {<<m>> : m \in Calls}
  /\ caller \in [Callers -> CallerStates]
  /\ calls \in 0 .. MaxCalls
  /\ reply \in [Calls -> {"none", "open", "answered", "closed"}]
  /\ stop \in {"running", "marked", "closed", "returned"}
  /\ accepted \in Seq(Calls)
  /\ handled \in Seq(Calls)
  /\ asked \subseteq Calls
  /\ nilReply \in BOOLEAN
  /\ panicked \in BOOLEAN

Init ==
  /\ inbox = <<>>
  /\ closed = FALSE
  /\ stopped = FALSE
  /\ loop = "receive"
  /\ current = <<>>
  /\ caller = [c \in Callers |-> Resting]
  /\ calls = 0
  /\ reply = [m \in Calls |-> "none"]
  /\ stop = "running"
  /\ accepted = <<>>
  /\ handled = <<>>
  /\ asked = {}
  /\ nilReply = FALSE
  /\ panicked = FALSE

Panic == panicked' = TRUE

-----------------------------------------------------------------------------
(* Send and Ask: the flag is read under the lock, the channel used after.  *)

BeginSend(c) ==
  /\ caller[c].pc = "idle"
  /\ ~stopped
  /\ calls < MaxCalls
  /\ calls' = calls + 1
  /\ caller' = [caller EXCEPT ![c] = [pc |-> "send", call |-> calls + 1]]
  /\ UNCHANGED <<inbox, closed, stopped, loop, current, reply, stop, accepted,
                 handled, asked, nilReply, panicked>>

BeginAsk(c) ==      \* also makes the reply channel and files it in askTable
  /\ caller[c].pc = "idle"
  /\ ~stopped
  /\ calls < MaxCalls
  /\ calls' = calls + 1
  /\ caller' = [caller EXCEPT ![c] = [pc |-> "ask", call |-> calls + 1]]
  /\ reply' = [reply EXCEPT ![calls + 1] = "open"]
  /\ asked' = asked \cup {calls + 1}
  /\ UNCHANGED <<inbox, closed, stopped, loop, current, stop, accepted,
                 handled, nilReply, panicked>>

\* Sending on a closed channel panics, waiting in a select included.
SendOnClosed(c) ==
  /\ caller[c].pc \in {"send", "ask"}
  /\ closed
  /\ Panic
  /\ UNCHANGED <<inbox, closed, stopped, loop, current, caller, calls, reply,
                 stop, accepted, handled, asked, nilReply>>

HasRoom == Len(inbox) < InboxSize

Accept(m) == /\ inbox' = Append(inbox, m)
             /\ accepted' = Append(accepted, m)

SendAccepted(c) ==
  /\ caller[c].pc \in {"send", "ask"}
  /\ ~closed
  /\ HasRoom
  /\ Accept(caller[c].call)
  /\ caller' = [caller EXCEPT ![c] =
                  IF @.pc = "ask" THEN [pc |-> "wait", call |-> @.call] ELSE Resting]
  /\ UNCHANGED <<closed, stopped, loop, current, calls, reply, stop, handled,
                 asked, nilReply, panicked>>

SendFull(c) ==
  /\ caller[c].pc = "send"
  /\ ~closed
  /\ ~HasRoom
  /\ caller' = [caller EXCEPT ![c] = Resting]
  /\ UNCHANGED <<inbox, closed, stopped, loop, current, calls, reply, stop,
                 accepted, handled, asked, nilReply, panicked>>

\* The entry of a call leaves askTable, whatever became of the call.
Forget(m) == reply' = [reply EXCEPT ![m] = "none"]

\* Either wait of an Ask may time out.
AskTimeout(c) ==
  /\ caller[c].pc \in {"ask", "wait"}
  /\ Forget(caller[c].call)
  /\ caller' = [caller EXCEPT ![c] = Resting]
  /\ UNCHANGED <<inbox, closed, stopped, loop, current, calls, stop, accepted,
                 handled, asked, nilReply, panicked>>

\* Receiving from the reply channel: the answer, or nil once it is closed.
AskAnswer(c) ==
  /\ caller[c].pc = "wait"
  /\ reply[caller[c].call] \in {"answered", "closed"}
  /\ nilReply' = (nilReply \/ reply[caller[c].call] = "closed")
  /\ Forget(caller[c].call)
  /\ caller' = [caller EXCEPT ![c] = Resting]
  /\ UNCHANGED <<inbox, closed, stopped, loop, current, calls, stop, accepted,
                 handled, asked, panicked>>

-----------------------------------------------------------------------------
(* loop: range over the inbox, to its end once it is closed.               *)

Receive ==
  /\ loop = "receive"
  /\ inbox # <<>>
  /\ current' = <<Head(inbox)>>
  /\ inbox' = Tail(inbox)
  /\ loop' = "handle"
  /\ UNCHANGED <<closed, stopped, caller, calls, reply, stop, accepted,
                 handled, asked, nilReply, panicked>>

\* Filing an answer never blocks: it goes into the buffer of the reply channel,
\* whether or not somebody still waits; a closed channel would panic.
DeliverUnbuffered(m) ==     \* a defect: no buffer, somebody has to wait for it
  /\ m \in asked => \E c \in Callers : caller[c] = [pc |-> "wait", call |-> m]
  /\ reply' = IF reply[m] = "open" THEN [reply EXCEPT ![m] = "answered"] ELSE reply
  /\ panicked' = (reply[m] = "closed")

Deliver(m) ==
  /\ reply' = IF reply[m] = "open" THEN [reply EXCEPT ![m] = "answered"] ELSE reply
  /\ panicked' = (reply[m] = "closed")

Handle ==
  /\ loop = "handle"
  /\ handled' = Append(handled, current[1])
  /\ Deliver(current[1])      \* no reply channel exists for a plain message
  /\ current' = <<>>
  /\ loop' = "receive"
  /\ UNCHANGED <<inbox, closed, stopped, caller, calls, stop, accepted, asked,
                 nilReply>>

DrainedAtOnce == closed     \* a defect: leaves the loop without emptying the inbox

Drained == closed /\ inbox = <<>>

LoopEnds ==
  /\ loop = "receive"
  /\ Drained
  /\ loop' = "done"
  /\ UNCHANGED <<inbox, closed, stopped, current, caller, calls, reply, stop,
                 accepted, handled, asked, nilReply, panicked>>

-----------------------------------------------------------------------------
(* Stop: mark, close the inbox, wait for the loop, close what is left in   *)
(* askTable.                                                               *)

StopMarks ==
  /\ stop = "running"
  /\ stop' = "marked"
  /\ stopped' = TRUE
  /\ UNCHANGED <<inbox, closed, loop, current, caller, calls, reply, accepted,
                 handled, asked, nilReply, panicked>>

StopCloses ==
  /\ stop = "marked"
  /\ stop' = "closed"
  /\ closed' = TRUE
  /\ UNCHANGED <<inbox, stopped, loop, current, caller, calls, reply, accepted,
                 handled, asked, nilReply, panicked>>

StopReturns ==
  /\ stop = "closed"
  /\ loop = "done"
  /\ stop' = "returned"
  /\ reply' = [m \in Calls |-> IF reply[m] = "open" THEN "closed" ELSE reply[m]]
  /\ UNCHANGED <<inbox, closed, stopped, loop, current, caller, calls,
                 accepted, handled, asked, nilReply, panicked>>

Call(c) == BeginSend(c) \/ BeginAsk(c)
Resume(c) == SendOnClosed(c) \/ SendAccepted(c) \/ SendFull(c)
             \/ AskTimeout(c) \/ AskAnswer(c)
Loop == Receive \/ Handle \/ LoopEnds
Stop == StopMarks \/ StopCloses \/ StopReturns

\* A panic ends every goroutine.
Next == /\ ~panicked
        /\ \/ \E c \in Callers : Call(c) \/ Resume(c)
           \/ Loop
           \/ Stop

Spec == Init /\ [][Next]_vars

\* The goroutines are scheduled and every handler call returns.
Fairness ==
  /\ WF_vars(~panicked /\ Loop)
  /\ WF_vars(~panicked /\ (StopCloses \/ StopReturns))
  /\ \A c \in Callers : WF_vars(~panicked /\ Resume(c))

FairSpec == Spec /\ Fairness

-----------------------------------------------------------------------------
(* Properties. *)

\* Messages are handled in the order the inbox took them, each of them once.
HandledInOrder ==
  /\ Len(handled) <= Len(accepted)
  /\ \A i \in DOMAIN handled : handled[i] = accepted[i]

\* When Stop returns, every message that was ever accepted has been handled,
\* those accepted after Stop began included (the comment of Stop).
StopDrains == stop = "returned" => handled = accepted

\* Closing the reply channels at the end of Stop takes no answer away: an Ask
\* returns its answer or an error, never a bare nil.
AsksAnswered == ~nilReply

\* Once begun, Stop returns, although Asks may have given up waiting for the
\* answers the loop still has to deliver.
StopEnds == stop = "marked" ~> (stop = "returned" \/ panicked)

(* What the documentation says and the code does not do. *)

\* actor.go, on Send: the result of a call on a stopped actor is Stopped.  So
\* a call that races with Stop does not panic.
NeverPanics == ~panicked
=============================================================================

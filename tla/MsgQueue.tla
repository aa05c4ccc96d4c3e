------------------------------ MODULE MsgQueue ------------------------------
(***************************************************************************)
(* What a CThreadMsgBase promises its senders: one first-in first-out      *)
(* queue of messages, emptied by one dispatcher that hands each message to *)
(* OnDispatchMsg exactly once.                                             *)
(***************************************************************************)
EXTENDS Sequences

CONSTANTS Msg,      \* the messages
          NoMsg     \* nothing was delivered yet

VARIABLES queue,    \* pushed and not yet delivered, oldest first
          handled   \* the message delivered last

queueVars == <<queue, handled>>

QueueInit == queue = <<>> /\ handled = NoMsg

Push(m) ==
    /\ queue' = Append(queue, m)
    /\ UNCHANGED handled

Deliver ==
    /\ queue # <<>>
    /\ handled' = Head(queue)
    /\ queue' = Tail(queue)

QueueNext == (\E m \in Msg : Push(m)) \/ Deliver

QueueSpec == QueueInit /\ [][QueueNext]_queueVars
=============================================================================

------------------------------- MODULE MsgTask --------------------------------
(***************************************************************************)
(* A task of the location code: a queue of messages, a lock, a condition   *)
(* and one detached thread that handles the messages in order              *)
(* (utils/MsgTask.cpp, utils/msg_q.c, utils/linked_list.c,                 *)
(* utils/LocThread.cpp).                                                   *)
(*                                                                         *)
(* Any thread sends, the task's own included, from a handler; the owner    *)
(* stops the task once.  What is done under the lock of the queue is one   *)
(* step.  The owner and the thread share the queue: the last of them       *)
(* destroys it.  A message is named by its sender and a number.            *)
(*                                                                         *)
(* Disciplined: nobody is in a call of the task when the owner stops it,   *)
(* and nobody calls it later.  The code asks this of its users, and does   *)
(* not check it.                                                           *)
(***************************************************************************)
EXTENDS Naturals, Sequences, FiniteSets, SequencesExt

CONSTANTS
  Senders,      \* threads that send
  Self,         \* the task's own thread among them, which sends while it handles
  MaxSends,     \* bound on the messages of one sender
  Disciplined

VARIABLES
  list,         \* msg_q::msg_list, from its head, the newest, to its tail
  unblocked,    \* msg_q::unblocked
  holders,      \* who shares the MTRunnable: the thread, and the owner while it stops it
  queueAlive,   \* the queue is not destroyed
  thread,       \* where the task's thread is
  inHand,       \* the message it handles, as a sequence
  owner,        \* where the owner is
  calling,      \* the senders inside sendMsg
  sent,         \* messages that each sender has sent
  accepted,     \* history: messages that the queue took, in order
  handled,      \* history: messages whose handler was run, in order
  lost,         \* messages that the queue refused: never freed
  deallocated,  \* messages freed with the queue
  late,         \* messages taken after the stop
  dangling      \* somebody used the queue after its destruction

msgTaskVars == <<list, unblocked, holders, queueAlive, thread, inHand, owner, calling, sent, accepted,
              handled, lost, deallocated, late, dangling>>

TaskMessages == Senders \X (1 .. MaxSends)

\* The thread is about to look at its queue, or looked and waits.
TaskInit ==
  /\ list = <<>> /\ unblocked = FALSE /\ holders = {"thread"} /\ queueAlive = TRUE
  /\ thread \in {"run", "wait"} /\ inHand = <<>> /\ owner = "uses"
  /\ calling = {} /\ sent = [s \in Senders |-> 0]
  /\ accepted = <<>> /\ handled = <<>> /\ lost = {} /\ deallocated = {}
  /\ late = 0 /\ dangling = FALSE

-----------------------------------------------------------------------------
(***************************************************************************)
(* The queue.                                                              *)
(***************************************************************************)
\* linked_list_empty.
NothingListed == list = <<>>

\* linked_list_add puts the newest element at the head.
AddHead(m) == list' = <<m>> \o list

\* A slip: the head is taken.
RemoveTail_Newest == inHand' = <<Head(list)>> /\ list' = Tail(list)

\* linked_list_remove takes the tail.
RemoveTail ==
  /\ inHand' = <<Last(list)>>
  /\ list' = Front(list)

\* The thread, waiting for the condition, is woken by a signal or a broadcast; it has to
\* take the lock before it looks again.
Signal == thread' = IF thread = "wait" THEN "woken" ELSE thread

\* linked_list_flush frees every message that is left.
Flush == deallocated' = deallocated \cup ToSet(list) /\ list' = <<>>

\* The last of those who share the runnable flushes the queue and destroys it.
Destroy == Flush /\ queueAlive' = FALSE
Drop(h) ==
  /\ holders' = holders \ {h}
  /\ IF holders = {h} THEN Destroy ELSE UNCHANGED <<queueAlive, deallocated, list>>

-----------------------------------------------------------------------------
(***************************************************************************)
(* Senders.                                                                *)
(***************************************************************************)
\* sendMsg is entered; a handler of the task is a sender too.
Call(s) ==
  /\ s \notin calling /\ sent[s] < MaxSends
  /\ s = Self => thread = "proc"
  /\ IF Disciplined THEN owner = "uses" ELSE owner # "gone"
  /\ calling' = calling \cup {s} /\ sent' = [sent EXCEPT ![s] = @ + 1]
  /\ UNCHANGED <<list, unblocked, holders, queueAlive, thread, inHand, owner, accepted, handled,
                 lost, deallocated, late, dangling>>

\* A slip: the message is refused when it was already added.
Refuse_Listed(m) == lost' = lost \cup {m} /\ AddHead(m)

\* eMSG_Q_UNAVAILABLE_RESOURCE: nobody keeps the message.
Refuse(m) == lost' = lost \cup {m} /\ UNCHANGED list

\* msg_q_snd under the lock.  The sender does not look at what it returns.
Send(s) ==
  LET m == <<s, sent[s]>> IN
  /\ s \in calling /\ calling' = calling \ {s}
  /\ \/ queueAlive /\ ~unblocked /\ AddHead(m) /\ Signal /\ accepted' = Append(accepted, m)
        /\ UNCHANGED <<lost, dangling>>
     \/ queueAlive /\ unblocked /\ Refuse(m) /\ UNCHANGED <<thread, accepted, dangling>>
     \/ ~queueAlive /\ dangling' = TRUE /\ UNCHANGED <<list, thread, accepted, lost>>
  /\ UNCHANGED <<unblocked, holders, queueAlive, inHand, owner, sent, handled, deallocated, late>>

-----------------------------------------------------------------------------
(***************************************************************************)
(* The task's thread.                                                      *)
(***************************************************************************)
Take ==
  /\ RemoveTail /\ thread' = "proc"
  /\ late' = late + (IF unblocked THEN 1 ELSE 0)

\* msg_q_rcv up to the wait: a queue that was unblocked is looked at before its messages.
Receive ==
  /\ thread = "run"
  /\ \/ unblocked /\ thread' = "ending" /\ UNCHANGED <<list, inHand, late>>
     \/ ~unblocked /\ ~NothingListed /\ Take
     \/ ~unblocked /\ NothingListed /\ thread' = "wait" /\ UNCHANGED <<list, inHand, late>>
  /\ UNCHANGED <<unblocked, holders, queueAlive, owner, calling, sent, accepted, handled, lost,
                 deallocated, dangling>>

\* A condition may wake its waiter without cause.
WakeUp ==
  /\ thread = "wait" /\ thread' = "woken"
  /\ UNCHANGED <<list, unblocked, holders, queueAlive, inHand, owner, calling, sent, accepted,
                 handled, lost, deallocated, late, dangling>>

\* msg_q_rcv after the wait: messages are looked at before the end of the queue.
LookAgain ==
  /\ thread = "woken"
  /\ \/ ~NothingListed /\ Take
     \/ NothingListed /\ unblocked /\ thread' = "ending" /\ UNCHANGED <<list, inHand, late>>
     \/ NothingListed /\ ~unblocked /\ thread' = "wait" /\ UNCHANGED <<list, inHand, late>>
  /\ UNCHANGED <<unblocked, holders, queueAlive, owner, calling, sent, accepted, handled, lost,
                 deallocated, dangling>>

\* The handler returned and its message is deleted.
Proc ==
  /\ thread = "proc" /\ Self \notin calling
  /\ handled' = handled \o inHand /\ inHand' = <<>> /\ thread' = "run"
  /\ UNCHANGED <<list, unblocked, holders, queueAlive, owner, calling, sent, accepted, lost,
                 deallocated, late, dangling>>

\* run returned false: the thread ends and gives back its share of the runnable.
EndThread ==
  /\ thread = "ending" /\ thread' = "ended" /\ Drop("thread")
  /\ UNCHANGED <<unblocked, inHand, owner, calling, sent, accepted, handled, lost, late, dangling>>

-----------------------------------------------------------------------------
(***************************************************************************)
(* The owner.                                                              *)
(***************************************************************************)
\* LocThread::stop: the delegate's destructor takes a share of the runnable, if there
\* still is one.
StopTask ==
  /\ owner = "uses" /\ (Disciplined => calling = {})
  /\ IF holders # {} THEN owner' = "stops" /\ holders' = holders \cup {"owner"}
     ELSE owner' = "gone" /\ UNCHANGED holders
  /\ UNCHANGED <<list, unblocked, queueAlive, thread, inHand, calling, sent, accepted, handled,
                 lost, deallocated, late, dangling>>

\* It interrupts the runnable: msg_q_unblock.
Unblock ==
  /\ owner = "stops" /\ owner' = "leaves"
  /\ unblocked' = TRUE /\ Signal
  /\ UNCHANGED <<list, holders, queueAlive, inHand, calling, sent, accepted, handled, lost,
                 deallocated, late, dangling>>

LeaveTask ==
  /\ owner = "leaves" /\ owner' = "gone" /\ Drop("owner")
  /\ UNCHANGED <<unblocked, thread, inHand, calling, sent, accepted, handled, lost, late, dangling>>

TaskNext ==
  \/ \E s \in Senders : Call(s) \/ Send(s)
  \/ Receive \/ WakeUp \/ LookAgain \/ Proc \/ EndThread
  \/ StopTask \/ Unblock \/ LeaveTask

\* Every thread that can take a step of the task takes it at last; the waiter is not
\* woken without cause for ever, and nobody has to send or to stop.
TaskFair ==
  /\ WF_msgTaskVars(Receive) /\ WF_msgTaskVars(LookAgain) /\ WF_msgTaskVars(Proc)
  /\ WF_msgTaskVars(EndThread) /\ WF_msgTaskVars(Unblock) /\ WF_msgTaskVars(LeaveTask)
  /\ \A s \in Senders : WF_msgTaskVars(Send(s))

TaskSpec == TaskInit /\ [][TaskNext]_msgTaskVars /\ TaskFair

-----------------------------------------------------------------------------
\* Every variable keeps its type.
TaskTypeOK ==
  /\ ToSet(list) \subseteq TaskMessages /\ ToSet(accepted) \subseteq TaskMessages
  /\ ToSet(handled) \subseteq TaskMessages /\ ToSet(inHand) \subseteq TaskMessages /\ Len(inHand) <= 1
  /\ lost \subseteq TaskMessages /\ deallocated \subseteq TaskMessages
  /\ unblocked \in BOOLEAN /\ queueAlive \in BOOLEAN /\ dangling \in BOOLEAN
  /\ holders \subseteq {"thread", "owner"} /\ calling \subseteq Senders
  /\ thread \in {"run", "wait", "woken", "proc", "ending", "ended"}
  /\ owner \in {"uses", "stops", "leaves", "gone"}
  /\ sent \in [Senders -> 0 .. MaxSends] /\ late \in Nat

\* What the queue took is handled in that order, each message once and none left out: what
\* is not handled is still in the queue or, when the queue is gone, freed.
EachOnce ==
  LET begun == handled \o inHand IN
  /\ IsPrefix(begun, accepted)
  /\ LET rest == SubSeq(accepted, Len(begun) + 1, Len(accepted)) IN
     IF queueAlive THEN rest = Reverse(list) ELSE ToSet(rest) = deallocated
  /\ Cardinality(ToSet(accepted)) = Len(accepted)

\* The thread sleeps only while there is nothing to do for it.
NobodyOversleeps == thread = "wait" => list = <<>> /\ ~unblocked

\* Once the task was stopped at most one more message is begun.
FewAfterStop == late <= 1

\* With callers that keep to the rules, no message is lost and the queue is not used
\* after its end; the others lose only messages that they sent with the stop.
NothingLost == /\ Disciplined => lost = {} /\ ~dangling
               /\ lost \cap (ToSet(accepted) \cup ToSet(handled) \cup deallocated) = {}

\* A message that the queue took is handled, or freed with the queue; a task that is
\* stopped ends and gives back its queue.
MessagesEnd ==
  /\ \A m \in TaskMessages : (m \in ToSet(list)) ~> (m \in ToSet(handled) \cup deallocated)
  /\ (owner = "stops") ~> (thread = "ended" /\ ~queueAlive)

=============================================================================

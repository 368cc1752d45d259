----------------------------- MODULE MailboxTest ------------------------------
(***************************************************************************)
(* The scenario of ItcMailboxTest test4 (itcMailboxTest.cc): each sender   *)
(* thread pushes its own messages in order until a push is refused, the    *)
(* main thread receives until it has Limit messages, deactivates the       *)
(* mailbox, joins the senders, frees what it may and looks at the queue.   *)
(* The mailbox is Mailbox, unchanged; the main thread is its owner.        *)
(***************************************************************************)
EXTENDS Mailbox

CONSTANTS
    PerSender,   \* NUMBER_OF_MESSAGES / NUMBER_OF_SENDERS
    Limit        \* the number of messages after which the receiver stops

\* Elements is Producers \X (1 .. PerSender): the entry i of the array
\* messages<t> is the message <<t, i>>.  Limit is less than their number.

VARIABLES
    next,        \* i of each sender; the entries below it are nullptr
    shouldStop,  \* of each sender
    phase        \* where the main thread is

tvars == <<mvars, next, shouldStop, phase>>

\* setState(true) and FOR_LOOP_ALLOCATION, before any thread is started.
TInit ==
    /\ Init
    /\ active = TRUE
    /\ stage = [t \in Threads |-> "idle"]
    /\ arg = [t \in Threads |-> NIL]
    /\ freed = {} /\ inbox = {} /\ leaked = {}
    /\ next = [t \in Producers |-> 1]
    /\ shouldStop = [t \in Producers |-> FALSE]
    /\ phase = "receive"

(* PUSH sets the entry to nullptr also when push has refused the message,  *)
(* which nobody frees then.                                                *)
Push(t) ==
    /\ ~shouldStop[t]
    /\ next[t] <= PerSender
    /\ \/ SendSeesActive(t, <<t, next[t]>>) /\ UNCHANGED shouldStop
       \/ /\ SendSeesInactive(t, <<t, next[t]>>)
          /\ shouldStop' = [shouldStop EXCEPT ![t] = TRUE]
    /\ next' = [next EXCEPT ![t] = @ + 1]
    /\ UNCHANGED phase

SenderEnded(t) == stage[t] = "idle" /\ (shouldStop[t] \/ next[t] > PerSender)

(* The receive loop; count is the number of messages in toBeFreeMessages,  *)
(* which is inbox here.                                                    *)
Loop(t) ==
    /\ phase = "receive"
    /\ \/ Cardinality(inbox) < Limit /\ ReceiveBegin(t, "tryReceive")
       \/ ReceiveStep(t)
    /\ UNCHANGED <<next, shouldStop, phase>>

Stop(t) ==
    /\ phase = "receive"
    /\ Cardinality(inbox) = Limit
    /\ Deactivate(t)
    /\ phase' = "drain"
    /\ UNCHANGED <<next, shouldStop>>

Drain(t) ==
    /\ phase = "drain"
    /\ DrainStep(t)
    /\ UNCHANGED <<next, shouldStop, phase>>

\* The entries FOR_LOOP_DEALLOCATION finds not to be nullptr.
NeverPushed == {e \in Elements : next[e[1]] <= e[2]}

\* join, FOR_LOOP_DEALLOCATION and the loop over toBeFreeMessages.
JoinAndFree ==
    /\ phase = "drain"
    /\ stage[Owner] = "idle"
    /\ \A t \in Producers : SenderEnded(t)
    /\ freed' = freed \cup inbox \cup NeverPushed
    /\ inbox' = {}
    /\ phase' = "assert"
    /\ UNCHANGED <<vars, active, stage, arg, leaked, next, shouldStop>>

TNext ==
    \/ \E t \in Producers :
        \/ Push(t)
        \/ (SendReserve(t) \/ SendStore(t)) /\ UNCHANGED <<next, shouldStop, phase>>
    \/ Loop(Owner)
    \/ Stop(Owner)
    \/ Drain(Owner)
    \/ JoinAndFree

TSpec == TInit /\ [][TNext]_tvars

-----------------------------------------------------------------------------
(* ASSERT_EQ(receiver.m_rxMsgQueue->size(), 0) at the end of the test,     *)
(* after setState(false) has returned and the senders have been joined.    *)
EmptyAfterDeactivation ==
    phase = "assert" => NonNegative(SignedDiff(head, tail)) = 0
=============================================================================

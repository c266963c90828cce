--------------------------- MODULE MessageDelivery --------------------------
(***************************************************************************)
(* Delivery of outbound conversation messages (message-delivery.service.ts *)
(* and its callers): the replies of the bot, dispatched by the webhook     *)
(* call that queued them; the messages of a member, dispatched by the      *)
(* request that wrote them; and processPending, which goes over a batch of *)
(* messages that are not sent yet.  Nothing is claimed: a dispatch reads   *)
(* the message, asks the provider and then records the outcome, provided   *)
(* that deliveryStatus is still what it read.                              *)
(*                                                                         *)
(* Messages are numbered in the order of createdAt.  DELIVERED and READ    *)
(* are never written by the code and are left out.                         *)
(***************************************************************************)
EXTENDS Naturals, FiniteSets

CONSTANTS
  Messages,     \* outbound messages, numbered by createdAt
  Workers,      \* webhook calls, member requests and processPending calls
  Refused,      \* messages the provider never accepts
  BatchLimit,   \* limit of processPending (25)
  Idle          \* a worker with nothing to do

ASSUME DeliveryAssumption ==
  /\ Messages \subseteq Nat
  /\ Refused \subseteq Messages
  /\ BatchLimit \in Nat \ {0}

VARIABLES
  status,    \* message.deliveryStatus; "NONE" before the message is committed
  received,  \* messages that reached the customer, once or more often
  work       \* what each worker is doing

vars == <<status, received, work>>

Unsent == {"PENDING", "FAILED"}
Work == [todo : (SUBSET Messages) \ {{}}, seen : Unsent \cup {"NONE"},
         step : {"read", "sending", "sent", "failed"}]
ASSUME IdleAssumption == Idle \notin Work

-----------------------------------------------------------------------------
\* Take up the messages of a list, one after the other.
Start(list) == IF list = {} THEN Idle
               ELSE [todo |-> list, seen |-> "NONE", step |-> "read"]

\* The message a worker is at: the oldest of its list.
First(list) == CHOOSE m \in list : \A n \in list : m <= n
Current(w) == First(work[w].todo)

\* On to the next message, whatever became of this one: both callers swallow
\* what dispatch throws, and a member's request has only one.
Done(w) == work' = [work EXCEPT ![w] = Start(work[w].todo \ {Current(w)})]

Doing(w, step) == work[w] # Idle /\ work[w].step = step
At(w, m) == work[w] # Idle /\ Current(w) = m

\* queueReplies commits the replies to an event, sendHumanMessage the message
\* of a member; the same request then dispatches them in order.
queueReplies(w, new) ==
  /\ work[w] = Idle
  /\ \A m \in new : status[m] = "NONE"
  /\ status' = [m \in Messages |-> IF m \in new THEN "PENDING" ELSE status[m]]
  /\ work' = [work EXCEPT ![w] = Start(new)]
  /\ UNCHANGED received

\* The first BatchLimit messages of a set.
Oldest(due) ==
  {m \in due : Cardinality({n \in due : n < m}) < BatchLimit}

\* Mutated form: messages that failed once are not taken up again.
BatchPendingOnly == Oldest({m \in Messages : status[m] = "PENDING"})

\* What processPending goes over: the oldest messages not sent yet.
Batch == Oldest({m \in Messages : status[m] \in Unsent})

processPending(w) ==
  /\ work[w] = Idle
  /\ Batch # {}
  /\ work' = [work EXCEPT ![w] = Start(Batch)]
  /\ UNCHANGED <<status, received>>

\* deliveryContext: the message as it is now; a sent one is left alone.
read(w) ==
  /\ Doing(w, "read")
  /\ IF status[Current(w)] \in Unsent
     THEN work' = [work EXCEPT ![w].seen = status[Current(w)],
                               ![w].step = "sending"]
     ELSE Done(w)
  /\ UNCHANGED <<status, received>>

\* Mutated form: a lost answer counts as a delivery.
outcomeOptimistic(answered) == "sent"

\* What dispatch does next, once the adapter returned or threw.
outcome(answered) == IF answered THEN "sent" ELSE "failed"

\* The provider accepts the message and says so.
accept(w) ==
  /\ Doing(w, "sending")
  /\ Current(w) \notin Refused
  /\ received' = received \cup {Current(w)}
  /\ work' = [work EXCEPT ![w].step = outcome(TRUE)]
  /\ UNCHANGED status

\* The provider refuses it, or cannot be reached, or its answer is lost.
decline(w) ==
  /\ Doing(w, "sending")
  /\ \/ received' = received
     \/ Current(w) \notin Refused /\ received' = received \cup {Current(w)}
  /\ work' = [work EXCEPT ![w].step = outcome(FALSE)]
  /\ UNCHANGED status

\* Mutated form: the update of a failure has no filter on the status.
UnchangedById(w) == TRUE

\* The filter of both updates: the status is the one dispatch read.
Unchanged(w) == status[Current(w)] = work[w].seen

recordSent(w) ==
  /\ Doing(w, "sent")
  /\ status' = IF Unchanged(w) THEN [status EXCEPT ![Current(w)] = "SENT"]
               ELSE status
  /\ Done(w)
  /\ UNCHANGED received

markFailed(w) ==
  /\ Doing(w, "failed")
  /\ status' = IF Unchanged(w) THEN [status EXCEPT ![Current(w)] = "FAILED"]
               ELSE status
  /\ Done(w)
  /\ UNCHANGED received

\* The process dies: nothing is recorded and the rest of its list is forgotten.
crash(w) ==
  /\ work[w] # Idle
  /\ work' = [work EXCEPT ![w] = Idle]
  /\ UNCHANGED <<status, received>>

Init ==
  /\ status = [m \in Messages |-> "NONE"]
  /\ received = {}
  /\ work = [w \in Workers |-> Idle]

\* A step of a request that is under way.
Going(w) == read(w) \/ accept(w) \/ decline(w) \/ recordSent(w) \/ markFailed(w)

Next ==
  \E w \in Workers :
    \/ \E new \in (SUBSET Messages) \ {{}} : queueReplies(w, new)
    \/ processPending(w)
    \/ Going(w)
    \/ crash(w)

Spec == Init /\ [][Next]_vars

\* Requests under way go on unless their process dies, and somebody keeps
\* calling processPending (external: the repository schedules no call of it).
Scheduling ==
  \A w \in Workers : WF_vars(processPending(w)) /\ WF_vars(Going(w))

\* The provider and the processes are not all down for good: whatever step of
\* some worker comes up again and again is carried out again and again, and a
\* message the provider would take is then taken.
RecoveringSpec ==
  /\ Spec
  /\ Scheduling
  /\ \E w \in Workers : \A m \in Messages :
       /\ SF_vars(At(w, m) /\ read(w))
       /\ SF_vars(At(w, m) /\ IF m \in Refused THEN decline(w) ELSE accept(w))
       /\ SF_vars(At(w, m) /\ IF m \in Refused THEN markFailed(w)
                                               ELSE recordSent(w))

-----------------------------------------------------------------------------
(* Properties *)

\* Shape of the messages and of the work on them.
TypeOK ==
  /\ status \in [Messages -> {"NONE", "PENDING", "FAILED", "SENT"}]
  /\ received \subseteq Messages
  /\ work \in [Workers -> Work \cup {Idle}]

\* A message marked SENT did reach the customer, whichever of the calls that
\* raced on it recorded it.
SentMeansReceived == \A m \in Messages : status[m] = "SENT" => m \in received

\* A late failure of one call never undoes the delivery another recorded.
SentStays ==
  [][\A m \in Messages : status[m] = "SENT" => status'[m] = "SENT"]_vars

\* Once the provider works again every queued message it would take is sent and
\* recorded: neither calls that race on the compare-and-set nor older messages
\* it refuses for good, as long as they are fewer than a batch, keep it back.
EventuallySent ==
  Cardinality(Refused) < BatchLimit =>
    \A m \in Messages \ Refused : status[m] = "PENDING" ~> status[m] = "SENT"

-----------------------------------------------------------------------------
(* The inductive invariant *)

\* A call that is about to record a delivery has made it, and a call past its
\* first step saw the message unsent.
CallsHonest ==
  \A w \in Workers : work[w] # Idle =>
    /\ work[w].step = "sent" => Current(w) \in received
    /\ work[w].step # "read" => work[w].seen \in Unsent

Delivery == TypeOK /\ SentMeansReceived /\ CallsHonest
=============================================================================

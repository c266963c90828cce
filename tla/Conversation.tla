---------------------------- MODULE Conversation ----------------------------
(***************************************************************************)
(* One WhatsApp conversation: inbound provider events                      *)
(* (conversation-engine.service.ts), the bot's state machine               *)
(* (conversation-state-machine.ts) and the handoff to a member of the      *)
(* tenant's staff and back (handoff.service.ts).                           *)
(*                                                                         *)
(* Each is a transaction, in the two steps of Booking: the handler decides *)
(* on a snapshot, its writes commit unless a document among them was       *)
(* overtaken.  Webhook calls run concurrently and the provider repeats an  *)
(* event until it is answered with success, and sometimes after that.      *)
(*                                                                         *)
(* What the customer types is abstracted to what commandKey makes of it;   *)
(* a value kept in the context is named by the event that supplied it.     *)
(***************************************************************************)
EXTENDS Naturals, Sequences

CONSTANTS
  Workers,     \* requests being served concurrently
  Members,     \* active members of the tenant
  Inputs,      \* what the customer may type
  MaxEvents,   \* bound: messages the customer writes
  MaxBacklog,  \* bound: messages written and not yet stored
  MaxHistory,  \* bound: states after which no member asks for a handoff
  None,        \* null
  Idle         \* no open transaction

ASSUME BoundsAssumption ==
  MaxEvents \in Nat /\ MaxBacklog \in Nat /\ MaxHistory \in Nat
ASSUME InputsAssumption ==
  Inputs \subseteq {"main_menu", "book", "reschedule", "cancel", "human",
                    "confirm", "modify", "back", "menu", "other"}

VARIABLES
  written,   \* the inputs the customer has sent, in the order written
  inbound,   \* inbound messages in commit order, with the state each met and left
  conv,      \* the conversation document, or None
  history,   \* conversation_state_history in commit order
  replies,   \* the events the bot queued a reply to
  commands,  \* commands the booking handler took, in commit order
  txn        \* the open transaction of each worker

database == <<inbound, conv, history, replies, commands>>
vars == <<written, database, txn>>

-----------------------------------------------------------------------------
(* Documents *)

State == {"MAIN_MENU", "BOOKING_SERVICE", "BOOKING_PROFESSIONAL",
          "BOOKING_DATE", "BOOKING_TIME", "BOOKING_CUSTOMER_DATA",
          "BOOKING_CONFIRMATION", "RESCHEDULE_SELECT_APPOINTMENT",
          "RESCHEDULE_DATE", "RESCHEDULE_TIME", "CANCEL_SELECT_APPOINTMENT",
          "CANCEL_CONFIRMATION", "HUMAN_HANDOFF"}
Field == {"serviceId", "professionalId", "date", "time", "customerData",
          "appointmentId"}
Event == 1 .. MaxEvents
Context == [Field -> Event \cup {None}]
empty == [f \in Field |-> None]

Conv == [state : State, context : Context, controlStatus : {"BOT", "HUMAN"},
         assignedTo : Members \cup {None}]
Command == [type : {"CREATE_BOOKING", "RESCHEDULE_BOOKING", "CANCEL_BOOKING"},
            by : Event, data : Context]

ASSUME NoneAssumption ==
  None \notin Conv \cup Event \cup Members \cup State \cup Command

-----------------------------------------------------------------------------
(* The state machine *)

Result(state, context, command) ==
  [state |-> state, context |-> context, command |-> command, reply |-> TRUE]
toMenu == Result("MAIN_MENU", empty, None)

\* States that take the next message as a value: where they lead, and the
\* field the value is kept under.
advance ==
  [BOOKING_SERVICE |-> <<"BOOKING_PROFESSIONAL", "serviceId">>,
   BOOKING_PROFESSIONAL |-> <<"BOOKING_DATE", "professionalId">>,
   BOOKING_DATE |-> <<"BOOKING_TIME", "date">>,
   BOOKING_TIME |-> <<"BOOKING_CUSTOMER_DATA", "time">>,
   BOOKING_CUSTOMER_DATA |-> <<"BOOKING_CONFIRMATION", "customerData">>,
   RESCHEDULE_SELECT_APPOINTMENT |-> <<"RESCHEDULE_DATE", "appointmentId">>,
   RESCHEDULE_DATE |-> <<"RESCHEDULE_TIME", "date">>,
   CANCEL_SELECT_APPOINTMENT |-> <<"CANCEL_CONFIRMATION", "appointmentId">>]

mainMenu(i) ==
  CASE i = "book"       -> Result("BOOKING_SERVICE", empty, None)
    [] i = "reschedule" -> Result("RESCHEDULE_SELECT_APPOINTMENT", empty, None)
    [] i = "cancel"     -> Result("CANCEL_SELECT_APPOINTMENT", empty, None)
    [] i = "human"      -> Result("HUMAN_HANDOFF", empty, None)
    [] OTHER            -> toMenu

Required == Field \ {"appointmentId"}

\* Mutated form: the message that confirms is taken for the customer's data.
bookingConfirmationAsData(i, e, context) ==
  IF i = "confirm"
  THEN Result("MAIN_MENU", empty,
              [type |-> "CREATE_BOOKING", by |-> e,
               data |-> [context EXCEPT !["customerData"] = e,
                                        !["appointmentId"] = None]])
  ELSE IF i \in {"modify", "back"} THEN Result("BOOKING_SERVICE", empty, None)
  ELSE IF i = "menu" THEN toMenu ELSE Result("BOOKING_CONFIRMATION", context, None)

bookingConfirmation(i, e, context) ==
  CASE i \in {"modify", "back"} -> Result("BOOKING_SERVICE", empty, None)
    [] i = "menu" -> toMenu
    [] i # "confirm" /\ i \notin {"modify", "back", "menu"} ->
         Result("BOOKING_CONFIRMATION", context, None)
    [] i = "confirm" ->
         IF \E f \in Required : context[f] = None
         THEN Result("BOOKING_SERVICE", empty, None)
         ELSE Result("MAIN_MENU", empty,
                     [type |-> "CREATE_BOOKING", by |-> e,
                      data |-> [context EXCEPT !["appointmentId"] = None]])

\* The new time is the message itself.
rescheduleTime(e, context) ==
  IF context["appointmentId"] = None \/ context["date"] = None
  THEN Result("RESCHEDULE_SELECT_APPOINTMENT", empty, None)
  ELSE Result("MAIN_MENU", empty,
              [type |-> "RESCHEDULE_BOOKING", by |-> e,
               data |-> [empty EXCEPT !["date"] = context["date"],
                                      !["time"] = e,
                                      !["appointmentId"] =
                                        context["appointmentId"]]])

cancelConfirmation(i, e, context) ==
  CASE i \in {"back", "menu"} -> toMenu
    [] i \notin {"back", "menu", "confirm"} ->
         Result("CANCEL_CONFIRMATION", context, None)
    [] i = "confirm" ->
         IF context["appointmentId"] = None
         THEN Result("CANCEL_SELECT_APPOINTMENT", empty, None)
         ELSE Result("MAIN_MENU", empty,
                     [type |-> "CANCEL_BOOKING", by |-> e,
                      data |-> [empty EXCEPT !["appointmentId"] =
                                  context["appointmentId"]]])

transitionConversation(state, context, e, i) ==
  CASE i = "main_menu" -> toMenu
    [] i # "main_menu" /\ state = "MAIN_MENU" -> mainMenu(i)
    [] i # "main_menu" /\ state \in DOMAIN advance ->
         Result(advance[state][1],
                [context EXCEPT ![advance[state][2]] = e], None)
    [] i # "main_menu" /\ state = "BOOKING_CONFIRMATION" ->
         bookingConfirmation(i, e, context)
    [] i # "main_menu" /\ state = "RESCHEDULE_TIME" ->
         rescheduleTime(e, context)
    [] i # "main_menu" /\ state = "CANCEL_CONFIRMATION" ->
         cancelConfirmation(i, e, context)
    [] i # "main_menu" /\ state = "HUMAN_HANDOFF" ->
         [Result(state, context, None) EXCEPT !.reply = FALSE]

-----------------------------------------------------------------------------
(* What each handler decides *)

Step(from, to) == <<[from |-> from, to |-> to]>>
StepIfChanged(from, to) == IF from = to THEN <<>> ELSE Step(from, to)

\* The conversation of a first message is created with it.
newConv == [state |-> "MAIN_MENU", context |-> empty,
            controlStatus |-> "BOT", assignedTo |-> None]
loaded == IF conv = None THEN newConv ELSE conv
created == IF conv = None THEN Step(None, "MAIN_MENU") ELSE <<>>

Recorded == {inbound[n].event : n \in 1 .. Len(inbound)}

\* Mutated form: only the control is looked at, not a pending request.
HumanControl(c) == c.controlStatus = "HUMAN"

\* The bot leaves the conversation alone.
BotSilent(c) == c.controlStatus = "HUMAN" \/ c.state = "HUMAN_HANDOFF"

Stored(e) ==
  [inbound |-> <<[to |-> loaded.state, event |-> e, at |-> loaded.state]>>,
   command |-> <<>>, reply |-> {}, event |-> e, op |-> "inbound",
   doc |-> None, steps |-> created]

Answered(e, i) ==
  LET c == loaded
      t == transitionConversation(c.state, c.context, e, i)
  IN [inbound |-> <<[to |-> t.state, event |-> e, at |-> c.state]>>,
      command |-> IF t.command = None THEN <<>> ELSE <<t.command>>,
      reply |-> IF t.reply THEN {e} ELSE {}, event |-> e, op |-> "inbound",
      doc |-> [c EXCEPT !.state = t.state, !.context = t.context],
      steps |-> created \o StepIfChanged(c.state, t.state)]

\* Mutated form: the provider event is not recorded under a unique index.
processAgain(e) ==
  IF BotSilent(loaded) THEN {Stored(e)} ELSE {Answered(e, written[e])}

\* processTransaction.  A repeated event meets the unique index and is answered
\* as a duplicate.  A command the booking handler refuses throws, which aborts
\* everything, the record of the event included: that is Abort.
processTransaction(e) ==
  IF e \in Recorded THEN {}
  ELSE IF BotSilent(loaded) THEN {Stored(e)}
  ELSE {Answered(e, written[e])}

Control(doc, steps) ==
  [inbound |-> <<>>, command |-> <<>>, reply |-> {}, event |-> None,
   op |-> "handoff", doc |-> doc, steps |-> steps]

requestPlan ==
  IF conv # None /\ conv.controlStatus # "HUMAN" /\ conv.state # "HUMAN_HANDOFF"
  THEN {Control([conv EXCEPT !.state = "HUMAN_HANDOFF", !.assignedTo = None],
                Step(conv.state, "HUMAN_HANDOFF"))}
  ELSE {}

\* Mutated form: whoever has it now is not asked.
claimAnyway(m) ==
  IF conv # None /\ conv.state = "HUMAN_HANDOFF"
  THEN {Control([conv EXCEPT !.controlStatus = "HUMAN", !.assignedTo = m], <<>>)}
  ELSE {}

claimPlan(m) ==
  IF conv # None /\ conv.controlStatus = "BOT" /\ conv.state = "HUMAN_HANDOFF"
  THEN {Control([conv EXCEPT !.controlStatus = "HUMAN", !.assignedTo = m], <<>>)}
  ELSE {}

reassignPlan(to) ==
  IF conv # None /\ conv.controlStatus = "HUMAN"
  THEN {Control([conv EXCEPT !.assignedTo = to], <<>>)}
  ELSE {}

\* Mutated form: the assignee is not reset.
releaseAssigned ==
  IF conv # None /\ conv.controlStatus = "HUMAN"
  THEN {Control([newConv EXCEPT !.assignedTo = conv.assignedTo],
                Step(conv.state, "MAIN_MENU"))}
  ELSE {}

releasePlan ==
  IF conv # None /\ conv.controlStatus = "HUMAN"
  THEN {Control(newConv, Step(conv.state, "MAIN_MENU"))}
  ELSE {}

Request == [op : {"inbound"}, event : Event] \cup
           [op : {"request", "release"}] \cup
           [op : {"claim", "reassign"}, member : Members]

\* The plans of a handler run on the current database: one, or none when it
\* refuses, finds nothing to do or has done it before.
Plans(r) ==
  CASE r.op = "inbound"  -> processTransaction(r.event)
    [] r.op = "request"  -> requestPlan
    [] r.op = "claim"    -> claimPlan(r.member)
    [] r.op = "reassign" -> reassignPlan(r.member)
    [] r.op = "release"  -> releasePlan

-----------------------------------------------------------------------------
(* Transactions *)

\* Mutated form: the transaction is dropped around all but the event.
WriteSetEventOnly(p) == IF p.event = None THEN {} ELSE {<<"event", p.event>>}

\* The provider event (unique index); the customer, whose updatedAt every
\* upsert touches; the conversation, at whose unique identity first messages
\* meet.
WriteSet(p) ==
  (IF p.event = None THEN {} ELSE {<<"event", p.event>>, <<"customer", 0>>})
    \cup (IF p.doc = None THEN {} ELSE {<<"conversation", 0>>})

Begin(w, r) ==
  \E p \in Plans(r) :
    txn' = [txn EXCEPT ![w] = [request |-> r, plan |-> p, overtaken |-> {}]]

Open(w, r) ==
  /\ txn[w] = Idle
  /\ Begin(w, r)
  /\ UNCHANGED <<written, database>>

\* The customer writes and the provider calls the webhook.
customerWrites(i) ==
  /\ Len(written) < MaxEvents
  /\ Len(written) - Len(inbound) < MaxBacklog
  /\ written' = Append(written, i)
  /\ UNCHANGED <<database, txn>>

\* The provider delivers an event, for the first time or again.
processInbound(w) ==
  \E e \in 1 .. Len(written) : Open(w, [event |-> e, op |-> "inbound"])

request(w) ==
  /\ Len(history) < MaxHistory
  /\ Open(w, [op |-> "request"])

claim(w) == \E m \in Members : Open(w, [op |-> "claim", member |-> m])

reassign(w) == \E m \in Members : Open(w, [op |-> "reassign", member |-> m])

release(w) == Open(w, [op |-> "release"])

Conflict(w) == WriteSet(txn[w].plan) \cap txn[w].overtaken # {}

Commit(w) ==
  /\ txn[w] # Idle
  /\ ~Conflict(w)
  /\ LET p == txn[w].plan
     IN /\ inbound' = inbound \o p.inbound
        /\ conv' = IF p.doc = None THEN conv ELSE p.doc
        /\ history' = history \o p.steps
        /\ replies' = replies \cup p.reply
        /\ commands' = commands \o p.command
        /\ txn' = [v \in Workers |->
                     IF v = w \/ txn[v] = Idle THEN Idle
                     ELSE [txn[v] EXCEPT !.overtaken = @ \cup WriteSet(p)]]
  /\ UNCHANGED written

\* A write conflict, or a race to create the customer or the conversation: the
\* handler runs again.
Retry(w) ==
  /\ txn[w] # Idle
  /\ Conflict(w)
  /\ IF Plans(txn[w].request) = {}
     THEN txn' = [txn EXCEPT ![w] = Idle]
     ELSE Begin(w, txn[w].request)
  /\ UNCHANGED <<written, database>>

\* The command is refused, a statement fails or the process dies.
Abort(w) ==
  /\ txn[w] # Idle
  /\ txn' = [txn EXCEPT ![w] = Idle]
  /\ UNCHANGED <<written, database>>

Init ==
  /\ written = <<>>
  /\ inbound = <<>>
  /\ conv = None
  /\ history = <<>>
  /\ replies = {}
  /\ commands = <<>>
  /\ txn = [w \in Workers |-> Idle]

Next ==
  \/ \E i \in Inputs : customerWrites(i)
  \/ \E w \in Workers :
       \/ processInbound(w)
       \/ request(w)
       \/ claim(w)
       \/ reassign(w)
       \/ release(w)
       \/ Commit(w)
       \/ Retry(w)
       \/ Abort(w)

Spec == Init /\ [][Next]_vars

-----------------------------------------------------------------------------
(* Properties *)

\* Shape of the documents.
TypeOK ==
  /\ written \in Seq(Inputs)
  /\ inbound \in Seq([event : Event, at : State, to : State])
  /\ conv \in Conv \cup {None}
  /\ history \in Seq([from : State \cup {None}, to : State])
  /\ replies \subseteq Event
  /\ commands \in Seq(Command)
  /\ DOMAIN txn = Workers

\* However often an event is delivered, and by however many webhook calls at
\* once, it is stored once and carries out at most one command.
OncePerEvent ==
  /\ \A m, n \in 1 .. Len(inbound) :
       inbound[m].event = inbound[n].event => m = n
  /\ \A m, n \in 1 .. Len(commands) : commands[m].by = commands[n].by => m = n
  /\ \A n \in 1 .. Len(commands) : commands[n].by \in Recorded

\* The history is one path through the states that ends where the
\* conversation is, whoever moved it.
HistoryIsPath ==
  /\ conv = None <=> history = <<>>
  /\ history # <<>> => /\ history[1].from = None
                       /\ history[Len(history)].to = conv.state
  /\ \A n \in 2 .. Len(history) : history[n].from = history[n - 1].to

\* A conversation under human control has exactly one assignee and is in the
\* handoff state; one the bot controls has none.
ControlConsistent ==
  conv # None =>
    /\ conv.controlStatus = "HUMAN" <=> conv.assignedTo # None
    /\ conv.controlStatus = "HUMAN" => conv.state = "HUMAN_HANDOFF"

\* What a flow asks for, in order.
Asked == [CREATE_BOOKING |-> <<"serviceId", "professionalId", "date", "time",
                               "customerData">>,
          RESCHEDULE_BOOKING |-> <<"appointmentId", "date", "time">>,
          CANCEL_BOOKING |-> <<"appointmentId">>]

\* A command is made of the answers to one uninterrupted run of prompts: they
\* were stored one after the other, in the order asked, with nothing between
\* them and the command but messages the confirmation did not understand.
CommandFromOneFlow ==
  \A n \in 1 .. Len(commands) :
    LET c == commands[n]
        asked == Asked[c.type]
    IN \E first, last \in 1 .. Len(inbound) :
         /\ inbound[last].event = c.by
         /\ first + Len(asked) - 1 <= last
         /\ \A k \in 1 .. Len(asked) :
              c.data[asked[k]] = inbound[first + k - 1].event
         /\ \A k \in first + Len(asked) .. last :
              /\ inbound[k].at \in {"BOOKING_CONFIRMATION",
                                     "CANCEL_CONFIRMATION"}
              /\ k < last => inbound[k].to = inbound[k].at

\* While a handoff is asked for or under way the bot neither replies nor
\* carries out a command, also when it was already working on a message.
BotStaysSilent ==
  [][conv # None /\ conv.state = "HUMAN_HANDOFF" =>
       /\ replies' = replies
       /\ commands' = commands]_vars

\* A member does not lose a conversation to another who claims it too: once
\* assigned it changes hands only by a reassignment or a release.
NoStolenClaim ==
  [][conv # None /\ conv.assignedTo # None /\ conv' # conv =>
       \E w \in Workers : /\ txn[w] # Idle /\ txn'[w] = Idle
                          /\ txn[w].request.op \in {"reassign", "release"}]_vars
=============================================================================

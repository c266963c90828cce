-------------------------- MODULE ConversationProofs ------------------------
(***************************************************************************)
(* That concurrent webhook calls and handoffs leave one conversation, for  *)
(* any number of workers, members and messages.                            *)
(***************************************************************************)
EXTENDS Conversation, TLAPS

-----------------------------------------------------------------------------
(* The state machine *)

\* The values a state has been given, in the order they were asked for.
Kept(s) ==
  CASE s = "BOOKING_PROFESSIONAL" -> <<"serviceId">>
    [] s = "BOOKING_DATE" -> <<"serviceId", "professionalId">>
    [] s = "BOOKING_TIME" -> <<"serviceId", "professionalId", "date">>
    [] s = "BOOKING_CUSTOMER_DATA" ->
         <<"serviceId", "professionalId", "date", "time">>
    [] s = "BOOKING_CONFIRMATION" ->
         <<"serviceId", "professionalId", "date", "time", "customerData">>
    [] s = "RESCHEDULE_DATE" -> <<"appointmentId">>
    [] s = "RESCHEDULE_TIME" -> <<"appointmentId", "date">>
    [] s = "CANCEL_CONFIRMATION" -> <<"appointmentId">>
    [] OTHER -> <<>>

\* The states that wait for a confirmation,
Confirming == {"BOOKING_CONFIRMATION", "CANCEL_CONFIRMATION"}
\* ... those that keep no answer yet,
Beginning == {"MAIN_MENU", "BOOKING_SERVICE", "RESCHEDULE_SELECT_APPOINTMENT",
              "CANCEL_SELECT_APPOINTMENT", "HUMAN_HANDOFF"}
\* ... and those whose next message is an answer.
Asking == {"BOOKING_SERVICE", "BOOKING_PROFESSIONAL", "BOOKING_DATE",
           "BOOKING_TIME", "BOOKING_CUSTOMER_DATA",
           "RESCHEDULE_SELECT_APPOINTMENT", "RESCHEDULE_DATE",
           "CANCEL_SELECT_APPOINTMENT"}

\* The prompts, and that an answer never leads back to its own prompt.
LEMMA AdvanceFacts ==
  /\ DOMAIN advance = Asking
  /\ \A s \in Asking : /\ advance[s][1] \in State /\ advance[s][2] \in Field
                       /\ advance[s][1] # s
BY DEF advance, Asking, State, Field

\* A context without answers is a context.
LEMMA EmptyTyped == empty \in Context
BY DEF empty, Context

\* What a transition may do: go back to a beginning, keep a value, stay at a
\* confirmation, or carry out a command.
Outcome(s, context, e, t) ==
  \/ t.state \in Beginning /\ t.context = empty /\ t.command = None
  \/ /\ s \in Asking
     /\ t.state = advance[s][1]
     /\ t.context = [context EXCEPT ![advance[s][2]] = e]
     /\ t.command = None
  \/ /\ s \in Confirming
     /\ t.state = s /\ t.context = context /\ t.command = None
  \/ /\ t.state = "MAIN_MENU" /\ t.context = empty
     /\ \/ /\ s = "BOOKING_CONFIRMATION"
           /\ t.command = [type |-> "CREATE_BOOKING", by |-> e,
                           data |-> [context EXCEPT !["appointmentId"] = None]]
        \/ /\ s = "RESCHEDULE_TIME"
           /\ t.command = [type |-> "RESCHEDULE_BOOKING", by |-> e,
                           data |-> [empty EXCEPT
                                       !["date"] = context["date"],
                                       !["time"] = e,
                                       !["appointmentId"] =
                                         context["appointmentId"]]]
        \/ /\ s = "CANCEL_CONFIRMATION"
           /\ t.command = [type |-> "CANCEL_BOOKING", by |-> e,
                           data |-> [empty EXCEPT !["appointmentId"] =
                                       context["appointmentId"]]]

\* transitionConversation replies and has one of these outcomes, whatever the
\* customer types, unless the conversation was handed over.
LEMMA TransitionOutcome ==
  ASSUME NEW s \in State \ {"HUMAN_HANDOFF"}, NEW context \in Context,
         NEW e \in Event, NEW i \in Inputs
  PROVE  LET t == transitionConversation(s, context, e, i)
         IN t.reply = TRUE /\ Outcome(s, context, e, t)
<1> DEFINE t == transitionConversation(s, context, e, i)
<1>1. CASE i = "main_menu"
  <2>1. t = toMenu
    BY <1>1 DEF transitionConversation
  <2> QED
    BY <2>1 DEF toMenu, Result, Outcome, Beginning
<1>2. CASE i # "main_menu" /\ s = "MAIN_MENU"
  <2>1. t = mainMenu(i)
    BY <1>2, AdvanceFacts DEF transitionConversation, Asking
  <2>2. \E n \in Beginning : t = Result(n, empty, None)
    BY <2>1 DEF mainMenu, toMenu, Beginning
  <2> QED
    BY <2>2 DEF Result, Outcome
<1>3. CASE i # "main_menu" /\ s \in Asking
  <2>1. t = Result(advance[s][1], [context EXCEPT ![advance[s][2]] = e], None)
    BY <1>3, AdvanceFacts DEF transitionConversation, Asking
  <2> QED
    BY <1>3, <2>1 DEF Result, Outcome
<1>4. CASE i # "main_menu" /\ s = "BOOKING_CONFIRMATION"
  <2>1. t = bookingConfirmation(i, e, context)
    BY <1>4, AdvanceFacts DEF transitionConversation, Asking
  <2>2. \/ \E n \in Beginning : t = Result(n, empty, None)
        \/ t = Result("BOOKING_CONFIRMATION", context, None)
        \/ t = Result("MAIN_MENU", empty,
                      [type |-> "CREATE_BOOKING", by |-> e,
                       data |-> [context EXCEPT !["appointmentId"] = None]])
    BY <2>1 DEF bookingConfirmation, toMenu, Beginning
  <2> QED
    BY <1>4, <2>2 DEF Result, Outcome, Confirming
<1>5. CASE i # "main_menu" /\ s = "RESCHEDULE_TIME"
  <2>1. t = rescheduleTime(e, context)
    BY <1>5, AdvanceFacts DEF transitionConversation, Asking
  <2>2. \/ \E n \in Beginning : t = Result(n, empty, None)
        \/ t = Result("MAIN_MENU", empty,
                      [type |-> "RESCHEDULE_BOOKING", by |-> e,
                       data |-> [empty EXCEPT !["date"] = context["date"],
                                              !["time"] = e,
                                              !["appointmentId"] =
                                                context["appointmentId"]]])
    BY <2>1 DEF rescheduleTime, Beginning
  <2> QED
    BY <1>5, <2>2 DEF Result, Outcome
<1>6. CASE i # "main_menu" /\ s = "CANCEL_CONFIRMATION"
  <2>1. t = cancelConfirmation(i, e, context)
    BY <1>6, AdvanceFacts DEF transitionConversation, Asking
  <2>2. \/ \E n \in Beginning : t = Result(n, empty, None)
        \/ t = Result("CANCEL_CONFIRMATION", context, None)
        \/ t = Result("MAIN_MENU", empty,
                      [type |-> "CANCEL_BOOKING", by |-> e,
                       data |-> [empty EXCEPT !["appointmentId"] =
                                   context["appointmentId"]]])
    BY <2>1 DEF cancelConfirmation, toMenu, Beginning
  <2> QED
    BY <1>6, <2>2 DEF Result, Outcome, Confirming
<1>7. s \in {"MAIN_MENU", "BOOKING_CONFIRMATION", "RESCHEDULE_TIME",
             "CANCEL_CONFIRMATION"} \cup Asking
  BY DEF State, Asking
<1> QED
  BY <1>1, <1>2, <1>3, <1>4, <1>5, <1>6, <1>7

\* An outcome is well-formed, and its command is named after the message that
\* carries it out.
LEMMA OutcomeTyped ==
  ASSUME NEW s \in State, NEW context \in Context, NEW e \in Event,
         NEW t, Outcome(s, context, e, t)
  PROVE  /\ t.state \in State /\ t.context \in Context
         /\ t.command # None => /\ t.command \in Command /\ t.command.by = e
                                /\ t.state # s
<1>1. CASE t.state \in Beginning /\ t.context = empty /\ t.command = None
  BY <1>1, EmptyTyped DEF Beginning, State
<1>2. CASE /\ s \in Asking /\ t.state = advance[s][1]
           /\ t.context = [context EXCEPT ![advance[s][2]] = e]
           /\ t.command = None
  BY <1>2, AdvanceFacts DEF Context
<1>3. CASE t.state = s /\ t.context = context /\ t.command = None
  BY <1>3
<1>4. CASE /\ t.state = "MAIN_MENU" /\ t.context = empty
           /\ s = "BOOKING_CONFIRMATION"
           /\ t.command = [type |-> "CREATE_BOOKING", by |-> e,
                           data |-> [context EXCEPT !["appointmentId"] = None]]
  <2>1. [context EXCEPT !["appointmentId"] = None] \in Context
    BY DEF Context
  <2> QED
    BY <1>4, <2>1, EmptyTyped DEF Command, State
<1>5. CASE /\ t.state = "MAIN_MENU" /\ t.context = empty
           /\ s = "RESCHEDULE_TIME"
           /\ t.command = [type |-> "RESCHEDULE_BOOKING", by |-> e,
                           data |-> [empty EXCEPT
                                       !["date"] = context["date"],
                                       !["time"] = e,
                                       !["appointmentId"] =
                                         context["appointmentId"]]]
  <2>1. /\ context["date"] \in Event \cup {None}
        /\ context["appointmentId"] \in Event \cup {None}
    BY DEF Context, Field
  <2>2. [empty EXCEPT !["date"] = context["date"], !["time"] = e,
                      !["appointmentId"] = context["appointmentId"]] \in Context
    BY <2>1, EmptyTyped DEF Context
  <2> QED
    BY <1>5, <2>2, EmptyTyped DEF Command, State
<1>6. CASE /\ t.state = "MAIN_MENU" /\ t.context = empty
           /\ s = "CANCEL_CONFIRMATION"
           /\ t.command = [type |-> "CANCEL_BOOKING", by |-> e,
                           data |-> [empty EXCEPT !["appointmentId"] =
                                       context["appointmentId"]]]
  <2>1. context["appointmentId"] \in Event \cup {None}
    BY DEF Context, Field
  <2>2. [empty EXCEPT !["appointmentId"] = context["appointmentId"]] \in Context
    BY <2>1, EmptyTyped DEF Context
  <2> QED
    BY <1>6, <2>2, EmptyTyped DEF Command, State
<1> QED
  BY <1>1, <1>2, <1>3, <1>4, <1>5, <1>6 DEF Outcome

-----------------------------------------------------------------------------
(* Types *)

\* A stored message, a step of the history, what a transaction writes, the
\* documents it may write, and an open transaction.
Message == [event : Event, at : State, to : State]
StateStep == [from : State \cup {None}, to : State]
Plan == [inbound : Seq(Message), command : Seq(Command), reply : SUBSET Event,
         event : Event \cup {None}, op : {"inbound", "handoff"},
         doc : Conv \cup {None}, steps : Seq(StateStep)]
Doc == ({"event"} \X Event) \cup {<<"customer", 0>>, <<"conversation", 0>>}
Transaction == [request : Request, plan : Plan, overtaken : SUBSET Doc]

\* The events a request names have been written.
Written(r) == r.op = "inbound" => r.event \in 1 .. Len(written)

\* TypeOK, with the open transactions.
Typed ==
  /\ TypeOK
  /\ Len(written) <= MaxEvents
  /\ txn \in [Workers -> Transaction \cup {Idle}]
  /\ \A w \in Workers, r \in Request :
       txn[w] # Idle /\ txn[w].request = r => Written(r)

\* The conversation a first message creates,
LEMMA NewConvTyped ==
  /\ newConv \in Conv /\ newConv.state = "MAIN_MENU"
  /\ newConv.context = empty /\ newConv.controlStatus = "BOT"
  /\ newConv.assignedTo = None
BY EmptyTyped DEF newConv, Conv, State

\* ... a step of the history,
LEMMA StepTyped ==
  ASSUME NEW from \in State \cup {None}, NEW to \in State
  PROVE  Step(from, to) \in Seq(StateStep) /\ <<>> \in Seq(StateStep)
<1>1. PICK x \in StateStep : x = [from |-> from, to |-> to]
  BY DEF StateStep
<1>2. <<x>> \in Seq(StateStep) /\ <<>> \in Seq(StateStep)
  OBVIOUS
<1> QED
  BY <1>1, <1>2 DEF Step

\* ... and what a handler loads are well-formed.
LEMMA LoadedTyped ==
  ASSUME TypeOK
  PROVE  loaded \in Conv /\ created \in Seq(StateStep)
<1>1. loaded \in Conv
  BY NewConvTyped DEF loaded, TypeOK
<1>2. created \in Seq(StateStep)
  <2>1. None \in State \cup {None} /\ "MAIN_MENU" \in State
    BY DEF State
  <2> QED
    BY <2>1, StepTyped DEF created
<1> QED
  BY <1>1, <1>2

\* A plan that only stores the message is well-formed.
LEMMA StoredTyped ==
  ASSUME TypeOK, NEW e \in Event
  PROVE  Stored(e) \in Plan
<1>1. PICK c \in Conv : c = loaded
  BY LoadedTyped
<1>2. c.state \in State
  BY DEF Conv
<1>3. <<[to |-> c.state, event |-> e, at |-> c.state]>> \in Seq(Message)
  BY <1>2 DEF Message
<1> QED
  BY <1>1, <1>3, LoadedTyped DEF Stored, Plan

\* What answering a message decides.
LEMMA AnsweredFacts ==
  ASSUME TypeOK, NEW e \in Event, NEW i \in Inputs, ~BotSilent(loaded),
         NEW c, c = loaded,
         NEW t, t = transitionConversation(c.state, c.context, e, i)
  PROVE  /\ c \in Conv /\ c.state # "HUMAN_HANDOFF" /\ c.controlStatus = "BOT"
         /\ t.reply = TRUE /\ Outcome(c.state, c.context, e, t)
         /\ t.state \in State /\ t.context \in Context
         /\ t.command # None => t.command \in Command /\ t.command.by = e
         /\ [c EXCEPT !.state = t.state, !.context = t.context] \in Conv
<1>1. c \in Conv /\ c.state # "HUMAN_HANDOFF" /\ c.controlStatus = "BOT"
  BY LoadedTyped DEF BotSilent, Conv
<1>2. c.state \in State \ {"HUMAN_HANDOFF"} /\ c.context \in Context
  BY <1>1 DEF Conv
<1>3. t.reply = TRUE /\ Outcome(c.state, c.context, e, t)
  BY <1>2, TransitionOutcome
<1>4. /\ t.state \in State /\ t.context \in Context
      /\ t.command # None => t.command \in Command /\ t.command.by = e
  BY <1>2, <1>3, OutcomeTyped
<1>5. [c EXCEPT !.state = t.state, !.context = t.context] \in Conv
  BY <1>1, <1>4 DEF Conv
<1> QED
  BY <1>1, <1>3, <1>4, <1>5

\* So is a plan that answers it.
LEMMA AnsweredTyped ==
  ASSUME TypeOK, NEW e \in Event, NEW i \in Inputs, ~BotSilent(loaded)
  PROVE  Answered(e, i) \in Plan
<1>1. PICK c : c = loaded
  OBVIOUS
<1>2. PICK t : t = transitionConversation(c.state, c.context, e, i)
  OBVIOUS
<1>3. /\ c \in Conv /\ t.state \in State
      /\ t.command # None => t.command \in Command
      /\ [c EXCEPT !.state = t.state, !.context = t.context] \in Conv
  BY ZenonT(40), <1>1, <1>2, AnsweredFacts
<1>4. c.state \in State
  BY <1>3 DEF Conv
<1>5. <<[to |-> t.state, event |-> e, at |-> c.state]>> \in Seq(Message)
  BY <1>3, <1>4 DEF Message
<1>6. (IF t.command = None THEN <<>> ELSE <<t.command>>) \in Seq(Command)
  BY <1>3
<1>7. StepIfChanged(c.state, t.state) \in Seq(StateStep)
  BY <1>3, <1>4, StepTyped DEF StepIfChanged
<1>8. created \o StepIfChanged(c.state, t.state) \in Seq(StateStep)
  BY <1>7, LoadedTyped
<1>9. (IF t.reply THEN {e} ELSE {}) \in SUBSET Event
  OBVIOUS
<1>10. Answered(e, i) =
         [inbound |-> <<[to |-> t.state, event |-> e, at |-> c.state]>>,
          command |-> IF t.command = None THEN <<>> ELSE <<t.command>>,
          reply |-> IF t.reply THEN {e} ELSE {}, event |-> e, op |-> "inbound",
          doc |-> [c EXCEPT !.state = t.state, !.context = t.context],
          steps |-> created \o StepIfChanged(c.state, t.state)]
  BY <1>1, <1>2 DEF Answered
<1> QED
  BY <1>3, <1>5, <1>6, <1>8, <1>9, <1>10 DEF Plan

\* A handoff leaves messages and bookings alone, and always writes the
\* conversation.
LEMMA ControlFacts ==
  ASSUME TypeOK, NEW r \in Request, r.op # "inbound", NEW p \in Plans(r)
  PROVE  /\ p \in Plan /\ conv \in Conv /\ p.doc \in Conv
         /\ p.inbound = <<>> /\ p.command = <<>> /\ p.reply = {}
         /\ p.event = None
         /\ \/ /\ r.op = "request" /\ ~BotSilent(conv)
               /\ p.doc = [conv EXCEPT !.state = "HUMAN_HANDOFF",
                                       !.assignedTo = None]
               /\ p.steps = Step(conv.state, "HUMAN_HANDOFF")
            \/ /\ r.op = "claim" /\ conv.controlStatus = "BOT"
               /\ conv.state = "HUMAN_HANDOFF"
               /\ p.doc = [conv EXCEPT !.controlStatus = "HUMAN",
                                       !.assignedTo = r.member]
               /\ r.member \in Members /\ p.steps = <<>>
            \/ /\ r.op = "reassign" /\ conv.controlStatus = "HUMAN"
               /\ p.doc = [conv EXCEPT !.assignedTo = r.member]
               /\ r.member \in Members /\ p.steps = <<>>
            \/ /\ r.op = "release" /\ conv.controlStatus = "HUMAN"
               /\ p.doc = newConv
               /\ p.steps = Step(conv.state, "MAIN_MENU")
<1>1. r.op \in {"request", "claim", "reassign", "release"}
  BY DEF Request
<1>2. CASE r.op = "request"
  <2>1. /\ p = Control([conv EXCEPT !.state = "HUMAN_HANDOFF",
                                    !.assignedTo = None],
                       Step(conv.state, "HUMAN_HANDOFF"))
        /\ conv \in Conv /\ ~BotSilent(conv)
    BY <1>2 DEF Plans, requestPlan, TypeOK, BotSilent
  <2>2. [conv EXCEPT !.state = "HUMAN_HANDOFF", !.assignedTo = None] \in Conv
    BY <2>1 DEF Conv, State
  <2>3. Step(conv.state, "HUMAN_HANDOFF") \in Seq(StateStep)
    BY <2>1 DEF Step, StateStep, Conv, State
  <2> QED
    BY <1>2, <2>1, <2>2, <2>3 DEF Control, Plan
<1>3. CASE r.op = "claim"
  <2>1. /\ p = Control([conv EXCEPT !.controlStatus = "HUMAN",
                                    !.assignedTo = r.member], <<>>)
        /\ conv \in Conv /\ conv.controlStatus = "BOT"
        /\ conv.state = "HUMAN_HANDOFF"
    BY <1>3 DEF Plans, claimPlan, TypeOK
  <2>2. r.member \in Members
    BY <1>3 DEF Request
  <2>3. [conv EXCEPT !.controlStatus = "HUMAN", !.assignedTo = r.member] \in Conv
    BY <2>1, <2>2 DEF Conv
  <2> QED
    BY <1>3, <2>1, <2>2, <2>3 DEF Control, Plan
<1>4. CASE r.op = "reassign"
  <2>1. /\ p = Control([conv EXCEPT !.assignedTo = r.member], <<>>)
        /\ conv \in Conv /\ conv.controlStatus = "HUMAN"
    BY <1>4 DEF Plans, reassignPlan, TypeOK
  <2>2. r.member \in Members
    BY <1>4 DEF Request
  <2>3. [conv EXCEPT !.assignedTo = r.member] \in Conv
    BY <2>1, <2>2 DEF Conv
  <2> QED
    BY <1>4, <2>1, <2>2, <2>3 DEF Control, Plan
<1>5. CASE r.op = "release"
  <2>1. /\ p = Control(newConv, Step(conv.state, "MAIN_MENU"))
        /\ conv \in Conv /\ conv.controlStatus = "HUMAN"
    BY <1>5 DEF Plans, releasePlan, TypeOK
  <2>2. Step(conv.state, "MAIN_MENU") \in Seq(StateStep)
    BY <2>1 DEF Step, StateStep, Conv, State
  <2> QED
    BY <1>5, <2>1, <2>2, NewConvTyped DEF Control, Plan
<1> QED
  BY <1>1, <1>2, <1>3, <1>4, <1>5

\* So is every plan of every handler.
LEMMA PlansTyped ==
  ASSUME TypeOK, NEW r \in Request, Written(r), NEW p \in Plans(r)
  PROVE  p \in Plan
<1>1. CASE r.op = "inbound"
  <2>1. r.event \in Event /\ r.event \in 1 .. Len(written)
    BY <1>1 DEF Request, Written
  <2>2. written[r.event] \in Inputs
    BY <2>1 DEF TypeOK
  <2>3. p \in processTransaction(r.event)
    BY <1>1 DEF Plans
  <2> QED
    BY <2>1, <2>2, <2>3, StoredTyped, AnsweredTyped DEF processTransaction
<1>2. CASE r.op # "inbound"
  BY <1>2, ControlFacts
<1> QED
  BY <1>1, <1>2

\* A step that commits nothing: a handler runs, a request is given up,
Prepare(w) ==
  /\ UNCHANGED <<written, database>>
  /\ \/ txn' = [txn EXCEPT ![w] = Idle]
     \/ \E r \in Request : \E p \in Plans(r) :
          /\ Written(r)
          /\ txn' = [txn EXCEPT ![w] =
                       [request |-> r, plan |-> p, overtaken |-> {}]]

\* ... or the customer writes.
Writes == /\ \E i \in Inputs : written' = Append(written, i)
          /\ Len(written) < MaxEvents
          /\ UNCHANGED <<database, txn>>

\* Every step prepares a transaction or gives one up, commits one, or is a
\* message of the customer's.
LEMMA StepKinds ==
  ASSUME Typed, [Next]_vars
  PROVE  \/ \E w \in Workers : Prepare(w)
         \/ \E w \in Workers : Commit(w)
         \/ Writes
         \/ UNCHANGED vars
<1>1. ASSUME NEW i \in Inputs, customerWrites(i) PROVE Writes
  BY <1>1 DEF customerWrites, Writes
<1>2. ASSUME NEW w \in Workers, NEW r \in Request, Written(r), Open(w, r)
      PROVE  Prepare(w)
  BY <1>2 DEF Open, Begin, Prepare
<1>3. ASSUME NEW w \in Workers, processInbound(w) PROVE Prepare(w)
  <2>1. PICK e \in 1 .. Len(written) : Open(w, [event |-> e, op |-> "inbound"])
    BY <1>3 DEF processInbound
  <2>2. e \in Event
    BY BoundsAssumption DEF Event, Typed, TypeOK
  <2>3. PICK r : r = [event |-> e, op |-> "inbound"]
    OBVIOUS
  <2>4. r \in Request /\ Written(r)
    BY <2>2, <2>3 DEF Request, Written
  <2> QED
    BY <1>2, <2>1, <2>3, <2>4
<1>4. ASSUME NEW w \in Workers, request(w) PROVE Prepare(w)
  <2>1. PICK r : r = [op |-> "request"] /\ Open(w, r)
    BY <1>4 DEF request
  <2>2. r \in Request /\ Written(r)
    BY <2>1 DEF Request, Written
  <2> QED
    BY <1>2, <2>1, <2>2
<1>5. ASSUME NEW w \in Workers, claim(w) PROVE Prepare(w)
  <2>1. PICK m \in Members : Open(w, [op |-> "claim", member |-> m])
    BY <1>5 DEF claim
  <2>2. PICK r : r = [op |-> "claim", member |-> m]
    OBVIOUS
  <2>3. r \in Request /\ Written(r)
    BY <2>2 DEF Request, Written
  <2> QED
    BY <1>2, <2>1, <2>2, <2>3
<1>6. ASSUME NEW w \in Workers, reassign(w) PROVE Prepare(w)
  <2>1. PICK m \in Members : Open(w, [op |-> "reassign", member |-> m])
    BY <1>6 DEF reassign
  <2>2. PICK r : r = [op |-> "reassign", member |-> m]
    OBVIOUS
  <2>3. r \in Request /\ Written(r)
    BY <2>2 DEF Request, Written
  <2> QED
    BY <1>2, <2>1, <2>2, <2>3
<1>7. ASSUME NEW w \in Workers, release(w) PROVE Prepare(w)
  <2>1. PICK r : r = [op |-> "release"] /\ Open(w, r)
    BY <1>7 DEF release
  <2>2. r \in Request /\ Written(r)
    BY <2>1 DEF Request, Written
  <2> QED
    BY <1>2, <2>1, <2>2
<1>8. ASSUME NEW w \in Workers, Retry(w) PROVE Prepare(w)
  <2>1. PICK r \in Request : r = txn[w].request
    BY <1>8 DEF Retry, Typed, Transaction
  <2>2. Written(r)
    BY <1>8, <2>1 DEF Retry, Typed
  <2>3. CASE Plans(r) = {}
    BY <1>8, <2>1, <2>3 DEF Retry, Prepare
  <2>4. CASE Plans(r) # {}
    BY <1>8, <2>1, <2>2, <2>4 DEF Retry, Begin, Prepare
  <2> QED
    BY <2>3, <2>4
<1>9. ASSUME NEW w \in Workers, Abort(w) PROVE Prepare(w)
  BY <1>9 DEF Abort, Prepare
<1> QED
  BY <1>1, <1>3, <1>4, <1>5, <1>6, <1>7, <1>8, <1>9 DEF Next

-----------------------------------------------------------------------------
(* What an open transaction still knows *)

\* The plan of a message stored and not answered.
StoredPlan(p, e) ==
  \E s \in State : p = [inbound |-> <<[to |-> s, event |-> e, at |-> s]>>,
                        command |-> <<>>, reply |-> {}, event |-> e,
                        op |-> "inbound", doc |-> None, steps |-> <<>>]

\* A plan that writes the conversation is what its handler would decide now.
\* One that only stores a message may be older than the conversation, but its
\* event is new and no flow is under way.
Current(r, p) ==
  IF p.doc # None THEN p \in Plans(r)
  ELSE /\ r.op = "inbound" /\ r.event \notin Recorded /\ StoredPlan(p, r.event)
       /\ conv \in Conv /\ conv.state \in {"MAIN_MENU", "HUMAN_HANDOFF"}

\* The transactions that would commit are up to date.
Decided ==
  \A w \in Workers, r \in Request :
    txn[w] # Idle /\ txn[w].request = r /\ ~Conflict(w) =>
      Current(r, txn[w].plan)

\* The message e is stored and nothing else happens: a member has the
\* conversation, or had it when the message was read.
Stores(e) ==
  /\ e \in Event /\ e \notin Recorded
  /\ conv \in Conv /\ conv.state \in {"MAIN_MENU", "HUMAN_HANDOFF"}
  /\ \E s \in State :
       inbound' = Append(inbound, [to |-> s, event |-> e, at |-> s])
  /\ UNCHANGED <<conv, history, replies, commands>>

\* The message e is answered by c's transition t.
Answers(e, c, t) ==
  /\ e \in Event /\ e \notin Recorded
  /\ c = loaded /\ ~BotSilent(c)
  /\ \E i \in Inputs : t = transitionConversation(c.state, c.context, e, i)
  /\ inbound' = Append(inbound, [to |-> t.state, event |-> e, at |-> c.state])
  /\ conv' = [c EXCEPT !.state = t.state, !.context = t.context]
  /\ history' = history \o (created \o StepIfChanged(c.state, t.state))
  /\ replies' = replies \cup {e}
  /\ commands' = IF t.command = None THEN commands
                 ELSE Append(commands, t.command)

\* A member's request changes who has the conversation.
HandsOver(r) ==
  /\ r.op # "inbound"
  /\ \E p \in Plans(r) : conv' = p.doc /\ history' = history \o p.steps
  /\ UNCHANGED <<inbound, replies, commands>>

\* The commit of r, whose write set is W.
Committed(w, r, W) ==
  /\ UNCHANGED written
  /\ txn' = [v \in Workers |->
               IF v = w \/ txn[v] = Idle THEN Idle
               ELSE [txn[v] EXCEPT !.overtaken = @ \cup W]]
  /\ \/ /\ r.op = "inbound" /\ <<"event", r.event>> \in W
        /\ <<"customer", 0>> \in W
        /\ \/ Stores(r.event)
           \/ /\ <<"conversation", 0>> \in W
              /\ \E c, t : Answers(r.event, c, t)
     \/ /\ <<"conversation", 0>> \in W
        /\ HandsOver(r)

\* What Commit applies is what its handler would decide now.
LEMMA CommitKinds ==
  ASSUME Typed, Decided, NEW w \in Workers, Commit(w)
  PROVE  \E r \in Request, W \in SUBSET Doc :
           txn[w].request = r /\ Committed(w, r, W)
<1>1. PICK t \in Transaction : t = txn[w]
  BY DEF Commit, Typed
<1>2. PICK r \in Request : r = t.request
  BY DEF Transaction
<1>3. PICK p \in Plan : p = t.plan
  BY DEF Transaction
<1>4. Current(r, p) /\ Written(r)
  BY <1>1, <1>2, <1>3 DEF Commit, Decided, Typed
<1>5. PICK W : W = WriteSet(p)
  OBVIOUS
<1>6. /\ inbound' = inbound \o p.inbound
      /\ conv' = IF p.doc = None THEN conv ELSE p.doc
      /\ history' = history \o p.steps
      /\ replies' = replies \cup p.reply
      /\ commands' = commands \o p.command
      /\ txn' = [v \in Workers |->
                   IF v = w \/ txn[v] = Idle THEN Idle
                   ELSE [txn[v] EXCEPT !.overtaken = @ \cup W]]
      /\ UNCHANGED written
  BY <1>1, <1>3, <1>5 DEF Commit
<1>7. W \in SUBSET Doc
  BY <1>5 DEF WriteSet, Plan, Doc
<1>8. /\ inbound \in Seq(Message) /\ history \in Seq(StateStep)
      /\ commands \in Seq(Command)
  BY DEF Typed, TypeOK, Message, StateStep
<1>9. CASE r.op = "inbound" /\ p.doc = None
  <2>1. r.event \in Event
    BY <1>9 DEF Request
  <2>2. PICK s \in State :
          p = [inbound |-> <<[to |-> s, event |-> r.event, at |-> s]>>,
               command |-> <<>>, reply |-> {}, event |-> r.event,
               op |-> "inbound", doc |-> None, steps |-> <<>>]
    BY <1>4, <1>9 DEF Current, StoredPlan
  <2>3. PICK m \in Message : m = [to |-> s, event |-> r.event, at |-> s]
    BY <2>1 DEF Message
  <2>4. inbound' = Append(inbound, m)
    BY <1>6, <1>8, <2>2, <2>3
  <2>5. history' = history /\ commands' = commands
    BY <1>6, <1>8, <2>2
  <2>6. conv' = conv /\ replies' = replies
    BY <1>6, <2>2
  <2>7. Stores(r.event)
    BY <1>4, <1>9, <2>1, <2>3, <2>4, <2>5, <2>6 DEF Stores, Current
  <2>8. <<"event", r.event>> \in W /\ <<"customer", 0>> \in W
    BY <1>5, <2>1, <2>2, NoneAssumption DEF WriteSet
  <2> QED
    BY <1>1, <1>2, <1>6, <1>7, <1>9, <2>7, <2>8 DEF Committed
<1>10. CASE r.op = "inbound" /\ p.doc # None
  <2>1. r.event \in Event /\ r.event \in 1 .. Len(written)
    BY <1>4, <1>10 DEF Request, Written
  <2>2. PICK i \in Inputs : i = written[r.event]
    BY <2>1 DEF Typed, TypeOK
  <2>3. p \in processTransaction(r.event)
    BY <1>4, <1>10 DEF Current, Plans
  <2>4. /\ r.event \notin Recorded /\ ~BotSilent(loaded)
        /\ p = Answered(r.event, i)
    BY <1>10, <2>2, <2>3 DEF processTransaction, Stored
  <2>5. PICK c : c = loaded
    OBVIOUS
  <2>6. PICK u : u = transitionConversation(c.state, c.context, r.event, i)
    OBVIOUS
  <2>7. /\ c \in Conv /\ u.reply = TRUE /\ u.state \in State
        /\ u.command # None => u.command \in Command
    BY <2>1, <2>4, <2>5, <2>6, AnsweredFacts DEF Typed
  <2>8. p = [inbound |-> <<[to |-> u.state, event |-> r.event,
                            at |-> c.state]>>,
             command |-> IF u.command = None THEN <<>> ELSE <<u.command>>,
             reply |-> {r.event}, event |-> r.event, op |-> "inbound",
             doc |-> [c EXCEPT !.state = u.state, !.context = u.context],
             steps |-> created \o StepIfChanged(c.state, u.state)]
    BY <2>4, <2>5, <2>6, <2>7 DEF Answered
  <2>9. PICK m \in Message : m = [to |-> u.state, event |-> r.event,
                                  at |-> c.state]
    BY <2>1, <2>7 DEF Message, Conv
  <2>10. inbound' = Append(inbound, m)
    BY <1>6, <1>8, <2>8, <2>9
  <2>11. commands' = IF u.command = None THEN commands
                     ELSE Append(commands, u.command)
    BY <1>6, <1>8, <2>7, <2>8
  <2>12. /\ conv' = [c EXCEPT !.state = u.state, !.context = u.context]
         /\ history' = history \o (created \o StepIfChanged(c.state, u.state))
         /\ replies' = replies \cup {r.event}
    BY <1>6, <1>10, <2>8
  <2>13. Answers(r.event, c, u)
    BY <2>1, <2>2, <2>4, <2>5, <2>6, <2>9, <2>10, <2>11, <2>12 DEF Answers
  <2>14. /\ <<"event", r.event>> \in W /\ <<"customer", 0>> \in W
         /\ <<"conversation", 0>> \in W
    BY <1>5, <1>10, <2>1, <2>8, NoneAssumption DEF WriteSet
  <2> QED
    BY <1>1, <1>2, <1>6, <1>7, <1>10, <2>13, <2>14 DEF Committed
<1>11. CASE r.op # "inbound"
  <2>1. p \in Plans(r)
    BY <1>4, <1>11 DEF Current
  <2>2. /\ p.doc \in Conv /\ p.inbound = <<>> /\ p.command = <<>>
        /\ p.reply = {} /\ p.event = None
    BY <1>11, <2>1, ControlFacts DEF Typed
  <2>3. inbound' = inbound /\ commands' = commands
    BY <1>6, <1>8, <2>2
  <2>4. conv' = p.doc /\ replies' = replies
    BY <1>6, <2>2, NoneAssumption
  <2>5. HandsOver(r)
    BY <1>6, <1>11, <2>1, <2>3, <2>4 DEF HandsOver
  <2>6. <<"conversation", 0>> \in W
    BY <1>5, <2>2, NoneAssumption DEF WriteSet
  <2> QED
    BY <1>1, <1>2, <1>6, <1>7, <2>5, <2>6 DEF Committed
<1> QED
  BY <1>9, <1>10, <1>11

\* No step breaks the types.
LEMMA TypedInductive ==
  ASSUME Typed, Decided, [Next]_vars
  PROVE  Typed'
<1>1. CASE UNCHANGED vars
  BY <1>1 DEF Typed, TypeOK, Written, vars, database
<1>2. CASE Writes
  <2>1. PICK i \in Inputs : written' = Append(written, i)
    BY <1>2 DEF Writes
  <2>2. /\ written' \in Seq(Inputs) /\ Len(written') = Len(written) + 1
        /\ Len(written) \in Nat
    BY <2>1 DEF Typed, TypeOK
  <2>3. Len(written') <= MaxEvents
    BY <1>2, <2>2, BoundsAssumption DEF Writes
  <2>4. \A r \in Request : Written(r) => Written(r)'
    BY <2>2 DEF Written
  <2> QED
    BY <1>2, <2>2, <2>3, <2>4 DEF Writes, Typed, TypeOK, database
<1>3. ASSUME NEW w \in Workers, Prepare(w) PROVE Typed'
  <2>1. ASSUME NEW r \in Request, NEW p \in Plans(r), Written(r)
        PROVE  [request |-> r, plan |-> p, overtaken |-> {}] \in Transaction
    BY <2>1, PlansTyped DEF Transaction, Typed
  <2>2. txn' \in [Workers -> Transaction \cup {Idle}]
    BY <1>3, <2>1 DEF Prepare, Typed
  <2>3. ASSUME NEW v \in Workers, NEW r \in Request, txn'[v] # Idle,
               txn'[v].request = r
        PROVE  Written(r)
    BY <1>3, <2>3 DEF Prepare, Typed
  <2>4. TypeOK' /\ Len(written') <= MaxEvents
    BY <1>3, <2>2 DEF Prepare, Typed, TypeOK, database
  <2>5. \A r \in Request : Written(r)' <=> Written(r)
    BY <1>3 DEF Prepare, Written
  <2> QED
    BY <2>2, <2>3, <2>4, <2>5 DEF Typed
<1>4. ASSUME NEW w \in Workers, Commit(w) PROVE Typed'
  <2>1. PICK r \in Request, W \in SUBSET Doc : Committed(w, r, W)
    BY <1>4, CommitKinds
  <2>2. /\ inbound \in Seq(Message) /\ history \in Seq(StateStep)
        /\ commands \in Seq(Command) /\ conv \in Conv \cup {None}
        /\ replies \subseteq Event
    BY DEF Typed, TypeOK, Message, StateStep
  <2>3. txn' \in [Workers -> Transaction \cup {Idle}]
    <3>1. ASSUME NEW u \in Transaction
          PROVE  [u EXCEPT !.overtaken = @ \cup W] \in Transaction
      BY DEF Transaction
    <3> QED
      BY <2>1, <3>1 DEF Committed, Typed
  <2>4. ASSUME NEW v \in Workers, NEW q \in Request, txn'[v] # Idle,
               txn'[v].request = q
        PROVE  Written(q)'
    <3>1. PICK u \in Transaction : u = txn[v]
      BY <2>1, <2>4 DEF Committed, Typed
    <3>2. txn[v].request = q /\ txn[v] # Idle
      BY <2>1, <2>4, <3>1 DEF Committed, Transaction
    <3>3. Written(q)
      BY <3>2 DEF Typed
    <3> QED
      BY <2>1, <3>3 DEF Written, Committed
  <2>5. /\ inbound' \in Seq(Message) /\ history' \in Seq(StateStep)
        /\ commands' \in Seq(Command) /\ conv' \in Conv \cup {None}
        /\ replies' \subseteq Event
    <3>1. ASSUME NEW e, Stores(e)
          PROVE  inbound' \in Seq(Message)
      <4>1. PICK s \in State :
              inbound' = Append(inbound, [to |-> s, event |-> e, at |-> s])
        BY <3>1 DEF Stores
      <4>2. PICK m \in Message : m = [to |-> s, event |-> e, at |-> s]
        BY <3>1 DEF Stores, Message
      <4> QED
        BY <2>2, <4>1, <4>2
    <3>2. CASE Stores(r.event)
      BY <2>2, <3>1, <3>2 DEF Stores
    <3>3. ASSUME NEW c, NEW t, Answers(r.event, c, t)
          PROVE  /\ inbound' \in Seq(Message) /\ history' \in Seq(StateStep)
                 /\ commands' \in Seq(Command) /\ conv' \in Conv \cup {None}
                 /\ replies' \subseteq Event
      <4>1. PICK i \in Inputs :
              t = transitionConversation(c.state, c.context, r.event, i)
        BY <3>3 DEF Answers
      <4>2. /\ c \in Conv /\ t.state \in State
            /\ t.command # None => t.command \in Command
            /\ [c EXCEPT !.state = t.state, !.context = t.context] \in Conv
        BY ZenonT(40), <3>3, <4>1, AnsweredFacts DEF Answers, Typed
      <4>3. PICK m \in Message : m = [to |-> t.state, event |-> r.event,
                                      at |-> c.state]
        BY <3>3, <4>2 DEF Message, Conv, Answers
      <4>4. inbound' \in Seq(Message)
        BY <2>2, <3>3, <4>3 DEF Answers
      <4>5. commands' \in Seq(Command)
        BY <2>2, <3>3, <4>2 DEF Answers
      <4>6. StepIfChanged(c.state, t.state) \in Seq(StateStep)
        BY <4>2, StepTyped DEF StepIfChanged, Conv
      <4>7. created \in Seq(StateStep)
        BY LoadedTyped DEF Typed
      <4>8. history' \in Seq(StateStep)
        BY <2>2, <3>3, <4>6, <4>7 DEF Answers
      <4>9. conv' \in Conv /\ replies' \subseteq Event
        BY <2>2, <3>3, <4>2 DEF Answers
      <4> QED
        BY <4>4, <4>5, <4>8, <4>9
    <3>4. CASE HandsOver(r)
      <4>1. PICK p \in Plans(r) : conv' = p.doc /\ history' = history \o p.steps
        BY <3>4 DEF HandsOver
      <4>2. p \in Plan /\ p.doc \in Conv
        BY <3>4, ControlFacts DEF HandsOver, Typed
      <4>3. p.steps \in Seq(StateStep)
        BY <4>2 DEF Plan
      <4> QED
        BY <2>2, <3>4, <4>1, <4>2, <4>3 DEF HandsOver
    <3> QED
      BY <2>1, <3>2, <3>3, <3>4 DEF Committed
  <2>6. TypeOK'
    BY <2>1, <2>3, <2>5 DEF Typed, TypeOK, Committed, Message, StateStep
  <2> QED
    BY <2>1, <2>3, <2>4, <2>6 DEF Typed, Committed
<1> QED
  BY <1>1, <1>2, <1>3, <1>4, StepKinds


-----------------------------------------------------------------------------
(* The control, and the plans that stay good *)

\* The conversation a handoff leaves behind.
LEMMA HandsOverFacts ==
  ASSUME Typed, ControlConsistent, NEW r \in Request, HandsOver(r)
  PROVE  /\ conv \in Conv /\ conv' \in Conv
         /\ conv'.state \in {"MAIN_MENU", "HUMAN_HANDOFF"}
         /\ conv'.controlStatus = "HUMAN" =>
              conv'.state = "HUMAN_HANDOFF" /\ conv'.assignedTo # None
         /\ conv'.controlStatus # "HUMAN" => conv'.assignedTo = None
         /\ conv.state # conv'.state =>
              history' = history \o Step(conv.state, conv'.state)
         /\ \/ history' = history \o Step(conv.state, conv'.state)
            \/ history' = history /\ conv.state = conv'.state
         /\ conv.assignedTo # None => r.op \in {"reassign", "release"}
         /\ conv'.context = conv.context \/ conv'.context = empty
<1>1. PICK p \in Plans(r) : conv' = p.doc /\ history' = history \o p.steps
  BY DEF HandsOver
<1>2. r.op # "inbound"
  BY DEF HandsOver
<1>3. conv \in Conv /\ p.doc \in Conv
  BY <1>2, ControlFacts DEF Typed
<1>4. history \in Seq(StateStep)
  BY DEF Typed, TypeOK, StateStep
<1>5. /\ conv.controlStatus = "HUMAN" <=> conv.assignedTo # None
      /\ conv.controlStatus = "HUMAN" => conv.state = "HUMAN_HANDOFF"
  BY <1>3, NoneAssumption DEF ControlConsistent
<1>6. CASE /\ r.op = "request" /\ ~BotSilent(conv)
           /\ p.doc = [conv EXCEPT !.state = "HUMAN_HANDOFF",
                                   !.assignedTo = None]
           /\ p.steps = Step(conv.state, "HUMAN_HANDOFF")
  BY <1>1, <1>3, <1>5, <1>6 DEF BotSilent, Conv
<1>7. CASE /\ r.op = "claim" /\ conv.controlStatus = "BOT"
           /\ conv.state = "HUMAN_HANDOFF"
           /\ p.doc = [conv EXCEPT !.controlStatus = "HUMAN",
                                   !.assignedTo = r.member]
           /\ r.member \in Members /\ p.steps = <<>>
  <2>1. r.member # None
    BY <1>7, NoneAssumption
  <2>2. history' = history
    BY <1>1, <1>4, <1>7
  <2> QED
    BY <1>1, <1>3, <1>5, <1>7, <2>1, <2>2 DEF Conv
<1>8. CASE /\ r.op = "reassign" /\ conv.controlStatus = "HUMAN"
           /\ p.doc = [conv EXCEPT !.assignedTo = r.member]
           /\ r.member \in Members /\ p.steps = <<>>
  <2>1. r.member # None
    BY <1>8, NoneAssumption
  <2>2. history' = history
    BY <1>1, <1>4, <1>8
  <2> QED
    BY <1>1, <1>3, <1>5, <1>8, <2>1, <2>2 DEF Conv
<1>9. CASE /\ r.op = "release" /\ conv.controlStatus = "HUMAN"
           /\ p.doc = newConv
           /\ p.steps = Step(conv.state, "MAIN_MENU")
  BY <1>1, <1>3, <1>5, <1>9, NewConvTyped
<1> QED
  BY ZenonT(40), <1>2, <1>6, <1>7, <1>8, <1>9, ControlFacts DEF Typed

\* No step leaves the conversation without, or with two, in control.
LEMMA ControlInductive ==
  ASSUME Typed, Decided, ControlConsistent, [Next]_vars
  PROVE  ControlConsistent'
<1>1. CASE conv' = conv
  BY <1>1 DEF ControlConsistent
<1>2. ASSUME NEW w \in Workers, Commit(w) PROVE ControlConsistent'
  <2>1. PICK r \in Request, W \in SUBSET Doc : Committed(w, r, W)
    BY <1>2, CommitKinds
  <2>2. CASE Stores(r.event)
    BY <1>1, <2>2 DEF Stores
  <2>3. ASSUME NEW c, NEW t, Answers(r.event, c, t) PROVE ControlConsistent'
    <3>1. PICK i \in Inputs :
            t = transitionConversation(c.state, c.context, r.event, i)
      BY <2>3 DEF Answers
    <3>2. c \in Conv /\ c.controlStatus = "BOT"
      BY <2>3, <3>1, AnsweredFacts DEF Answers, Typed
    <3>3. c.assignedTo = None
      BY <2>3, <3>2, NewConvTyped DEF Answers, loaded, ControlConsistent
    <3>4. conv' = [c EXCEPT !.state = t.state, !.context = t.context]
      BY <2>3 DEF Answers
    <3>5. conv'.controlStatus = "BOT" /\ conv'.assignedTo = None
      BY <3>2, <3>3, <3>4 DEF Conv
    <3> QED
      BY <3>5 DEF ControlConsistent
  <2>4. CASE HandsOver(r)
    BY <2>4, HandsOverFacts DEF ControlConsistent
  <2> QED
    BY <2>1, <2>2, <2>3, <2>4 DEF Committed
<1> QED
  BY <1>1, <1>2, StepKinds DEF Prepare, Writes, vars, database

\* A handler that reads the same decides the same.
LEMMA PlansSame ==
  ASSUME NEW r \in Request, conv' = conv, Recorded' = Recorded,
         r.op = "inbound" => written'[r.event] = written[r.event]
  PROVE  Plans(r)' = Plans(r)
<1>1. loaded' = loaded /\ created' = created
  BY DEF loaded, created
<1>2. CASE r.op = "inbound"
  <2>1. PICK e : e = r.event
    OBVIOUS
  <2>2. Stored(e)' = Stored(e)
    BY <1>1 DEF Stored
  <2>3. PICK i : i = written[e]
    OBVIOUS
  <2>4. Answered(e, i)' = Answered(e, i)
    BY <1>1 DEF Answered
  <2>5. Answered(e, written[e])' = Answered(e, written[e])
    BY <1>2, <1>1, <2>1 DEF Answered
  <2>6. processTransaction(e)' = processTransaction(e)
    BY <1>1, <2>2, <2>5 DEF processTransaction
  <2>7. Plans(r) = processTransaction(e)
    BY <1>2, <2>1 DEF Plans
  <2>8. Plans(r)' = processTransaction(e)'
    BY <1>2, <2>1 DEF Plans
  <2> QED
    BY <2>6, <2>7, <2>8
<1>3. CASE r.op = "request"
  BY <1>3 DEF Plans, requestPlan
<1>4. CASE r.op = "claim"
  BY <1>4 DEF Plans, claimPlan
<1>5. CASE r.op = "reassign"
  BY <1>5 DEF Plans, reassignPlan
<1>6. CASE r.op = "release"
  BY <1>6 DEF Plans, releasePlan
<1> QED
  BY <1>2, <1>3, <1>4, <1>5, <1>6 DEF Request

\* A handoff reads the conversation only.
LEMMA ControlPlansSame ==
  ASSUME NEW r \in Request, r.op # "inbound", conv' = conv
  PROVE  Plans(r)' = Plans(r)
<1>1. CASE r.op = "request"
  BY <1>1 DEF Plans, requestPlan
<1>2. CASE r.op = "claim"
  BY <1>2 DEF Plans, claimPlan
<1>3. CASE r.op = "reassign"
  BY <1>3 DEF Plans, reassignPlan
<1>4. CASE r.op = "release"
  BY <1>4 DEF Plans, releasePlan
<1> QED
  BY <1>1, <1>2, <1>3, <1>4 DEF Request

\* A handler that has just run decided on the present.
LEMMA NewCurrent ==
  ASSUME Typed, ControlConsistent, NEW r \in Request, Written(r),
         NEW p \in Plans(r)
  PROVE  Current(r, p)
<1>1. CASE r.op # "inbound"
  BY <1>1, ControlFacts, NoneAssumption DEF Current, Typed
<1>2. CASE r.op = "inbound" /\ p.doc # None
  BY <1>2 DEF Current
<1>3. CASE r.op = "inbound" /\ p.doc = None
  <2>1. r.event \in Event /\ r.event \in 1 .. Len(written)
    BY <1>3 DEF Request, Written
  <2>2. PICK e \in Event : e = r.event
    BY <2>1
  <2>3. PICK i \in Inputs : i = written[e]
    BY <2>1, <2>2 DEF Typed, TypeOK
  <2>4. p \in processTransaction(e)
    BY <1>3, <2>2 DEF Plans
  <2>5. e \notin Recorded
    BY <2>4 DEF processTransaction
  <2>6. BotSilent(loaded) /\ p = Stored(e)
    <3>1. CASE BotSilent(loaded)
      BY <2>4, <3>1 DEF processTransaction
    <3>2. CASE ~BotSilent(loaded)
      <4>1. p = Answered(e, i)
        BY <2>3, <2>4, <3>2 DEF processTransaction
      <4>2. PICK c : c = loaded
        OBVIOUS
      <4>3. PICK t : t = transitionConversation(c.state, c.context, e, i)
        OBVIOUS
      <4>4. p.doc = [c EXCEPT !.state = t.state, !.context = t.context]
        BY <4>1, <4>2, <4>3 DEF Answered
      <4>5. [c EXCEPT !.state = t.state, !.context = t.context] \in Conv
        BY <3>2, <4>2, <4>3, AnsweredFacts DEF Typed
      <4> QED
        BY <1>3, <4>4, <4>5, NoneAssumption
    <3> QED
      BY <3>1, <3>2
  <2>7. conv \in Conv /\ loaded = conv /\ created = <<>>
    BY <2>6, NewConvTyped DEF BotSilent, loaded, created, Typed, TypeOK
  <2>8. conv.state = "HUMAN_HANDOFF"
    BY <2>6, <2>7, NoneAssumption DEF BotSilent, ControlConsistent
  <2>9. StoredPlan(p, e)
    <3>1. conv.state \in State
      BY <2>7 DEF Conv
    <3> QED
      BY <2>6, <2>7, <3>1 DEF StoredPlan, Stored
  <2> QED
    BY <1>3, <2>2, <2>5, <2>7, <2>8, <2>9 DEF Current
<1> QED
  BY <1>1, <1>2, <1>3

\* Nothing a plan depends on has changed.
LEMMA CurrentKept ==
  ASSUME NEW r \in Request, NEW p, Current(r, p),
         conv' = conv, inbound' = inbound,
         r.op = "inbound" => written'[r.event] = written[r.event]
  PROVE  Current(r, p)'
<1>1. Recorded' = Recorded
  BY DEF Recorded
<1>2. Plans(r)' = Plans(r)
  BY <1>1, PlansSame
<1> QED
  BY <1>1, <1>2 DEF Current, StoredPlan

\* A commit overtakes every open transaction whose decision it would change.
LEMMA DecidedInductive ==
  ASSUME Typed, Decided, ControlConsistent, [Next]_vars
  PROVE  Decided'
<1>1. CASE UNCHANGED vars
  <2>1. ASSUME NEW w \in Workers, NEW r \in Request, NEW p,
               txn'[w] # Idle, txn'[w].request = r, ~Conflict(w)',
               p = txn[w].plan
        PROVE  Current(r, p)'
    <3>1. Current(r, p)
      BY <1>1, <2>1 DEF Decided, Conflict, vars
    <3> QED
      BY <1>1, <3>1, CurrentKept DEF vars, database
  <2> QED
    BY <1>1, <2>1 DEF Decided, vars
<1>2. CASE Writes
  <2>1. PICK i \in Inputs : written' = Append(written, i)
    BY <1>2 DEF Writes
  <2>2. ASSUME NEW w \in Workers, NEW r \in Request, NEW p,
               txn'[w] # Idle, txn'[w].request = r, ~Conflict(w)',
               p = txn[w].plan
        PROVE  Current(r, p)'
    <3>1. Current(r, p) /\ Written(r)
      BY <1>2, <2>2 DEF Decided, Conflict, Writes, Typed
    <3>2. r.op = "inbound" => written'[r.event] = written[r.event]
      BY <2>1, <3>1 DEF Written, Typed, TypeOK
    <3> QED
      BY <1>2, <3>1, <3>2, CurrentKept DEF Writes, database
  <2> QED
    BY <1>2, <2>2 DEF Decided, Writes
<1>3. ASSUME NEW w \in Workers, Prepare(w) PROVE Decided'
  <2>1. ASSUME NEW v \in Workers, NEW r \in Request, NEW p,
               txn'[v] # Idle, txn'[v].request = r, ~Conflict(v)',
               p = txn'[v].plan
        PROVE  Current(r, p)'
    <3>1. CASE v = w
      <4>1. p \in Plans(r) /\ Written(r)
        BY <1>3, <2>1, <3>1 DEF Prepare, Typed
      <4>2. Current(r, p)
        BY <4>1, NewCurrent
      <4> QED
        BY <1>3, <4>2, CurrentKept DEF Prepare, database
    <3>2. CASE v # w
      <4>1. txn'[v] = txn[v]
        BY <1>3, <3>2 DEF Prepare, Typed
      <4>2. Current(r, p)
        BY <2>1, <4>1 DEF Decided, Conflict
      <4> QED
        BY <1>3, <4>2, CurrentKept DEF Prepare, database
    <3> QED
      BY <3>1, <3>2
  <2> QED
    BY <2>1 DEF Decided
<1>4. ASSUME NEW w \in Workers, Commit(w) PROVE Decided'
  <2>1. PICK r \in Request, W \in SUBSET Doc : Committed(w, r, W)
    BY <1>4, CommitKinds
  <2>2. ASSUME NEW v \in Workers, NEW q \in Request, NEW p,
               txn'[v] # Idle, txn'[v].request = q, ~Conflict(v)',
               p = txn'[v].plan
        PROVE  Current(q, p)'
    <3>1. PICK u \in Transaction : u = txn[v] /\ txn[v] # Idle
      BY <2>1, <2>2 DEF Committed, Typed
    <3>2. txn'[v] = [u EXCEPT !.overtaken = @ \cup W]
      BY <2>1, <2>2, <3>1 DEF Committed
    <3>3. u.request = q /\ u.plan = p /\ p \in Plan
      BY <2>2, <3>2 DEF Transaction
    <3>4. WriteSet(p) \cap (u.overtaken \cup W) = {}
      BY <2>2, <3>2, <3>3 DEF Conflict, Transaction
    <3>5. Current(q, p) /\ Written(q)
      BY <3>1, <3>3, <3>4 DEF Decided, Conflict, Typed
    <3>6. CASE q.op # "inbound"
      <4>1. p.doc # None /\ p \in Plans(q)
        BY <3>5, <3>6 DEF Current
      <4>2. <<"conversation", 0>> \notin W
        BY <3>4, <4>1 DEF WriteSet
      <4>3. conv' = conv
        BY <2>1, <4>2 DEF Committed, Stores
      <4>4. p \in Plans(q)'
        BY <3>6, <4>1, <4>3, ControlPlansSame
      <4> QED
        BY <4>1, <4>4 DEF Current
    <3>7. CASE q.op = "inbound" /\ p.doc # None
      <4>1. p.event # None
        <5>1. p \in processTransaction(q.event)
          BY <3>5, <3>7 DEF Current, Plans
        <5>2. p.event = q.event
          BY <5>1 DEF processTransaction, Stored, Answered
        <5> QED
          BY <3>7, <5>2, NoneAssumption DEF Request
      <4>2. <<"customer", 0>> \notin W /\ <<"conversation", 0>> \notin W
        BY <3>4, <3>7, <4>1 DEF WriteSet
      <4> QED
        BY <2>1, <4>2 DEF Committed
    <3>8. CASE q.op = "inbound" /\ p.doc = None
      <4>1. /\ q.event \notin Recorded /\ StoredPlan(p, q.event)
            /\ q.event \in Event
        BY <3>5, <3>8 DEF Current, Request
      <4>2. p.event = q.event /\ p.event # None
        BY <4>1, NoneAssumption DEF StoredPlan
      <4>3. <<"customer", 0>> \notin W
        BY <3>4, <4>2 DEF WriteSet
      <4>4. HandsOver(r)
        BY <2>1, <4>3 DEF Committed
      <4>5. conv' \in Conv /\ conv'.state \in {"MAIN_MENU", "HUMAN_HANDOFF"}
        BY <4>4, HandsOverFacts
      <4>6. Recorded' = Recorded
        BY <4>4 DEF HandsOver, Recorded
      <4>7. StoredPlan(p, q.event)'
        BY <4>1 DEF StoredPlan
      <4> QED
        BY <3>8, <4>1, <4>5, <4>6, <4>7 DEF Current
    <3> QED
      BY <3>6, <3>7, <3>8
  <2> QED
    BY <2>2 DEF Decided
<1> QED
  BY <1>1, <1>2, <1>3, <1>4, StepKinds

-----------------------------------------------------------------------------
(* How the database changes *)

\* What a step does to the database: nothing, or one of the three things a
\* commit can be.
LEMMA Changes ==
  ASSUME Typed, Decided, [Next]_vars
  PROVE  \/ UNCHANGED database
         \/ \E e \in Event : Stores(e)
         \/ \E e \in Event : \E c, t : Answers(e, c, t)
         \/ \E w \in Workers, r \in Request :
              /\ txn[w] # Idle /\ txn'[w] = Idle /\ txn[w].request = r
              /\ HandsOver(r)
<1>1. ASSUME NEW w \in Workers, Commit(w)
      PROVE  \/ \E e \in Event : Stores(e)
             \/ \E e \in Event : \E c, t : Answers(e, c, t)
             \/ \E v \in Workers, r \in Request :
                  /\ txn[v] # Idle /\ txn'[v] = Idle /\ txn[v].request = r
                  /\ HandsOver(r)
  <2>1. PICK r \in Request, W \in SUBSET Doc :
          txn[w].request = r /\ Committed(w, r, W)
    BY <1>1, CommitKinds
  <2>2. txn[w] # Idle /\ txn'[w] = Idle
    BY <1>1, <2>1 DEF Commit, Committed
  <2>3. r.op = "inbound" => r.event \in Event
    BY DEF Request
  <2> QED
    BY <2>1, <2>2, <2>3 DEF Committed
<1> QED
  BY <1>1, StepKinds DEF Prepare, Writes, vars

\* A message that was answered: it is new, and the transition is one the
\* state machine allows.
LEMMA AnswersFacts ==
  ASSUME Typed, NEW e \in Event, NEW c, NEW t, Answers(e, c, t)
  PROVE  /\ c \in Conv /\ c.state # "HUMAN_HANDOFF" /\ c.controlStatus = "BOT"
         /\ c = loaded /\ conv' \in Conv
         /\ conv'.state = t.state /\ conv'.context = t.context
         /\ Outcome(c.state, c.context, e, t)
         /\ t.command # None => t.command \in Command /\ t.command.by = e
         /\ [to |-> t.state, event |-> e, at |-> c.state] \in Message
<1>1. PICK i \in Inputs :
        t = transitionConversation(c.state, c.context, e, i)
  BY DEF Answers
<1>2. TypeOK /\ c = loaded /\ ~BotSilent(loaded)
  BY DEF Answers, Typed
<1>3. c \in Conv /\ c.state # "HUMAN_HANDOFF" /\ c.controlStatus = "BOT"
  BY <1>1, <1>2, AnsweredFacts
<1>4. Outcome(c.state, c.context, e, t)
  BY <1>1, <1>2, AnsweredFacts
<1>5. t.state \in State /\ t.context \in Context
  BY <1>1, <1>2, AnsweredFacts
<1>6. t.command # None => t.command \in Command /\ t.command.by = e
  <2>1. t.command # None => t.command \in Command
    BY <1>1, <1>2, AnsweredFacts
  <2>2. t.command # None => t.command.by = e
    BY <1>4 DEF Outcome
  <2> QED
    BY <2>1, <2>2
<1>7. conv' = [c EXCEPT !.state = t.state, !.context = t.context]
  BY DEF Answers
<1>8. conv' \in Conv
  BY <1>3, <1>5, <1>7 DEF Conv
<1>9. conv'.state = t.state /\ conv'.context = t.context
  BY <1>3, <1>7 DEF Conv
<1>10. [to |-> t.state, event |-> e, at |-> c.state] \in Message
  BY <1>3, <1>5 DEF Message, Conv
<1> QED
  BY <1>2, <1>3, <1>4, <1>6, <1>8, <1>9, <1>10

-----------------------------------------------------------------------------
(* Every event once *)

\* One message more, of a new event, and perhaps the command it carried out.
LEMMA OnceExtends ==
  ASSUME Typed, OncePerEvent, NEW e \in Event \ Recorded, NEW m \in Message,
         m.event = e, inbound' = Append(inbound, m),
         \/ commands' = commands
         \/ \E c \in Command : c.by = e /\ commands' = Append(commands, c)
  PROVE  OncePerEvent'
<1>1. /\ inbound \in Seq(Message) /\ commands \in Seq(Command)
  BY DEF Typed, TypeOK, Message
<1>2. /\ Len(inbound') = Len(inbound) + 1 /\ Len(inbound) \in Nat
      /\ \A n \in 1 .. Len(inbound) : inbound'[n] = inbound[n]
      /\ inbound'[Len(inbound) + 1] = m
  BY <1>1
<1>3. \A n \in 1 .. Len(inbound) : inbound[n].event # e
  BY DEF Recorded
<1>4. \A x, y \in 1 .. Len(inbound') :
        inbound'[x].event = inbound'[y].event => x = y
  BY <1>2, <1>3 DEF OncePerEvent
<1>5. Recorded' = Recorded \cup {e}
  <2>1. \A n \in 1 .. Len(inbound) + 1 :
          n \in 1 .. Len(inbound) \/ n = Len(inbound) + 1
    BY <1>2
  <2>2. \A n \in 1 .. Len(inbound) : n \in 1 .. Len(inbound) + 1
    BY <1>2
  <2>3. Len(inbound) + 1 \in 1 .. Len(inbound) + 1
    BY <1>2
  <2> QED
    BY <1>2, <2>1, <2>2, <2>3 DEF Recorded
<1>6. CASE commands' = commands
  BY <1>4, <1>5, <1>6 DEF OncePerEvent
<1>7. ASSUME NEW c \in Command, c.by = e, commands' = Append(commands, c)
      PROVE  OncePerEvent'
  <2>1. /\ Len(commands') = Len(commands) + 1 /\ Len(commands) \in Nat
        /\ \A n \in 1 .. Len(commands) : commands'[n] = commands[n]
        /\ commands'[Len(commands) + 1] = c
    BY <1>1, <1>7
  <2>2. \A n \in 1 .. Len(commands) : commands[n].by # e
    BY DEF OncePerEvent
  <2>3. \A x, y \in 1 .. Len(commands') :
          commands'[x].by = commands'[y].by => x = y
    BY <1>7, <2>1, <2>2 DEF OncePerEvent
  <2>4. \A n \in 1 .. Len(commands') : commands'[n].by \in Recorded'
    BY <1>5, <1>7, <2>1 DEF OncePerEvent
  <2> QED
    BY <1>4, <2>3, <2>4 DEF OncePerEvent
<1> QED
  BY <1>6, <1>7

\* No step stores an event twice.
LEMMA OnceInductive ==
  ASSUME Typed, Decided, OncePerEvent, [Next]_vars
  PROVE  OncePerEvent'
<1>1. CASE inbound' = inbound /\ commands' = commands
  BY <1>1 DEF OncePerEvent, Recorded
<1>2. ASSUME NEW e \in Event, Stores(e) PROVE OncePerEvent'
  <2>1. PICK s \in State :
          inbound' = Append(inbound, [to |-> s, event |-> e, at |-> s])
    BY <1>2 DEF Stores
  <2>2. PICK m \in Message : m = [to |-> s, event |-> e, at |-> s]
    BY DEF Message
  <2>3. /\ e \in Event \ Recorded /\ m.event = e
        /\ inbound' = Append(inbound, m) /\ commands' = commands
    BY <1>2, <2>1, <2>2 DEF Stores
  <2> QED
    BY <2>3, OnceExtends
<1>3. ASSUME NEW e \in Event, NEW c, NEW t, Answers(e, c, t)
      PROVE  OncePerEvent'
  <2>1. PICK m \in Message : m = [to |-> t.state, event |-> e, at |-> c.state]
    BY <1>3, AnswersFacts
  <2>2. t.command # None => t.command \in Command /\ t.command.by = e
    BY ZenonT(40), <1>3, AnswersFacts
  <2>3. /\ e \in Event \ Recorded /\ m.event = e
        /\ inbound' = Append(inbound, m)
    BY <1>3, <2>1 DEF Answers
  <2>4. \/ commands' = commands
        \/ \E d \in Command : d.by = e /\ commands' = Append(commands, d)
    BY <1>3, <2>2 DEF Answers
  <2> QED
    BY <2>3, <2>4, OnceExtends
<1> QED
  BY <1>1, <1>2, <1>3, Changes DEF HandsOver, database

-----------------------------------------------------------------------------
(* The history *)

\* h is a path of states from nothing to s.
PathTo(h, s) ==
  /\ h \in Seq(StateStep) /\ h # <<>>
  /\ h[1].from = None /\ h[Len(h)].to = s
  /\ \A n \in 2 .. Len(h) : h[n].from = h[n - 1].to

\* The path of a conversation just created,
LEMMA PathBegins == PathTo(Step(None, "MAIN_MENU"), "MAIN_MENU")
<1>1. PICK x \in StateStep : x = [from |-> None, to |-> "MAIN_MENU"]
  BY DEF StateStep, State
<1>2. <<x>> \in Seq(StateStep) /\ <<x>> # <<>> /\ Len(<<x>>) = 1
      /\ <<x>>[1] = x
  OBVIOUS
<1> QED
  BY <1>1, <1>2 DEF PathTo, Step

\* ... one state longer,
LEMMA PathExtends ==
  ASSUME NEW s \in State, NEW u \in State, NEW h, PathTo(h, s)
  PROVE  PathTo(h \o Step(s, u), u)
<1>1. PICK x \in StateStep : x = [from |-> s, to |-> u]
  BY DEF StateStep
<1>2. PICK g : g = h \o Step(s, u)
  OBVIOUS
<1>3. /\ h \in Seq(StateStep) /\ Len(h) \in Nat /\ Len(h) # 0
  BY DEF PathTo
<1>4. /\ g \in Seq(StateStep) /\ Len(g) = Len(h) + 1
      /\ \A n \in 1 .. Len(h) : g[n] = h[n]
      /\ g[Len(h) + 1] = x
  BY <1>1, <1>2, <1>3 DEF Step
<1>5. g # <<>> /\ g[1].from = None /\ g[Len(g)].to = u
  BY <1>1, <1>3, <1>4 DEF PathTo
<1>6. \A n \in 2 .. Len(g) : g[n].from = g[n - 1].to
  BY <1>1, <1>3, <1>4 DEF PathTo
<1> QED
  BY <1>2, <1>4, <1>5, <1>6 DEF PathTo

\* ... or not.
LEMMA PathExtendsIfChanged ==
  ASSUME NEW s \in State, NEW u \in State, NEW h, PathTo(h, s)
  PROVE  PathTo(h \o StepIfChanged(s, u), u)
<1>1. CASE s = u
  <2>1. h \o StepIfChanged(s, u) = h
    BY <1>1 DEF StepIfChanged, PathTo
  <2> QED
    BY <1>1, <2>1
<1>2. CASE s # u
  BY <1>2, PathExtends DEF StepIfChanged
<1> QED
  BY <1>1, <1>2

\* The property, in the terms of a path.
LEMMA HistoryAsPath ==
  ASSUME Typed
  PROVE  HistoryIsPath <=> IF conv = None THEN history = <<>>
                           ELSE PathTo(history, conv.state)
<1>1. history \in Seq(StateStep)
  BY DEF Typed, TypeOK, StateStep
<1> QED
  BY <1>1 DEF HistoryIsPath, PathTo

\* No step breaks the path.
LEMMA HistoryInductive ==
  ASSUME Typed, Decided, ControlConsistent, HistoryIsPath, [Next]_vars
  PROVE  HistoryIsPath'
<1>1. Typed'
  BY TypedInductive
<1>2. (Typed => (HistoryIsPath <=> IF conv = None THEN history = <<>>
                                   ELSE PathTo(history, conv.state)))'
  BY HistoryAsPath, PTL
<1>3. IF conv = None THEN history = <<>> ELSE PathTo(history, conv.state)
  BY HistoryAsPath
<1>4. SUFFICES IF conv' = None THEN history' = <<>>
               ELSE PathTo(history', conv'.state)
  BY <1>1, <1>2
<1>5. CASE conv' = conv /\ history' = history
  BY <1>3, <1>5
<1>6. ASSUME NEW e \in Event, NEW c, NEW t, Answers(e, c, t)
      PROVE  PathTo(history', conv'.state) /\ conv' # None
  <2>1. /\ c \in Conv /\ c = loaded
        /\ conv' \in Conv /\ conv'.state = t.state
    <3>1. c \in Conv /\ c = loaded
      BY <1>6, AnswersFacts
    <3>2. conv' \in Conv
      BY <1>6, AnswersFacts
    <3>3. conv'.state = t.state
      BY ZenonT(40), <1>6, AnswersFacts
    <3> QED
      BY <3>1, <3>2, <3>3
  <2>2. PICK s \in State : s = c.state
    BY <2>1 DEF Conv
  <2>3. PICK u \in State : u = t.state
    BY <2>1 DEF Conv
  <2>4. PICK d : d = StepIfChanged(s, u)
    OBVIOUS
  <2>5. history' = history \o (created \o d) /\ d \in Seq(StateStep)
    BY <1>6, <2>2, <2>3, <2>4, StepTyped DEF Answers, StepIfChanged
  <2>6. CASE conv = None
    <3>1. history = <<>> /\ s = "MAIN_MENU" /\ created = Step(None, "MAIN_MENU")
      BY <1>3, <2>1, <2>2, <2>6, NewConvTyped DEF loaded, created
    <3>2. created \in Seq(StateStep)
      BY <3>1, PathBegins DEF PathTo
    <3>3. history' = Step(None, "MAIN_MENU") \o d
      BY <2>5, <3>1, <3>2
    <3>4. PathTo(history', u)
      BY <2>4, <3>1, <3>3, PathBegins, PathExtendsIfChanged
    <3> QED
      BY <2>1, <2>3, <3>4, NoneAssumption
  <2>7. CASE conv # None
    <3>1. created = <<>> /\ PathTo(history, s)
      BY <1>3, <2>1, <2>2, <2>7 DEF loaded, created
    <3>2. history' = history \o d
      BY <2>5, <3>1 DEF PathTo
    <3>3. PathTo(history', u)
      BY <2>4, <3>1, <3>2, PathExtendsIfChanged
    <3> QED
      BY <2>1, <2>3, <3>3, NoneAssumption
  <2> QED
    BY <2>6, <2>7
<1>7. ASSUME NEW r \in Request, HandsOver(r)
      PROVE  PathTo(history', conv'.state) /\ conv' # None
  <2>1. /\ conv \in Conv /\ conv' \in Conv
        /\ \/ history' = history \o Step(conv.state, conv'.state)
           \/ history' = history /\ conv.state = conv'.state
    BY <1>7, HandsOverFacts
  <2>2. PICK s \in State : s = conv.state
    BY <2>1 DEF Conv
  <2>3. PICK u \in State : u = conv'.state
    BY <2>1 DEF Conv
  <2>4. PathTo(history, s)
    BY <1>3, <2>1, <2>2, NoneAssumption
  <2>5. PathTo(history \o Step(s, u), u)
    BY <2>4, PathExtends
  <2> QED
    BY <2>1, <2>2, <2>3, <2>4, <2>5, NoneAssumption
<1> QED
  BY <1>5, <1>6, <1>7, Changes DEF Stores, database

-----------------------------------------------------------------------------
(* One flow *)

\* The values c keeps are the last answers in msgs, in the order asked for,
\* followed by nothing but messages the confirmation did not understand.
Gathered(c, msgs) ==
  \E first \in 1 .. Len(msgs) + 1 :
    /\ first + Len(Kept(c.state)) - 1 <= Len(msgs)
    /\ \A k \in 1 .. Len(Kept(c.state)) :
         c.context[Kept(c.state)[k]] = msgs[first + k - 1].event
    /\ \A k \in first + Len(Kept(c.state)) .. Len(msgs) :
         /\ c.state \in Confirming
         /\ msgs[k].at = c.state /\ msgs[k].to = c.state

\* What the conversation keeps it gathered in one run of prompts.
FlowSoFar == conv # None => Gathered(conv, inbound)

\* What CommandFromOneFlow says of one command.
FromOneFlow(c, msgs) ==
  \E first, last \in 1 .. Len(msgs) :
    /\ msgs[last].event = c.by
    /\ first + Len(Asked[c.type]) - 1 <= last
    /\ \A k \in 1 .. Len(Asked[c.type]) :
         c.data[Asked[c.type][k]] = msgs[first + k - 1].event
    /\ \A k \in first + Len(Asked[c.type]) .. last :
         /\ msgs[k].at \in {"BOOKING_CONFIRMATION", "CANCEL_CONFIRMATION"}
         /\ k < last => msgs[k].to = msgs[k].at

\* Kept, state by state.
LEMMA KeptFacts ==
  /\ \A s \in Beginning : Kept(s) = <<>>
  /\ Kept("BOOKING_PROFESSIONAL") = <<"serviceId">>
  /\ Kept("BOOKING_DATE") = <<"serviceId", "professionalId">>
  /\ Kept("BOOKING_TIME") = <<"serviceId", "professionalId", "date">>
  /\ Kept("BOOKING_CUSTOMER_DATA") =
       <<"serviceId", "professionalId", "date", "time">>
  /\ Kept("BOOKING_CONFIRMATION") =
       <<"serviceId", "professionalId", "date", "time", "customerData">>
  /\ Kept("RESCHEDULE_DATE") = <<"appointmentId">>
  /\ Kept("RESCHEDULE_TIME") = <<"appointmentId", "date">>
  /\ Kept("CANCEL_CONFIRMATION") = <<"appointmentId">>
BY DEF Kept, Beginning

\* h is g and one field more, f, that is not in g.
Grows(g, f, h) ==
  /\ Len(g) \in Nat /\ Len(h) = Len(g) + 1 /\ h[Len(g) + 1] = f
  /\ \A k \in 1 .. Len(g) : h[k] = g[k] /\ g[k] \in Field /\ g[k] # f

\* An answer is kept under a field of its own, behind the earlier ones.
LEMMA KeptGrows ==
  ASSUME NEW s \in Asking
  PROVE  Grows(Kept(s), advance[s][2], Kept(advance[s][1]))
<1>1. ASSUME NEW f \in Field
      PROVE  Grows(<<>>, f, <<f>>)
  BY <1>1 DEF Grows
<1>2. ASSUME NEW a \in Field, NEW f \in Field \ {a}
      PROVE  Grows(<<a>>, f, <<a, f>>)
  BY <1>2 DEF Grows
<1>3. ASSUME NEW a \in Field, NEW b \in Field, NEW f \in Field \ {a, b}
      PROVE  Grows(<<a, b>>, f, <<a, b, f>>)
  BY <1>3 DEF Grows
<1>4. ASSUME NEW a \in Field, NEW b \in Field, NEW c \in Field,
             NEW f \in Field \ {a, b, c}
      PROVE  Grows(<<a, b, c>>, f, <<a, b, c, f>>)
  BY <1>4 DEF Grows
<1>5. ASSUME NEW a \in Field, NEW b \in Field, NEW c \in Field,
             NEW d \in Field, NEW f \in Field \ {a, b, c, d}
      PROVE  Grows(<<a, b, c, d>>, f, <<a, b, c, d, f>>)
  BY <1>5 DEF Grows
<1>6. CASE s = "BOOKING_SERVICE"
  <2>1. advance[s] = <<"BOOKING_PROFESSIONAL", "serviceId">>
    BY <1>6 DEF advance
  <2>2. Kept(s) = <<>>
    BY <1>6, KeptFacts DEF Beginning
  <2> QED
    BY <1>1, <2>1, <2>2, KeptFacts DEF Field
<1>7. CASE s = "BOOKING_PROFESSIONAL"
  <2>1. advance[s] = <<"BOOKING_DATE", "professionalId">>
    BY <1>7 DEF advance
  <2>2. Kept(s) = <<"serviceId">>
    BY <1>7, KeptFacts DEF Beginning
  <2> QED
    BY <1>2, <2>1, <2>2, KeptFacts DEF Field
<1>8. CASE s = "BOOKING_DATE"
  <2>1. advance[s] = <<"BOOKING_TIME", "date">>
    BY <1>8 DEF advance
  <2>2. Kept(s) = <<"serviceId", "professionalId">>
    BY <1>8, KeptFacts DEF Beginning
  <2> QED
    BY <1>3, <2>1, <2>2, KeptFacts DEF Field
<1>9. CASE s = "BOOKING_TIME"
  <2>1. advance[s] = <<"BOOKING_CUSTOMER_DATA", "time">>
    BY <1>9 DEF advance
  <2>2. Kept(s) = <<"serviceId", "professionalId", "date">>
    BY <1>9, KeptFacts DEF Beginning
  <2>3. Kept(advance[s][1]) =
          <<"serviceId", "professionalId", "date", "time">>
    BY <2>1, KeptFacts
  <2>4. /\ "serviceId" \in Field
        /\ "professionalId" \in Field
        /\ "date" \in Field
        /\ "time" \in Field \ {"serviceId", "professionalId", "date"}
    BY DEF Field
  <2>5. advance[s][2] = "time"
    BY <2>1
  <2> QED
    BY <1>4, <2>2, <2>3, <2>4, <2>5
<1>10. CASE s = "BOOKING_CUSTOMER_DATA"
  <2>1. advance[s] = <<"BOOKING_CONFIRMATION", "customerData">>
    BY <1>10 DEF advance
  <2>2. Kept(s) = <<"serviceId", "professionalId", "date", "time">>
    BY <1>10, KeptFacts DEF Beginning
  <2>3. Kept(advance[s][1]) =
          <<"serviceId", "professionalId", "date", "time", "customerData">>
    BY <2>1, KeptFacts
  <2>4. /\ "serviceId" \in Field
        /\ "professionalId" \in Field
        /\ "date" \in Field
        /\ "time" \in Field
        /\ "customerData" \in Field \ {"serviceId", "professionalId", "date", "time"}
    BY DEF Field
  <2>5. advance[s][2] = "customerData"
    BY <2>1
  <2> QED
    BY <1>5, <2>2, <2>3, <2>4, <2>5
<1>11. CASE s = "RESCHEDULE_SELECT_APPOINTMENT"
  <2>1. advance[s] = <<"RESCHEDULE_DATE", "appointmentId">>
    BY <1>11 DEF advance
  <2>2. Kept(s) = <<>>
    BY <1>11, KeptFacts DEF Beginning
  <2> QED
    BY <1>1, <2>1, <2>2, KeptFacts DEF Field
<1>12. CASE s = "RESCHEDULE_DATE"
  <2>1. advance[s] = <<"RESCHEDULE_TIME", "date">>
    BY <1>12 DEF advance
  <2>2. Kept(s) = <<"appointmentId">>
    BY <1>12, KeptFacts DEF Beginning
  <2> QED
    BY <1>2, <2>1, <2>2, KeptFacts DEF Field
<1>13. CASE s = "CANCEL_SELECT_APPOINTMENT"
  <2>1. advance[s] = <<"CANCEL_CONFIRMATION", "appointmentId">>
    BY <1>13 DEF advance
  <2>2. Kept(s) = <<>>
    BY <1>13, KeptFacts DEF Beginning
  <2> QED
    BY <1>1, <2>1, <2>2, KeptFacts DEF Field
<1> QED
  BY <1>6, <1>7, <1>8, <1>9, <1>10, <1>11, <1>12, <1>13 DEF Asking

\* Nothing has been gathered yet.
LEMMA GatheredNothing ==
  ASSUME NEW c, c.state \in Beginning, NEW msgs \in Seq(Message)
  PROVE  Gathered(c, msgs)
<1>1. Len(Kept(c.state)) = 0 /\ Len(msgs) \in Nat
  BY KeptFacts
<1>2. Len(msgs) + 1 \in 1 .. Len(msgs) + 1
  BY <1>1
<1> QED
  BY <1>1, <1>2 DEF Gathered

\* One answer more.
LEMMA GatheredExtends ==
  ASSUME NEW c \in Conv, NEW d \in Conv, NEW msgs \in Seq(Message),
         NEW e \in Event, NEW t, Gathered(c, msgs),
         Outcome(c.state, c.context, e, t),
         d.state = t.state, d.context = t.context,
         NEW m \in Message, m = [to |-> t.state, event |-> e, at |-> c.state]
  PROVE  Gathered(d, Append(msgs, m))
<1>1. PICK n \in Nat : n = Len(msgs)
  OBVIOUS
<1>2. PICK more : more = Append(msgs, m)
  OBVIOUS
<1>3. /\ more \in Seq(Message) /\ Len(more) = n + 1 /\ more[n + 1] = m
      /\ \A k \in 1 .. n : more[k] = msgs[k]
  BY <1>1, <1>2
<1>4. CASE d.state \in Beginning
  BY <1>2, <1>3, <1>4, GatheredNothing
<1>5. CASE /\ c.state \in Asking /\ t.state = advance[c.state][1]
           /\ t.context = [c.context EXCEPT ![advance[c.state][2]] = e]
  <2>1. PICK g, f, h : /\ g = Kept(c.state) /\ f = advance[c.state][2]
                       /\ h = Kept(d.state)
    OBVIOUS
  <2>2. Grows(g, f, h) /\ f \in Field
    BY <1>5, <2>1, KeptGrows, AdvanceFacts
  <2>3. PICK l \in Nat : l = Len(g)
    BY <2>2 DEF Grows
  <2>4. /\ Len(h) = l + 1 /\ h[l + 1] = f
        /\ \A k \in 1 .. l : h[k] = g[k] /\ g[k] \in Field /\ g[k] # f
    BY <2>2, <2>3 DEF Grows
  <2>5. PICK first \in 1 .. n + 1 :
          /\ first + l - 1 <= n
          /\ \A k \in 1 .. l : c.context[g[k]] = msgs[first + k - 1].event
          /\ \A k \in first + l .. n : c.state \in Confirming
    BY <1>1, <2>1, <2>3 DEF Gathered
  <2>6. first + l = n + 1
    <3>1. c.state \notin Confirming
      BY <1>5 DEF Asking, Confirming
    <3>2. ~(first + l <= n)
      BY <2>5, <3>1
    <3>3. first \in Nat /\ first + l - 1 <= n
      BY <2>5
    <3> QED
      BY <3>2, <3>3
  <2>7. d.context = [c.context EXCEPT ![f] = e]
    BY <1>5, <2>1
  <2>8. d.context[f] = e /\ \A x \in Field : x # f => d.context[x] = c.context[x]
    BY <2>2, <2>7 DEF Conv, Context
  <2>9. ASSUME NEW k \in 1 .. l + 1
        PROVE  d.context[h[k]] = more[first + k - 1].event
    <3>1. CASE k = l + 1
      BY <1>3, <2>4, <2>6, <2>8, <3>1
    <3>2. CASE k \in 1 .. l
      <4>1. first + k - 1 \in 1 .. n
        BY <2>5, <3>2
      <4>2. h[k] = g[k] /\ g[k] \in Field /\ g[k] # f
        BY <2>4, <3>2
      <4>3. d.context[h[k]] = c.context[g[k]]
        BY <2>8, <4>2
      <4> QED
        BY <1>3, <2>5, <3>2, <4>1, <4>3
    <3> QED
      BY <3>1, <3>2
  <2>10. first \in 1 .. Len(more) + 1 /\ first + Len(h) - 1 <= Len(more)
    BY <1>3, <2>4, <2>6
  <2>11. first + Len(h) .. Len(more) = {}
    BY <1>3, <2>4, <2>6
  <2> QED
    BY <1>2, <2>1, <2>4, <2>9, <2>10, <2>11 DEF Gathered
<1>6. CASE c.state \in Confirming /\ t.state = c.state /\ t.context = c.context
  <2>1. PICK g : g = Kept(c.state)
    OBVIOUS
  <2>2. Len(g) \in Nat
    BY <1>6, <2>1, KeptFacts DEF Confirming
  <2>3. PICK first \in 1 .. n + 1 :
          /\ first + Len(g) - 1 <= n
          /\ \A k \in 1 .. Len(g) : c.context[g[k]] = msgs[first + k - 1].event
          /\ \A k \in first + Len(g) .. n :
               msgs[k].at = c.state /\ msgs[k].to = c.state
    BY <1>1, <2>1 DEF Gathered
  <2>4. first \in 1 .. Len(more) + 1 /\ first + Len(g) - 1 <= Len(more)
    BY <1>3, <2>2, <2>3
  <2>5. \A k \in 1 .. Len(g) : d.context[g[k]] = more[first + k - 1].event
    <3>1. \A k \in 1 .. Len(g) : first + k - 1 \in 1 .. n
      BY <2>2, <2>3
    <3>2. \A k \in 1 .. Len(g) : more[first + k - 1] = msgs[first + k - 1]
      BY <1>3, <3>1
    <3> QED
      BY <1>6, <2>3, <3>2
  <2>6. ASSUME NEW k \in first + Len(g) .. Len(more)
        PROVE  more[k].at = c.state /\ more[k].to = c.state
    <3>1. CASE k = n + 1
      BY <1>3, <1>6, <3>1
    <3>2. CASE k # n + 1
      <4>1. k \in 1 .. n /\ k \in first + Len(g) .. n
        BY <1>3, <2>2, <2>3, <3>2
      <4> QED
        BY <1>3, <2>3, <4>1
    <3> QED
      BY <3>1, <3>2
  <2> QED
    <3>1. Kept(d.state) = g /\ d.state = c.state
      BY <1>6, <2>1
    <3> QED
      BY <1>2, <1>6, <2>4, <2>5, <2>6, <3>1 DEF Gathered
<1> QED
  BY <1>4, <1>5, <1>6 DEF Outcome, Beginning

\* A command is made of what was gathered, and for a new time also of the
\* message that carries it out.
LEMMA CommandFromGathered ==
  ASSUME NEW c \in Conv, NEW msgs \in Seq(Message), NEW e \in Event, NEW t,
         Gathered(c, msgs), Outcome(c.state, c.context, e, t),
         t.command # None,
         NEW m \in Message, m = [to |-> t.state, event |-> e, at |-> c.state]
  PROVE  FromOneFlow(t.command, Append(msgs, m))
<1>1. PICK n \in Nat : n = Len(msgs)
  OBVIOUS
<1>2. PICK more : more = Append(msgs, m)
  OBVIOUS
<1>3. /\ more \in Seq(Message) /\ Len(more) = n + 1 /\ more[n + 1] = m
      /\ \A k \in 1 .. n : more[k] = msgs[k]
  BY <1>1, <1>2
<1>4. PICK a : a = t.command
  OBVIOUS
<1>5. PICK g : g = Kept(c.state)
  OBVIOUS
<1>6. c.context \in Context
  BY DEF Conv
<1>7. ASSUME c.state \in Confirming, Len(g) \in Nat, Len(g) # 0,
             Asked[a.type] = g, a.by = e,
             \A k \in 1 .. Len(g) : a.data[g[k]] = c.context[g[k]]
      PROVE  FromOneFlow(a, more)
  <2>1. PICK first \in 1 .. n + 1 :
          /\ first + Len(g) - 1 <= n
          /\ \A k \in 1 .. Len(g) : c.context[g[k]] = msgs[first + k - 1].event
          /\ \A k \in first + Len(g) .. n :
               msgs[k].at = c.state /\ msgs[k].to = c.state
    BY <1>1, <1>5 DEF Gathered
  <2>2. /\ first \in 1 .. Len(more) /\ n + 1 \in 1 .. Len(more)
        /\ first + Len(g) - 1 <= n + 1
    BY <1>3, <1>7, <2>1
  <2>3. ASSUME NEW k \in 1 .. Len(g)
        PROVE  a.data[g[k]] = more[first + k - 1].event
    <3>1. first + k - 1 \in 1 .. n
      BY <1>7, <2>1
    <3> QED
      BY <1>3, <1>7, <2>1, <3>1
  <2>4. ASSUME NEW k \in first + Len(g) .. n + 1
        PROVE  /\ more[k].at \in {"BOOKING_CONFIRMATION", "CANCEL_CONFIRMATION"}
               /\ k < n + 1 => more[k].to = more[k].at
    <3>1. CASE k = n + 1
      BY <1>3, <1>7, <3>1 DEF Confirming
    <3>2. CASE k # n + 1
      <4>1. k \in 1 .. n /\ k \in first + Len(g) .. n
        BY <1>7, <2>1, <3>2
      <4> QED
        BY <1>3, <1>7, <2>1, <4>1 DEF Confirming
    <3> QED
      BY <3>1, <3>2
  <2>5. more[n + 1].event = a.by
    BY <1>3, <1>7
  <2> QED
    BY <1>7, <2>2, <2>3, <2>4, <2>5 DEF FromOneFlow
<1>8. CASE /\ c.state = "BOOKING_CONFIRMATION"
           /\ a = [type |-> "CREATE_BOOKING", by |-> e,
                   data |-> [c.context EXCEPT !["appointmentId"] = None]]
  <2>1. g = <<"serviceId", "professionalId", "date", "time", "customerData">>
    BY <1>5, <1>8, KeptFacts
  <2>2. Len(g) = 5 /\ Asked[a.type] = g /\ a.by = e
    BY <1>8, <2>1 DEF Asked
  <2>3. \A k \in 1 .. 5 : g[k] \in Field /\ g[k] # "appointmentId"
    BY <2>1 DEF Field
  <2>4. \A f \in Field : f # "appointmentId" => a.data[f] = c.context[f]
    BY <1>6, <1>8 DEF Context
  <2>5. \A k \in 1 .. Len(g) : a.data[g[k]] = c.context[g[k]]
    BY <2>2, <2>3, <2>4
  <2>6. c.state \in Confirming
    BY <1>8 DEF Confirming
  <2> QED
    BY <1>2, <1>4, <1>7, <2>2, <2>5, <2>6
<1>9. CASE /\ c.state = "CANCEL_CONFIRMATION"
           /\ a = [type |-> "CANCEL_BOOKING", by |-> e,
                   data |-> [empty EXCEPT !["appointmentId"] =
                               c.context["appointmentId"]]]
  <2>1. g = <<"appointmentId">>
    BY <1>5, <1>9, KeptFacts
  <2>2. Len(g) = 1 /\ Asked[a.type] = g /\ a.by = e
    BY <1>9, <2>1 DEF Asked
  <2>3. a.data["appointmentId"] = c.context["appointmentId"]
    BY <1>9, EmptyTyped DEF Context, Field
  <2>4. \A k \in 1 .. Len(g) : a.data[g[k]] = c.context[g[k]]
    BY <2>1, <2>2, <2>3
  <2>5. c.state \in Confirming
    BY <1>9 DEF Confirming
  <2> QED
    BY <1>2, <1>4, <1>7, <2>2, <2>4, <2>5
<1>10. CASE /\ c.state = "RESCHEDULE_TIME"
            /\ a = [type |-> "RESCHEDULE_BOOKING", by |-> e,
                    data |-> [empty EXCEPT
                                !["date"] = c.context["date"], !["time"] = e,
                                !["appointmentId"] =
                                  c.context["appointmentId"]]]
  <2>1. g = <<"appointmentId", "date">>
    BY <1>5, <1>10, KeptFacts
  <2>2. PICK first \in 1 .. n + 1 :
          /\ first + 1 <= n
          /\ c.context["appointmentId"] = msgs[first].event
          /\ c.context["date"] = msgs[first + 1].event
          /\ first + 2 .. n = {}
    <3>1. PICK first \in 1 .. n + 1 :
            /\ first + Len(g) - 1 <= n
            /\ \A k \in 1 .. Len(g) :
                 c.context[g[k]] = msgs[first + k - 1].event
            /\ \A k \in first + Len(g) .. n : c.state \in Confirming
      BY <1>1, <1>5 DEF Gathered
    <3>2. Len(g) = 2 /\ g[1] = "appointmentId" /\ g[2] = "date"
      BY <2>1
    <3>3. first + 2 .. n = {}
      BY <1>10, <3>1, <3>2 DEF Confirming
    <3>4. /\ c.context["appointmentId"] = msgs[first].event
          /\ c.context["date"] = msgs[first + 1].event
      <4>1. first + 1 - 1 = first /\ first + 2 - 1 = first + 1
        OBVIOUS
      <4>2. 1 \in 1 .. Len(g) /\ 2 \in 1 .. Len(g)
        BY <3>2
      <4> QED
        BY <3>1, <3>2, <4>1, <4>2
    <3> QED
      BY <3>1, <3>2, <3>3, <3>4
  <2>3. first + 1 = n /\ first + 2 = n + 1 /\ first \in 1 .. n
    BY <2>2
  <2>4. PICK asked : asked = Asked[a.type]
    OBVIOUS
  <2>5. /\ Len(asked) = 3 /\ asked[1] = "appointmentId" /\ asked[2] = "date"
        /\ asked[3] = "time" /\ a.by = e
    BY <1>10, <2>4 DEF Asked
  <2>6. /\ a.data["appointmentId"] = c.context["appointmentId"]
        /\ a.data["date"] = c.context["date"] /\ a.data["time"] = e
    BY <1>10, EmptyTyped DEF Context, Field
  <2>7. /\ a.data[asked[1]] = more[first].event
        /\ a.data[asked[2]] = more[first + 1].event
        /\ a.data[asked[3]] = more[first + 2].event
    BY <1>3, <2>2, <2>3, <2>5, <2>6
  <2>8. \A k \in 1 .. Len(asked) :
          a.data[asked[k]] = more[first + k - 1].event
    BY <2>3, <2>5, <2>7
  <2>9. /\ first \in 1 .. Len(more) /\ n + 1 \in 1 .. Len(more)
        /\ more[n + 1].event = a.by /\ first + Len(asked) - 1 <= n + 1
        /\ first + Len(asked) .. n + 1 = {}
    BY <1>3, <2>3, <2>5
  <2>10. FromOneFlow(a, more)
    BY <2>4, <2>8, <2>9 DEF FromOneFlow
  <2> QED
    BY <1>2, <1>4, <2>10
<1> QED
  BY <1>4, <1>8, <1>9, <1>10 DEF Outcome

\* A later message takes nothing from a command already carried out.
LEMMA FromOneFlowKept ==
  ASSUME NEW c, NEW msgs \in Seq(Message), NEW m \in Message,
         FromOneFlow(c, msgs), Len(Asked[c.type]) \in Nat
  PROVE  FromOneFlow(c, Append(msgs, m))
<1>1. PICK more : more = Append(msgs, m)
  OBVIOUS
<1>2. /\ Len(more) = Len(msgs) + 1 /\ Len(msgs) \in Nat
      /\ \A k \in 1 .. Len(msgs) : more[k] = msgs[k]
  BY <1>1
<1>3. PICK asked : asked = Asked[c.type]
  OBVIOUS
<1>4. PICK first, last \in 1 .. Len(msgs) :
        /\ msgs[last].event = c.by
        /\ first + Len(asked) - 1 <= last
        /\ \A k \in 1 .. Len(asked) :
             c.data[asked[k]] = msgs[first + k - 1].event
        /\ \A k \in first + Len(asked) .. last :
             /\ msgs[k].at \in {"BOOKING_CONFIRMATION", "CANCEL_CONFIRMATION"}
             /\ k < last => msgs[k].to = msgs[k].at
  BY <1>3 DEF FromOneFlow
<1>5. \A k \in 1 .. Len(asked) : first + k - 1 \in 1 .. Len(msgs)
  BY <1>3, <1>4
<1>6. \A k \in first + Len(asked) .. last : k \in 1 .. Len(msgs)
  BY <1>3, <1>4
<1>7. first \in 1 .. Len(more) /\ last \in 1 .. Len(more)
  BY <1>2, <1>4
<1> QED
  BY SMTT(30), <1>1, <1>2, <1>3, <1>4, <1>5, <1>6, <1>7 DEF FromOneFlow

\* No step mixes the answers of two flows.
LEMMA FlowInductive ==
  ASSUME Typed, Decided, ControlConsistent, FlowSoFar, [Next]_vars
  PROVE  FlowSoFar'
<1>1. inbound \in Seq(Message)
  BY DEF Typed, TypeOK, Message
<1>2. CASE conv' = conv /\ inbound' = inbound
  BY <1>2 DEF FlowSoFar, Gathered
<1>3. ASSUME NEW e \in Event, Stores(e) PROVE FlowSoFar'
  <2>1. PICK s \in State :
          inbound' = Append(inbound, [to |-> s, event |-> e, at |-> s])
    BY <1>3 DEF Stores
  <2>2. PICK m \in Message : m = [to |-> s, event |-> e, at |-> s]
    BY DEF Message
  <2>3. inbound' \in Seq(Message) /\ conv' = conv /\ conv.state \in Beginning
    BY <1>1, <1>3, <2>1, <2>2 DEF Stores, Beginning
  <2>4. PICK msgs \in Seq(Message) : msgs = inbound'
    BY <2>3
  <2>5. Gathered(conv, msgs)
    BY <2>3, GatheredNothing
  <2> QED
    BY <2>3, <2>4, <2>5 DEF FlowSoFar
<1>4. ASSUME NEW e \in Event, NEW c, NEW t, Answers(e, c, t) PROVE FlowSoFar'
  <2>1. c \in Conv /\ c = loaded
    BY <1>4, AnswersFacts
  <2>2. PICK d \in Conv : d = conv'
    BY <1>4, AnswersFacts
  <2>3. d.state = t.state /\ d.context = t.context
    BY <1>4, <2>2, AnswersFacts
  <2>4. Outcome(c.state, c.context, e, t)
    BY <1>4, AnswersFacts
  <2>5. PICK m \in Message : m = [to |-> t.state, event |-> e, at |-> c.state]
    BY <1>4, AnswersFacts
  <2>6. Gathered(c, inbound)
    <3>1. CASE conv = None
      BY <1>1, <2>1, <3>1, GatheredNothing, NewConvTyped DEF loaded, Beginning
    <3>2. CASE conv # None
      BY <2>1, <3>2 DEF loaded, FlowSoFar
    <3> QED
      BY <3>1, <3>2
  <2>7. PICK msgs \in Seq(Message) : msgs = inbound
    BY <1>1
  <2>8. Gathered(d, Append(msgs, m))
    BY <2>1, <2>3, <2>4, <2>5, <2>6, <2>7, GatheredExtends
  <2>9. inbound' = Append(msgs, m)
    BY <1>4, <2>5, <2>7 DEF Answers
  <2> QED
    BY <2>2, <2>8, <2>9 DEF FlowSoFar
<1>5. ASSUME NEW r \in Request, HandsOver(r) PROVE FlowSoFar'
  <2>1. PICK d : d = conv'
    OBVIOUS
  <2>2. d.state \in Beginning
    BY <1>5, <2>1, HandsOverFacts DEF Beginning
  <2>3. Gathered(d, inbound) /\ inbound' = inbound
    BY <1>1, <1>5, <2>2, GatheredNothing DEF HandsOver
  <2> QED
    BY <2>1, <2>3 DEF FlowSoFar
<1> QED
  BY <1>2, <1>3, <1>4, <1>5, Changes DEF database

\* Every kind of command has its questions.
LEMMA AskedFacts ==
  ASSUME NEW c \in Command
  PROVE  Len(Asked[c.type]) \in Nat
<1>1. c.type \in {"CREATE_BOOKING", "RESCHEDULE_BOOKING", "CANCEL_BOOKING"}
  BY DEF Command
<1>2. /\ Len(Asked["CREATE_BOOKING"]) = 5
      /\ Len(Asked["RESCHEDULE_BOOKING"]) = 3
      /\ Len(Asked["CANCEL_BOOKING"]) = 1
  BY DEF Asked
<1> QED
  BY <1>1, <1>2

\* No step carries out a command made of two flows.
LEMMA CommandInductive ==
  ASSUME Typed, Decided, FlowSoFar, CommandFromOneFlow, [Next]_vars
  PROVE  CommandFromOneFlow'
<1>1. inbound \in Seq(Message) /\ commands \in Seq(Command)
  BY DEF Typed, TypeOK, Message
<1>2. \A n \in 1 .. Len(commands) : FromOneFlow(commands[n], inbound)
  BY DEF CommandFromOneFlow, FromOneFlow
<1>3. SUFFICES \A n \in 1 .. Len(commands') : FromOneFlow(commands'[n], inbound')
  BY DEF CommandFromOneFlow, FromOneFlow
<1>4. ASSUME NEW m \in Message, NEW n \in 1 .. Len(commands)
      PROVE  FromOneFlow(commands[n], Append(inbound, m))
  <2>1. PICK c \in Command : c = commands[n]
    BY <1>1
  <2> QED
    BY <1>1, <1>2, <2>1, AskedFacts, FromOneFlowKept
<1>5. CASE commands' = commands /\ inbound' = inbound
  BY <1>2, <1>5
<1>6. ASSUME NEW e \in Event, Stores(e)
      PROVE  \A n \in 1 .. Len(commands') : FromOneFlow(commands'[n], inbound')
  <2>1. PICK s \in State :
          inbound' = Append(inbound, [to |-> s, event |-> e, at |-> s])
    BY <1>6 DEF Stores
  <2>2. PICK m \in Message : m = [to |-> s, event |-> e, at |-> s]
    BY DEF Message
  <2> QED
    BY <1>4, <1>6, <2>1, <2>2 DEF Stores
<1>7. ASSUME NEW e \in Event, NEW c, NEW t, Answers(e, c, t)
      PROVE  \A n \in 1 .. Len(commands') : FromOneFlow(commands'[n], inbound')
  <2>1. c \in Conv /\ c = loaded
    BY <1>7, AnswersFacts
  <2>2. Outcome(c.state, c.context, e, t)
    BY <1>7, AnswersFacts
  <2>3. PICK m \in Message : m = [to |-> t.state, event |-> e, at |-> c.state]
    BY <1>7, AnswersFacts
  <2>4. inbound' = Append(inbound, m)
    BY <1>7, <2>3 DEF Answers
  <2>5. CASE t.command = None
    BY <1>4, <1>7, <2>4, <2>5 DEF Answers
  <2>6. CASE t.command # None
    <3>1. conv # None
      <4>1. c.state # "MAIN_MENU"
        BY <2>2, <2>6 DEF Outcome
      <4> QED
        BY <2>1, <4>1, NewConvTyped DEF loaded
    <3>2. Gathered(c, inbound)
      BY <2>1, <3>1 DEF loaded, FlowSoFar
    <3>3. PICK msgs \in Seq(Message) : msgs = inbound
      BY <1>1
    <3>4. FromOneFlow(t.command, Append(msgs, m))
      BY <2>1, <2>2, <2>3, <2>6, <3>2, <3>3, CommandFromGathered
    <3>5. PICK a \in Command : a = t.command
      BY <1>7, <2>6, AnswersFacts
    <3>6. commands' = Append(commands, a)
      BY <1>7, <2>6, <3>5 DEF Answers
    <3>7. /\ Len(commands') = Len(commands) + 1 /\ Len(commands) \in Nat
          /\ \A n \in 1 .. Len(commands) : commands'[n] = commands[n]
          /\ commands'[Len(commands) + 1] = a
      BY <1>1, <3>6
    <3> QED
      BY <1>4, <2>4, <3>3, <3>4, <3>5, <3>7
  <2> QED
    BY <2>5, <2>6
<1> QED
  BY <1>5, <1>6, <1>7, Changes DEF HandsOver, database

-----------------------------------------------------------------------------
(* The theorems *)

\* The inductive invariant.
ConversationInv ==
  /\ Typed /\ Decided
  /\ ControlConsistent /\ OncePerEvent /\ HistoryIsPath
  /\ FlowSoFar /\ CommandFromOneFlow

\* Before the first message the invariant holds,
LEMMA InitInv == Init => ConversationInv
<1> SUFFICES ASSUME Init PROVE ConversationInv
  OBVIOUS
<1>1. Typed
  BY BoundsAssumption DEF Init, Typed, TypeOK
<1>2. Decided
  BY DEF Init, Decided
<1>3. ControlConsistent /\ FlowSoFar
  BY DEF Init, ControlConsistent, FlowSoFar
<1>4. OncePerEvent
  BY DEF Init, OncePerEvent
<1>5. HistoryIsPath
  BY DEF Init, HistoryIsPath
<1>6. CommandFromOneFlow
  BY DEF Init, CommandFromOneFlow
<1> QED
  BY <1>1, <1>2, <1>3, <1>4, <1>5, <1>6 DEF ConversationInv

\* ... and every step of any worker, member or customer keeps it.
LEMMA NextInv == ConversationInv /\ [Next]_vars => ConversationInv'
BY TypedInductive, DecidedInductive, ControlInductive, OnceInductive,
   HistoryInductive, FlowInductive, CommandInductive DEF ConversationInv

\* The inductive invariant holds in every reachable state, for any number of
\* workers, members and messages.
THEOREM ConversationInvariant == Spec => []ConversationInv
BY InitInv, NextInv, PTL DEF Spec

\* The documents keep their shape (conversation-engine.service.ts,
\* handoff.service.ts).
THEOREM ConversationTyped == Spec => []TypeOK
<1>1. ConversationInv => TypeOK
  BY DEF ConversationInv, Typed
<1> QED
  BY <1>1, ConversationInvariant, PTL

\* However often and however concurrently a provider event is delivered, it is
\* stored once and carries out one command at most (processTransaction).
THEOREM EventsHandledOnce == Spec => []OncePerEvent
<1>1. ConversationInv => OncePerEvent
  BY DEF ConversationInv
<1> QED
  BY <1>1, ConversationInvariant, PTL

\* The state history is one path that ends where the conversation is, though
\* the bot and the members of staff append to it concurrently.
THEOREM HistoryIsOnePath == Spec => []HistoryIsPath
<1>1. ConversationInv => HistoryIsPath
  BY DEF ConversationInv
<1> QED
  BY <1>1, ConversationInvariant, PTL

\* Under human control there is an assignee and the bot is in handoff, under
\* the bot's there is none (handoff.service.ts).
THEOREM OneInControl == Spec => []ControlConsistent
<1>1. ConversationInv => ControlConsistent
  BY DEF ConversationInv
<1> QED
  BY <1>1, ConversationInvariant, PTL

\* A booking command is made of the answers to one uninterrupted run of
\* prompts, whatever else was delivered, repeated or handed over meanwhile.
THEOREM CommandsFromOneFlow == Spec => []CommandFromOneFlow
<1>1. ConversationInv => CommandFromOneFlow
  BY DEF ConversationInv
<1> QED
  BY <1>1, ConversationInvariant, PTL

\* The step BotStaysSilent is about.
LEMMA SilentStep ==
  ASSUME Typed, Decided, [Next]_vars, conv # None,
         conv.state = "HUMAN_HANDOFF"
  PROVE  replies' = replies /\ commands' = commands
<1>1. ASSUME NEW e \in Event, NEW c, NEW t, Answers(e, c, t) PROVE FALSE
  <2>1. c.state # "HUMAN_HANDOFF"
    BY <1>1, AnswersFacts
  <2>2. c = loaded
    BY <1>1 DEF Answers
  <2> QED
    BY <2>1, <2>2 DEF loaded
<1> QED
  BY <1>1, Changes DEF Stores, HandsOver, database

\* During a handoff the bot neither replies nor carries out a command, also
\* when it was at work on a message already (processTransaction).
THEOREM BotIsSilent == Spec => BotStaysSilent
<1>1. ConversationInv /\ [Next]_vars =>
        [conv # None /\ conv.state = "HUMAN_HANDOFF" =>
           /\ replies' = replies
           /\ commands' = commands]_vars
  BY SilentStep DEF ConversationInv
<1> QED
  BY <1>1, ConversationInvariant, PTL DEF Spec, BotStaysSilent

\* The step NoStolenClaim is about.
LEMMA ClaimStep ==
  ASSUME Typed, Decided, ControlConsistent, [Next]_vars, conv # None,
         conv.assignedTo # None, conv' # conv
  PROVE  \E w \in Workers : /\ txn[w] # Idle /\ txn'[w] = Idle
                            /\ txn[w].request.op \in {"reassign", "release"}
<1>1. ASSUME NEW e \in Event, NEW c, NEW t, Answers(e, c, t) PROVE FALSE
  <2>1. c.controlStatus = "BOT" /\ c = loaded
    BY ZenonT(40), <1>1, AnswersFacts
  <2> QED
    BY <2>1 DEF loaded, ControlConsistent
<1>2. ASSUME NEW r \in Request, HandsOver(r)
      PROVE  r.op \in {"reassign", "release"}
  BY <1>2, HandsOverFacts
<1> QED
  BY <1>1, <1>2, Changes DEF Stores, database

\* An assigned conversation changes hands only by a reassignment or a release:
\* concurrent claims do not steal it (handoff.service.ts).
THEOREM ClaimsAreKept == Spec => NoStolenClaim
<1>1. ConversationInv /\ [Next]_vars =>
        [conv # None /\ conv.assignedTo # None /\ conv' # conv =>
           \E w \in Workers :
             /\ txn[w] # Idle /\ txn'[w] = Idle
             /\ txn[w].request.op \in {"reassign", "release"}]_vars
  BY ClaimStep DEF ConversationInv
<1> QED
  BY <1>1, ConversationInvariant, PTL DEF Spec, NoStolenClaim
=============================================================================

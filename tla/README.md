# Formal model of the PanalBee Clock backend

TLA+ specifications of the appointment backend in `src/src` (NestJS, MongoDB),
TLC configurations that check them on small instances, and TLAPS proofs of the
results that matter most for instances of every size. `PROJECT.json` maps every
definition to the source lines it models and lists runs, mutants, findings,
hazards and theorems.

## The system

A tenant (a salon, a clinic) has staff, services, schedules and customers.
Customers book through the backoffice, a public page, a phone-verified customer
session or a WhatsApp conversation. Every request is served independently, in
as many processes as are deployed; all shared state is in MongoDB. There is no
in-process lock: correctness rests on transactions
(`DatabaseService.withTransaction`: snapshot reads, write conflicts, re-run of
the handler), unique indexes, and updates with a filter (compare-and-set).

| Component | State | Operations | Interacts with | What is hard | What makes it correct |
| --- | --- | --- | --- | --- | --- |
| Availability | none (reads schedules, exceptions, appointments) | compute slots | called inside booking transactions | its reads are a snapshot | what it offers can be booked |
| Appointments (creation, management, lifecycle, conversation handler) | appointments, interval locks, timeline | create, reschedule, cancel, start, complete, no-show | availability, notifications, ledger, in one transaction | races between doors, retries, moving clock | no double booking, exact locks, one outcome, keys used once |
| Affiliate ledger and payouts | append-only entries, payouts, lock documents | earn, reverse, create payout, mark paid / unpaid | completion of a referred appointment earns | balance is a sum over a snapshot (write skew) | never overdrawn, payouts end once |
| Notification outbox | intents with status, attempts, lease | claim, send, record | intents written by appointments; WhatsApp | workers die, leases expire, answers get lost | recorded once, overtaken workers harmless, progress |
| Message delivery | outbound messages with deliveryStatus | dispatch, processPending | conversation engine, handoff, WhatsApp | send before compare-and-set | SENT is never undone, queued messages get out |
| Conversation engine, state machine, handoff | conversations, provider events, messages | process inbound event, take over, reply, release | booking commands in the same transaction | duplicated events, human takes over meanwhile | one effect per provider event, no bot reply under human control |
| Customer phone access | challenges that become sessions, deleted by a TTL index | request code, verify, authenticate | WhatsApp; opens a door to appointments, evidence and survey | counting before inserting, two steps per verification | one session per code, sessions last as promised, attempts bounded |
| Accounts and tenants | account, tenant, owner, profile | provision, suspend, reactivate, edit the profile | read by every public request and by logins | two documents with a status each | both public gates say the same, the log tells what happened |
| Delegated sessions, authentication | sessions, exchange codes, tokens | start, exchange, use, revoke, expire | every request of the backoffice and of a tenant | separate reads, expiry against use | nothing is let through on authority that was over |
| Affiliate codes, referrals, economics | codes, referral conversions | create, change terms, activate, deactivate, retire, attribute a booking | booking transaction reads the code | sequences of edits, rounding | one current code, values add up |
| Evidence and survey | evidence, survey, stored images | upload, answer | timeline; external image store | the store is outside the transaction | images and records agree |
| Staff, schedules, catalog, customers | configuration documents | create, edit | read by bookings | changed between snapshot and commit | bookings see a consistent set |
| Channels, config, health, views | - | - | - | I/O and formatting | - |

## Modules

| Module | Models |
| --- | --- |
| `Availability` | `availability-calculator.ts` as operators over one local day |
| `Booking` | all handlers that write appointments; EXTENDS `Availability` |
| `Calendar` | abstract: the agenda as one atomic step per change |
| `BookingProofs` | theorems about `Booking`: locks and what may change |
| `BookingHistoryProofs` | theorems about `Booking`: the tables that follow the appointments, and `Calendar` |
| `AffiliateLedger` | commissions, reversals, payouts and their locks |
| `Wallet` | abstract: free and held money per currency |
| `AffiliateLedgerProofs` | theorems about `AffiliateLedger`, and that it implements `Wallet` |
| `NotificationOutbox` | claim, send, record, crash, lease expiry |
| `NotificationOutboxProofs` | theorems about `NotificationOutbox` |
| `Conversation` | provider events, the bot's state machine and the handoff, on one conversation |
| `ConversationProofs` | theorems about `Conversation` |
| `MessageDelivery` | `dispatch` and its three callers on outbound messages |
| `MessageDeliveryProofs` | theorems about `MessageDelivery` |
| `Accounts` | provisioning, account and tenant status, public profile and gates, as plans of transactions |
| `Tenancy` | requests from their token to their transaction, and delegated sessions; EXTENDS `Accounts` |
| `TenancyProofs` | theorems about `Accounts` and `Tenancy` |
| `CustomerAccess` | codes and sessions of one phone, their delivery and their deletion |
| `Feedback` | evidence and survey of one appointment, with the image store |
| `Referrals` | affiliate codes, their terms, and the conversions of bookings |
| `CustomerProofs` | theorems about `CustomerAccess`, `Feedback` and `Referrals` |
| `MC*` | constants of the TLC instances; `MCCustomer` also sums up three modules |

### Transactions

`Booking`, `AffiliateLedger`, `Conversation` and `Tenancy` treat a request as two steps. *Opening* it runs
the whole handler against the current database and keeps the writes it decided
on as a plan: nothing is visible to others before the commit, so the order of
statements inside a handler matters only for what it decides. *Commit* applies
the plan, effects included (locks, timeline, intent, ledger entry). Between the
two, other commits add the documents and unique-index entries they wrote to
`overtaken`; if one of them is in the plan's write set the transaction cannot
commit and `Retry` runs the handler again on a new snapshot, which may then
refuse the request or answer it from the earlier result. Documents that are
only *read* do not conflict: that is snapshot isolation, and the reason write
skew is possible at all. `Abort` stands for every other failure: a statement
that throws, a dead process. Requests that are refused or replayed write nothing and are no steps.

The write sets name what serialises the code: the appointment document, the
timeline key, each (staff, minute) lock, the creation key; for money the balance
lock per currency, the capacity lock, entry keys and payout documents; for
conversations the provider event, the customer (every upsert touches its
`updatedAt`) and the conversation.

### Booking

State: the clock, the settings bookings read (tenant status, booking switch,
service durations, exceptions), appointments, locks, lifecycle events in commit
order, notification keys, commissions and open transactions. Actions:
`CreateAppointment`, `CreateFromConversation`, `Reschedule`, `Cancel`,
`Transition` (start / complete / no-show), `Commit`, `Retry`, `Abort`, `Tick`
and one action per setting that may change meanwhile. Each handler is an
`...Accepted` predicate (its checks and early returns) and a `...Plan` (its
writes). Instants are minutes of one day. `LoadableBy` is what each of the four
doors may touch. Abstractions: a customer is also their phone and thread; a
cancellation is keyed by the minute it happens in; names, notes, reasons and
audit events are left out; the customer upsert of the public page is an existing
customer.

### AffiliateLedger

One affiliate. The balance is never stored: `balance` sums the ledger, `reserved`
sums payouts in progress, inside each transaction. Lock documents appear with
the first commission. `Wallet` is the promise: earn, hold, pay, release and take
back are atomic and keep both amounts non-negative.

### NotificationOutbox

A delivery is three steps with other workers between them: `claimOne` (one
atomic findOneAndUpdate that increments `attempts` and takes a lease), `send`
(the message may reach the customer although the answer is lost), and
`recordSent` / `recordFailed`, filtered by status and attempt. `crash` drops a
claim at any point; `leaseEnds` lets time pass.

### Conversation

State: what the customer has written, inbound messages with the state each met
and left, the conversation document, its state history, queued replies and
commands taken. Actions: `customerWrites`, `processInbound` (the provider
delivers any event, any number of times, in any order), `request`, `claim`,
`reassign`, `release`, and the transaction steps. `transitionConversation` is the
state machine. Typed text is abstracted to the alternatives `commandKey` tells
apart; a value kept in the context is the number of the message that supplied it,
which is what lets `CommandFromOneFlow` say where a booking's data comes from. A
command the booking handler refuses throws and aborts the whole transaction:
`Abort`.

### MessageDelivery

A dispatch is three steps with other calls between them: `read`
(`deliveryContext`), the answer of the provider (`accept`, or `decline` when it
refuses, fails or its answer is lost), and `recordSent` / `markFailed`, which
write only if `deliveryStatus` is still what was read. There is no claim and no
limit of attempts. A worker is a webhook call, a member's request or a call of
`processPending`; `crash` ends it anywhere. Messages are numbered in the order of
`createdAt`. DELIVERED and READ are never written by the code, and nothing
disables a channel, so neither is modelled.

### Accounts and Tenancy

`Accounts` has the database as a function from documents and unique-index entries
(slug, owner) to their contents, and each handler as the set of plans it makes:
none, or one with its writes and its audit event, an event of the kind the handler
records: a creation names the status it starts with, a change of status the one before
and the one after, an update of the profile the fields it changed, and the start or end
of a session its id and present status, the last two on the account. What the trail can
promise differs accordingly, and `AuditTrailIsPath` has a part for each: the events of
accounts and unmanaged tenants chain (`StatusReported`; a managed tenant's status is in
its account's events), sessions are reported started once and ended once
(`SessionReported`), and profiles when they change (`ProfileReported`). `Tenancy` runs
them. A request is a job that goes through the steps of the code with other jobs between
them: an owner's token is checked against membership and tenant
(`authenticateTenant`); a delegated token against the session
(`authenticateSession`, which turns an expired one into a transaction that marks
it EXPIRED), then against account and tenant in either order
(`operationalContext`), then the interceptor records the attempt (`intercept`); `Decide`, `Commit` and `Retry` are the transaction, and
`Completed` and `issue` what follows it. `Lost` ends a job anywhere. `held` and
`up` are history: what was true of the authority when the request arrived, and
since. `NoLateAuthority` is stated per part because that is all the code promises:
session, account and tenant are read one by one, so a request may pass although no
single moment had all three in order.

Abstractions: a tenant's owner may have logged in at any time; no code path
disables a user; of the profile the booking switch is kept; reasons,
request ids and the rest of an event's metadata are left out.

### CustomerAccess

One tenant, one phone. A challenge document is first a code and then a session;
`expireDocument` is the TTL index, which deletes it some time after `expiresAt`.
`requestCode` counts, `insertChallenge` writes (the bucket is that of the arrival),
`switchTenant` suspends and reactivates the tenant, which `authenticate` and both
requests look up first, each together with what it does next; so `SessionKept` speaks
of an active tenant. `send` asks WhatsApp, `discardCode` expires a code whose delivery
was reported as failed although it may have arrived. `countAttempt` is the atomic
update by which the newest usable challenge pays for an attempt, `consume` the
transaction that turns it into a session. A code stands for its challenge: a match of
six digits by chance is left out.

### Feedback

One appointment and its image store. An upload is `upload` (checks and the look
for an earlier one), `uploadPrivateImage`, `recordEvidence` (the transaction, which
may also commit without the driver learning it) and `undoUpload` (the catch: it
deletes the image and answers a duplicate as a repetition). `strays` and `unacked`
record the two cases in which the code cannot make store and records agree: a
process that died or a deletion that failed leaves an image without record, and a
commit whose acknowledgement was lost leaves a record whose image was deleted.

### Referrals

Codes with their two unique indexes (text; customer and current slot), terms as
records with one field per optional field of the document, and the economics in
whole minor units. A booking resolves the code on its snapshot and does not write
it, so a code may be retired or changed between `prepare` and `record`: the
conversion then carries the terms that were in force when it was resolved.

## Runs

| Run | Checks | Shows |
| --- | --- | --- |
| `races` | NoDoubleBooking, LocksExact, ExactlyOncePerKey, ImplementsCalendar | two open transactions, two overlapping appointments of two minutes, booked from the backoffice and from a conversation, moved and cancelled from the conversation (the door that accepts most: it may also "move" to the present start): the lock table suffices, and the system refines `Calendar` |
| `lifecycle` | TimelineCurrent, OneOutcome, CommissionExact, TerminalFrozen | four doors and the lifecycle commands race on one appointment while time passes |
| `settings` | OfferedIsBookable, NoticePerChange | settings change between snapshot and commit; a shift, an extra shift past midnight and an absence |
| `money` | NoOverdraw, PaidExactlyOnce, ReversedAtMostOnce, ProcessingBounded, PayoutFinal, ImplementsWallet | racing payouts and reversals in two currencies; the limit of payouts in progress spans currencies although balance locks do not |
| `outbox` | SentOnce, AttemptsAreOwned, OnlyLastClaimantEnds, EventuallyResolved | two workers overtake each other on two intents; every intent is sent or uses up its attempts, and a failing one does not starve a later one |
| `handoff` | HistoryIsPath, ControlConsistent, BotStaysSilent, NoStolenClaim | members ask for, claim, reassign and release while the customer moves and cancels appointments; the bot is silent from the request on, also with a message already in hand |
| `flows` | OncePerEvent, CommandFromOneFlow | the seven messages of a booking and one more, two of them in hand at once, under racing and repeated webhook calls |
| `delivery` | SentMeansReceived, SentStays, EventuallySent | two calls race on two messages with lost answers and crashes; once provider and processes work again every message the provider takes is sent and recorded, although an older one is refused for good |
| `tenancy` | GatesAgree, NoLateAuthority, DelegationAccounted, AuditTrailIsPath | two requests at a time provision, suspend, reactivate and edit, start, exchange, use and end a delegated session while its token and session expire and requests die |
| `customer` | SessionKept, OneSessionPerCode, LimitOvershoot; StoreMatchesRecords, FeedbackOnce; OneCurrentCode, EconomicsSound | `CustomerAccess`, `Feedback` and `Referrals`, one per behaviour: they share no state, so their state spaces are added instead of multiplied |
| `replay` (violation) | ReplayReturnsOriginal | a repeated command answers with the present appointment, not the original result |
| `moveback` (violation) | MovableToOfferedSlot | an appointment cannot be moved back to a start it was once moved to |

Every property of a passing run has a mutant in `PROJECT.json`: a changed form
of one definition that makes TLC find the property violated.

Bounds. Two open transactions are enough for every pairwise race of this code:
each commit is checked against everything committed since its snapshot, and a
worker commits any number of times while the other stays open. Two appointments
of two minutes on one staff member overlap at different starts, which is the case a
start-only index would miss; a day of three or four minutes leaves room to move
them apart. `lifecycle` needs one appointment, two keys (a replay and a new
command) and a clock that passes start and end. `money` has a
commission of 2 in one currency and of 1 in the other, payouts of 1 and 2, and
three payouts against a limit of two, so that either lock may be the one that
matters. In `outbox` three attempts let two workers overtake each other twice,
and in `delivery` two calls are enough for one to succeed between the read and the
write of the other; the proofs cover any number. A booking takes seven messages
(`MaxEvents`), a move four. `MaxBacklog` lets two new ones be processed at once in
`flows`, and one more message than a booking takes lets it still come about when two of
them were answered from one state: that is where a command could mix answers (of moves
and cancellations the theorem `CommandsFromOneFlow` says the same). In `handoff` one new message is in hand at a time,
besides repeated ones; `MaxHistory` stops members from asking for one handoff after
another. `delivery` has a batch of two, one place
of it taken by a message refused for good. `tenancy` has one tenant without account
and two to be provisioned, of which one finds its slug or its owner taken; one
session of one unit, a token that outlives it within the clock tolerance, and two
requests under it (`MaxActions`). In `customer`, codes live four units, the bucket is
two wide and the window six, so that a session outlives its code, a code is asked for
again while the first is alive, and the limit of one per phone can be overshot; three
images are enough for two uploads and a stray; four sets of terms and three prices
make percentages that do not divide, sums above a price and both ends of a validity
window happen. The day (`DayEnd`), `MaxAttempts`, `MaxProcessing`, `MaxTime`,
`LastMoment`, `FinalDay`, these and the finite sets are the only bounds.

Symmetry permutes ids, keys and workers, none of which is compared except for
equality, in runs without liveness; `outbox` and `delivery` have none. Ids that are only ever
taken fresh are chosen in a fixed order instead.
`ImplementsCalendar` and `ImplementsWallet` are step properties, `[][Next]` without
fairness, for which symmetry is sound. Deadlock is not checked: when the day is over, or the ids and attempts are
used up, the modelled system may rest.

Fairness. In `outbox`, leases run out because time passes. A delivery under
way takes its next step or its process dies. Somebody keeps calling
`processPending`: the repository schedules no such call itself, so this is an
assumption about deployment; a booking confirmation, which is not delivered
immediately, depends on it. Nothing is assumed of the provider. `delivery`
(`RecoveringSpec`) lets processes die and answers get lost, but not for ever: for
some worker, each step of a call on a message that comes up again and again is
carried out again and again (strong fairness). This is the promise of a retry: it
works when the outage ends. The safety runs assume no fairness.

## Proofs

All theorems hold for every value of the constants allowed by the named
assumptions, with no bound on workers, appointments, documents, messages or
attempts. The assumptions say that durations, amounts and lifetimes are naturals
(positive where the code's validation or configuration requires it), that the marks
for "no document" and "no transaction" are none of the documents and transactions,
and a few facts of the code named below.

One argument recurs. A transaction decides on a snapshot and commits later, so no
property of the database is inductive by itself: the invariant also says what is
known of the decisions in flight. *Unless something it writes was overtaken*, a plan
still fits the database; opening establishes this from the handler's checks, every
other commit keeps it or puts a document into `overtaken`, and a commit without
conflict uses it. What is only read may have changed, so each module's version says
exactly as much as its write sets protect.

`BookingProofs`. `LockProtocol` consists of `LocksExact` (the locks are
those of the active appointments), `UniqueLocks`, `PositiveSpans` and
`PlansFit`: a plan not overtaken leaves its own appointment exactly the locks it
needs and takes minutes nobody else holds. If two active appointments of one staff
member overlapped, the later of their starts would be a minute both have locked,
which `UniqueLocks` forbids: `NeverDoubleBooked`. `OutcomesAreFinal` adds
`PlansConcernLive`: an open transaction that was not overtaken concerns an
appointment that is not over.

`BookingHistoryProofs`. `History` is about the tables that follow the appointments:
`TimelineCurrent`, `OneOutcome`, unique creation keys (`KeysOnce`, from which
`ExactlyOncePerKey`), `CommissionExact` and `NoticePerChange`, together because each
needs the others. `PlansAgree` says of a transaction that its event, intent and
commission tell what its document says, and that, not overtaken, it records something
new: the plan's event key is not in the history, and its creation key is free. An
event key is written once (`EventsOnce`), a cancellation's key only by a cancellation
(`CancellationsEnd`), which is why a key already there means a repetition.
`OffersAreBookable` needs the lock table only: an offered slot is free of locks because
the locks are exact. `BookingImplementsCalendar`: with `LockProtocol`, a commit is one
booking, move, start or end of `Calendar` at the moment of the commit, whose guard (the
time is free) is `NoDoubleBooking` of the state after it; every other step shows the
same calendar.

`AffiliateLedgerProofs`. `LedgerInv` rests on `Serial`: a transaction nothing
conflicts with is the one its handler would decide on *now*, since the balance lock of
the currency and the capacity lock are in its write set and so protect the sums it
read. Everything then reduces to steps that are atomic: `NeverOverdrawn`, `PaidOnce`,
`ReversedOnce`, `CapacityHolds`, `PayoutsAreFinal` and `LedgerImplementsWallet` (each
commit is one operation of `Wallet`, on the balance minus what is reserved). `balance`
and `reserved` are sums over sets of documents. What they are is stated without
induction: a set of values for all subsets at once that adds up (`SumsOverAt`),
existence and uniqueness shown on a minimal counterexample (`MinimalSubset`, by
well-foundedness of `<` on cardinalities); afterwards only "adding an entry adds its
amount" is used. `Finite` keeps the sets finite.

`ConversationProofs`. `ConversationInv` has `Decided` (transactions that would commit are up to
date: the event is new, the conversation is the one they read, save for a message
stored under a handoff, which writes no conversation), `ControlConsistent`,
`OncePerEvent`, `HistoryIsPath` and `FlowSoFar`: the values a conversation keeps are
its last messages, in the order of the prompts, followed only by messages the
confirmation did not understand. A command takes its data from there, so
`CommandsFromOneFlow`. `BotIsSilent` and `ClaimsAreKept` are about steps: an answer or
a claim commits only against the conversation it was decided on.

`TenancyProofs`. `World` makes `GatesAgree` inductive: an account never stands
without tenant and profile or disagrees with them, a tenant holds its slug, a session
belongs to a tenant with an account. It needs that tenants from before accounts have
different slugs (`LegacyAssumption`; the unique index in
`src/src/database/models/core.models.ts:97`). `Serving` says of each request where it is, what it is
entitled to by the steps behind it, and that its plan, not overtaken, is `Current`.
Plans read documents they do not write; those stay as the plan needs them because of
what no transaction undoes (`Growth`): documents are never removed, a session never
comes back from its end, an exchanged code stays exchanged. From it
`AuthorityIsCurrent` and, as a step property, `AuditTellsAll`: a commit reports the
change it makes (`Reports`, one disjunct per kind of transaction), since the status it
decided on is the one it overwrites, and a session it ends was active until then. `Bought` (at
most one request between exchange and token) and `Announced` (actions changed or
completed, plus those on their way there, are among those attempted) give
`DelegationIsAccounted`.

`NotificationOutboxProofs`. `Fencing` adds to `SentOnce` and `AttemptsAreOwned`
that claims are among the attempts counted, the last one keeps its intent
PROCESSING, and a delivery to be recorded reached the customer. A worker whose
attempt is older than the document's fails the filter of its update:
`OvertakenWorkersHarmless`.

`MessageDeliveryProofs`. `Delivery` adds to `SentMeansReceived` what a call knows
between its read and its write: one about to record a delivery has made it, and
one past its read saw the message unsent. The latter is why the filter on
`deliveryStatus` makes SENT final: `SentIsFinal`. That a call's list has an oldest
message comes from the well-foundedness of `<` on the naturals.

`CustomerProofs`. `Access` adds to `OneSessionPerCode` that ids are used
once, that every session handed out is `Backed` (its challenge is still there as
that session, or its moment has passed) and that a verification between its two
steps is of a customer's challenge (`Verifying`). Backed challenges are changed by
no step: counting an attempt and discarding a code look for challenges that are no
session, and the TTL index takes one only after the moment `consume` set. From it
follow `CodesBuyOneSession` and `SessionsAreKept`. `LimitHeldWithin` counts a request
that has passed the limit and not yet inserted as if it had (`Overshoot`), for finitely
many requests at once. `FeedbackInv` says who holds an image: one held by an upload is
in the store, is nobody else's, and is on record only if its commit was not
acknowledged (`Pictures`); an answer repeats the document (`Replies`). `ReferralInv`
says the same of a booking's desk as of the conversion recorded from it: its code still
has its text and owner, and its money adds up under terms that were valid. Terms
and prices are naturals, as the validation of `affiliate.dto.ts` and `service.dto.ts`
admits them (`TermsAssumption`, `PriceAssumption`).

The inductive invariants, the types among them, are established by the proofs alone;
no run repeats them. Every safety property of a passing run is a theorem.

Only model-checked: `EventuallyResolved` and `EventuallySent` (liveness under fairness
is out of the prover's reach, and needs `ENABLED`), and the two findings, which are
counterexamples. The proofs are about the models, and how far those go is said under
*Not modelled*.


## Findings

* Repeating a lifecycle command returns the current appointment
  (`appointment-lifecycle.service.ts:250`), where `docs/appointment-lifecycle.md`
  promises the original result.
* The timeline key of a move is derived from the new start
  (`appointment-effects.service.ts:134`): moving back to a start the appointment
  was once moved to aborts on the unique index with an error nobody maps.

Limits of the code the passing runs work around, each visible in how a property
is stated:

* `claimOne` skips stale work whose attempts are used up
  (`notification.service.ts:123`): it stays PROCESSING, neither sent nor failed.
  `EventuallyResolved` therefore ends with "or used up its attempts".
* `processPending` of message delivery takes the oldest unsent messages with no
  limit of attempts (`message-delivery.service.ts:165`): a batch full of
  undeliverable ones keeps every later FAILED message from being retried.
  `EventuallySent` therefore supposes fewer of them than a batch holds.
* The hourly limit of codes counts documents the TTL index deletes after ten
  minutes unless they became sessions, and is read before the insert: among the
  documents still stored it may be exceeded, by less than the number of requests
  served at once (`LimitOvershoot`), and codes already deleted are not counted at all.
* A delegated session nobody presents after its expiry stays ACTIVE in the
  database; it admits nothing (`NoLateAuthority`).
* The ledger derives keys (`commission:`, `payout:`, in
  `affiliate-ledger.service.ts:72` and `affiliate-payout.service.ts:206`) in the
  namespace of the keys clients choose; `EntryKey` supposes that no client chooses one
  of those.
* Evidence whose commit was not acknowledged loses its image (`unacked`).

## Not modelled

Time zones and daylight saving (the day's bounds are parameters), several days,
edits of services, staff, locations, members and schedules other than those named
above, logins and passwords, HTTP calls and payload parsing of the channels,
everything read-only, and the components listed as not modelled in `PROJECT.json`.
The scripts under `src/scripts` are run by hand: indexes, a first administrator,
a backfill of timelines, and drivers of tests.

Hazards without a property: the order of webhook calls (the code compares no
times); a booking command that keeps being refused, and the creation key that is
one per conversation (both need the composition of `Conversation` with `Booking`);
slots that are not minute-aligned (instants are whole minutes).

## Plan

1. Done: `Booking` with `Availability` and `Calendar`, `AffiliateLedger` with
   `Wallet`, `NotificationOutbox`, `MessageDelivery`, `Conversation`, `Accounts` and
   `Tenancy`, `CustomerAccess`, `Feedback`, `Referrals`.
2. Done: a proof of every safety property the passing runs check and of both
   refinements, in eight proof modules.
3. Left to model: the composition of `Conversation` with the creation key of
   `Booking`; the slot calculator against a reference definition.
4. Left to prove: what `Calendar` and `Wallet` promise by themselves (no overlap, no
   negative amount), as theorems of the abstract specifications; what the operators of
   `Availability` return, as lemmas of their own.

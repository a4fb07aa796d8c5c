# EventNow: models and proofs

EventNow sells tickets for events: a NestJS backend (`src/backend/src`) over PostgreSQL
(Prisma), Redis and Stripe, with a React client (`src/frontend/src`). This directory holds
TLA+ models of its core, the TLC runs that check them on small instances, and TLAPS proofs
of their invariants for every value of the constants. `PROJECT.json` maps
each definition to the lines it models.

## 1. Inventory

| Component | State | Operations | Interacts with | What is hard | What makes it correct |
|---|---|---|---|---|---|
| Bookings (`bookings/`) | `bookings`, `ticket_categories.current_stock` | create, confirm, cancel, expireOldBookings | Redis lock, event's `cancelled_at` | reads without row locks, unconditional updates, a lock that expires, nothing that calls expireOldBookings | stock never negative, no seat lost, no seat sold twice |
| Redis (`redis/`) | lock keys with a TTL, revoked tokens, one-time codes | acquireLock, releaseLock, withLock, keys of `auth/` | bookings, auth | DEL ignores who holds the lock, crashes leave keys behind | one holder at a time, locks come free |
| Orders and refunds (`orders/`) | `orders`, `tickets`, `bookings.order_id` | initiatePayment, confirmPayment, Stripe webhook, request/approve/rejectRefund | payments, bookings, promo codes, notifications | page and webhook confirm the same payment; the database and Stripe do not commit together; handlers decide on stale reads | a booking keeps its one order unless confirmations overlap, refunded means money back, a refund is undone only by a handler that had read the order before, a payment is taken up |
| Payments (`payment/`) | Stripe's payment intents | createPaymentIntent, refundPayment | Stripe | lost replies, repeated webhooks, payments long after the booking | see orders |
| Events (`events/`) | `events`, `ticket_categories` | create, update (recreates the categories), cancelEvent, remove, suspendEvent, search | everything | cancelEvent refunds order by order, then commits; update deletes what is sold with the categories; create announces after its commit | paid tickets stay, no seat is sold twice over an edit, each follower is told once |
| Promo codes (`promo-codes/`, checkout pages) | `promo_codes.current_uses`, the code and the intent of a page | create, validate, apply, delete | orders, Stripe | validated at the start of a checkout, counted after its end; the page is left for Stripe in between | no more customers with the discount than `max_uses`; the order's total is what was charged |
| Tickets (`tickets/`) | `tickets.validated_at` | validateTicket | orders, staff | a scan during another scan, a refund or a cancellation | a ticket lets one person in; a spent one is turned away |
| Staff (`staff-invitations/`, `jobs/staff-cleanup`) | `staff_invitations`, `event_staff`, the clean-up's throttle | invite, accept, decline, cancel, expire, clean-up | notifications, tickets | status read before unconditional updates; answers after the clean-up | an accepted invitation has its assignment until the event ends, and none stays after it |
| Reviews (`reviews/`) | `reviews` | create, update, delete | tickets | attendance may be taken back | only who was let in reviews |
| Participation requests | `participation_requests`, the stock of the category "Participation" | create, respond | events, notifications | status and stock read before the transaction | a place for each accepted participant, everybody told |
| Polls | `polls`, `poll_votes` | create, vote, changeVote, close, delete | participation, socket rooms | votes read, then written; delete and insert in two commits, of which the second may fail; broadcasts are of a later fetch and overtake each other | one vote in a single-choice poll, of participants; a changed vote replaces the old one; the room is shown what is stored |
| Event items | `event_items` | list, add, update, delete, claim | participation, socket rooms | read, then unconditional update | a claim is kept; the room is shown what is stored |
| Messaging (`messages/`) | conversations, members, messages; sockets and rooms in memory | createConversation, add/remove member, send, read, connect, disconnect | notifications, participation | membership in the database and in socket rooms | one direct conversation per pair; members hear; no conversation without members |
| Follows (`follows/`) | `follows` | follow, unfollow, setNotificationsEnabled | notifications, events | an announcement reads the table three times | see events |
| Notifications | `notifications` | create, read, delete | socket rooms, the bell | deleted without an event | the bell's number settles |
| Scheduled reminders (`jobs/`) | none | reminders of 7 days and of 1 day | orders, mail | nothing records what was sent; orders leave PAID and come back | reminded once, and not left out without a failure |
| Accounts (`auth/`) | `users` | register, registerOrganizer, Google sign-in | | names unique by exact spelling, looked up without case | names tell apart |
| Sessions (`auth/`, `services/api.ts`) | revoked tokens in Redis | login, refreshTokens, logout, OAuth exchange | Redis | logout while a refresh is in flight | not modelled |
| Web client (`frontend/src`) | copies of what the server has | load, listen, send, search | REST, sockets | answers and events overtake each other, connections are lost | what is shown becomes what is stored |
| Participant reviews, reports, bans | one table each | guarded inserts, toggles | | unique keys decide | not modelled |
| Dashboard, upload, mail, logging, health, contact | none shared | reads and I/O | all | none | not modelled |

`PROJECT.json` lists under `hazards` where these bite, line by line, and which property is about each.

## 2. How the code runs, and how that is modelled

* PostgreSQL runs Prisma's transactions at READ COMMITTED and no query takes an explicit row
  lock. What a handler has read can be stale when it writes; the writes of a transaction become
  visible together. So a handler is one action per read that decides, and one action
  for its commit. What happens in between (other handlers, timers, crashes) is the interleaving.
* A Prisma `update` whose `where` has a filter besides the id is one guarded `UPDATE`; when no row
  matches it throws P2025. `CreateWrite` of `Reservation` is the only place in the modelled code where the
  guard is evaluated again at the commit. All other writes are unconditional, and are modelled so.
* Failures are modelled where a handler that stops half-way leaves something behind: a query of a booking handler
  (`QueryFails`), of an order handler (`CallFails`, when `Outages`), between the two commits of a changed vote, also for a repeated option
  (`VoteFails`), after a write and before its broadcast or the count of the members (`HandlersFail`, `TalkFails`), of an announcement
  (`AnnouncementFails`), of one reminder's mail, of `applyPromoCode`; in the client of a load, a send, a request or its answer
  (`LoadFails`, `SendFails`, `TabFails`, `RequestFails`, `CountFails`, `SearchAnswer`). `StaffInvitations`, `TicketGate`, `EventEdit` and `Accounts` have no
  failing queries of their own: a handler of theirs that stops does so by a restart, or is one that never takes its next step.
* The process may restart at any point (`Crash`, `Restart`, `StaffRestart`, `GateRestart`, `HandlersFail`, `ChatRestart`, `TillsRestart`, `JobsRestart`):
  its handlers, sockets, rooms and throttles are gone, PostgreSQL, Redis and Stripe keep their state. `HandlersFail` of `Participation` is a failed query of some handlers
  and a restart at once: the handlers stop, and what each has stored without sending it is remembered. Aborts by the database, of a deadlock for example, are failed queries.
* A call that is refused (an unknown row, someone else's booking, a wrong status) changes nothing
  and is left out, except where the refusal itself needs a later step.
* Time is a fact that becomes true: a booking's `expiresAt` has passed (`overdue`), a key's TTL
  elapses (`TtlElapses`), a poll is due (`PollDue`), the evening begins and ends (`ClockAdvances`). Only
  `Reminders` counts days.
* In the client, a request is an action for its sending, one for the server's read or write, and one for the answer;
  socket events are a queue (one socket keeps their order) which a lost connection empties.

**Ghost variables.** Some properties hold only as long as nothing overlaps that the code does not keep
apart. Such an overlap, and no more, is remembered by a variable that no action reads:
`mishaps` of `Participation` (answers, votes or claims in flight together, and what was stored and not sent) and of `Messaging`
(`"overlap"`, two direct creations in flight together; `"unfinished"`, a handler that failed between removing a member and counting), `apart` (members
whose socket nobody put in the room), `raced` (two name look-ups), `unsold` (confirmations with the code that overlap; uses whose count failed),
`slips` (`"rushed"`, an acceptance during an edit; `"clipped"`, an edit to fewer seats than are taken), `unsteady` (follows that change during an
announcement), `forgone` and `moves` (reminders that a failure has cost; changed dates),
and in the client `missed`, `byRest`, `heard`, `astray` (why a poll may be shown otherwise: `"lost"`, `"outside"`, `"unsent"`, `"undone"`) and `overtaken`. Others record what happened:
`admissions` (who was let in), `turnedAway` (who was told that the event is full), `charge` (what Stripe took).
Each is set by the step that overlaps, fails or comes late, and names what that step has touched.
A property with such an exception does not cover the hazard that the exception is about: the hazard's note in `PROJECT.json` says so, and
section 4 lists what the models then contain. For four of them a run of section 4 checks the statement of the code's own texts without an exception and shows how it fails.

## 3. Modules

| Module | Models |
|---|---|
| `BookingTable` | the rows of `bookings`, and counting the seats of a set of them |
| `SeatLedger` | the abstract specification: every booking operation in one indivisible step |
| `Reservation` | `bookings.service.ts`, the lock of `redis.service.ts` and `cancelEvent` of an event without orders |
| `Checkout` | `orders.service.ts`, `payment.service.ts`, Stripe, and `cancelEvent` with orders, composed with `Reservation` |
| `Rows` | a table as a function from ids to rows, and the handler that is not in flight |
| `StaffInvitations` | the staff of an event: `staff-invitations.service.ts` and the clean-up |
| `TicketGate` | `validateTicket`, reviews, refunds and cancellation, composed with `StaffInvitations` |
| `EventEdit` | `update` and `remove` of an event that sells |
| `PromoCheckout` | checkout pages, `promo-codes.service.ts` and the orders they make |
| `Follows` | `follows.service.ts`, and the announcement in `create` of an event |
| `Reminders` | `email-reminders.job.ts` |
| `Accounts` | registration and Google sign-in of `auth.service.ts` |
| `Services` | `TicketGate` (with its `StaffInvitations`), `EventEdit`, `PromoCheckout`, `Follows`, `Reminders` and `Accounts` in one behaviour specification |
| `Participation` | `participation-requests.service.ts` |
| `Polls`, `EventItems` | `polls.service.ts` and `event-items.service.ts`, each extending `Participation`, which gives access |
| `Community` | the composition of the three |
| `Messaging` | conversations, members, sockets and rooms |
| `Chat`, `EventTab`, `Search`, `NotificationBell`, `MessageBell` | the parts of the client that keep a copy |
| `Client` | the five in one behaviour specification |
| `MCReservation`, `MCCheckout`, `MCCommunity`, `MCMessaging`, `MCPromoCheckout`, `MCServices` | symmetry and values of the small instances |
| `ReservationProofs`, `CheckoutProofs`, `GateProofs` (`StaffInvitations`, `TicketGate`), `SalesProofs` (`EventEdit`, `PromoCheckout`), `ServicesProofs` (`Follows`, `Accounts`, `Reminders`, `Services`), `CommunityProofs` (`Participation`, `Polls`, `EventItems`, `Community`), `MessagingProofs`, `ClientProofs` (`Chat`, `EventTab`, `Search`, both bells, `Client`) | theorems and proofs |

**Reservation.** `locked` is the set of categories whose key `lock:booking:category:c` exists,
`currentStock` and `booking` are the tables, `cancelled` is `events.cancelled_at`, and
`request[r]` is what a handler in flight will do next with the local variables it still needs.
`createBooking` is `AcquireLock`, `CreateRead`, `CreateWrite`, `ReleaseLock`; `confirmBooking`
is `ConfirmRead`, `ConfirmWrite`; `cancelBooking` is `CancelRead`, `CancelWrite`;
`expireOldBookings` is `ExpireRead` (one snapshot) and an `ExpireOne` per booking of it;
`cancelEvent` is `CancelEventRead`, `CancelEventList`, `CancelEventWrite`. `releaseLock`
deletes the key whoever has set it. As nothing in the source calls `expireOldBookings`, it runs
only when `SweepScheduled`; `SlowCallbacks` says whether the callback of `withLock` may
outlast the lock's ten seconds (Prisma aborts a transaction after 2 s of waiting and 5 s of
running, so only a stalled process does).

**Checkout.** `order` is the orders table with the number of tickets of each order, `orderOf`
is `bookings.order_id`, `intent` is what Stripe knows of each payment (with `due`: its webhook is
still to be answered), `call[k]` is what each order handler does next. `confirmPayment` is
`ConfirmPaymentRead` and `ConfirmPaymentWrite`, entered from the page (`PageConfirms`), the
webhook (`WebhookConfirms`) or a free booking (`FreeConfirms`). The page names a booking and a payment, any of them: nothing in
`confirmPayment` asks Stripe whether the payment has succeeded or what it was made for, so that an order may name a payment of another booking,
one that is not paid, or one that has an order already. `requestRefund` has no transaction,
hence four actions. `approveRefund` is `ApproveRefund` (read), `ApproveStripe`, `ApproveWrite`.
`cancelEvent` is `CancelEventCheck`, `CancelEventOrders`, one `CancelEventRefund` per order and
one for the end of `Promise.all`, `CancelEventPending`, `CancelEventCommit`. Bookings are made, confirmed by
PATCH, cancelled and expired by the actions of `Reservation`. `rejectRefund` is `RejectRefund` (read) and `RejectWrite`.

Stripe is external, modelled from how the code uses it: an intent is created, paid at any time
after, and refunded once and in full; a refund may be made and its reply lost; a webhook is
delivered until it is answered. `handlePaymentIntentSucceeded` swallows its errors and the answer is
200, so only a process that stops before answering is asked again. A webhook that Stripe delivers
once more after it was answered does what `PageConfirms` does.

Left out: promo codes (see `PromoCheckout`), notifications and e-mails, the category's other
fields, callers who are not the owner or the organizer. The event has not started: of these handlers only `cancelEvent` tests
that (`events.service.ts:599`), and it is refused afterwards, so that the others lose nothing by it; `requestRefund` is taken at any time.

**StaffInvitations and TicketGate.** `invitation` is `staff_invitations` (a deleted row stays as
"DELETED"), `staff` is `event_staff`, `invited` the notices; `desk[k]` is a handler in flight. Creation is `Invite` (already staff?),
`InviteFind` (an open invitation?), `InviteWrite`, `InviteNotify`; an answer is `ReadInvitation`, then
`AcceptStaff` and `AcceptWrite` (one transaction of two writes), or `DeclineWrite`, or `ExpireWrite`, then
`Unnotify`. The clean-up is listed and deleted in two steps, by the nightly job (`CleanupJob`) or by
`ListStaffEvents`, at most once a minute (`swept`, lost in a restart). `TicketGate` adds the orders' statuses, `ScanTicket`, `ScanStaff`,
`ScanWrite` of `validateTicket`, and `ReviewRead`, `ReviewWrite`. A handler of an order reads in one step and writes in another, whatever
became of the order in between (`orderWork`): `RefundRequest` and `RefundRequested`, `RefundAnswer` and `RefundApproved` or `RefundRejected`, `CancelEvent` and
`EventCancelled`, which also makes the tickets unused. There may be several of a kind.

**EventEdit.** `category` is the event's categories in order, `sale[s]` one seat's booking and later its
order with a ticket, `rows` whether they are still there. `update` is `CountPaidTickets`, `ReadTaken`,
`WriteCategories`, three statements of one READ COMMITTED transaction; categories of one `create` have the same
`createdAt`, so that `ReadTaken` takes any order. `remove` is `RemoveEvent`. Deletion takes bookings and tickets along, as the
foreign keys say. The event may be a community event, for which `createBooking` has no test either (`Book`).

**PromoCheckout.** `page[b]` is a checkout page with its intent and its code, `till[b][t]` a
`confirmPayment` in flight, from a free order, the return page or the webhook. Amounts are in
cents; `Rounded` is `Math.round`.

**Follows, Reminders, Accounts.** The announcement reads followers, following and followed in any order
(`Promise.all`) and writes two sets of notifications. A job is `JobReads` and a `Remind` per order; `order` has each order's status and the day
since which it has it, which requests, refusals and approvals of refunds change in two steps (`HolderRead`, `HolderWritten`). `register` is
`Register`, `RegisterName`, `CreateAccount`; a Google sign-in is `GoogleSignIn`, then `GoogleLink`, or as many
`GenerateUsername` as names are taken and `CreateAccount`.

**Participation, Polls, EventItems.** `hand[h]` is a handler in flight of any of the three.
`create` is `Ask`, `AskCount`, `AskWrite`, `AskNotify`; `respond` is `Answer` and `AnswerWrite`. A poll's
handler reads the access (`PollAccess`), the poll (`VoteRead`, `SettleRead`), writes (`VoteWrite`; `ChangeDelete` before it
for a changed vote), fetches (`PollFetch`) and broadcasts (`Announce`); `current` says whether the room was last sent the poll as it is.
The options of a vote may repeat, as nothing in the DTO forbids it: `createMany` then fails, after the delete of a changed vote (`VoteFails`).
Items go likewise, with `boardFresh`.

**Messaging.** `conv` is conversations with their members, `tab[u]` the one socket of a user, `room[c]` who is
in the Socket.IO room. Connecting is `Connect` (registered), `FindConversations`, `JoinRooms`; creations are a look-up
(`FindDirect`, `EventFind`) and `Create`, or `Create` alone for what `createConversation` makes of type GROUP or EVENT without a look-up
(`CreateOther`), and `MemberAdded`, which puts the sockets that are registered by then into the room.

**Client.** `Chat` numbers the messages; the page's list is `view`, its load `LoadRead` and `LoadAnswer`, a socket event
`NewMessage`, and sending goes by the socket and, when that fails, by REST, twice at most
(`AfterError`). `EventTab` numbers the changes of a poll; a request stores a change (`StorePoll`), fetches what the poll is by then (`FetchPoll`), tells the
room that (`TellRoom`) and answers (`OwnAnswer`), so that broadcasts and answers overtake each other; `sent` is what the room was told last. `Search` has the
filters (among them "available only", which a change of order or radius keeps), the effect and the focus handler, each of which sends a request. The bells have their requests, polls and marks.

`Services` and `Client` put parts side by side that share no state: a behaviour runs one of them in full,
which a variable fixed by the initial state says, so that one run covers all and the others do not multiply its states.

## 4. Runs, bounds and fairness

Passing runs.

| Run | Shows | Instance |
|---|---|---|
| `reservation_concurrent` | stock never negative, no seat lost, the handlers implement `SeatLedger` | 1 category of 2 seats, 3 bookings of 1 or 2 seats, 2 handlers, slow callbacks, sweep, failures |
| `checkout_concurrent` | REFUNDED only with the money back, and undone only by a handler that had read the order before; a booking with its order, and no other confirmation of it under way, keeps that order | 1 seat, 1 booking, 2 orders, 2 intents, 2 order handlers next to 1 booking handler, failed queries and restarts |
| `checkout_seats` | no seat lost before the event is cancelled, in a category whose orders have their bookings | 1 seat, 2 bookings, 2 orders, 1 intent, 2 order handlers next to 1 booking handler, restarts; an order may lose its booking, so that `requestRefund` looks for one that is alike |
| `checkout_fair` | `withLock` excludes; a lock left behind comes free; a booking whose payment has succeeded does not stay payable for ever | 2 categories of which 1 is free, 1 booking, 2 booking handlers, 2 orders, 1 intent, 1 order handler, restarts, `CheckoutFairSpec`; no failed queries, as the webhook answers 200 to those and Stripe does not repeat it |
| `community` | places cover and match the accepted, one vote each, claims are kept, the room is shown what is stored | 2 people, 2 places, 2 handlers in flight, failures and restarts; next to them a poll of 2 options or a list of 1 item |
| `messaging` | online members are in the room, no conversation without members, one direct conversation per pair | 2 users of whom 1 has a client, 2 conversations, 2 handlers, failed queries, lost connections and restarts |
| `services` | staff rights begin and end; a spent ticket is turned away, over handlers of its order that write late, and reviews are of who was let in; edits of an event that sells; codes and their uses; announcements; reminders; names | each part in turn: 1 member and invitation, 2 desks; the same with 1 ticket, 1 scanner and 1 desk (`GateDesks`); 2 sales in categories of 1 or 2 seats; 2 checkouts of a code of 1 use, a discount of half, of a part, or of all; 1 follower; 1 order, reminders 2 days and 1 day ahead, 3 days; 2 registrations and sign-ins, names up to suffix 2 |
| `client` | what the page, the polls, the search and the bells show catches up | each part in turn: 4 messages in pages of 2 and 1 lost connection; 1 poll of 3 changes and its deletion, 2 requests, 1 lost connection; 2 filters, 1 position, 2 queries in flight; 2 notifications, 2 fetches |

Runs that show a disagreement between the code and what its documentation, comments, messages or tests say; each is listed under `findings`.

| Run | What happens |
|---|---|
| `reservation_oversold` | `DELETE /bookings/:id` twice returns the seats twice, and the category is oversold |
| `checkout_two_orders` | page and webhook confirm one payment together: two orders, two sets of tickets |
| `promo_total` | the customer pays the reduced price, and the order is written with the full one |
| `community_full` | the second person of two is told that there are no places left, while there is one |

The models contain more that the code does, and that no property claims not to happen: the properties except it, or say nothing of it.

* Bookings and orders: an abandoned booking keeps its seats for ever, unless the sweep is scheduled; a booking created while its event is being
  cancelled stays PENDING on it; one payment named for two bookings makes an order of each; a payment after the booking's ten minutes is left with neither order
  nor refund; a rejection that commits after an approval makes the refunded order PAID again; `cancelEvent` takes `FREE_ORDER` for a payment
  intent, so that a free order stays PAID.
* Gate, edits, codes, reminders: two scanners that read a ticket before either has marked it both admit; a payment between an edit's count and its
  deletion loses its tickets, as does an order in REFUND_REQUESTED; an edit that deletes a PENDING booking takes its seat over as taken, so that nobody
  has it and nobody can buy it; two customers that confirm together both get the discount of a code of one use; an order in REFUND_REQUESTED
  when its reminder is due, and PAID again by a refusal, is not reminded.
* Polls and conversations: a changed vote that names an option twice loses the old vote and fails; an event has as many conversations as are made without a
  look-up; a removed member's socket stays in the room.
* Client: after a silent reconnection the tab shows a poll as it was before, although `socketService.ts:91` speaks of state that is resynchronised.

**Bounds.** Sets of ids are what may be drawn; `IdsLeft`, `OrdersLeft` and `IntentsLeft` stop a
handler at its read when they are used up. `StockBound` stops only repeated cancellations of the
same booking, which would otherwise raise the stock for ever; `checkout_concurrent` and `checkout_seats` set it to 0 to
stay small, so that a second deletion next to order handlers is in `checkout_fair` only. Two payments of one booking are in `checkout_concurrent` only, the booking that looks alike in `checkout_seats` only.
`Requests`, `Calls`, `Hands`, `Desks`, `GateDesks`, `Scanners`, `Clerks`, `Talks`, `Queries`, `Fetches` and `Asks` bound what is in flight.
The handlers of orders in `TicketGate` are not bounded: there may be any number of a kind.
Two are enough for each race the code has: every decision rests on one read, and one other commit in
between makes it stale. `MaxQuantity` is `@Max(10)`, checked with 2: stock 2 with quantities 1 and 2
lets a creation fail on stock that another has taken. `LastSuffix` ends names, `LastDay` and
`MaxMoves` the days and the changed dates, `MaxMessages` and `MaxLosses` the messages and lost
connections, `MaxTabLosses` those of the polls' tab, `Gone` the changes of a poll. `Week` is 7 in the code and 2 in the run, with the other job's day before it.
`Price` 100 is one euro, so that `SomeDiscounts` reach Stripe's least of 50 cents, an amount above it and a free order. Two people and two places reach "full", "one left" and "turned away". With
two users there is a second direct conversation to make wrong, and somebody to leave last. The proofs
need none of these bounds.

`CHECK_DEADLOCK FALSE` is set where a behaviour may end: everything has been asked, paid, sent or shown.

**Fairness.** `Fairness` of `Reservation`, which `CheckoutFairSpec` contains: a handler that can go on does (Node's event loop, and Prisma's
timeouts), and Redis expires keys. It is weak, as nothing but a crash takes a step away from a handler. No booking need ever become overdue.
`CheckoutFairness` adds that Stripe repeats a webhook until it is answered, strongly fair because
all slots of `Calls`, a bound of the model, may be taken at times, and that the process does not
restart each time just before the same commit. `StaffFairness`, for both parts of `Services` that have staff (`StaffRightsEnd`): the nightly job is
scheduled, and its deletion is not interrupted by a restart every single night.
`NotificationFairness` and `MessageBellFairness` (`BadgesSettle`): intervals fire, requests are
answered; that a request does not fail for ever is a hypothesis of the property, as in the code a
failure stops the bell's interval until something starts it again. Nothing is assumed of customers, organizers
and users.

## 5. Proofs

Every safety property that a passing run checks is also proved: the invariants, the refinement of `SeatLedger` and the four action
properties (`SettledForGood`, `GrantedIsFinal`, `TurnedAway`, `ClaimsAreKept`).

| Module | Theorem | Says |
|---|---|---|
| `ReservationProofs` | `TypeCorrect` | the type invariant |
| | `ImplementsLedger` | `Reservation` implements `SeatLedger` |
| | `NeverNegative` | the stock is never negative |
| | `SeatsNeverLost` | a seat that is not in stock is held by a booking |
| | `LockExcludes` | one callback per lock, unless callbacks may outlast the TTL |
| `CheckoutProofs` | `CheckoutTypeCorrect` | the type invariant |
| | `RefundsAreBacked` | REFUNDED only with the money back |
| | `CheckoutLosesNoSeat` | no seat is lost between bookings, orders and stock |
| | `SettledStays` | a booking with its order, that no other handler is confirming, keeps that order |
| | `GrantedStays` | a refund stays, once no handler that has read the order before is in flight |
| `GateProofs` | `StaffTypeCorrect` | the type invariant of `StaffInvitations` |
| | `AcceptedAreStaff` | until the event ends, who has accepted is staff |
| | `GateHasItsStaff` | a behaviour of `TicketGate` is one of `StaffInvitations` |
| | `GateTypeCorrect` | the type invariant of `TicketGate` |
| | `ReviewersAttended` | who has reviewed was let in, and reviews after the event |
| | `SpentStaysSpent` | a ticket that is used or refunded, with nothing of it in flight, is turned away for good |
| `SalesProofs` | `EditTypeCorrect`, `PromoTypeCorrect` | the type invariants |
| | `EditsBackSeats` | what is on sale, booked, sold and promised is within the stock entered, but for promises that an edit could not see or cut |
| | `CountedUsesAreOrders` | the uses counted are the orders made with the code |
| | `CodeStaysWithinLimit` | no more orders with the code than its limit, but for those whose count has failed, unless confirmations overlapped |
| `ServicesProofs` | `NobodyToldTwice` | nobody is told twice of one event |
| | `AnnouncedToAll` | those who want to be told are, as friends or as followers |
| | `NamesStayApart` | names tell accounts apart, unless two look-ups overlapped |
| | `OrdersAreReminded` | reminded once by each job, and, if PAID since before the day, not left out without a failure or a changed date |
| | `ServicesAreEach` | a behaviour of `Services` is one of each of its parts |
| | `ServicesTypeCorrect` | the type invariant of all |
| `CommunityProofs` | `PlacesAreCovered` | a place was taken for each accepted participant |
| | `PlacesAreExact` | unless two answers overlapped, places left and accepted participants add up |
| | `AnsweredAreTold` | whoever is answered has a notification of it |
| | `CommunityTypeCorrect` | the type invariant of `Community` |
| | `CommunityPlaces` | the first two, next to the poll and the list |
| | `VotesStaySingle` | one vote a person in a single-choice poll |
| | `RoomsStayCurrent` | the room was last sent what is stored, unless handlers overlapped or failed between write and broadcast |
| | `ClaimsStay` | a step takes no claim from anybody |
| `MessagingProofs` | `MessagingTypeCorrect` | the type invariant |
| | `NoneIsEmpty` | a conversation without members is about to be deleted, unless a handler failed between removal and count |
| | `MembersHear` | a member whose socket is open is in the room |
| | `OneConversationStays` | one direct conversation per pair, unless two searches for it overlapped |
| `ClientProofs` | `ResultsStayCurrent` | the catalogue shows what was last asked for |
| | `PollsStayCurrent` | the tab shows each poll as the room was last told, but for those gone `astray` |
| | `MessagesShowOnce`, `MessagesAllShow` | the page shows each message once, and all of them |
| | `ClientIsEach` | a behaviour of `Client` is one of each of `Chat`, `EventTab`, `Search` |
| | `ClientTypeCorrect` | the type invariant of all five |

**Assumptions.** Those that the modules state of their constants: sets of ids that must be counted are finite
(`Bookings`, `Sales`, `Baskets`, `Options`, `People`, `Notifs`), stocks, prices, days and pages are natural numbers,
positive where the code's validation says so, `FREE_ORDER` is no intent's id, an author is no fan of their own, the
organizer is a user. All theorems hold for any number of handlers, categories, bookings, orders, people, conversations,
messages and requests. None has a hypothesis besides.

The theorems are about the component modules' specifications without fairness, which those with
fairness imply. `GateHasItsStaff`, `ServicesAreEach`, `ClientIsEach` and the theorems of `CommunitySpec`
carry them to the compositions that the runs check.

**Arguments.**

* `TypeOK` is inductive alone. In `Checkout` it needs `CallRowsExist`: what a handler in flight is
  about to write still exists, as no handler deletes rows.
* `ImplementsLedger` needs `InFlightRowsExist`: reads, lock steps, failures and crashes are stutters of
  the ledger, each commit is one of its operations. The refinement mapping is the identity on the tables.
* `NeverNegative` rests on the guard of `CreateWrite` alone, not on the lock:
  it holds with `SlowCallbacks`, too.
* `SeatsNeverLost` counts seats as pairs of a booking and a number (`SeatsOf`), so that sums of
  quantities are cardinalities. It is an inequality: a booking cancelled twice returns seats twice.
* `LockExcludes` needs `HoldersHaveTheKey`: who is inside has its key in Redis.
* `RefundsAreBacked` needs `RefundsInHand`: whoever is about to write REFUNDED has seen Stripe accept, and
  Stripe's refunds are final.
* `CheckoutLosesNoSeat` needs `OrdersLinked` (at most one booking points to an order, of the same category and size),
  `LegacyInHand` (the fall-back of `requestRefund` works for an order without a booking, on a booking of its category) and `SeatsStand`,
  the inequality counted over bookings alone: each seat of the initial stock is in `currentStock` or of a booking that stands, by its live order
  or, when it has none, by its own status. The exception
  of `NoSeatLostInCheckout` was found by trying to prove the statement without it: with three bookings and two confirmations of
  one of them, the first order loses its booking to the second. `requestRefund` of that order finds no booking and cancels a
  confirmed booking without an order instead (`orders.service.ts:415`), another one with each call; a single approval returns the seats of one.
* `SettledStays` needs `OrderedNotPending` (a booking with an order is not PENDING) and `NeverPendingAgain` (nor will it be), so that no new
  confirmation gets past its read; `CallsGoOn` says what a handler does next, hence that none in flight confirms the booking later.
* `GrantedStays` needs `CallsGoOn`, too: who writes an order's status holds the id since a read that found it not REFUNDED.
* `AcceptedAreStaff` needs `StaffInv` (the types, and `AtDeskExists`: what a handler has read is still a row, if
  only a deleted one) and `CleanupAfterEnd`: a deletion is in flight only once the event is over.
* `ReviewersAttended` needs `AttendanceKnown`: a validated ticket has let somebody in, and so has that of a review in flight.
* `SpentStaysSpent` needs `GateInv` alone: with no scan, request or refusal of the ticket in flight, none can start for a ticket that is used or
  refunded (`ScannerKeeps`, `OrdersKeep`); a cancellation (`CancelKeeps`) makes it unused, with its order refunded, and counts unless a handler is about to write that order.
* `EditsBackSeats` is inductive with `EditShape` (the rows of sales, and what the handlers have in hand), together `EditInv`, and needs `TakenCoversPromised`:
  what an edit has read as taken covers what is promised, but for the acceptances that `slips` remembers.
* `CountedUsesAreOrders` and `CodeStaysWithinLimit` need `PromoInv`: `TillsInHand` (who is about to count has written
  an order with the code), `UseInHand` (unless confirmations overlapped, at most one is between its validation and its count, and
  the code has a use left for it) and `CountWithinLimit`; the limit on orders follows from these and `UsesAreOrders`.
* `NobodyToldTwice` and `AnnouncedToAll` need `FollowsInv`: what the announcement has read is still so for all
  whose follows did not change (`ReadsHold`), and who was told was told by what it has read (`ToldSoFar`).
* `NamesStayApart` needs `AccountsInv`: `ClerksKnown`, the states of the handlers, and
  `OneHolder`: unless look-ups overlapped, at most one handler has looked up a name it has not
  written yet, and nobody has that name.
* `OrdersAreReminded` needs `RemindersInv`, and of it `JobsInHand`: the orders a job has still to remind are of the day it looked for, and not yet reminded.
* `PlacesAreCovered` needs `ParticipationInv` (the types, and `AnswersExist`). `PlacesAreExact` needs
  `OneAnswer` as well: unless answers have overlapped, at most one is in flight, its request is still
  pending, and an acceptance has a place. `VotesStaySingle` and `RoomsStayCurrent` need `VotesInv`, `ClaimsStay` needs
  `ClaimsInv`, of the same kind: one handler at a time that is about to write, with what it has read still so.
* `NoneIsEmpty` is inductive with `MessagingInv` (the types, and `CreatesWithMembers`): everyone
  counts after having left, unless the handler fails, which `"unfinished"` remembers, and who has counted none left deletes. `MembersHear` needs `InRoomOrComing`: a member with a registered
  socket is in the room, or a step in flight will put it there.
* `OneConversationStays` needs `MakingInv`: at most one handler is making a direct conversation (`OneMaker`), what its search
  did not find is still not there (`DirectClear`), there is one of each pair (`OneOfEach`), and nobody is about to change the members of a direct one (`DirectFixed`).
* `ResultsStayCurrent` needs `LatestIsCurrent`: unless the page is about to ask, its latest request asks what
  the filters and the position say, or its answer was overtaken.
* `PollsStayCurrent` needs `TabHolds`: the queue of events ends with what the room was told last (`EventsTell`), nothing in flight is
  newer than the poll (`NothingAhead`), only a tab that shows its polls has requests of its own (`OwnRequests`), and what was loaded, or is shown, is the
  poll, will be replaced, or is remembered as astray (`LoadedIsPoll`, `ShownIsPoll`, both by `CopyIsPoll`).
* `MessagesShowOnce` and `MessagesAllShow` need `ChatHolds`: messages in flight are among the last page (`Recent`; more messages than a page
  in flight are excluded by the model's bound on what is stored meanwhile, `MayStore`), the list starts where its
  load or an older page began (`ViewStarts`, `LoadedTill`), what REST has sent is known to be (`RestKnown`), and each later one is shown, in flight or missed (`AllThere`).

**Only model-checked**: liveness (`LockComesFree`, `PaidIsTakenUp`, `StaffRightsEnd`, `BadgesSettle`), which is beyond
the prover, on the instances above. The four runs that show a disagreement are counterexamples, of which one instance is enough.

## 6. Not modelled

* **Sessions** (`refreshTokens`, `logout`, the OAuth exchange and the client's queue of calls that wait for a
  new token): tokens are stateless, and the list of revoked ones is a key per token, read once and written once. A
  refresh that has passed the check outlives a logout; a model would be these two statements.
* **Participant reviews, reports and bans**: guarded inserts over a unique key, and columns that an
  administrator sets or toggles. Two toggles at once do it once; neither call says what it wants, so
  there is no right outcome to state.
* **Dashboard, statistics, catalogue and lists**: read-only.
* **Upload, mail, logging, health, contact, HTTP plumbing**: input and output, and configuration.
* **Forms and pages** of the client that fetch once and show. A component that stays mounted over a logout and login
  loses its handlers, as `disconnect` clears them; this needs the mounting of all components and is React's.
* **Typing indicators, renamed conversations**: nothing is kept, or one column is written.
* **Row locks**: transactions update rows in different orders, and PostgreSQL aborts one of two that wait for each
  other. An aborted transaction is a failed query here.
* **`simulatePayment`, `handlePaymentWebhook`** of the payment service: called by nothing that changes state.

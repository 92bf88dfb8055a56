# A TLA+ model of the commerce and payments engine

The repository is a small distributed shop: six Python services, each with its
own PostgreSQL database, joined by RabbitMQ, and an admin dashboard in
TypeScript. What is hard about it is the **checkout saga**: an order, its stock
and its money live in three databases, no transaction spans two of them, and
every message between them may be late, repeated, overtaken or lost on a
dead-letter queue. This directory holds a specification of that system, the
TLC configurations that check it on small instances and the theorems TLAPS
proves about it for every instance.

## 1. Inventory

| Component | State it keeps | Operations | Talks to |
|---|---|---|---|
| Message bus (`libs/common/.../messaging`) | work queues, retry queues with a delay each, dead-letter queues, private fan-out queues | publish (confirmed, mandatory), consume with ack after the handler, retry, dead-letter, replay by an operator | everyone |
| Order service | `orders`, `order_items`, `outbox_events` | create (idempotency key), five saga handlers, reconciler of stuck orders, outbox relay; an HTTP fallback when the bus is off | Inventory and Payment by events, or by HTTP in the fallback |
| Inventory service | `products.stock_qty`, `stock_reservations` | reserve, commit, release; by queue and by HTTP | answers Order |
| Payment service | `payments`, `refund_attempts`, `ledger_entries` | charge, refund, reconcile charges, reconcile refunds, report outcomes | a payment provider (a mock), answers Order |
| Notification service | `notifications` | one confirmation per fulfilled order and channel | consumes `order.fulfilled` |
| Recommendation service | `recorded_orders`, `co_purchase_counts` | count the pairs of products bought together | consumes `payment.succeeded` |
| Gateway | users, refresh tokens, token buckets in Redis, dashboard subscriptions | login and rotation, rate limiting, proxy, live feed, operations API | all services over HTTP, browsers over a WebSocket |
| Dashboard (`frontend/`) | snapshot, live events, session | reload, apply event, reconnect with backoff | Gateway |

What makes each correct, and what is hard about it:

- **Saga.** A paid order has money and goods; a cancelled one ends with
  neither; every order ends. Hard: replies after the order was given up, the
  reconciler racing the reply it gave up on, replays of dead letters.
- **Inventory.** Units are neither sold twice nor handed back twice. Hard:
  repeated `order.created` whose first copy failed, the last unit, row locks.
- **Payment.** At most one charge per order; a charge whose outcome is unknown
  is looked up, never submitted again; nothing captured for a cancelled order is
  kept. Hard: the provider is called between two transactions, and a session
  keeps what it read before the call.
- **Bus.** Nothing published is lost. Hard: each hop is a confirmed copy
  followed by an acknowledgement, and either may be the last thing a process does.
- **Read side, Gateway, dashboard.** Counts and confirmations happen once per
  order; a token is used once; what the dashboard shows catches up with the
  services. Hard: concurrent read-modify-write, reconnection, overflow.

`PROJECT.json` lists every component with its status and every hazard at its line.

## 2. Modules

| Module | Models |
|---|---|
| `Bus` | queued and dead messages, the ways a delivery can end (`Consume`, with its *fate*), dead-lettering, replay |
| `OrderService` | `status` and `outbox`; `CreateOrder`, the five `On...` handlers, `Reconcile`, `RelayOnce`, `RelayInterrupted` |
| `InventoryService` | `stock` and `reservation`; the three consumers with the service method each calls |
| `PaymentService` | the three tables, the provider, and the sessions that are between two transactions (`charging`, `refunding`, `listed`, `refundListed`) |
| `Saga` | the composition, its fairness, and every property |
| `Purchase` | the abstract specification: what one purchase is, with no messages and no failures |
| `SagaInvariant` | the inductive invariant `IInv` |
| `SagaProofs`, `SagaRefinement`, `SagaBalances` | its theorems: the safety properties, the refinement of `Purchase`, and what adds up (units of stock, money captured too late) |
| `WorkQueue` | one durable work queue from the inside: its retry queues and dead-letter queue, the copy and the acknowledgement of each hop, consumers with one delivery in hand, an operator who looks at the dead letters (`PeekGet`, `PeekReturn`) or replays them |
| `OutboxRelay` | the outbox table, each row with its `created_at`, and the relay thread of each instance: `Fetch` (oldest first, locked rows skipped), `PublishRow`, `Unroutable`, `MarkPublished`; the Gateway's queue as bound or not |
| `Messaging` | relay and queue composed, their fairness and properties |
| `MessagingProofs` | its inductive invariants and theorems |
| `Stock` | the Inventory service as its callers see it: an order's units are taken once, all or none, then kept or put back |
| `Reservations` | its transactions lock by lock: `LockOrder` (the advisory lock), `LockRow` (held reservation rows), `LockProduct`, then the writes with the commit |
| `ReservationsProofs` | its inductive invariant and theorems |
| `OrderIntake` | `POST /orders`: look for the key, fetch prices, insert or lose the race, replay or refuse |
| `HttpCheckout` | checkout with the bus off: the background task that calls Inventory and Payment over HTTP, the services that serve it late or never, the reconciler; over `OrderIntake` and `Stock` |
| `HttpCheckoutProofs` | its inductive invariant and theorems |
| `DashboardFeed` | the Gateway's live feed: `Relay` from the bus to the hub, the bounded queue of one subscription, the handler of one socket (`Accept`, `Authenticate`, `Greet`, `Send`, `ExpireSocket`) |
| `RefreshRotation` | `POST /auth/refresh` and login, statement by statement: the lookup, the locked row, the pair that replaces it |
| `Console` | one tab of the dashboard over `DashboardFeed` and `RefreshRotation`: the socket that reconnects, the snapshots, the merge of statuses, the session shared by all of them |
| `ConsoleProofs` | the inductive invariant and theorems of the tab, its socket and the refresh tokens |
| `TokenBucket` | one bucket of the Gateway's rate limiter: the script Redis runs, the key that expires, the clock that is set back |
| `Deliveries` | a durable queue as two instances of a service see it: one consumer per message, unless its connection was lost |
| `CoPurchase` | the Recommendation service's `record_purchase`, statement by statement, over `Deliveries` |
| `Confirmations` | the Notification service's consumer, over `Deliveries` |
| `Listing` | `GET /orders` and `GET /payments`, page after page by cursor |
| `Edge` | `TokenBucket`, `CoPurchase`, `Confirmations` and `Listing` side by side |
| `EdgeProofs` | an inductive invariant for each of the four, and their theorems |
| `MCSaga`, `MCMessaging`, `MCReservations`, `MCHttpCheckout`, `MCConsole`, `MCEdge` | constants for TLC |

`Saga` and `Messaging` describe the same bus at two grains. In `Saga` a delivery is one
action and a message is in a *set*; that is enough to let it be late, repeated and
overtaken. `Messaging` shows where those repetitions come from, one broker
operation at a time: a copy is confirmed, then the original is acknowledged,
and a connection may be lost between the two. `Reservations` likewise opens what
`InventoryService` does in one action, and shows that this action is what any number of
concurrent sessions amount to; `HttpCheckout` uses that abstraction for the Inventory
service and describes the second way of checking out, in which a task reads an order
without a lock, waits for another service and then writes the status blindly.

`Console` joins the browser, the feed and the tokens because they do interact: a socket
that is refused, or a snapshot that is denied, asks for a refresh; a refresh closes the
socket; a failed one takes the pages away. `Edge` joins parts that do *not* interact.
`TokenBucket`, `CoPurchase`, `Confirmations` and `Listing` share no state
and send one another nothing, so their steps commute; a behaviour of `Edge` moves one of them,
chosen at the start (`part`), which checks what each does and leaves out only products
of states that mean nothing.

**What was lost is written down.** Where this code loses something, a
history variable says so, and its properties can promise everything else:
`missed` (events that died with the Gateway's private queue, or the newest snapshot
failed), `mishap` (something outside the tab made a refresh fail, or the user signed out),
`raced` (a pair whose count was read before another order's increment was committed),
`collided` (an order rolled back over a pair that another had just inserted). The last two are
not losses the repository announces: `collided` is finding 5, and `raced` marks the lost update of a count
that is read without a lock. What a property excuses is what the code does, not what it ought to do.

**How code becomes actions.** A handler that locks its row first and commits
once is one action; its guard is the condition the code tests after the lock.
A handler of the Payment service commits a claim, calls the provider and commits the
answer, so it is two actions with a crash possible between them. A delivery is one
action with a *fate*: `acked`; `unacked` (the process dies before the
acknowledgement, so the message will be handled again); `unpublished` (it dies
before the replies are out); `unmarked` (Payment: the outcome was published and
not yet marked as reported). The outbox is written in the same action as the
status and emptied by the relay, which may be interrupted after any subset of a
batch.

**Data left out.** An order is a model value and its payload a function of it.
Times are left out: a timeout is an action that is enabled as soon as the state it
looks at exists, so every property holds whatever the configured delays. All
reservation rows of an order change status together in one transaction, and are
one `reservation`. In `Reservations` two lines of one order for the same product
are one line, a product that does not exist is one that is out of stock, and every
scan finds the rows of an order in the sequence they were inserted in. A message is in the set `queued` while it is on a work queue or
on one of its retry queues.

**Two switches.** `PopulateExisting` and `SharedGateway` describe two lines of the
Payment service. As written both are `FALSE`:

- sessions are made with `expire_on_commit=False` and the locking reads do not
  populate existing objects, so a session that locks a row it had read before
  still sees the old values (`SeenPayment`, `SeenRefund`);
- `PaymentService()` makes a new gateway object each time, and the mock gateway
  remembers refunds per object, so a lookup by the reconciler finds none
  (`LookupRefundAnswer`).

`TRUE` is the program with these two repaired. Every run describes the program as written.
The safety theorems hold for all four combinations.

**Definitions marked `Wrong`** are slips the code does not make (a dropped
branch, a guard too weak, a swapped order). No action uses them. Each stands
before the definition it would replace; putting it in place makes TLC report
the property named for it in `PROJECT.json`, which shows that the property
depends on that line of code.

## 3. Runs

The runs named `saga...` use `MCSaga`, those named `messaging...` use
`MCMessaging`; `reservations`, `http_checkout`, `console` and `edge` use the MC module of
their name. The system comes to rest when every order has ended and every
event is handled, so `CHECK_DEADLOCK` is off.

| Run | Question | Instance |
|---|---|---|
| `saga` | Do the three databases agree at every moment, and is what they do a purchase? `PaidIsBacked`, `SettledTheRightWay`, `HeldStockIsOwed`, `ReturnedOnlyWhenCancelled`, `FailureMeansNoCapture`, `LateChargeIsOwed`, `ImplementsPurchase`; also that `IInv` holds. Does every order end when messages die and nobody replays them? `EveryOrderTerminates`. Does everything taken for a cancelled order come back, if somebody does? `ReplayedStockReturns`, `AnsweredChargeReturns` | one order, every provider that answers in the end, one mishap; services fair, operator not (the last two properties suppose a fair one) |
| `saga_contention` | Is a unit ever deducted or handed back twice when two orders want the last one? `StockConserved` | two orders, one unit, declining provider |
| `saga_expiry` (violation) | Does held stock come back by itself? `CancelledStockReturns` | services fair, operator not |
| `saga_stale_row` (violation) | Is a late charge refunded when the charge is slower than the reconciler? `LateChargeReturns` | no mishap at all, slow charges |
| `saga_resubmits` (violation) | Is a refund of unknown outcome only looked up? `UnknownRefundIsLookedUp` | no mishap at all |
| `messaging` | Is an event lost or handled twice when a relay, a consumer, the Gateway or a replay dies in the middle? `NothingLost`, `OnceUnlessLoss`, `ParkedAfterAllTries`, `EveryEventSettles` | two transactions (one with a row for the dashboards), one poison message, two relays, one consumer, one retry, one loss |
| `messaging_no_gateway` (violation) | Is every committed event published? `CommittedIsPublished` | one relay, no loss, a Gateway that need not come |
| `reservations` | Do concurrent transactions of the Inventory service wait in a circle, or act on what is no longer so? `NoDeadlock`, `DecisionsHold`, `ImplementsStock`, `SessionsEnd` | three sessions, two orders that share two products, one of which falls short |
| `http_checkout` | What still holds when the bus is off? `AnswersAgree`, `PaidForGoods`, `CapturedKeepsGoods`, `NobodyLeftWaiting` | four requests, three of them under one key and one of these for something else, one unit |
| `console` | Does a dashboard that looks up to date show the truth, and does it catch up? `QuietMeansCurrent`, `CatchesUp`. Can one login be refreshed twice, or a user be signed out by the tab itself? `OneLivePair`, `SignedOutOnlyByMishap` | one order, a queue of one, one access token that expires, one trouble of any kind |
| `edge` | Does any interleaving give a caller a second burst (`BurstBounded`, `PromiseKept`), count an order twice, or lose a pair that was counted (`CountsFollowOrders`), make two consumers wait for each other (`NoCircularWait`), confirm an order twice (`ConfirmedOnce`), or make a listing skip or repeat a row (`PagesComplete`)? | a bucket of two tokens; four baskets on two recorders; three notices, of which two come through an old binding, on two notifiers; three rows on pages of one |
| `edge_collision` (violation) | Is every paid order that leaves the queue counted? `SettledIsRecorded` | as `edge` |

**Bounds.** `MaxMishaps` (1) bounds how many crashes, dead letters and
interrupted relays one behaviour has; repeated, delayed and reordered deliveries
after them are unbounded, and so are reconciler passes. One order is enough where the
property speaks of one order and orders share only stock; where they share stock
there are two, with one unit. What one order cannot do is be refused and then held by a second copy of its message,
since nobody gives units back meanwhile: of that case `SettledTheRightWay` and `HeldStockIsOwed` are not
checked but proved. `refundCalls` stops at 2, which stands for
"more than once". In `messaging`, `MaxLosses` (1) bounds the connections and
processes lost; one retry delay in place of three is enough because the delays differ
only in their number, and a batch of 2 in place of 50 because it splits and fills
with the three rows there are, and `PeekLimit` 2 lets an operator hold both messages,
so that an order could be disturbed. `Instants` bounds the values of `created_at`. With 1 all rows tie and
a relay may take them in any order, which includes every order that distinct times would
give; `messaging_no_gateway` has 2, so that a row of the dashboards may be older than an event
of the saga. `reservations` bounds nothing but its sets: three sessions begin,
wait, die and begin again without end, which is enough for a circle of three or for two
sessions of one order beside one of the other. `http_checkout` has no bound either: a
task runs once, and its calls are served late or never.

In `console`, `MaxTroubles` (1) bounds what goes wrong: a lost socket, a relay that
publishes twice, the Gateway's broker connection, a failed snapshot, a lost answer, an outdated token, a
duplicate of the tab, an aborted request, signing out. Overflow is not among them: it happens
whenever the browser is slow, because `QueueSize` and `WireSize` are 1 and `MaxPipe` 2
events are under way at once. `MaxExpiries` 1 makes the socket and a snapshot meet the same
expired token; `MaxLoads` 2 lets an older snapshot arrive after a newer one, which a third would only repeat;
`MaxPairs` 5 is never reached before the other bounds are. `Found` is the order's status
before the console is opened: `reserved` is the status with the most ways to go on that still
leaves two events, which may overtake each other. In `edge` the clock is
counted in thirds of a second (`Second` 3) and a token takes `Token` 4 of them, so that rounding
matters; `Full` 8 is two tokens, `MaxWindow` 10 is longer than a full bucket takes to refill
and `MaxStep` 2 sets the clock back by half a token. `MaxReruns` and `MaxResends` 2
deliver a message a second and a third time, beside the first; `Recorders` are two because a
lost increment, a collision and a wait in a circle need two. `MaxTime` 1 gives
rows that share a time and rows that do not, with ids in either order, and `MaxFlips` 2
lets a row leave the filter and come back. A page holds the newest rows behind the cursor that
pass the filter: `NextPages` is the set of sequences that do, which has one element.

The providers are chosen by what they answer: `AnsweringScripts` (success,
failure, timeout that went through, timeout that did not, refund that is
refused, also after a charge that was answered at once), `SlowChargeScripts`, `DecliningScripts`. The theorems
have no such bounds.

**Fairness.** Consumers, the relay and the pollers are daemon threads that loop
forever and reconnect (`run_consumer`, `start_outbox_relay`,
`start_order_reconciler`, `start_payment_reconciler`), so a handler whose message
stays queued eventually runs to its end: weak fairness for each handler with the
fate `acked`, for the relay and for each poller. Shoppers, mishaps and the choice
between messages get none. Replaying a dead letter is a person's act:
`LiveSpec` assumes none, `OperatorFairness` that what stays on a dead-letter
queue is replayed. `ReplayedStockReturns` and `AnsweredChargeReturns` have it as a premise, so that
one run shows what holds with and without; `AttendedSpec` is the specification with it, under which
`saga_stale_row` fails even so. The second also supposes a provider that answers in time
(`AnsweredInTime`): finding 2 is a charge that is not, finding 1 a refund. In `Messaging` the consumers, the relays and the broker's
timers are fair and nobody need replay anything; `ConnectedSpec` adds a Gateway
that reconnects (`run_consumer` does), `LiveSpec` does not. The liveness properties of
the saga rely on the former: its relay always gets its events out. In `Reservations` a session that can go on goes
on, and a lock is granted to the waiters in the order they came (PostgreSQL's
lock queues), hence strong fairness of `Lock`: a session does not see the lock it waits for
taken by others for ever. In `Console` the Gateway's tasks (`ServeSocket`), its consumer
(`Publishing`), its requests (`ServeRefresh`) and the browser's timers and callbacks (`Browse`)
are weakly fair; orders, users, expiry and troubles owe nothing. `Edge` has safety properties only. In `HttpCheckout` a task whose call is not answered times
out and the reconciler loops; shoppers and services owe nothing.

**Without the bus** less is promised, and `HttpCheckout` shows how much less. The
reconciler's cancellation may be written over by a task that is waiting for an
answer, a release that fails is not repeated, a reconciler that cancels releases
nothing, and a paid order whose commit call failed stays paid. What
remains is that money and goods go together (`PaidForGoods`, `CapturedKeepsGoods`) and
that no order is left pending or reserved.

### Findings

1. **A refund whose outcome is unknown is submitted again** (`saga_resubmits`).
   The architecture document says the reconciler resolves it only through
   lookup; its gateway object is a new one and answers `not_found`.
2. **A slow charge writes over the outcome the reconciler found, and the late
   charge is not refunded** (`saga_stale_row`). No crash and no lost message is needed.
3. **Reservations never expire** (`saga_expiry`). `expires_at` is stored and never
   read, while the dashboard promises that stock is released when the
   reservation expires.
4. **Without a Gateway the outbox stands still** (`messaging_no_gateway`).
   Publishing is mandatory and `order.status_changed` has no durable queue, so
   the relay cannot get past such a row while no Gateway listens, and the saga's
   events wait behind it.
5. **A paid order that meets another over a new pair is never counted** (`edge_collision`).
   `record_purchase` takes any IntegrityError for that of an order already recorded. When it is
   the unique constraint of `co_purchase_counts`, because another instance has just inserted the pair, the
   order's own record is rolled back with it, the function returns the value that its docstring
   keeps for "already recorded", and the message is acknowledged. FR-9 wants the data to update after a
   successful order.

## 4. Proofs

`SagaProofs` and `SagaRefinement` are checked by TLAPS for any sets of orders
and products, any demand, stock and provider scripts, any bound on mishaps and both
values of the two switches. The only assumptions are the typing ones next to the
constants (`MishapsAssumption`, `StockAssumption`, `PaymentAssumption`), which TLC
evaluates in every run of the saga.

None of the properties is inductive: `PaidIsBacked` says nothing about a
`payment.succeeded` in flight, so a step that delivers one could pay an order
whose money was not captured. `IInv` closes that gap by saying what each message **proves**
for as long as it is anywhere (queued, in the outbox or dead):

- evidence: `inventory.reserved` in flight means there is a reservation;
  `charge.requested` means the stock was reserved first; `payment.succeeded`
  that the money was captured; `payment.failed` that it was not; `order.paid`
  that the order is paid or fulfilled, `order.cancelled` that it is cancelled;
  `inventory.committed` that the reservation is committed; `refund.requested`
  that the order is cancelled and captured;
- agreement of the tables: a payment row and its ledger entries, a refund
  attempt and its payment, the copies held by sessions in the middle of their work;
- the safety properties themselves.

`SagaInv` shows `IInv` from `SagaTypeOK` with one lemma per action; the five
safety theorems are its consequences. `SagaRefinement` shows that under the
refinement mapping (reservation as goods, ledger entries as money) every step is
a step of `Purchase` or leaves it unchanged; almost every service action is a
stutter, and the invariant supplies the abstract guard for the ones that are not
(`ConfirmPaid` needs *held* and *captured*, which the Order service cannot see).

`ReservationsProofs` holds for any number of sessions, orders and products,
and any quantities. It assumes `ReservationsAssumption`: products are numbered, stock is
not negative, and an order asks for at least one unit of something (the request
schema says so). `DecisionsHold` alone is not
inductive; `IInv` adds which locks a session has at each stage (`StagesInv`), that no
lock has two holders (`LocksInv`), and that what a session has locked and what it still
waits for is all it needs (`ScopeInv`), so that the first commit of an
order's rows finds them all. `ReservationsImplementStock` reads the abstract guard off that
invariant. `ReservationsNeverDeadlock` adds `AscendingInv` (products are locked by
ascending id): among waiters for products, the one that waits for the greatest is
blocked by nobody in the set, and the same argument serves the rows below them and the
order lock below those.

`HttpCheckoutProofs` holds for any requests, keys, quantities and stock
(`CheckoutAssumption` types the last two). Its invariant says for each stage of the
task what has not happened yet: until the stock is reserved nobody has asked for money and
nothing else is on its way (`BeforeReserved`); while a charge may still be made the
stock is held and no release is on its way (`WhileCharging`); a commit follows a capture and a
release a failure (`AfterCharge`). A call that outlives its task is why this is said of
calls and not of the task alone. `OneKeyOneOrder` rests on `KeysInv` (the unique
constraint) and on what each answer says of the order it names.

`SagaBalances` adds what is counted. `StockIsConserved` is about a sum over the orders that
hold units. The module counts units one by one: `TakenUnits` is the set of the pairs of such an order and a
number up to its demand, so that a reservation adds a block of `Demand[o][p]` elements (`CountUnits`), a release
takes the same block away (`UnitsMove`), and the library's facts about cardinalities replace the induction
over orders. `LateChargeStaysOwed` speaks of the orders that are `ChargeAnswered`: either locking
reads populate existing objects or the order's charge does not time out. That is there because the code needs
it: for other orders the property does not hold, and finding 2 is the behaviour that
breaks it. `ChargeKept` says where a captured charge of a cancelled order is remembered: in a refund attempt, in a
request for one, or in an outcome that has still to be reported.

`MessagingProofs` holds for any messages, transactions, relays, consumers, batch size,
number of retries and of losses (`WorkQueueAssumption`, `RelayAssumption`). Its three invariants build on
one another.

- `CopyInv`: a copy has been tried as often as its retry count says (`Counted`) until it is dead, and a dead one was tried
  once more than there are retries, or is poison (`TriedOut`): `ParksAfterAllTries`.
- `LossInv`: a written event is unpublished, or *kept*: on a queue, in a hand that has not settled it, looked at or
  being replayed by an operator, or handled; and what a relay has sent and not yet marked is kept as well, which is
  why the mark may be committed: `NothingIsLost`. It makes no use of the bound on losses.
- `OnceInv`: as long as nothing was lost an event is at one place only (`AtOnePlace`), from the outbox to
  the table of what was handled, and rows are locked by one relay (`RowInv`): `HandledOnce`.

`ConsoleProofs` holds for any orders, sizes of queue and wire, snapshots, expiries, pairs and troubles.
Its invariant has three parts.

- `RotationInv`, for the refresh tokens alone: `OneLivePair` is not inductive, since two requests may have
  asked for the same valid row. Only one of them holds the row's lock, the row it holds is valid until it commits
  (`Locks`), and every pair descends from one that was issued (`Family`), so the row a rotation revokes
  is the only live one of its login. Every step of the console is a step of `RotationNext` or leaves the tokens alone
  (`StepOfRotation`).
- `LiveInv`, for what is shown. `FeedInv` and `SocketInv` follow a socket from its handshake to
  its close: nothing follows a close on the wire, and a socket that is open in the browser has a handler or a close on its way. `PastInv`: no
  event, snapshot or screen is ahead of the order's row, so "further along wins" can only bring a screen closer. `CoverInv`: while
  the console is live and missed nothing, the true status of each order is shown, or in an event or
  the newest snapshot on its way, or the socket is about to close (`Covered`). When nothing is on its
  way only the first is left, and that is `LiveIsCurrent`.
- `SessionInv`, as long as there was no mishap: the tab has at most one request on its way, which presents the pair in
  use or has spent it and brings a valid one. So the Gateway never finds a token of the tab's revoked: `SignedOutForAReason`.

`EdgeProofs` has an invariant for each part of `Edge`; a step of one leaves the others alone.

- The rate limiter, for any capacity, rate, window and step of the clock (`BucketAssumption`: a bucket holds at least
  one token). `BurstBounded` says nothing of what is still in the bucket. In `BucketInv` what was granted *and what is left* are
  together at most a full bucket and the time that passed (`Level` is what is left, also when the key has
  expired). A request moves units from the second to the first, a tick adds one to each side, a clock set back
  takes from the left side alone. `RetryAfterIsEnough` needs in addition that a refused caller's wait was
  rounded up (`RoundedUp`) and that refilling in two steps gives no less than refilling in one (`Refilling`).
- The tallies, for any finite set of recorders, any orders and any finite baskets. `Alone`: two transactions never count one
  order, since the mark of the first keeps the second waiting, nor have they written the same pair. `Progress`: the pairs of an
  order are the written, the current and those left, in ascending order. `Exact`: what a transaction wrote was
  read before and is one more than the committed count, unless the pair raced. `CountInv` then
  says that a committed count is the number of recorded orders with the pair, and with races never more and never none:
  `TalliesFollow`. `OnlyCollisionsDrop` (`DueInv`: an order is due, with a consumer, recorded or collided) says that
  finding 5 is the only way to lose an order. `NoDeadlock` uses the ascending order: among finitely many waiting consumers
  the one that waits for the greatest pair waits for a consumer that waits for a greater one.
- The confirmations (`NoticeInv`), for any notices and consumers: whatever is to be confirmed has its row, or is on the queue or
  with a consumer whose connection lives.
- The listings (`ListingInv`), for any rows, filters and page size: the cursor parts the rows. Everything shown
  is on this side of it and every row that was there all along is shown or beyond it (`Parted`).

**Every safety property a run checks is now a theorem** (the three violated ones apart). Model-checked only are
the liveness properties (`EveryOrderTerminates`, `ReplayedStockReturns`,
`AnsweredChargeReturns`, `EveryEventSettles`, `SessionsEnd`, `NobodyLeftWaiting`, `CatchesUp`), which rest on
fairness and ENABLED and are out of TLAPS's reach. `UnknownRefundIsLookedUp`, `CommittedIsPublished`, `SettledIsRecorded` and, without their
premises, `CancelledStockReturns` and `LateChargeReturns` are checked only where the code violates them.

## 5. Plan

In the order of what matters most:

1. *(done)* the saga, its abstract specification, the invariant and its proof;
2. *(done)* `WorkQueue`, `OutboxRelay` and `Messaging`: retry counts, confirmed
   copies, dead-lettering and replay, relays side by side, and events nobody is bound to;
3. *(done)* `Reservations`: the row and advisory locks of the Inventory service, no
   deadlock, and atomic reserve as its abstraction;
4. *(done)* `OrderIntake` and `HttpCheckout`: requests under one idempotency key, and
   checkout without the bus;
5. *(done)* the read side: `CoPurchase`, `Confirmations`, `Listing`, and
   `DashboardFeed` with the browser's reducer in `Console`;
6. *(done)* the Gateway: `RefreshRotation` and `TokenBucket`;
7. *(done)* proofs of the safety properties of every component;
8. proofs still worth having: an abstract specification of the bus (an event is accepted, then handled) that `Messaging`
   implements, one of a login (a chain of pairs of which the last is live) that `RefreshRotation` implements, and
   action properties of the console (a status that is shown never steps back while the tab is signed in).

### Not modelled

- **Proxy and operations API of the Gateway**: forwarding and joining of reads over HTTP,
  without a state of their own.
- **Passwords, signatures and roles**: a token is valid or it is not.
- **Pages of the dashboard**, formatting and drafts of forms. Of its live state the limits are left out:
  a snapshot holds the 100 newest orders and the map keeps 200, so with more of them the
  properties of `Console` speak of the orders within these limits; the feed of recent events shows a few of
  what the map already has.
- **Reads of one row or one report** in every service; only the paged lists take more than one step.
- **Seed data, observability, migrations and deployment**, which change no state the
  services act on while they run.
- **The rate limiter without Redis**, which then lets every request pass, and a clock that jumps
  forward, with which a bucket refills early: the script knows no other time.
- **How long a replay without a limit goes on**: `WorkQueue` replays as often as the operator likes, without
  the count that the command prints.

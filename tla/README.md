# Tripora backend: specifications, model checking and proofs

TLA+ specifications of the Tripora backend (NestJS, Prisma on MySQL, Stripe, BullMQ on
Redis).  The core is how stock is sold by date and by seat, how a booking is paid,
expires, is cancelled and refunded, and how a coupon is used up and given back.  Around
it stand the parts that decide who may sell, what is on sale, who leads a tour, what is
reviewed, written, queued, paid out and listed.  TLC checks the modules on small
instances; TLAPS proves safety properties for every value of the constants.

Paths below are relative to `src/src/modules/` unless they start with `src/`.

## 1. The system

### Components, their state and their operations

| component | state | operations that change it |
|---|---|---|
| dated stock (`room-inventory`, `tour-schedule`, `experience-schedule`, `transport-schedule`) | a row per listing and date: total, available, booked, price | `set` by the provider (read, compare, write, date by date); the guarded UPDATEs of bookings |
| hotel, tour, experience, transport booking | a bookings table each, with its BookingStatus | `create`, `cancel`, `expirePending` |
| flight (`flight-schedule`, `flight-seat`, `flight-booking`) | a schedule per date, one row per seat (AVAILABLE, BOOKED), bookings with passengers | `set`, `review`, `create`, `cancel`, `expirePending` |
| flights and aircraft | a flight's airports and aircraft, an aircraft's moderation and capacity | CRUD, `review` |
| payment | Payment, Invoice, Refund; the booking's status | `createForBooking`, `retry`, `createRefundForBooking`, `handleWebhook` |
| commission | one row per payment | `recordForPayment`, payout marks; overview and charts read it |
| expiration job (`booking-expiration`) | nothing stored; the ids of a run in memory | every five minutes: expire, fail payments, give coupons back |
| coupon, promotion (`coupon`) | `used_count`, redemption rows, promotions | `validateCode`, `applyDiscount`, `rollbackForExpiredBookings`, administration |
| organization (`provider`) | providers, members and roles | apply, review, suspend, change and remove members |
| staff (`tour-guide`, `driver`) | guides and drivers; who is on which departure or ride | hire, assign, take off, remove |
| trip, tour itinerary | numbered days, ordered items | add, remove, reorder |
| catalogue (`property`, `room`, `tour`, ..., `blog`) | rows under a unique key with a moderation status; a cache of popular rows | create, edit, review, remove |
| review | one row per user and subject | `create` (or restore), `update`, `remove` |
| conversation | messages of a traveller and a provider, what is read | start, send, mark read |
| report, notification | rows, and the jobs of two queues | ask, process, fail, mark read |
| dashboard (`report`, `analytics`) | nothing: counts of the tables above, by calls in flight at once | - |
| auth | rows of refresh tokens | login, `refresh`, `logout`, suspension |
| lists | nothing: pages of the tables above | - |
| likes, follows, wishlists, logs, uploads | independent rows | insert, delete |

### How they interact

A create request runs, one awaited call after the other: read the listing, validate
the coupon, **transaction** (take the stock, insert the booking), redeem the coupon
(**transaction**), insert the Payment, call Stripe.  Nothing spans these steps: a failure
leaves what was committed, and the expiration job is what cleans up.  Stripe calls
`handleWebhook`, which confirms the booking in the table of its domain and records the
commission.  A cancel request runs: read, **transaction** (status and stock), find the
payment, **transaction** (refund record), call Stripe.  The job works on all five booking
tables at once, collects ids, and only then touches payments and coupons.

The other parts meet the bookings only by reading them: a review asks whether a booking
is CONFIRMED, a driver is assigned to a booking that is.  Their own handlers have the
same shape everywhere: look rows up, check, write by id, mostly without a transaction.

### What is hard

* Reads outside the transaction that uses them: listing status, booking status, uses
  of a coupon by a traveller, seats found AVAILABLE, the row a provider edits, the number
  of owners, the driver who is assigned, the last position on a day.
* Transactions that read a status without a lock and write by id (two webhooks).
* Webhooks that are repeated, late, reordered, or race a retry, a cancellation, the job.
* Crashes between the commits of one request or one run of the job; queue jobs that are
  run again.
* One id space per domain: payments and redemptions name bookings by (domain, id).
* Stock over several dates, taken one UPDATE at a time.
* Amounts that are computed exactly and rounded in two ways, for the row and for Stripe.
* What is read over several requests: pages of a list that changes, an overview of four
  queries, a cache nobody invalidates.

`PROJECT.json` lists each such hazard at its line, with the properties that cover it.

### What makes each component correct

* **Dated stock**: the booked counter is what live bookings hold; available + booked =
  total; a date is never oversold; a stay is taken whole or not at all.
* **Bookings**: a unit is given back exactly once; a stale cancellation or expiration
  changes nothing; a booking nobody pays is eventually released.
* **Flight**: a seat has at most one traveller; it is BOOKED exactly while held; seat
  numbers are unique; a departure has its whole cabin; a flight joins two airports.
* **Payment**: a booking is confirmed only for money taken for *it*; a repeated webhook
  changes nothing; no SUCCESS is lost; an expired booking has no SUCCESS payment; a
  refund that was paid out closes the booking and is no more than was collected.
* **Coupon**: the counter is the number of redemptions; limits hold; an expired booking
  gives its use back, a paid one keeps it.
* **Organization**: at least one owner; nobody removes a member of his own rank or above.
* **Staff**: whoever was removed leads and drives nothing.  **Trip**: days 1..n, distinct
  positions.  **Catalogue**: unique keys; what was withdrawn leaves the popular rows.
* **Review**: only of what was bought, one per user.  **Conversation**: read by the other
  side, and only by it.  **Queues**: a report reaches an end, a notification is written
  once.  **Auth**: a refresh token works once, sessions are independent.
  **Commission**: the parts add up.  **Dashboard**: everyone is counted in one status.
  **Lists**: a reader misses a row, or sees one twice, only if it moved meanwhile.

## 2. The modules

| module | models | kind |
|---|---|---|
| `DatedStock` | the counters of one listing, transactions of bookings, the provider's `set` | core |
| `BookingService` | the requests and the job around it, with reads that may be stale (EXTENDS `DatedStock`) | protocol |
| `HotelBooking` | stays of consecutive nights (EXTENDS `BookingService`) | domain |
| `Departure`; `TourBooking`, `ExperienceBooking`, `TransportBooking` | one date and a number of people (EXTENDS `BookingService`) | domain |
| `DatedBooking` | the four domains over one stock | composition |
| `BookingPayment` | payment, sessions, webhooks, job, cancellation, refund | core |
| `BookingLifecycle` | what the booking tables promise: the BookingStatus machine with the money beside it | abstract |
| `Coupon` | the coupon part of create requests and of the job | core |
| `SeatNumbers` | `generateSeatNumbers` | pure |
| `FlightBooking` | schedules, seats and bookings of one flight (EXTENDS `SeatNumbers`) | core |
| `Organization` | providers, members, roles | core |
| `Staffing` | guides on departures, drivers on rides | part |
| `Trip` | days and items of a trip or tour | part |
| `Listing`, `Catalogue` | what catalogue tables share; the operations of each | part |
| `Fleet` | airports and aircraft of a flight | part |
| `Reviews`, `Conversations`, `Sessions` | reviews, messages, refresh tokens | part |
| `Jobs` | the report and notification queues | part |
| `Money` | rounding to cents and to Stripe's units | pure |
| `Ledger` | commissions, overview, charts | part |
| `Pricing` | promotions, discounts, charges and refunds in figures | part |
| `Figures` | the dashboard: users, providers, bookings, conversion | part |
| `Pages` | 49 paginated lists and a reader who walks through one | part |
| `Platform` | the parts together | composition |
| `MC*` | finite instances, symmetry | TLC |
| `*Proofs` | theorems | TLAPS |

Two refinements tie them: `DatedBooking` implements `DatedStock!StockSpec` (same
variables, more of them), and `BookingPayment` implements `BookingLifecycle` with
`status <- booking` and `money` read off Stripe's sessions and refunds.

`Platform` runs twelve parts that write no table in common.  A behaviour of it is one of a
single part while the others rest: interleaving parts that share nothing would multiply
states and show nothing more.

Definitions carrying `Mutant` in their comment are not part of any specification.
Each is a definition of the model with one plausible bug, used to make sure that the
property it is paired with in `PROJECT.json` can fail.

### State and actions against the code

* **Granularity.** A database transaction whose effect is decided by guarded UPDATEs
  (`WHERE available_rooms >= 1`, `WHERE status = 'CONFIRMED'`, affected rows checked)
  is one step: InnoDB serialises the UPDATEs on the row, and a thrown error rolls all
  back.  A transaction that *reads* a status without locking and writes by id
  (`markSuccessAndConfirmBooking`, `markRefundSuccess`) is two steps, `...Read` and
  `...Commit`; for the first the unique key on `invoices.payment_id` is what makes the
  second of two commits fail, and the model says so.  Everything between two awaits
  outside a transaction is a step of its own, unless nothing that another step can
  change lies between them.
* **`DatedStock`.** `Book`, `Cancel`, `Expire` are the transactions of
  `booking/booking.repository.ts` (43-137, 241-276), `Confirm` the one of the webhook.
  `SetRead`, `SetUpdate`, `SetCreate` are the three statements of `set`
  (`room-inventory.service.ts:64-113`).  `GiveBack` keeps the `WHERE booked_rooms >= n`
  of the release: a row that counts fewer is skipped.  `stale` is a history variable:
  the dates whose last edit wrote a count that had changed.
* **`BookingService`.** A domain's `AskFor...` and `AskCancel...` are the checks before the
  transactions and leave `request` and `cancelling` behind; `Create...Booking` and
  `Cancel...Booking` run the transactions later, without looking again.  `Scan...`,
  `Expire...Booking` and `CutShort` are a run of the job on one table.  `Moderate` stands
  for all that changes whether the listing is published.  A cancel request that was refused
  or has ended may leave its id in `cancelling`: another request may always be past the
  same check.
* **`BookingPayment`.** One Payment per booking, so payments are indexed by booking.
  Webhooks are enabled by the state of the Stripe object, any number of times.
  `CreateFails`, `SettlingFails`, `SweepFails` and `CancelStops` are errors and crashes
  between two steps.  `RecordCommission` is the last step of the webhook that
  confirmed.  The five domains differ in nothing this module looks at.
* **`Coupon`.** `request` is the program counter of a create request; `JobFails` moves
  the ids a run still held to the history variable `forgotten`; `overlapped` records the
  travellers who had two requests for one code past the per-user check at once.
* **`FlightBooking`.** `schedule` and `seats` are separate rows, created by separate
  steps.  `built` is history: the cabin a schedule was created for.  A seat is a
  triple of date, number and class.  The job's `Scan` takes any subset of the
  PENDING_PAYMENT bookings as overdue, which covers every cutoff.
* **`Organization`.** A `call` about members goes through its three reads (who asks, whom
  about, how many owners) as steps; `overlapped` is history: organizations with two calls
  past their checks at once.
* **Histories of the parts.** They name the races a property is about: `crossed`
  (`Staffing`: a driver checked for an assignment that was written after the removal
  released his rides), `late` and `muddled` (`Trip`: positions written from an outdated
  list), `outdated` (`Fleet`), `shared`, `overlapped`, `interrupted` (`Sessions`), `torn`
  and `midnight` (`Ledger`), `slipped`, `pushed` and `tied` (`Pages`).
* **`Listing`, `Catalogue`.** A table is a `Listing` with operations named after the
  module they model (`CreateTour`, `ReviewVehicle`, ...); they differ in what key they
  have, which status a new or edited row gets, and what may be done to a deleted one.
* **`Pages`.** A list is which rows it shows, whether narrowed to an owner, and in which
  order (`AsList`), one definition per endpoint; lists that agree are one value.  A row has
  a `rank` in the column the list is ordered by, and `fits` while it is the reader's and his
  search finds it.  `EditEntry` is the `update` of each module: another name, title or code
  moves a row of a list ordered by it, past rows the reader has or has not seen, and any
  edit may take a row out of his search or bring it in.  `Write` notes what a change does
  to the walk: which unseen rows came in or moved up (`slipped`), how often a seen one was
  moved back (`pushed`).  With A, B, C on pages of one, C renamed to the front after A was
  read: A is on page 2 again (pushed once), C is never seen (slipped).  `WalkIsWhole` says
  that this is all that can happen.
* **`Ledger`, `Figures`.** What a summary adds up is the cardinality of a set of cents, a pair
  of row and number each.  The rows a dashboard counts belong to other parts; a report they
  change under makes no promise and is dropped (`NoFigures`).
* **`Pricing`.** Computed amounts are integers in ten thousandths of a cent, so `mul` and
  `div(100)` are exact; `Cents` and `Units` are the two roundings.  ACTIVE and within its
  dates is one Boolean.

External code is modelled from its use: Stripe (`stripe`, `SessionEnds`, `RefundEnds`,
`PaySession`, and the money of the lifecycle), BullMQ (`Take`, `Finish`, `Stall`,
`Thrown`) and the expiry of a Redis key (`Lapse`).

## 3. The runs

| run | instance | what it shows |
|---|---|---|
| `stock` | 2 bookings of 1-2 units, 2 edits, 2 dates, totals 1 and 3 | counters exact; balanced and never oversold on dates without a stale edit |
| `dated` | 2 bookings, 1 edit, 2 dates, 2 days of calendar, each of the four domains | stays whole; stale candidates and double cancellations harmless; every booking settles; implements the stock |
| `payment` | 1 booking in each of 2 domains with the same id, 2 sessions | confirmation, success, intent, failure for cause; implements the lifecycle |
| `payment_liveness` | 1 booking, 2 sessions | refunds close bookings; a booking paid once settles |
| `coupon` | 3 bookings (two with the same id), 2 travellers, 1 coupon, limits 1, 2, none | counter exact, limits, release |
| `flight` | 1 departure, 2 bookings, 2 edits, cabins 1+1 and 0+1 | seats exclusive, held exactly, cabins whole |
| `organization` | 2 providers, 2 users, 3 rows, 2 calls | an owner remains and ranks are respected, unless calls crossed |
| `platform` | the twelve parts, see below | thirteen properties, one or two for each part |

Four runs are expected to find a violation: the repository says one thing and the code does another.

| run | claim | what happens |
|---|---|---|
| `oversell` | `src/README.md:17`, anti-overselling by design | a provider edit writes `available` from a count read before a booking: the unit is sold twice |
| `payment_expired` | `payment.repository.ts:126-129`, no SUCCESS on an expired booking | a webhook between the two phases of the job; or a retry, which never looks at the booking |
| `coupon_forgotten` | `coupon.repository.ts:58-61`, no use is wasted | the job stops between expiring and giving back; no later run sees the booking |
| `last_owner` | `organization-member.service.ts:161`, at least one owner | two owners remove each other: both count two, both delete |

The passing properties next to them say how far the claim does hold: not oversold
*unless an edit raced*, released *unless a run forgot*, within the per-user limit
*unless requests overlapped*, SUCCESS undone *by a retry only*, an owner *unless two calls
crossed*.  Three more behaviours are in the models without a run of their own: a retry
that overwrites SUCCESS hides the payment from a later cancellation, a schedule whose
request stopped before its seats were inserted stays empty, and a full refund of an
amount with a fraction of a cent may ask Stripe for one unit more than it collected
(`RefundCovered` says when).

### Bounds and why they are enough

Two actors of each kind are what every race here needs (two bookings for one unit, two
webhooks of one payment, two edits of one date, two calls of one organization, a job and
a request); two dates let an edit or a stay be half done; a party of two against totals
of 1 and 3 makes "enough for one" and "enough for both" both happen; two sessions are a
payment and its retry, and the first may lapse or be paid late.  The theorems remove these
bounds for safety.  In `platform`:

* `Staffing`: 2 guides of one account, 2 drivers, one departure and one ride.
* `Trip`: 2 days and 3 items, two to be reordered and one to come in; ids are given in
  order, as autoincrement does, and one reorder is under way at a time, of two ids.
* `Catalogue`: 2 rows, 2 keys, 1 popular place.  `Fleet`: 2 airports, 2 edits.
* `Reviews`: 3 requests, so that a review can be deleted and restored while another is
  inserted.  `Conversations`: 2 members, 2 messages.
* `Jobs`: a report and a notification, 3 attempts as configured, 1 stalled run repeated
  (`MaxStalls`, BullMQ's default).
* `Ledger`: 2 commissions of ten cents at 15 %, whose two parts are both rounded up; a
  chart of 2 days over 3 (`LastDay`).
* `Figures`: 1 user, 1 provider, 2 bookings of one domain: bookings of one user are one
  converted user.
* `Sessions`: 2 devices, 2 refreshes, 3 tokens (`MaxTokens`) that live 2 seconds, up to
  second 3 (`LastSecond`), when the first one has expired and the second has not.
* `Pages`: 3 rows of 3 ranks (`LastRank`), pages of 1 and 2, and 2 changes
  (`MaxWrites`) during a walk: one before and one behind the reader.  Where a list is
  ordered by name the rows are numbered by their names as they are when the walk begins.
* `Pricing`: 1 promotion, 2 providers, 1 booking of 3.00 or 10.01; a percentage that does
  not come out in cents, a discount above the subtotal, and a capped one; 5 half days
  (`LastTime`) before and into the first day.  With one row priorities never compete.

Other models are finite without further bounds: a booking is made once, sessions are
used once, `Midnight` stops at `LastToday` or `LastDate`; `MaxMember` bounds the rows of
an organization ever written.  Symmetry is used only in runs without liveness.  Deadlock
is checked except in the payment, organization and platform runs, where the system may
come to rest: all bookings settled, all ids used.

### Fairness

* `SweepFairness`: the repeatable job runs every five minutes (`Scan`, weak); time
  passes the cutoff (`Age`, weak); a run reaches each of its candidates if it gets to
  run again and again (`ExpireNext`, *strong*, because `CutShort` may end any one run;
  weak fairness would ask that a run is never cut short).  Nothing is assumed of
  requests, providers or payers.
* `WebhookFairness`: Stripe redelivers an event until it is answered, so the handlers of
  paid sessions and succeeded refunds are weakly fair.  Retries, the job, and
  travellers are not.
* `WF(Lapse)`: a Redis key set with EX lapses.  No request is fair.
* `WorkersRun`: a worker takes a waiting job, and a run goes on, unless it stalls.

## 4. The proofs

All theorems hold for every value of the constants under the named assumptions of the
modules: in the core `StockAssumption`, `CalendarAssumption`, `StayAssumption`,
`DepartureAssumption`, `PaymentAssumption`, `CouponAssumption`, `FlightAssumption`,
`FounderAssumption`; in the parts `StaffAssumption`, `PlanAssumption`, `ListingAssumption`,
`FleetAssumption`, `ConversationAssumption`, `JobsAssumption`, `LedgerAssumption`,
`SessionAssumption`, `PagesAssumption`, `PricingAssumption`, `FiguresAssumption`.  They say
that tables are finite, bounds and ids naturals, rates and percentages between nothing and
all, and that the null values are not members of the sets they complete.  Each safety
property a run checks has its theorem.

* **`DatedBookingProofs`.** `StockIInv` = types, no booked unit on a date without a row,
  the count an edit carries fits its total, `BookedIsSold`, `Balanced`.  Types are not
  inductive alone: `available` stays a natural in `SetUpdate` only because the count
  compared in `SetRead` is the one subtracted, and `booked` in `GiveBack` only by its
  guard.  `BookedIsSold` needs that guard to be *always true* for a live booking, which
  is `BookedIsSold` itself: a booking's places are part of what is counted.  The count
  of units is a cardinality (`Places`), so that adding or removing a booking is one
  step of set theory (`PlacesSplit`).  `NoOversellUnlessStale` follows from the
  two last parts.  Every step of the protocol, stale reads and all, is a step of the stock
  or leaves it alone, in each of the four domains (`DatedImplementsStock`), whence
  `DatedNoOversell`; the ids a run hands on are expired (`DatedExpiredIds`), and a confirmed
  booking survives any stale run (`DatedConfirmedStays`).  The lemmas are about
  `Asks \/ ServiceStep`; then the checks of each domain are shown to be `Asks`.
  `DatedStaysWhole` adds that what a request asks for, and what a booking has, is a stay of
  its domain (`StaysBooked`); that its dates have rows that count it is `BookedIsSold`.
* **`BookingPaymentProofs`.** `IInv` = types, `SessionsOwned` (an open session names a
  payment that exists), `InvoicesBacked` (an invoice stands for a paid session, its
  intent; nothing is SUCCESS or past PENDING_PAYMENT without one), `RefundsInOrder` (how
  far the refund is shows in the booking).  The invoice is the key: `payment` may fall
  back to PENDING by a retry, the invoice never goes away, and its unique key is what
  stops a second confirmation.  `PaymentImplementsLifecycle` is the refinement.
* **`CouponProofs`.** `IInv` adds to the properties that a request redeems at most once
  and at its own step, that the job holds expired bookings with rows that exist, and
  `ClaimsWithinLimit`: rows *and* requests past the check, together, stay within the
  per-user limit while requests do not overlap.
* **`FlightBookingProofs`.** `generateSeatNumbers` returns as many seats as the capacity asks
  for (`SeatsMatchCapacity`) and no number twice; `IInv` adds `EditsInOrder` (the
  request that created a schedule is the only one to fill it) and `RequestsFresh`.
* **`OrganizationProofs`.** `OrgInv` adds to the types that calls speak of rows that were
  issued (`RowsKnown`), that without overlap at most one call per organization is past its
  checks (`Solo`), that what such a call has checked is still so (`Ready`), and that there
  is an owner (`Owned`).  A write keeps the invariant because the check it rests on
  cannot be outdated; `OwnersRemain` and `RankAlwaysRespected` follow.
* **`TravelProofs`.** A removed driver: rides released early stay released while the removal
  is under way (`IdleOnceReleased`).  A review: whoever is past the check has a confirmed
  booking behind him (`NothingUnearned`); one row per user and subject (`OneReviewEach`).  A
  message: what is unread is exactly what the other side has not opened since
  (`ReadExactly`).  A flight: every edit under way has compared the airports it will leave
  behind, or is outdated (`Checked`).  A plan: `PlanInv` says that ids are not given twice
  (`IdsSpent`), that the numbers of days are 1..n for some n and those under way at most
  n + 1 (`DaysFilled`), and that an item under way that is not late has a place behind all
  of its day (`BehindAll`); without the last, `PlanInOrder` is not inductive.
* **`MoneyProofs`.** `PricingInv`: amount, discount, charge and refund of a purchase are
  roundings of *one* exact amount due, which a retry replaces by the stored one, hence
  `PricesAddUp`; a refund's percentage only falls with time (`RefundPercent`).
  `LedgerInv`: a split is within a cent; each answer of an overview is what the rows say now
  unless a row changed since; a chart's bars add up the cents of the rows it found.  Sums
  are cardinalities of sets of cents, so that a sum over one more row, or over the bars of
  days, is a union of disjoint finite sets and needs no induction.  `FiguresInv`: the
  answers of a report nothing changed under are what the tables say, and statuses
  partition their rows.
* **`PlatformProofs`.** `SessionInv`: a token that was exchanged once has only revoked rows
  (`SpentOnce`), and what a device holds has a row left or is being exchanged
  (`HeldIsGood`), for tokens no two requests or devices share.  `JobsInv`: each row of a
  notification is of a run that delivered it, died, or was not answered (`RowsCounted`).
  `ListingInv`: a row that is not there holds no key.  `WalkInv`: a row that has
  neither been seen nor slipped has at least `page * limit` rows ahead of it, and one
  that was seen has fewer, or was pushed back as often as it was seen (`WalkKeepsUp`);
  nothing pushes comments back (`OldestNotPushed`); a reader at the end has room for all
  rows (`EndsBehindAll`).  A change that neither slips nor pushes a row leaves the set
  ahead of it no smaller, or no larger, and what a page holds follows from the sizes of
  these sets.  Then the composition: a behaviour of `PlatformSpec` is one of each part
  (`PartsOfPlatform`, fairness included, since a step of another part is a stutter), so what the parts
  promise the platform keeps (`PlatformTypeCorrect`, `PlatformTotalsAddUp`,
  `PlatformStaysSound`).

**Proved and not run.** The type invariants of the stock, payment, coupon, flight and
organization modules, where a run would say less than the theorem; that
`generateSeatNumbers` returns as many seats as asked for.  (`OneReviewEach` and
`KeysAreUnique` are conjuncts of `PlatformTypeOK`, which `platform` checks.)

**Model-checked only.** The five liveness properties: `PendingSettles`,
`RefundReachesBooking`, `PaidOnceSettles`, `PopularCatchesUp`, `JobsSettle`.  They rest on
fairness, hence on ENABLED, which is out of reach of the prover.

## 5. What is left out

* Currency: the gateway passes amounts on as dong, and so does `Units`.
* Prices of nights, seats and routes, and fares; occupancy and rankings in reports, and
  averages of reviews.  `Figures` has four of the dashboard's calls, and `Ledger` the charts.  In `BookingPayment` whether a refund is due is a
  free choice (`Pricing` has the rule), in `Coupon` whether an order is large enough.
* Coupons have a per-user limit; creating and deleting coupons, and the commission rate an
  administrator sets, are not modelled.
* Ownership checks (a request acts on the caller's own booking) and DTO validation.
  `Pricing` takes the refund settings from the environment to be ordered percentages.
* `payment_intent.payment_failed`: the metadata is set on the session, not on its intent
  (`payment-gateway.service.ts:50-65`), so the handler finds no payment id and does nothing.
* When one table's query fails, the other branches of the job's `Promise.all` go on in the
  background.  The model ends the run; the order "others first, then the failure"
  gives the same states.
* A candidate whose transaction throws every time ends each run of the job before those
  behind it (`booking.repository.ts:111`): the strong fairness of the model leaves it out.
* Seats of a departure that has left may still be booked, and never cancelled
  (`flight-booking.service.ts:71`): in the model, but no line says it may not happen.
* The statuses PAID and COMPLETED of the enum (`schema.prisma:519`) are never assigned.

**Not modelled.** Likes, follows, wishlists and saved posts are one INSERT under a unique
key or one DELETE.  Activity log and analytics events are appends.  Upload, mail, the
socket, wiring and the health of the process are pure I/O.  Passwords and signatures are
not, but nothing here depends on how they are computed.

## 6. Plan

Done: the dated stock and its four domains, payments over the lifecycle, coupons,
flights, the organization, and the twelve parts of `Platform`; a theorem for each of their
safety properties.

What would come next:

1. `BookingFlow`: stock, payment and coupon of one booking composed, to state what only
   holds across them (units given back, money returned, use released).
2. The creation and deletion of coupons in `Coupon`.
3. Abstract specifications of parts that have only invariants so far (a queue that delivers
   at least once, a session as one chain of tokens), and their refinements, proved.

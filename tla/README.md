# Drokpa services: a verification development

Drokpa is a travel-booking backend (NestJS, Postgres through Prisma, BullMQ on
Redis, Razorpay). This directory holds TLA+ modules that model the parts of it
where order, concurrency and failure decide what is right, the TLC
configurations that check them on small instances, and theorems about them that
TLAPS checks for every value of the constants. Paths below are relative to the
repository; `modules/` stands for `src/modules/`.

    tlc -workers 2 -config room_edits.cfg MCRoomInventory.tla
    tlapm RoomInventory_proofs.tla

`PROJECT.json` lists the runs, the mutations that show each property can fail,
the theorems, the hazards, and for every definition the lines it models.

## The system

One Node process serves HTTP requests, runs the queue's workers and the cron
jobs. Everything that lasts is in Postgres (READ COMMITTED, no explicit locks
anywhere in the code) and in Redis (queues, sessions, caches, the socket
registry).

| Component | State | Operations | Must be right |
|---|---|---|---|
| Bookings (`modules/booking`) | `Booking.status`, `expiresAt`, items | create (homestay, tour, vehicle, guide), confirm, reject | a request is decided once; nothing is due that nobody accepted |
| Room calendar (`modules/room-availibility`, homestay bookings) | `RoomAvailability` rows with a count per night | hold at creation, give back at rejection and expiry; the provider's set, block, update, delete | no night sold twice; no room lost or given back twice |
| Scheduler (`modules/scheduler`) | none; the list of the running job | expire bookings every 5 minutes, expire permits, clean up uploads | an unpaid booking ends and its rooms and coupon come back; a paid one does not end |
| Payments (`modules/payment`) | `Payment` rows, gateway orders | create an order, verify the customer's callback, refund | the record says what happened at the gateway; one booking is charged once |
| Webhooks (`modules/webhook`) | `WebhookEvent` rows, the queue's jobs | intake, queueing, handlers for captured, authorized, failed and refunded payments | every event is handled; repeated or late events do no harm |
| Coupons (`modules/coupon`) | `Coupon` rows, `currentUses`, assignments, the `CouponUsage` ledger | create, edit, delete, assign; validate, record a use, free a slot | limits hold; the counter agrees with the bookings; a discount keeps to the terms it was promised under |
| Admin (`modules/admin`) | bookings, providers, roles | decide tour bookings, complete bookings, verify and suspend providers, add and remove roles, change users | an admin is always left |
| Payouts (`modules/payout`) | `ProviderPayout` rows | create, complete, fail | an item is paid out once |
| Tours, vehicles, guides (`modules/booking`, `tours`, `vehicle`, `local-guide`) | the bookings of a product, its capacity, the product's row | create, confirm, reject; edit, deactivate, delete the product | no seat or day sold twice; what is booked is not deleted |
| Accounts (`modules/auth`, `modules/users`, `services/redis`) | users, one-time codes, reset tokens, sessions, the user cache | sign-up, sign-in, codes, Google, refresh, logout, password reset; change, disable, delete | an ended account has no session and no cache entry; a verified address was proven; a reset link works once |
| Permits (`modules/permit`) | `Permit.status`, its documents | submit, approve, reject, attach, expire | nothing is approved without documents |
| Onboarding (`modules/onboarding`) | invites, providers, roles | invite, resend, revoke, complete | a completed invite gave what it promised |
| Reviews (`modules/reviews`) | reviews, the product's rating | create, update, delete | the rating is the average of the reviews |
| Offline bookings (`modules/offline-room-booking`) | offline room rows | create, update, delete | rooms of the house are not exceeded |
| Catalogue (`modules/homestay` and others) | rooms with prices, tags, facilities | create, edit, deactivate, replace tags | the price charged is the one shown; no guest of a closed room |
| Itineraries (`modules/tours`, `modules/poi`) | days of a tour, points of interest linked to them in an order | add and delete a day, link, reorder, remove and delete points | no point is in one place twice; an ordered day stays in order |
| Waiting lists (`modules/service-waitlist`) | an entry for each address and service | join, remove, notify all | who counts as notified was mailed, and once |
| Bucket lists (`modules/bucketlist`) | a list and its items | add, change, remove, check out, delete | what is checked out has items |
| Uploads, sockets, e-mails, other content | S3 keys, Redis registry, queue jobs, single rows | presign, connect, send, CRUD | not modelled, see the end |

How they interact: a create holds rooms and validates a coupon before the
booking exists and records the coupon's use after it does; confirming opens the
payment window that `createPayment` and the cron read; the gateway tells of the
same payment twice, through the customer's callback (`verifyPayment`) and through
webhooks, and both write the booking; the cron ends what was not paid and gives
rooms and coupon back.

What is hard about it: every handler reads, decides and writes by id in separate
statements, and the write does not repeat the check; the cron works off a list it
read earlier; webhooks are late, repeated and out of order and race the callback;
queue jobs fail, stall and run again; the server may stop between any two steps.

## Modules

**BookingLifecycle** is the abstract specification: the status of a booking and
its payment deadline, seen from outside. It allows every write the handlers
really make, on whatever status the row has by then, and keeps only the order the
system does guarantee: nothing is due, paid, failed or expired before it was
offered for payment (`expiresAt` is set by that write alone), and a request is
never reopened. The deadline is `unset`, `ahead` of the clock or `passed`.
RoomInventory and Checkout both implement it: their `LifecycleSpec` is checked
as a property and proved as a theorem.

**RoomLedger** is the other abstract specification: the calendar as one clerk would
keep it, who takes the rooms of a booking (`Take`) in the moment in which there are
enough of them, gives exactly those back (`GiveBack`) in the moment in which the
booking is declined or expires, and does nothing else to the counts (`Proceed`). What
RoomInventory does in separate statements comes to the same as long as its requests
do not get in each other's way: `OrderlySpec` implements it (`LedgerSpec`, with the
counts, statuses, nights and rooms of the bookings as they are).

**RoomInventory** is one homestay room: the rows of its calendar with their
counts, and the bookings that hold nights. `CreateRead` / `CreateCommit` are the
read and the commit of `createHomestayBooking`'s transaction; `ConfirmRead`,
`ConfirmCheck`, `ConfirmWrite` are the three statements of `confirmBooking`;
`RejectRead` / `RejectCommit` the check and the transaction of `rejectBooking`;
`ExpireScan`, `ExpireCommit`, `ExpireFail` the query of the cron and one booking's
turn in its loop. `SetAvailability`, `BlockDates`, `UpdateSingleDate` and
`DeleteAvailabilityRange` are the provider's edits. `PaymentWrites` is all that
payments may do to the status (an over-approximation of Checkout), `Restart`
loses what the process held in memory, and any handler may `Abort`.
  - The transaction of a rejection or expiry reads and increments in one step.
    The increments are atomic by row and the rows are read in the same
    transaction; a row deleted in between rolls it back, which is `Abort` or
    `ExpireFail`.
  - Dates are whole nights and there is one room type; rooms of other types
    share nothing with it.
  - A create whose row is deleted under it is `doomed`: its update by id throws.

**Checkout** is the payment of bookings: `createPayment`, `verifyPayment` (read,
fetch from the gateway, write), the webhook's `Deliver` (insert), `Enqueue`, and
the worker's `JobStart`, `HandlerFind`, `HandlerWrite`, `MarkProcessed`, `JobDone`,
`JobFails`; `completeBooking`; and the cron. `GatewayFails`, `GatewayAuthorizes`
and `GatewayCaptures` are Razorpay, as far as the code depends on it: a payment
may fail and be authorized late, an authorized one is captured, and an event may
be delivered at any time after what it reports, in any order and repeatedly. The
job queue is BullMQ as the code configures it: attempts, one worker for a job at a
time, jobs that survive a restart, and a job that stalled once is failed the
second time (BullMQ's default).
  - `HandlerWrite` is separate from `MarkProcessed` because the handlers write
    through `databaseService`, not through the transaction that marks the event.
  - `LateDecision` is a confirmation or rejection that was read while the booking
    was REQUESTED and is written later, as RoomInventory has in detail.
  - An order stands for the attempt on it that succeeds: only that one gets a
    signature `verifyPayment` accepts. Amounts are left out, since `createPayment`
    refuses any but the booking's own; refunds are in Settlement.

**CouponSlots** is one coupon with both limits: `ValidateTotal` and
`ValidateUser` are the two reads of `validateAndCompute`, `CreateCommit` the
booking, `RecordUsage` the transaction that writes the ledger row and increments;
`RejectCommit` then `FreeSlot`, and `ExpireCommit` then `ExpireFree`, end a booking
and free its slot. `UpdateCoupon` changes the limit. Handlers may fail after any
of these steps and the server may restart. The rules that depend on the request
alone change nothing here; Offers has those on dates, amounts and users.
  - `Settle` is every write of the payment handlers that confirms a booking. They
    write by the booking's id (`webhook.processor.ts:131`), so it depends on no
    status: once a booking was `offered` a payment window, a payment begun in it may
    arrive when the booking has expired and its slot has been given back, and the
    booking lives again.
  - `crossed` is history: the bookings on which some write met one that had ended.

**Settlement** is what happens afterwards to the money of one captured payment:
`RefundRead`, `RefundCheck`, `RefundIssue`, `RefundCommit` are the status check, the
aggregate with the checks on the amount, the gateway call and the transaction of
`createRefund`; `HandlerFind`, `HandlerCreate`, `HandlerConflict`, `HandlerSum`,
`HandlerMark` the statements of `handlePaymentRefunded`; `CompleteRead`,
`CompleteWrite` are `completeBooking`, `PayoutRead`, `PayoutCheck`, `PayoutInsert`
are `createPayout`, and `MarkCompletedRead`, `MarkFailedRead`, `MarkWrite` settle a
payout. `LateEvent` is any earlier handler of the payment that runs late.
  - A sum of amounts is the number of their units, so that the proofs can compute
    with it. Amounts are whole; the DTO also lets through a fraction, which the
    gateway takes in paise and the integer column then refuses. That request ends
    as any whose transaction fails (`Abort`).
  - The gateway is as the code uses it: a refund that it makes is of the amount
    asked, and is told of by events that may or may not name it. That it would
    itself refuse to give back too much is not assumed.
  - Handlers of refund events do not fail for lack of a database here, only for the
    unique id; Checkout has the queue with its attempts. A job that is given up is
    an event that is never handled, and `FullRefundShown` is about handled ones.
  - A row that `createRefund` makes has the refund's amount; one that the handler of
    an event makes (`HandlerCreate`) has the amount of the payment entity in the event
    (`webhook.processor.ts:240`), which is that of the whole payment. So what the rows
    add up to may be more than what was given back.
  - `orderly` and `shown` are history: nothing in the model reads them but the
    properties.

**Reservations** is one product without a calendar: a tour with `maxCapacity`
seats, or a vehicle or guide (a "hire"). `CreateRead`, `CheckSeats` or `CheckDays`,
and `CreateInsert` are the reads and the insert of `createTourBooking`,
`createVehicleBooking` and `createGuideBooking`; `ConfirmRead` / `ConfirmWrite` and
`RejectRead` / `RejectWrite` the decisions (by provider or, for tours, admin);
`Capture` a payment, `Close` whatever ends a booking (Checkout and Settlement have
it in detail); `EditProduct`, `DeactivateTour`, `DeleteCheck` / `DeleteWrite` the
catalogue's edits. Statuses that hold nothing are one, `OVER`.
  - `revived` collects bookings that a late payment or confirmation brought back
    after they had ended; `orderly` turns false when a creation and a deletion
    overlap. Both are history for the properties.

**Accounts** is users with their one-time codes, sessions and the cache entry the
guard answers from. A handler is the list of operations it has left, because the
handlers of `AuthService`, `UsersService` and `AdminService` share their tails: write
the row, drop the cache entry, end the sessions, mail a code. `GuardHit`,
`GuardRead`, `GuardFill` are the guard; `CacheLapse`, `CodeLapse`, `SessionLapse` are
the lifetimes set in Redis and the token; `Abort` is a failed statement, `Restart`
the end of every handler under way.
  - `RedisService` swallows its errors (`redis.service.ts:35`): a failed store or drop of
    the cache entry (`GuardFillFails`, `FlushFails`) does not stop the handler. A guard
    that fails to read the entry goes to the database, so `GuardRead` may happen
    whether the user is cached or not.
  - A code is identified with the address it was mailed to, so "verified" can be
    compared with what was proven. Passwords and hashes are left out.
  - `late`, `kept`, `cut`, `crossed`, `proof` are history: stores after a deletion,
    entries that Redis failed to drop, handlers that broke off, requests for one account
    that overlapped, the address proven. An entry that is dropped or lapses is struck
    from `late` and `kept`.

Twelve smaller services have a module each. They share no rows, so **Desk** puts
them side by side; `part` names the one a behaviour is about, and the others stand
still. Every behaviour of a service is one of `Desk`, so what holds of `Desk` holds of
it; and as no service reads another's rows, nothing is lost by not mixing steps.

| Module | Models | Actions and statements |
|---|---|---|
| **OfflineRooms** | telephone bookings of one room type | `CapacityRead` reads `totalRooms`, `CapacityCheck` the overlapping rows, `Insert` / `Update` write; an update of the guest's data alone (`rename`) writes back the stay it read |
| **Listings** | a homestay's room: price, discount, derived final price, deactivation, the bookings that hold it | `EditRead` / `EditWrite` of `updateRoom`, `DeleteCheck` / `DeleteWrite` of `deleteRoom` and `deleteHomestay` |
| **Labels** | the tags (and in the same way the facilities) of a homestay | `DeleteAll` and `Commit` are the two statements of the transaction, under READ COMMITTED: a deletion takes the rows it can see, those committed before it and not deleted since |
| **Ratings** | the reviews of a product and its stored rating | a write of a review, `AggregateRead`, `Store`; deletion by an admin takes the same steps |
| **Permits** | one guest's permit and its two documents | read and write of each handler, and the scheduler's `SweepFind` / `SweepWrite` |
| **Partners** | one user's invites, provider row and roles | `CompleteRead` outside the transaction, `ProviderRead` and `CompleteCommit` inside; `Assign`, `RemoveRole`, `Judge` by admins |
| **Admins** | who is an admin, the guard's cached roles, the default admin | `RemoveCount`, `RemoveDelete`, `Forget`, which may leave the cached roles where Redis fails; `AddRead`, `AddWrite` |
| **BucketLists** | one bucket list with its items | read and write of each handler |
| **Offers** | a coupon's row, its assignments, and the bookings made with it | `Validate` is the query and the checks of `validateAndCompute`, `CreateBooking` the booking's transaction with the discount of `computeDiscount`, `RecordUsage` the ledger's row; `UpdateCoupon`, `DeleteCoupon`, `AssignToUsers`, `RevokeFromUser` by admins in between |
| **Itineraries** | a day of a tour and the points shown on it | read and write of a link, a reordering and a removal; `DeleteDay` and `DeletePoint` take the rows with them |
| **Waitlist** | the waiting list of one service | `NotifyRead` is the query of a run, then for each entry `QueueMail` and `Mark`, either of which may fail |
| **Resets** | the reset token in a user's row | `RequestRead`, `RequestWrite`, `RequestMail`; `ResetRead` and `ResetWrite`, with the hashing of the password in between; `SetUserPassword` by an admin |

  - In Ratings the average is kept as the sum and number it is made of. The two
    services round it differently (`AdminService.deleteReview` to one decimal), so
    which of them computed last can show in the figure though not in the model.
  - In Labels `doomed` are the rows a transaction has deleted and not yet committed. A
    tag that another one deletes and inserts again is a new row, which an earlier
    deletion does not cover; the insert of that tag then fails on the unique key. A
    statement that waits for another transaction's row is the same as one that is
    executed later, and is left out.
  - In Partners the user's address is verified; Accounts has how it becomes so.
  - In Offers a booking keeps the terms it was made under (`deal`), which the row of
    the code does not, so that a discount can be compared with what was promised. A
    request whose coupon is deleted after it was validated is `lost`: the foreign keys
    refuse its booking or its usage. A coupon that is created again has another id.
    `computeDiscount` is translated with its rounding down, in rupees.
  - In Itineraries a reordering is the places that its list comes to, where the last
    mention of a point counts. A row that its day or point took with it is gone for
    every request that looked at it before (`lost`).
  - In Waitlist `gone` are the entries deleted after a run read them: the mail goes out
    to the address that was read, the mark fails.

## Runs

| Run | Instance | Shows |
|---|---|---|
| `room_edits` | 3 bookings, 2 requests at a time, 1 night, 1 room, provider edits | `TypeOK`, `OversellBound`, `LifecycleSpec` under any interleaving |
| `room_orderly` | 2 bookings, 2 requests, 2 nights, all ranges, up to 2 rooms of 2 | `NeverOversold`, `NoPhantomRoom`, `NoRoomLost`, `DecidedOnce`, the refinement `LedgerSpec` and the liveness property `AwaitingEnds`, when requests do not get in each other's way |
| `room_oversold` | 2 bookings, 2 requests | violated: two overlapping creates sell a night twice |
| `checkout_race` | 1 booking, 2 orders, 1 request, 2 workers, a failure and a capture | `OutcomeIsReal`, `RecordsMatchGateway`, `LifecycleSpec` under any interleaving |
| `checkout_jobs` | 1 order, 2 workers, 2 attempts, authorization and capture | the liveness property `JobsFinish` |
| `checkout_expiry` | 1 order, no webhooks | violated: the cron expires a booking confirmed after its query |
| `coupon_limits` | 3 bookings of 2 users, 2 requests, failures, restarts, edits | `CapBound`, `UserBound`, `LiveAreCounted`, late payments of ended bookings included |
| `coupon_exact` | the same, 1 request, no failures; one of the bookings a tour | `CountIsExact` |
| `settlement` | 2 requests, 1 worker, 2 refunds of a payment of 2, 3 payouts | `RefundedIsCovered`, `PayoutsAreFew` and `FullRefundShown` under any interleaving; `NeverOverRefunded`, `PaidStays` as long as requests do not disturb each other |
| `accounts` | 1 user, 2 addresses, 1 session, 2 requests, failures, restarts | `CacheForgets`, `SessionsEnd`, `VerifiedIsProven`, and the liveness property `LockedOut` |
| `reservations` | 3 bookings, 2 requests, capacity and parties up to 2, 3 days | `SeatBound`, `DayBound`, `NoOrphan` |
| `desk` | each service with 2 requests; 3 bookings, tags, users, tokens or links; 2 invites, types, items, points, addresses, coupon bookings | `TypeOK`, `NightsCovered`, `CatalogueSound`, `RatingIsTrue`, `DocumentsFirst`, `RolesSound`, `PendingHasItems`, `DiscountSound`, `OrderKept`, `WaitlistSound`, `ResetsSound` |

Every module has a type invariant `TypeOK`. TLC checks it where a run is not spent on
something that says more (`room_edits`, `desk`); that of RoomInventory, Checkout,
CouponSlots, Settlement, Accounts, Reservations and Desk is proved for every instance
(`TypeCorrect`).

Why these bounds are enough. A race needs two handlers, so two processes; the
bound of `OversellBound` and `CapBound` needs one more booking than processes, so
three. Two nights are enough for ranges that overlap in part; a night more adds
only copies. Two orders are the least that can charge a booking twice, and two
events the least that can come out of order. Two attempts are the least with a
retry. Bookings and processes are interchangeable, hence the symmetry, which is
not used where a liveness property is checked. The bounds `MaxRooms`, `Capacity`,
`MaxCap` limit the values a request or a provider may choose, never how often
something happens; what ends a run of a model is only that its booking ids are
used up. In `settlement` a payment of two units is the least that can be given back in
parts, two refunds the least that can be too much, three payouts the least that
exceed the bound of `PayoutsAreFew` for two requests, and one worker
is enough for the conflict between a handler and the request it overtakes.
`coupon_exact` sets `CHECK_DEADLOCK FALSE` for that reason: when every
id is used, nobody edits the coupon and no request fails, nothing is left to do.

In `reservations` three bookings and two requests are the least that can exceed
the bounds of `SeatBound` and `DayBound`; stays of up to three days overlap in part,
touch and nest. In `accounts` one user is enough, since no statement touches two
accounts; two addresses are the least that can change, two requests the least that
race. In `desk` three telephone bookings of up to two rooms can take six where the
bound is four; three users are two admins who remove each other and a third; two
invites of up to two types the least whose completions overlap and differ; three
tokens are one that is spent, one that is sent and one that is asked for; three links
of two points are the least with a point shown twice beside another. The two coupons
are a private percentage for each person and a public amount, whose cap bites on one
order and whose price bites on the other. The symmetry of `desk` leaves one of the
three things fixed, because all permutations cost TLC more than the states they save.
`reservations` and `desk` also set `CHECK_DEADLOCK FALSE`: a deleted hire whose
bookings have ended, an expired permit, a deleted bucket list, or a service that has
no admin and takes no steps without one, may stand still for ever.

Fairness. `OrderlySpec` of RoomInventory has weak fairness on the cron's query
(it runs every five minutes), on the passing of a deadline (time passes), and
strong fairness on one booking's transaction: it may fail in some runs but the
next run tries it again, and a failure for ever is a broken database. `FairSpec`
of Checkout has weak fairness on each worker and on a delivery already begun:
Node goes on with what it has. `FairSpec` of Accounts has weak fairness on the lapse
of a cache entry, which is the five minutes' lifetime every entry is stored with; the
action names the history variable that every step of Accounts updates. Nothing is
assumed of customers, providers, the
gateway or restarts.

## Proofs

For each module, one inductive invariant `IInv` and the theorem
`Spec => []IInv`, for any sets of bookings, processes, orders, workers, events,
nights and users; the listed properties follow from it.

- `BookingLifecycle_proofs`: `NothingDueBeforeOffer` is inductive with the types.
- `RoomInventory_proofs`: `OversellBound` is inductive as it is stated, because
  it counts a request that has passed its check and not written yet as one whose
  share is still to spend. A create that commits leaves the set of claimants and
  takes at most the `MaxRooms` it had claimed; a check that passes enters it only
  when the count covers the rooms; a provider's edit only sets a count of zero or
  more. The refinement needs `CarriedIsSound`: the cron's list holds only bookings
  that were offered. Under `OrderlySpec`, `OrderlyInv` says what an undisturbed
  request still knows when it writes, and `HoldInv` that some set of bookings holds
  exactly what the calendar is short of: it contains the open bookings and the
  cron's list and no booking that has ended. It cannot be read off the statuses,
  because a late payment revives an expired booking that has no rooms any more; so
  each step names the set it leaves. `NoPhantomRoom` and `NoRoomLost` follow by
  comparing it with the two sets of statuses. Rooms are summed as keys, pairs of a
  booking and a number up to its rooms. From the same invariant `OrderlySpec` is
  proved to implement RoomLedger (`OrderlyImplementsLedger`): the commit of a creation
  is `Take`, because the rooms that were read are still there (`OrderlyInv`) and the
  request is one for some nights and rooms (`AskInv`); the commit
  of a rejection or of one booking's expiry is `GiveBack`, because `HoldInv` leaves room
  for the increment below `Capacity`; every other write is `Proceed` or a stutter.
- `Checkout_proofs`: `OutcomeIsReal` needs `RecordsMatchGateway`, that what
  requests and workers carry is true of the gateway (`CarriedIsGrounded`, which
  holds because nothing at the gateway is ever undone), that the rows refer to
  offered bookings (`RowsConsistent`) and that each job is run by one worker
  (`QueueSound`). `DueAfterOffer` is proved through the abstract specification:
  Checkout implements the lifecycle, and the lifecycle keeps it.
- `CouponSlots_proofs`: `CapBound` counts the requests between validation and
  recording, `UserBound` those between the count of the user's rows and recording.
  `LiveStayCounted` compares two sets: the recorded bookings that live, with the slots
  on their way back, and the bookings that ended unrecorded. As long as no write met a
  booking that had ended, each slot that is freed is its booking's own or is paid for by
  one of the second set, from which a booking is never taken. `CountStaysExact` is for
  one request at a time (`Alone`), tours included; `Grounds` says that a booking that
  has not ended has its row or is being recorded, so that every slot that is freed was
  counted once, and that only a payment brings back one that has expired.
- `Settlement_proofs`: sums are cardinalities of sets of units, so that "more rows,
  larger sum" is a fact about subsets (`UnitsGrow`) and a refund adds its amount by
  the cardinality of a disjoint union (`UnitsAdd`). `CoverSound` carries the
  handler's decision to its write, which is safe because rows only grow (`Grows`). A
  payment called REFUNDED is covered by what was given back, or one of its rows
  overstates its refund (`Overstated`): the rows are compared with the gateway one by
  one. `PayoutsStayFew` counts the requests that have passed the check with the payouts.
  `OrderlySound` says what an undisturbed request still knows when it writes; it
  bounds what the gateway gave, not what is recorded, since an event without a name
  can only make the record larger. `ShownSound` follows every refund from the event
  to the row: the event handled last sums them all.

- `Accounts_proofs`: every operation a handler may have left is due to a fact about
  the account (`Pending` covers what is not yet done), and a history variable names
  each way in which it can be cut off or overtaken.
- `Reservations_proofs`: `SeatBound` and `DayBound` are inductive once the requests
  that passed their check are counted with the bookings that hold the product
  (`SeatInv`, `DayInv`), as for `OversellBound`; `OrphanInv` says what a deletion and
  a creation that do not overlap know of each other.
- `Desk_proofs`: one inductive invariant for each service; the steps of the others
  leave it alone (`OwnSteps`). `NightsCovered` counts keys: of each row and night the
  most rooms that it has or that a request is about to write to it, and of each
  request that will insert what it will insert. A check hands out at most what is
  left of `totalRooms` by the rows of others, and the other requests hold at most
  `MaxRooms` each, so the keys never exceed `MaxRooms` for each request; an insert moves
  its keys from the request to the row by an injection. `FewRequestsRemain` gives
  every remaining tag a seat among its request's, for all the writers that can
  coexist. Permits need that what a handler read still bounds what it writes;
  Ratings that whoever computed last stores last, or is marked `torn`. `DiscountBounds`
  is a lemma about `computeDiscount` for every coupon and order; its hard case is a
  percentage rounded down for each person, where `SharesAddUp` shows that the rounded
  shares of all do not exceed the share of the whole. The ledger needs that a
  request records for the booking it made, with the deal and the order of that row, and
  that as long as its coupon is there the booking names it (`OfferCarried`). Itineraries need only that the list of a
  reordering gives different places to different points (`DayCarried`), however stale
  it is. Waiting lists need that an entry a run still has to handle either exists or is
  among the `gone`, and that the one it is about to mark has its mail (`WaitCarried`);
  resets that a token is its request's own until it is mailed and that only mailed
  tokens are spent (`ResetKnown`), so one that was spent can never be written again.
  What holds while requests keep apart (`WaitApart`, `ResetCarried`) is carried beside
  what always holds.

The invariants of what handlers carry (`CarriedIsSound`, `CarriedIsGrounded`) and
`NothingDueBeforeOffer` are proved without a run of their own: the invariants above
rest on them. What the proofs assume is what the `ASSUME`s of the modules state: the
sets of requests, bookings and so on that are counted are finite, the bounds are
positive, and the value that stands for "none" is not an element. Recursion is
nowhere needed, so nothing is lost to the provers' limits but liveness.

Only model-checked: the liveness properties (`AwaitingEnds`, `JobsFinish`,
`LockedOut`).

## Where the code and its own words part

Two are shown by runs:

- `room_oversold`: `modules/booking/booking.service.ts:363` speaks of locked
  rows and 433 of a decrement that "prevents double-booking", but the read takes
  no lock and the decrement does not repeat the check.
- `checkout_expiry`: `modules/scheduler/scheduler.service.ts:20` expires
  "AWAITING_PAYMENT bookings", but the write is by id, so a booking that was paid
  after the query is expired and its rooms go back.

The models show more of the same kind, each a few steps long in them:

- a confirmation that read a request before it was rejected offers it for payment
  afterwards, although its rooms were given back (`ConfirmRead`, `ConfirmCheck`,
  `RejectRead`, `RejectCommit`, `ConfirmWrite`);
- two rejections of one request both give its rooms back (`RejectRead` twice,
  then `RejectCommit` twice);
- `deleteAvailabilityRange` deletes nights that bookings hold, where its comment
  (`room-availibility.service.ts:225`) says it does not;
- an event that was inserted and not queued (`EnqueueFails`, or `Restart` before
  `Enqueue`) is never handled, since the repeated delivery is a duplicate;
- a handler that has written runs again when its event was not marked
  (`HandlerWrite`, `JobFails`, `JobStart`), where `webhook.processor.ts:57` says
  the transaction prevents it;
- two orders of one booking can both be captured (`payment.service.ts:139`);
- a booking whose payment failed cannot be paid again, although the e-mail asks
  for it (`webhook.processor.ts:217`);
- two refunds that overlap, or one that comes while an earlier one has no row yet
  (`RefundIssue`, then `Abort`), ask the gateway for more than was paid;
- a refund event that does not name its refund is recorded a second time
  (`webhook.processor.ts:244`), so a payment can be called refunded in full after a
  part of it; every repeated one of the same payment is then taken for known;
- a refund event that names its refund and is handled before `createRefund` has made the
  row records the amount of the whole payment (`webhook.processor.ts:240`), so a payment
  is called refunded in full after a part of it;
- a late captured event turns a refunded booking back into a confirmed one, and an
  expired one, whose coupon slot has been given back, into one the coupon's counter misses;
- `markFailed` says a completed payout cannot be failed (`payout.service.ts:135`),
  which holds only when no `markCompleted` comes between its check and its write;
- a rejected tour booking keeps its coupon slot, and so does a booking that is
  rejected before its use was recorded (`coupon.service.ts:511`);
- two requests that overlap sell the last seats of a tour, or a day of a vehicle or
  guide, twice (`CheckSeats` or `CheckDays` twice, then `CreateInsert` twice);
- a booking made between the count and the deletion of a vehicle or guide names no
  product afterwards, and its decision throws for want of a provider;
- a guard that read a user before the deletion stores it in the cache afterwards and
  the user is let in until the entry lapses (`GuardRead`, `DeleteWrite`, `Flush`,
  `GuardFill`); so is one whose entry Redis failed to drop (`FlushFails`), which the
  handler does not notice (`redis.service.ts:35`);
- a login by code, or one by Google that links an address, opens a session for a disabled account, which
  `signIn` refuses;
- two edits of a room, one of the price and one of the discount, leave a final price
  of neither (`homestay.service.ts:660`);
- two replacements of a homestay's tags leave the union of both
  (`homestay.service.ts:451`), or fail on the unique key;
- two admins can remove each other's role although the last one "cannot" be removed
  (`admin.service.ts:679`), unless a default admin is configured;
- overlapping completions of two invites can lose a provider type
  (`onboarding.service.ts:76`) while both give their roles;
- `addPoiToItinerary` calls it a conflict when a place is taken
  (`tours.service.ts:394`), but the unique key is on the day, the point and the place,
  so two points may have one place until the day is put in order, and one point two
  places, after which a reordering that names it fails;
- two notification runs that overlap mail everyone twice, a mail goes out to someone
  who left the list during the run, and outside production entries are marked although
  nothing is sent;
- a reset that is under way clears a link that was asked for meanwhile (`ResetRead`,
  `RequestWrite`, `ResetWrite`) and overrides a password an admin has set; it ends no
  session;
- `bucketlist.service.ts:358` says that BookingService calls `markItemBooked`; it does
  not, so no list is ever converted.

## Not modelled

- Uploads: a URL is signed and an object store does the rest. The clean-up of
  unused uploads looks for `TemporaryUpload` rows, which are created only for a user
  id that `S3Controller` does not pass, so it never has anything to do.
- The registry of sockets in Redis: a socket that reconnects may register before the
  old one unregisters and lose its entry. Only `emitToUser` reads the registry, and
  nothing calls it.
- E-mails: no handler waits for one or reads it back, and `sendEmail` swallows its
  errors, so its jobs never fail and are never tried again.
- Which products and first bookings a coupon is for, hashes of passwords, cookies and
  signatures: functions of one request, with no state that another could change in
  between.
- Addresses, community, memories, feature flags, cancellation policies, the texts of
  points of interest and days: each change is one statement on one row.
- Infrastructure: wiring, logging, health checks, query helpers.
- Two overlapping runs of one cron job: a run takes far less than its period.
- One booking table under RoomInventory, Checkout and CouponSlots at once. Each of
  them lets the others do to the status whatever the booking lifecycle allows
  (`PaymentWrites`, `LateDecision`, `Settle`), which both RoomInventory and Checkout
  implement, so a joint model would add states and no behaviour of a booking.

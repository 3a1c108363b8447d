# A formal model of api-neutra-v2

api-neutra-v2 is a multi-tenant REST API (Express, Prisma over PostgreSQL,
Redis, BullMQ) for shops and for businesses that take appointments. This
directory holds TLA+ modules that model its transactional core, the identities
and the provisioning behind it, and its WhatsApp channel; TLC configurations
that check them on small instances; and TLAPS proofs of what holds on instances
of every size. Paths below are relative to the root of the repository.
`PROJECT.json` is the machine-readable index: components, runs, mutants, the
source lines each definition models, findings, hazards, theorems.

## 1. Inventory

The program is layered: `infrastructure/routes` → `middleware` →
`interface-adapters/controllers` → use cases in `core/application` →
repositories in `infrastructure/database/prisma`. A request is one `async`
function that awaits one database statement after another. Of the use cases
modelled here, **none opens a transaction or takes a lock** (three repositories
do for one call each: `syncServices`, the `update` of a role, and
`updateTenantFeatures`), so at every `await` any other request may run.
A rejected statement becomes an error reply (`middleware/error.middleware.ts`);
nothing that was written is undone.

| Component | State it keeps | Operations | What is hard | What makes it correct |
|---|---|---|---|---|
| Appointments (`core/application/booking`) | appointments: staff, service, interval, status | create, cancel, updateStatus, delete, getAvailability | check-then-insert, stale status reads, a duration read twice, statuses that give a slot back | no double booking, final statuses stay final, the slots offered are those create accepts |
| Services and staff | services, staff, staff_services | create, update, delete, assign, sync | edits between two statements of a booking | durations positive, bookings refer to what exists |
| Carts (`core/application/cart`) | cart lines: amount by product, one cart per customer in all tenants | create, add, change, remove, clear | first-add races, a line read before the product, lines of several tenants | amounts positive, no line lost |
| Orders (`core/application/order`) | orders, items, status | createOrder, changeOrderStatus, updateOrder | five writes without a transaction, absolute writes of stock, two routes to the status | units conserved, status chain respected |
| Product stock (`core/application/products`) | products: stock | create, update, delete | written by checkout and by hand | stock never negative |
| Coupons (`core/application/coupons`) | coupons: active, expiry, limit, count | create, update, delete, validate, incrementUsage | validated and counted by different statements, or counted without validation; the limit is lowered without a look at the count | no more uses than the limit |
| Notification queue (`infrastructure/providers/bullmq-queue.provider.ts`, `infrastructure/workers/notification.worker.ts`) | BullMQ jobs, three attempts | enqueue, process, retry | an attempt that fails and a worker that dies repeat what was sent; settings are read before three awaits that use them; providers hide their errors | messages repeated only where unavoidable, switched-off channels unused, every job ends |
| Authentication (`core/application/auth`, `middleware/authorization…`) | JWT, Redis cache of permissions (1 h), reset tokens | login, register, resolve, forgot, reset | the cache is filled one await after it was read, and most writers do not invalidate it | a revoked right ends within the time to live |
| Users, roles, permissions | users, user-tenant links, roles, permissions | CRUD, assign | a role is looked up before it is assigned; a permission has one row for all tenants | nobody acts with another tenant's role |
| Tenants (`core/application/tenant`) | tenants, their configuration, their first roles | create, update, delete | a tenant is created in some fifty statements; its configuration is merged in memory; its deletion leaves its roles | what reports success is complete, names are unique, edits are not undone |
| Features (`core/application/feature`) | features, tenant_features, Redis cache | CRUD, updateTenantFeatures | cached features outlive an update | bookings notify, and WhatsApp is configured, only with the feature |
| WhatsApp (`core/application/whatsapp`, `infrastructure/webhooks`) | messages, conversations, configuration | webhook, bot reply, send, configure | redelivery, reordered statuses, a batch that is given up in the middle, webhooks handled at once | nobody is welcomed twice, what is acknowledged is done, statuses end up current |
| Routers and roles (`infrastructure/routes`, `prisma/seed.ts`) | tables in the source | – | three lists of permissions that nobody compares | every operation is open to somebody |
| Catalogue content (banners, categories, slides) | one row each | CRUD, counters | nothing interacts | – |
| Mail, push, logs, scripts | – | formatting, output | – | – |

How they interact: bookings and orders share the coupon's counter; carts and
orders share products; bookings read services, staff and the tenant's feature
flags and put jobs on the queue the worker consumes; every request resolves its
tenant and its permissions, the latter through a Redis cache, before a use case
runs; the roles a tenant is created with decide which routes are open in it.

`PROJECT.json` lists the hazards at their lines.

## 2. Modules

| Module | Models | Role |
|---|---|---|
| `Intervals` | the three alternatives of `checkAvailability`'s query, and `GetAvailability`'s overlap test | pure operators |
| `Booking` | appointments, services, staff, the coupon, the queue's producer | detailed model |
| `Calendar` | what the booking API promises: one diary, one operation at a time | abstract specification |
| `BookingCalendar` | `Booking` with the refinement mapping to `Calendar` | composition |
| `BookingProofs`, `BookingSafety` | theorems about `Booking`, the refinements to `Calendar` among them | proofs |
| `Checkout` | carts, stock, orders, the order coupon | detailed model |
| `Ledger` | what checkout promises of stock: units move with orders, in one step | abstract specification |
| `CheckoutLedger` | `Checkout` with the refinement mapping to `Ledger` | composition |
| `CheckoutProofs` | theorems about `Checkout`, the refinement to `Ledger` among them | proofs |
| `Sums` | lemmas about sums over finite sets | proofs |
| `Notifications` | the queue, its worker, the tenant's notification settings | detailed model |
| `NotificationProofs` | theorems about `Notifications` | proofs |
| `Identity` | login, authentication, the cache of permissions, and what changes what a user may do: roles, permissions, users, tenants, memberships | detailed model |
| `Authority` | what such a cache promises: no answer is trusted that has been untrue for longer than a window | abstract specification |
| `IdentityProofs` | theorems about `Identity`, the refinement to `Authority` among them | proofs |
| `Access` | the routers' table of guards, and the permissions of the seed, of a new tenant and of the documentation | pure data and operators |
| `Provisioning` | creation, edit and deletion of tenants, registration of users; uses `Access` | detailed model |
| `ProvisioningProofs` | theorems about `Provisioning` | proofs |
| `WhatsApp` | webhook, bot, sending, configuration, and the provider around them | detailed model |
| `WhatsAppProofs` | theorems about `WhatsApp` | proofs |
| `MCBooking`, `MCCheckout`, `MCNotifications`, `MCIdentity`, `MCProvisioning`, `MCWhatsApp` | constants, initial scenarios and symmetry for TLC | instances |

A definition with the comment *variant* next to it is a plausible bug of the
definition that follows it. No specification uses it; it serves to see that a
property fails when the code is changed that way (`mutants` in `PROJECT.json`).

### How state and actions correspond to the code

*A request is an actor.* `req[r]` is what the HTTP request asks for, `pc[r]`
the statement it awaits next, and the local variables (`checked`, `stored`,
`old`; `lines`, `todo`, `read`) hold what it has read. Each action is one
awaited statement with the code around it: what the code computes from earlier
reads is computed from the locals, and what it writes is written to the tables
as they are *now*. A guard that throws is the disjunct that goes to `failed`.

*Booking.* `FindService … Insert` are the statements of
`CreateAppointmentUseCase.execute`, in order; the availability check is the
database query (`ConflictQuery`), evaluated on the table at that moment, with
the end computed from the duration read by `findService`. `create` in the
repository reads the duration a second time and stores the end computed from
that one, hence the two locals `checked` and `stored`. Cancel, updateStatus and
delete share `FindAppointment`, `WriteStatus` and `DeleteRow`, since they read,
judge and write the same row and differ in `Permitted` and `NewStatus`.
`ReadFeatures` and `Enqueue` are the tail that create, cancel and updateStatus
share. `OfferedSlots` is `GetAvailabilityUseCase.execute` with the window of
its read (`ReadForList`) and the client's offset; unlike create it looks neither at
the activity of service and staff member nor at their assignment.
`UpdateCoupon` may change the limit, below the count too, or give it up;
`limits` remembers the limits there were. Edits of services,
staff and coupons are single statements as far as bookings can see (their
preliminary reads only decide on an error) and are one action each.

*Checkout.* `GetCart, CreateOrder, IncrementUsage, ReadStock, WriteStock`, then
`FindCart, ClearItems` are `CreateOrderUseCase.execute`. Items are written off in
any order, because the cart's query has no `ORDER BY`. A customer has one cart
(`findByUserId` asks for the user alone), but a request is made in a tenant:
`Found` is `findById`, which misses the products of other tenants, and
`ReadStock` passes over an item it does not find, as the `if (product)` of the
code does; `IncrementUsage` throws for another tenant's coupon. The cart use cases share `FindCart`
and differ in what follows. `validateCartTenant` counts a cart that is never
deleted, so it is not a step of its own.

*Failures.* `Interrupt(r)` (`Fail` in the later modules) ends a request before
any of its statements, as a rejected statement or the death of the process does;
what it wrote stays. That is the crash model, too: nothing of a request survives
in memory, and nothing resumes it. A retry is a new request. `WhatsApp` has an
action `Restart` besides, since a webhook that died is called again.

*Notifications.* A job is an actor, too. `pc[j]` is where it is: on the queue,
at one of the awaits of the worker's handler, or finished. `FindAppointment` and
`ResolveConfig` are the two reads, `Deliver(j, ch)` one channel after the other;
`reach` and `known` are what the attempt has read of the recipient and of the
settings. Which read, which provider and which error path is followed through
the providers: mail and WhatsApp catch every error and answer `false`, which the
worker ignores; the push provider has no transport; `resolveTenantConfig`
catches its error and leaves no settings at all. So only a failed
`FindAppointment` makes the handler throw. BullMQ is not in the repository and
is modelled from how the code configures it: `Throw` counts the attempt against
the `attempts` option; `Crash` is the death of the worker, after which its jobs
have stalled and are handed out again from the beginning, or are given up if
that happens more often than `MaxStalls`. Backoff only delays a job, which the
interleaving allows anyway. An edit of the settings that overlaps another may
put back what was stored before, so `UpdateTenant` may store either.

*Identity.* A slot of `Requests` is a request of a user or a login. `CacheGet`,
`FindById`, `CacheSet` are the three awaits of
`ResolveAuthenticatedUserUseCase.execute`: a hit decides by the entry alone, and
what was read from the database is stored one await later; `FindByEmail` and the
`CacheSet` that follows it are login. `decided` is the request after
`requirePermission` has looked at its permissions. A slot of `Admins` is an
operation of an administrator: assigning a role (`StartAssignRole`, `AddTenant`,
`SyncStaff`, `Invalidate`) and editing one (`StartUpdateRole`, `WriteRole`,
`ListHolders`, `Invalidate` for each holder) are several awaits; deletions and
renames, whose preliminary reads are repeated by the write itself, are one, and
leave the cache alone as the code does. `StartEnroll` begins what else ends in
`addTenant`: a staff record, made or edited, gives its user the role STAFF over
whatever role the user had; registration, social login, the creation of a user
or a tenant and getOrCreateByProvider give a role to a user who had none in
the tenant when it was looked up. None of them touches the cache. Their reads
before the role is looked up decide only whether, and to whom, it is given, and
are part of the start. `DeleteTenant` takes the
memberships along and leaves the roles without a tenant (`home`). `now` is the clock; an entry lives for
`TTL`, and what was read reaches Redis within `Latency`, the one assumption the
model makes about time. `lastHeld` and `excused` are history.

*Provisioning.* The actors are creations, registrations and edits. `FindBySlug`,
`Create`, `FindPermissions`/`CreatePermission` (one name after the other),
`CreateRole` (one role after the other) and `AddCreator` are
`CreateTenantUseCase.execute`; `Signup … Welcome` are `tenantMiddleware` and
`RegisterUseCase.execute`; `FindTenant` and `WriteTenant` are
`UpdateTenantUseCase.execute`. Finding permissions that exist, one await each, is
one action: nothing but a deletion could tell the reads apart, and a deleted
permission leaves `hand`, the ids that are still good, whenever it goes. What
the deletion of a tenant takes along follows the foreign keys of
`prisma/schema.prisma`: memberships go, roles stay without a tenant.
The initial state is the seed's. `Access` holds the guards of all routes and the
lists of permissions, literally, and `RoutesAreOpen` compares them.

*WhatsApp.* A worker is a webhook being handled: `body` are its events, `rest`
those still to come. `FindConfig`, `FindConversation`, `OpenConversation` and
then the sending are one message, `UpdateStatus` is one status, `Acknowledge` the
answer 200. An error in `processIncomingMessage` ends the webhook with an
error (`Answer`), one in the bot is caught and counts as handled (`GiveUp`); which
await is under which `try` decides between the two. `ConfigOf`, `Post`,
`SaveMessage` are `sendTextMessage` and `sendTemplateMessage`. The provider is
external: it may put any events that it has not got rid of into any webhook, in any order
(`Deliver`), may miss an answer (`Acknowledge`), and reports a message's way
step by step (`Report`).

*Data.* Times are small integers; a service is its duration and an active flag;
expiry, minimum purchase and applicability of a coupon are one flag `usable`;
the configuration of a tenant is the set of edits it reflects; an e-mail address
is a user; names, prices and notes are left out. Deletions follow the foreign keys of
`prisma/schema.prisma`: appointments restrict the deletion of their service and
staff member, order items that of their product; staff_services and cart lines
go with what they refer to; orders lose a deleted coupon.

## 3. Runs

`CHECK_DEADLOCK FALSE` everywhere: a finite set of requests ends, and then the
system stops. The longest runs take one to three minutes with two workers.

| Run | Bounds | Shows |
|---|---|---|
| `booking_race` | 3 requests, 2 at once, 1 staff, 1 service, 2 starts, durations 1 and 3 (by one edit), statuses CONFIRMED and NO_SHOW besides those of create and cancel, a coupon of limit 0 or 1, edited too | **TypeOK**; **CalendarButForRaces**: a change of the diary is an operation of the calendar, or the write of a request that was overtaken between its check and its write; **OverlapOnlyByRace**: of two overlapping bookings, neither check saw the other, or a duration drifted; **CouponOvershootBounded**: three requests could count three uses, two at a time count one too many at most, by the highest limit there was; **FinalChangedOnlyByStaleRead**, **NoticesBeliedOnlyByRace**, **ImplementsLooseCalendar**: what status changes can and cannot do when they overlap |
| `booking_serial` | 3 requests, one at a time, 2 edits, 1 use of the coupon by an order, no NO_SHOW, a day of 2 slots, 2 client offsets, a window that misses what begins before it | **ImplementsCalendar**: the eight-statement booking is one operation of the calendar when nothing overlaps; **OffersDifferAsListed**: what create accepts of the slots of a day, as against what the list offers; **NeverInProgress** |
| `checkout_race` | 3 requests, 2 at once, 1 user, 2 products, with and without the coupon, 1 edit | **TypeOK**, **CheckoutsAreConsistent**, **StockNeverUnderstated**, **UsageNeverExceedsOrders**, **StatusJumpExplained** |
| `checkout_tenants` | 2 requests at once, 2 users, 2 products of 2 tenants, a coupon of one of them, 1 edit | **LedgerButForLostUpdates**: stock moves with the orders, item by item, but for lost updates; **LinesLeaveForAReason**: how a line can leave a cart |
| `checkout_liveness` | 2 requests of all eight kinds, 1 edit, no symmetry | **EveryRequestEnds** |
| `notifications` | 2 jobs of 2 types, 2 attempts, 1 stall, 1 slot, every set of channels, 1 edit | **TypeOK**; **DuplicatesOnlyByCrash**: errors alone never repeat a message; **SettingsHonoured**: a switched-off channel is used only with unread or edited settings; **EveryJobEnds** |
| `identity` | 1 user, 2 tenants, 3 roles, 1 permission and 1 free name, 1 request, 1 administrator, 2 changes, lifetime and latency 1, time to 3 | **TypeOK**; **RolesAreOwnOrGlobal**; **StaleEntriesAreExcused**: an entry that grants too much is about to be deleted, or has one of the excuses the code gives it; **KeepsPromise**: `Identity` implements `Authority` with the window TTL + Latency |
| `provisioning` | any 3 of 2 creations, 2 registrations and 2 edits, 2 deletions, 2 slugs, 2 users | **TypeOK**, **NamesAreUnique**, **MembersRolesAreTheirTenants**, **SuccessMeansComplete**, **RoutesAreOpen**, **EditsAreLostToConcurrentOnes** |
| `whatsapp` | 2 webhooks at once, 3 in all, 2 events each, 3 messages of one customer, 2 messages out, 2 statuses of each; or 1 message and a request | **TypeOK**, **WelcomesAreNotRepeated**, **ConversationsAreFew**, **AnsweredMeansDone**, **StatusesAreCurrent** |
| `booking_double`, `checkout_oversell`, `access_documented` | see section 4 | violations |

Why the bounds are enough. A race takes two requests, and a third to be the
victim of what two did (the appointment being changed is itself inserted by a
request); more requests repeat the same pairs. Two starts and two durations give
equal, touching, nested and partly overlapping intervals, which is all the
overlap tests can tell apart. Two products are what a loop over items needs to
be interrupted between them, and two tenants to own one each; two users are what
a shared stock needs. Rows per table beyond these do not interact.
`MaxInFlight`, `MaxAdmin`, `MaxOrders` and `Kinds` are bounds of the model, not
of the code; the theorems of section 5 hold for all their values. (The coupon
bound names `MaxInFlight`, which then stands for the real number of requests in
progress.) `booking_serial` serves one request at a time since it asks what the
use cases do when nothing overlaps; what changes when requests do overlap is
`booking_race`'s question, and `CalendarButForRaces` answers it without that
restriction.
Of the queue, two jobs show that one waits for the slot of the other; two
attempts and two deaths (the first stalls, the second gives up) reach every
outcome of a failure. The code gives three attempts and five slots: more of
either repeats the same steps, and the theorems of section 5 hold for any
number. The types checked are CONFIRMED, which uses all channels, and
WELCOME_EMAIL, which reads no appointment; the others walk through a part of the
same steps, and the theorems cover them.

Of identities, one user, one request and one administrator suffice for the
races of the cache: a request between its read and its write, an operation between its
change and its invalidation. With one slot for administrators, two of their operations follow each
other and do not overlap; that one overtakes another (a staff record made before
an edit of a role lists its holders) is left to the theorems, which hold for any
number of slots. The entries of different users and tenants do not
meet, except where one operation concerns several (a role with several holders),
for which there are two tenants and roles of each kind: a tenant's own, a global
one, and SUPER_ADMIN. Time to 3 lets an entry expire and be filled again. The
theorems of section 5 hold for any numbers.
Of provisioning, all pairs of requests of the same or of different kinds occur,
with a third to run into what two have left; two deletions are needed for a
tenant and a permission to go. The one permission that may be deleted is one
that every role of a tenant has; `KnownClosed` would name others' routes.
Of WhatsApp, the scenarios split what would not fit into one state space: two
webhooks at once over three messages of one customer, two of which must share a
batch and one of which greets, or one message with its statuses, a request to
send, to configure or to set features, and an inbox that refills. Statuses are
told up to `delivered`, which is enough to come before the row, late, or twice.

Requests are interchangeable until they begin, users, permissions and the products of one
tenant until they are named, which is the symmetry used; runs with liveness or with an initial
state that names its members use none.

*Fairness.* `FairSpec` asks weak fairness of each request's own next statement:
Node's event loop runs the continuation of every settled await, and the
database, Redis and the queue settle every call (with an error at worst, which
`Interrupt` models but nothing forces). Arrivals, edits and failures are not
fair. `Checkout` states liveness because its checkout loops over the items of a
cart: `EveryRequestEnds` says that the loop ends and no request waits for
another one. `Notifications` states it because jobs go back to the queue:
`EveryJobEnds` says that attempts and stalls are counted, under weak fairness of
`Work(j)`, a worker that takes the jobs it may take and whose awaits settle. The
use cases of the other modules are straight lines, or loops over lists that are
fixed in the source, so their termination is not a question; and that the provider calls a refused
webhook again is up to the provider, so no liveness of WhatsApp is claimed.

## 4. Findings

Runs that TLC refutes, each with what the repository says otherwise:

1. `booking_double`: two requests book the same slot; create checks, then inserts
   (`core/application/booking/create-appointment.use-case.ts:75`, "The selected time slot is already booked").
2. `checkout_oversell`: checkout never compares stock with amounts
   (`core/application/order/create-order.use-case.ts:94`).
3. `access_documented`: the seeded roles lack permissions that
   `docs/API_PERMISSIONS.md` gives them (`prisma/seed.ts:111`).

The passing runs delimit them, and bound what else goes wrong.

*Booking and checkout.*
- Finding 1 is one of three ways to a double booking; the others are a duration that drifts, and a
  NO_SHOW appointment whose slot was booked again and which is confirmed after
  all (`core/application/booking/update-appointment-status.use-case.ts:42`).
  There is no fourth (`OverlapOnlyByRace`). The last is no race: it happens one request
  at a time, and the calendar allows it, since its promise is that a *booking*
  lands on a free slot and not that a revival does.
- A stale updateStatus can overwrite a cancellation
  (`update-appointment-status.use-case.ts:59`), and then the notice of the
  cancellation, already queued, is untrue (`NoticesBeliedOnlyByRace` says that there is
  no other way). A final status changes only like this
  (`FinalChangedOnlyByStaleRead`). Altogether, an overlap breaks the calendar only
  where a request writes after it was overtaken (`CalendarButForRaces`).
- The list of slots offers what create refuses: slots of services and staff
  members that are inactive or not assigned to each other, and slots that an
  appointment reaches into which began before the day before
  (`core/application/booking/get-availability.use-case.ts:51`). There is no other
  difference on positive durations (`OffersDifferAsListed`); apart from these,
  create accepts the slots of the day that are offered.
- Concurrent bookings can exceed a coupon's limit
  (`core/application/coupons/validate-coupon.use-case.ts:42`), but by less than
  the number of requests in progress (`CouponOvershootBounded`). That is measured
  by the highest limit the coupon has had: an edit may lower the limit below the count by any
  amount (`infrastructure/database/prisma/coupon.prisma-repository.ts:187`), and
  nothing is claimed of a coupon that once had no limit. The repository
  stores neither the coupon nor the discount, and totals of zero, whatever the use case computed
  (`infrastructure/database/prisma/appointment.prisma-repository.ts:133`).
- Of two checkouts that read one stock, one deduction is lost
  (`core/application/order/create-order.use-case.ts:94`). Lost updates leave the
  stock too high, never too low (`StockNeverUnderstated`), and are the only
  thing that changes the stock otherwise than order by order
  (`LedgerButForLostUpdates`).
- A cart holds lines of all tenants, and a checkout orders them all, but finds
  only the products of its own tenant: the items of another are ordered and
  never written off, without an error (`create-order.use-case.ts:93`). It takes
  no overlap. The ledger counts them, and what a failed checkout has not written
  off, as owed for ever; it does not promise that debts are paid.
- A coupon of another tenant is accepted by the insert and refused by the
  increment after it: the order exists, its stock is not written off, the cart is still full,
  and the answer is an error (`create-order.use-case.ts:85`).
- Checkout clears the cart as a whole: a line that was added or changed after
  the checkout had read the cart is wiped without having been ordered in that amount
  (`create-order.use-case.ts:101`). Lines leave in no other unexpected way
  (`LinesLeaveForAReason`).
- An order's status jumps over its chain only through `PUT /order/:id`, which
  does not know the chain (`core/application/order/update-order.use-case.ts:13`),
  or an overtaken read (`StatusJumpExplained`).
- Orders count uses of a coupon they never validate
  (`core/application/order/create-order.use-case.ts:84`), but no more such uses than
  there are orders (`UsageNeverExceedsOrders`; the uses that bookings add to the
  same counter are in `Booking`).
- One promise is kept too well: no sequence of requests starts an appointment
  (`NeverInProgress`).

*Notifications.*
- The worker logs a mail as sent, and completes the job, although the transport
  refused it (`infrastructure/workers/notification.worker.ts:193`). That nothing
  is retried also has a good side: a message is repeated
  only when the worker dies (`DuplicatesOnlyByCrash`). A provider that passed its
  errors on would break this, as the property's mutant shows.

*Identity.*
- Most writers leave the cache alone: whoever deletes a role, a permission, a
  user or a tenant, renames a permission, or edits a role from elsewhere. Making
  somebody staff replaces the role they had, even an administrator's, and leaves
  the old permissions in force
  (`core/application/booking/create-staff.use-case.ts:42`,
  `update-staff.use-case.ts:55`); so does joining a tenant while a role is being
  assigned (`core/application/auth/social-login.use-case.ts:80`). Either of them,
  done before an edit of the former role lists its holders, takes the user off
  that list, too. Besides, an operation may fail before its invalidation, and what was
  read before a change may be stored after it. `StaleEntriesAreExcused` lists
  these and says that, of the operations modelled, no other leaves an entry that
  grants too much; all of it ends with the lifetime of the entry
  (`KeepsPromise`).

*Provisioning.*
- A creation that fails leaves an active tenant with some of its roles; a
  registration that fails leaves a user without a tenant, whose address cannot
  be registered again. Neither reports success (`SuccessMeansComplete`).
- The roles of a deleted tenant become visible to all tenants, and registrations,
  which look their role up by its name without an order, may get one of them
  (`MembersRolesAreTheirTenants` names this as its exception).
- In a new tenant no role may use carts, change orders, or reach slides, features and
  logs: the creation does not hand out the permissions the routers ask for
  (`core/application/tenant/create-tenant.use-case.ts:35`;
  `RoutesAreOpen` says that these are all).
- Edits of a tenant are lost only to edits that overlapped them
  (`EditsAreLostToConcurrentOnes`).

*WhatsApp.*
- Two messages of a new customer handled at once open two conversations, and
  welcome twice, once for each message; one message is welcomed once
  (`WelcomesAreNotRepeated`, `ConversationsAreFew`). A reply has no such guard
  and is repeated with the webhook. A crash between the conversation and its
  welcome means that there is never one.
- The status that comes last is kept, even if it is an older one
  (`StatusesAreCurrent` names the crossing as its exception). A status of a
  message that was never saved, because `SaveMessage` failed, is refused for ever.

Some divergences need no run to be seen: update-service stores the durations
create-service refuses (`core/application/booking/update-service.use-case.ts:49`
against `create-service.use-case.ts:29`), and add-to-cart takes the amounts
change-amount refuses (`core/application/cart/add-to-cart.use-case.ts:42`
against `change-amount.use-case.ts:18`). The model lets both in, through
`EditDurations` and `AddAmounts`, and the properties that depend on positive
values say so: `OffersDifferAsListed`, `StockNeverUnderstated`. Configuring
WhatsApp asks for the feature WHATSAPP_NOTIFICATIONS, while the seed creates
WHATSAPP_API; `botEnabled` is stored and never read; nothing makes a phone
number belong to one tenant (`FindConfig` may find either); `requireFeature`,
the creation of users and getOrCreateByProvider are reached by no route.

## 5. Proofs

Every property of the passing runs other than liveness is the statement of a
theorem (`ImplementsCalendar` is one's conclusion, under the condition it states). Each theorem holds for all values of the constants that satisfy the
named assumptions of the module, and rests on an inductive invariant: the
property itself seldom is one.
No theorem restricts how many requests overlap. What overlaps break is stated in two ways:
the theorem that every step is one of the abstract specification or a step of
the named kind that overlaps cause, and the refinement of every behaviour that
has no such step.

**Booking**, for `BookingConstants` (finitely many requests, integer times,
positive durations at creation only, any edited durations, any limit and bounds):

| Theorem | Statement | Argument |
|---|---|---|
| `TypeCorrect` | `Spec => []TypeOK` | `TypeOK` is not inductive: what `Insert` stores is typed only if it runs with a create request. `TypeInv` adds `StepsFit`: each statement runs with the input its use case takes. |
| `QueryFindsOverlaps`, `QueryIsOverlap` | the query finds every overlap; between intervals of positive length it finds nothing else | linear arithmetic on four integers |
| `DoubleBookingsAreRaces` | `Spec => []OverlapOnlyByRace` | `SlotInv`: what a check saw stays clear of the slot it was made for, because staff, start and end of a row never change and a deleted row is never inserted again (its request is past its insert). With `QueryFindsOverlaps`, a clash then needs an unseen row or a drifted duration. |
| `InProgressUnreachable` | `Spec => []NeverInProgress` | `StatusInv`: whoever is about to write a status has read one that permits it, and none of those leads to IN_PROGRESS |
| `FinalChangesAreStale` | `Spec => FinalChangedOnlyByStaleRead` | only `WriteStatus` changes a status, and by `StatusInv` its request had read a modifiable one |
| `OvershootIsBounded` | `Spec => []CouponOvershootBounded` | `CouponInv` adds that at most `MaxInFlight` requests are in progress: when a validation succeeds, the count is below a limit the coupon has had, and all redeeming requests, this one included, are among those in progress |
| `OffersDifferFromBookings` | `Spec => []OffersDifferAsListed` | `TypeInv`, and linear arithmetic: the two overlap tests agree on intervals of positive length, and the rest of the two guards is compared conjunct by conjunct |
| `BookingImplementsLooseCalendar` | `Spec => ImplementsLooseCalendar` | step by step: `Insert`, `WriteStatus` and `DeleteRow` are operations of the calendar, with `StatusInv` for the statuses, and every other step stutters |
| `BookingIsCalendarButForRaces` | `Spec => CalendarButForRaces` | step by step: an `Insert` that was not overtaken has the duration it was checked with and saw all that blocks its staff member now, so by `SlotInv` its slot is free; a `WriteStatus` that was not overtaken writes over the status it read, which by `StatusInv` permits it and is not final |
| `BookingImplementsCalendar` | `Spec /\ [][~OvertakenStep]_vars => ImplementsCalendar` | the same step lemma, without its second case |
| `NoticesAreBeliedByRaces` | `Spec => []NoticesBeliedOnlyByRace` | `NoticeInv`: from the write on that is to be announced, the appointment is CANCELLED, gone, or in `overwritten`: a writer that read the status it writes over cannot have read CANCELLED (`StatusInv`), and deleted rows do not come back |

**Checkout**, for `CheckoutConstants` (finitely many requests and products, any
customers, any integer amounts and stock set by hand):

| Theorem | Statement | Argument |
|---|---|---|
| `CheckoutTypes`, `ConsistentCheckouts` | `Spec => []TypeOK`, `Spec => []CheckoutsAreConsistent` | one induction, of `Inv`: `Placed` says what each statement finds of its request, `Owes` how a checkout stands to its order. That an item to be written off still has its product needs the order, and that the order has it needs the checkout's lines. |
| `JumpsAreExplained` | `Spec => StatusJumpExplained` | only `WriteStatus` changes a status; by `Placed` a changeStatus writes what follows the status it has read, so what is written follows the present status or the read was overtaken |
| `UsesHaveOrders` | `Spec => []UsageNeverExceedsOrders` | `CouponInv` counts only the orders with the coupon whose checkout is past its increment; who is about to increment is one that is not counted yet |
| `StockIsNeverUnderstated` | `Spec => []StockNeverUnderstated` | `StockInv`: neither the stock nor what a checkout has read of it is below what the orders leave that have written the product off. A write that overtakes another restores a value that was above that bound when it was read; meanwhile the bound only fell, as amounts are positive. |
| `CheckoutIsLedgerButForLostUpdates` | `Spec => LedgerButForLostUpdates` | step by step, with `Inv`: `CreateOrder` enters all its items as owed, a `WriteStock` whose read is still true pays one of them, a passed-over item stays owed because it is of another tenant, and a failed checkout's items stay on its list |
| `CheckoutImplementsLedger` | `Spec /\ [][\A r \in Requests : ~LostUpdate(r)]_vars => ImplementsLedger` | the same step lemma, without its second case |
| `LinesLeaveWithReason` | `Spec => LinesLeaveForAReason` | `HoldsCart`: while a checkout is between reading and clearing the cart, each line of it is one the checkout has read, in that amount, or is noted in `since`; and by `Owes` the order has what was read |

`Sums` proves what these need of the community modules' sum over a finite set:
its type, that it does not depend on the order (`SumTakeOut`), and that it grows
with non-negative values. The recursion behind it is unfolded by the argument of
the *smallest counterexample*: a finite set of sets has a minimal member, on
which the claim follows from that of its subsets. This replaces the library's
theorems of induction, which none of the provers here can instantiate.

**Notifications**, for `NotificationConstants` (finitely many jobs of any
type, any number of attempts, slots and stalls, any settings):

| Theorem | Statement | Argument |
|---|---|---|
| `NotificationsTyped` | `Spec => []TypeOK` | `TypeInv` adds that a job that has not failed has attempts and stalls left, without which counting one more could pass the limit |
| `DuplicatesNeedACrash` | `Spec => []DuplicatesOnlyByCrash` | `SentInv` says for each place of the handler how often each channel can have been used: an attempt that has not reached a channel has used it at most once per death before, and only `FindAppointment`, which comes before all of them, sends a job back alive |
| `SettingsAreHonoured` | `Spec => SettingsHonoured` | only `Deliver` sends, and it looks at `known` |

**Identity**, for `IdentityConstants` and `NoneIsNoOperation` (any users, tenants,
permissions, requests and administrators, finitely many roles, any lifetime and
latency):

| Theorem | Statement | Argument |
|---|---|---|
| `IdentityTyped` | `Spec => []TypeOK` | inductive as it stands |
| `RolesStayAtHome` | `Spec => []RolesAreOwnOrGlobal` | `RoleInv` adds that whoever is about to give a role names one that is visible in its tenant; the tenant of a role changes only with the tenant's deletion, which takes all its memberships along |
| `RevocationTakesEffect` | `Spec => KeepsPromise`, the refinement to `Authority` | `FreshInv`: `lastHeld` is true of what is held now; what a request has read was held at `since`, which the clock may leave behind by less than `Latency` while it waits to be stored; and what an entry grants was held no longer before its end than TTL + Latency. So a hit, an entry not expired, is decided by what was held within the window. Nothing of the invalidation is used: the promise rests on the lifetime alone. |
| `StaleEntriesHaveReasons` | `Spec => []StaleEntriesAreExcused` | `StaleInv` adds that an operation between its change and its list of holders accounts for every holder, and that a role not created yet grants nothing. What is still to be given is on its operation's list from the start (`ToDelete`), if that operation will delete it. Each step that takes something away puts the entry on an operation's list or among the excused, and each step that strikes an entry off a list deletes it or excuses it. |

**WhatsApp**, for `WhatsAppConstants`, `NoneIsNotSaid` and `NoneIsNoStatus` (any
tenants, customers and limits, finitely many messages and workers):

| Theorem | Statement | Argument |
|---|---|---|
| `WhatsAppTyped` | `Spec => []TypeOK` | `TypeInv` adds that batches hold events, and that whoever sends knows what and for whom |
| `WelcomesOnce` | `Spec => []WelcomesAreNotRepeated` | `WelcomeInv`: of each message there is at most one welcome, on its way or sent, and only if its conversation is open. The unique id makes `OpenConversation` succeed once, and the welcome is sent by whom it succeeded for. |
| `AnsweredIsDone` | `Spec => []AnsweredMeansDone` | `DoneInv`: of a webhook in progress, each event is done or still to come; and a worker past `FindConversation` is in a conversation of its sender. What is done stays done, since neither conversations nor messages nor records go away. |
| `CustomersHaveFewConversations` | `Spec => []ConversationsAreFew` | `FewInv`, by counting: a customer's conversations and the webhooks about to open one are together no more than the workers. A webhook decides to open one only while there is none, and then the others that did are among the other workers. |
| `RowsFollowReports` | `Spec => []StatusesAreCurrent` | `CurInv`: what the provider has reported is to be handed over or was recorded, nothing else is; a row holds the latest recorded status or the message has crossed; and a message is saved once. So when nothing is left to hand over, all was recorded, the last report too. Uses `DoneInv`: an acknowledged status was recorded. |

**Provisioning**, for `ProvisioningConstants`, `NoneIsNoRole`, `NoneIsNoGrant` and
`SeededRolesAreSeeded` (any requests, users and slugs):

| Theorem | Statement | Argument |
|---|---|---|
| `OnlyConcurrentEditsAreLost` | `Spec => []EditsAreLostToConcurrentOnes` | `EditInv`: of an edit that was stored, its values are in the configuration, or an overlapping edit was stored in the same tenant; and an edit in progress has seen the values of all that had ended before it began, less those already lost |
| `NamesStayUnique` | `Spec => []NamesAreUnique` | `NamesInv` adds that a registration past `CreateUser` owns its address; `SlugsStayUnique`: who writes a slug that nobody present has keeps slugs apart |
| `RolesAreTheTenants` | `Spec => []MembersRolesAreTheirTenants` | `HomeInv` adds that the role a registration has found is its tenant's or that of a deleted one, that a role exists only where the tenant once did, and that a tenant about to be created never existed; so one that is gone does not come back |
| `SuccessIsComplete` | `Spec => []SuccessMeansComplete` | `RolesInv`: a role that a creation has yet to make has lost nothing, and one it has made has its permissions, less what was taken from it; `PresenceInv`: nobody registers as the creator, who exists from the start, and who was let in stays in as long as the tenant does |
| `ProvisioningTyped` | `Spec => []TypeOK` | `TypeInv` joins the above with `PermissionsInv` (what a creation looks for and has in hand), `GrantsInv` (a role has a name its tenant's roles may have, and its permissions less deleted ones) and `MembersInv` (members and their roles exist, and so does a role about to be given) |
| `NewTenantsAreOpen` | `Spec => []RoutesAreOpen`, if `ClosedByDesign = KnownClosed` | in a completed tenant, `RolesInv` and `GrantsInv` leave the default roles, all of them and no others, as they are written; hence what is closed is `ClosedByDesign`. The hypothesis has no variable: it compares two tables of permission names in `Access`, strings put together from others, which is for TLC to evaluate (it does in `provisioning`, whose `RoutesAreOpen` would fail otherwise) and not for the provers. |

The assumptions named `None…` say that the model value `None` is none of the
values it is to be told apart from; `SeededRolesAreSeeded` compares two tables of
the seed. TLC evaluates all of them in the runs.

Each invariant is proved with one lemma per group of actions: `…Quiet…`,
`…Stays` and `…Keep…` lemmas say that most steps leave the relevant state alone,
and one lemma treats each step that does not.

*Only model-checked*: liveness (`EveryRequestEnds`, `EveryJobEnds`), which is out
of the proof system's reach, as is ENABLED; and the ground comparison
`ClosedByDesign = KnownClosed`.

## 6. Plan

Modelled and proved, with what is left of each:

1. `Booking` and its calendar. Proofs complete.
2. `Checkout` and its ledger. Proofs complete but for `EveryRequestEnds`.
3. `Notifications`. Left: its composition with `Booking`'s producer, to say which
   notices can be untrue or out of order, since the worker never looks at the
   appointment's status.
4. `Identity` and `Authority`. Proofs complete. Left to model: password reset
   (two reads and one update of one row).
5. `Access` and `Provisioning`. Proofs complete.
6. `WhatsApp`. Proofs complete.
7. `CouponRules`, still to come: discount arithmetic against a reference
   definition over bounded inputs (`calculateDiscount`, `ValidateCouponUseCase`).

Runs are kept few, one per question: each component has one passing run that
carries its type invariant and its properties together, and a second one only
where a property needs other bounds.

## 7. Not modelled, and why

Read-only listings and statistics change nothing. Catalogue content (banners,
categories, slides) is one row per operation, with no interaction. OpenAPI text,
presenters, DTO shapes, templates, mail transport, the `.ics`
generator and maintenance scripts are formatting, input and output.
Prices and totals of orders are data no property here depends on; the discount
of a booking is computed and then not stored. Passwords and tokens are not
modelled: what a token says is the role its user logged in with. The catalogue of
features is one row per operation; its flags are modelled where they are read.
Rate limits, CORS and the wide log leave no state that a request reads again.

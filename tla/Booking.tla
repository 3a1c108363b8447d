------------------------------- MODULE Booking -------------------------------
(***************************************************************************)
(* Appointments of one tenant, as the booking use cases create, cancel,    *)
(* re-status and delete them.  Each HTTP request is an actor: it runs one  *)
(* use case, and every await of that use case is one action, so that any   *)
(* two requests interleave between any two database statements.  Nothing   *)
(* in these use cases runs in a database transaction or holds a lock.      *)
(*                                                                         *)
(* An appointment is named by the request that inserted it (a request      *)
(* inserts at most one, and ids are never reused).                         *)
(***************************************************************************)
EXTENDS Integers, FiniteSets, Intervals

CONSTANTS
    Requests,       \* HTTP requests; each runs one use case, once
    Staff,          \* staff members of the tenant
    Services,       \* services of the tenant
    Starts,         \* start times a client asks for
    Durations,      \* service durations accepted when a service is created
    EditDurations,  \* service durations a later edit may set
    Codes,          \* whether a client sends a coupon code: subset of BOOLEAN
    StatusInputs,   \* statuses a client sends to PUT /appointments/:id/status
    Limits,         \* usageLimits the coupon is given, NoLimit among them
    NoLimit,        \* ... for a coupon without one
    WorkStart,      \* the working day of the list of offered slots ...
    WorkEnd,        \* ... its end (exclusive) ...
    SlotStep,       \* ... and the distance between two slots
    Offsets,        \* from the server's clock to the client's: timezoneOffset
    ReadFrom,       \* the list reads appointments that begin from here ...
    ReadUntil,      \* ... until here: the day before to the day after
    MaxInFlight,    \* bound: requests in progress at the same time
    MaxAdmin,       \* bound: edits by administrators
    MaxOrders       \* bound: redemptions of the coupon by shop orders

Status == {"PENDING", "CONFIRMED", "IN_PROGRESS", "COMPLETED", "CANCELLED",
           "NO_SHOW"}

ASSUME BookingConstants ==
    /\ IsFiniteSet(Requests)
    /\ Starts \subseteq Int
    /\ Durations \subseteq Int /\ \A d \in Durations : d > 0
    /\ EditDurations \subseteq Int
    /\ Codes \subseteq BOOLEAN
    /\ StatusInputs \subseteq Status
    /\ Limits \subseteq Nat \cup {NoLimit} /\ NoLimit \notin Nat
    /\ WorkStart \in Int /\ WorkEnd \in Int /\ SlotStep \in Nat \ {0}
    /\ Offsets \subseteq Int /\ ReadFrom \in Int /\ ReadUntil \in Int
    /\ MaxInFlight \in Nat \ {0}
    /\ MaxAdmin \in Nat /\ MaxOrders \in Nat

VARIABLES
    service,    \* rows of the services table: present, active, duration
    staff,      \* rows of the staff table: present, active
    offers,     \* rows of staff_services: pairs <<staff, service>>
    coupon,     \* the tenant's coupon: present, usable, usageLimit, usageCount
    email,      \* the tenant's EMAIL_NOTIFICATIONS feature
    appt,       \* appointments, by the request that inserted them
    job,        \* the notification job each request put on the queue
    req,        \* what each request asks for
    pc,         \* the statement each request runs next
    checked,    \* local: the service's duration, read before the check
    stored,     \* local: its duration as create reads it again
    old,        \* local: the status findById returned
    seen,       \* history: the blocking appointments the check could see
    orderUses,  \* history: coupon uses counted by orders, not bookings
    limits,     \* history: the usageLimits the coupon has had
    overwritten,\* history: appointments whose status was written by a
                \* request that had read another one
    admin       \* number of administrative edits so far

tables == <<service, staff, offers, coupon, email>>
locals == <<checked, stored, old>>
history == <<seen, orderUses, limits, overwritten, admin>>
vars == <<tables, appt, job, req, pc, locals, history>>

------------------------------------------------------------------------------
(* Data *)

Appointment == [staff: Staff, service: Services, start: Int, end: Int,
                coupon: BOOLEAN, status: Status]
NoAppointment == [status |-> "none"]   \* not inserted yet, or deleted

CreateRequest == [kind: {"create"}, staff: Staff, service: Services,
                  start: Starts, code: Codes]
CancelRequest == [kind: {"cancel"}, target: Requests]
StatusRequest == [kind: {"updateStatus"}, target: Requests, status: StatusInputs]
DeleteRequest == [kind: {"delete"}, target: Requests]
NoRequest == [kind |-> "none"]

JobType == {"PENDING_APPROVAL", "CONFIRMED", "CANCELLED"}

AtRest == {"idle", "done", "failed"}
Steps == {"findService", "findStaff", "getServices", "checkAvailability",
          "findCoupon", "incrementUsage", "readDuration", "insert",
          "findAppointment", "writeStatus", "deleteRow", "features", "enqueue"}

\* appointment.entity.ts
isCancellable(st) == st \in {"PENDING", "CONFIRMED"}
isModifiableUnlessCompleted(st) == st # "COMPLETED"   \* variant: CANCELLED forgotten
isModifiable(st) == st \notin {"COMPLETED", "CANCELLED"}
hasStarted(st) == st \in {"IN_PROGRESS", "COMPLETED"}

Stored(a) == appt[a] # NoAppointment
ConfirmedOnly == {"CONFIRMED"}   \* variant: PENDING no longer blocks
BlockingStatus == Status \ {"CANCELLED", "NO_SHOW"}
\* Appointments that take up the time of staff member w.
Blocking(w) == {a \in Requests : /\ Stored(a)
                                 /\ appt[a].staff = w
                                 /\ appt[a].status \in BlockingStatus}

\* PrismaAppointmentRepository.checkAvailability
CheckAvailability(w, s, e) ==
    \A a \in Blocking(w) : ~ConflictQuery(appt[a].start, appt[a].end, s, e)

\* What GetAvailabilityUseCase reads: the blocking appointments that begin
\* within its window, whenever they end.
ReadForList(w) == {a \in Blocking(w) : appt[a].start \in ReadFrom .. ReadUntil}

\* The slots of the working day, one every SlotStep time units, that are not
\* past and that no appointment read overlaps; a slot begins off later for
\* the client.  Whether service and staff member are active, and whether the
\* one offers the other, is not looked at.
OfferedSlots(w, sv, now, off) ==
    {t \in WorkStart .. (WorkEnd - 1) :
        /\ service[sv].present /\ staff[w].present
        /\ (t - WorkStart) % SlotStep = 0
        /\ t + off >= now
        /\ t + service[sv].duration <= WorkEnd
        /\ \A a \in ReadForList(w) :
              ~Overlaps(appt[a].start, appt[a].end,
                        t + off, t + off + service[sv].duration)}

InFlight == {r \in Requests : pc[r] \notin AtRest}

At(r, step) == pc[r] = step
Goto(r, step) == pc' = [pc EXCEPT ![r] = step]

------------------------------------------------------------------------------
(* A request arrives.  The server bounds neither their number nor their    *)
(* order; a client can only name an appointment that has been inserted.    *)

Begin(r, input, first) ==
    /\ At(r, "idle")
    /\ Goto(r, first)
    /\ Cardinality(InFlight) < MaxInFlight
    /\ req' = [req EXCEPT ![r] = input]
    /\ UNCHANGED <<tables, appt, job, locals, history>>

StartCreate(r) == \E input \in CreateRequest : Begin(r, input, "findService")

StartChange(r) ==
    \E input \in CancelRequest \cup StatusRequest \cup DeleteRequest :
        /\ Stored(input.target)
        /\ Begin(r, input, "findAppointment")

------------------------------------------------------------------------------
(* POST /appointments *)

FindService(r) ==
    LET row == service[req[r].service] IN
    /\ At(r, "findService")
    /\ \/ /\ row.present /\ row.active
          /\ Goto(r, "findStaff")
          /\ checked' = [checked EXCEPT ![r] = row.duration]
       \/ /\ ~(row.present /\ row.active)
          /\ Goto(r, "failed")
          /\ UNCHANGED checked
    /\ UNCHANGED <<tables, appt, job, req, stored, old, history>>

FindStaff(r) ==
    LET row == staff[req[r].staff] IN
    /\ At(r, "findStaff")
    /\ \/ /\ row.present /\ row.active
          /\ Goto(r, "getServices")
       \/ /\ ~(row.present /\ row.active)
          /\ Goto(r, "failed")
    /\ UNCHANGED <<tables, appt, job, req, locals, history>>

GetServices(r) ==
    LET pair == <<req[r].staff, req[r].service>> IN
    /\ At(r, "getServices")
    /\ \/ pair \in offers /\ Goto(r, "checkAvailability")
       \/ pair \notin offers /\ Goto(r, "failed")
    /\ UNCHANGED <<tables, appt, job, req, locals, history>>

\* The end of the slot is computed from the duration findService returned.
CheckSlot(r) ==
    LET w == req[r].staff
        s == req[r].start
        free == CheckAvailability(w, s, s + checked[r])
        next == IF req[r].code THEN "findCoupon" ELSE "readDuration"
    IN  /\ At(r, "checkAvailability")
        /\ \/ free /\ Goto(r, next)
           \/ ~free /\ Goto(r, "failed")
        /\ seen' = [seen EXCEPT ![r] = Blocking(w)]
        /\ UNCHANGED <<tables, appt, job, req, locals, orderUses, limits,
                       overwritten, admin>>

\* ValidateCouponUseCase: expiry, minimum purchase and applicability are the
\* usable flag; the usage limit is compared with the count read here.
CouponValidOffByOne ==   \* variant: <= for <
    /\ coupon.present /\ coupon.usable
    /\ coupon.limit = NoLimit \/ coupon.usage <= coupon.limit
CouponValid ==
    /\ coupon.present /\ coupon.usable
    /\ coupon.limit = NoLimit \/ coupon.usage < coupon.limit

FindCoupon(r) ==
    /\ At(r, "findCoupon")
    /\ \/ CouponValid /\ Goto(r, "incrementUsage")
       \/ ~CouponValid /\ Goto(r, "failed")
    /\ UNCHANGED <<tables, appt, job, req, locals, history>>

IncrementUsageDown(r) ==   \* variant: the wrong sign
    /\ At(r, "incrementUsage")
    /\ Goto(r, "readDuration")
    /\ coupon' = [coupon EXCEPT !.usage = @ - 1]
    /\ UNCHANGED <<service, staff, offers, email, appt, job, req, locals,
                   history>>

\* An atomic increment, which throws when the coupon's row is gone.
IncrementUsage(r) ==
    /\ At(r, "incrementUsage")
    /\ \/ /\ coupon.present
          /\ Goto(r, "readDuration")
          /\ coupon' = [coupon EXCEPT !.usage = @ + 1]
       \/ /\ ~coupon.present
          /\ Goto(r, "failed")
          /\ UNCHANGED coupon
    /\ UNCHANGED <<service, staff, offers, email, appt, job, req, locals,
                   history>>

\* repository.create reads the service's duration a second time ...
ReadDuration(r) ==
    LET row == service[req[r].service] IN
    /\ At(r, "readDuration")
    /\ \/ /\ row.present
          /\ Goto(r, "insert")
          /\ stored' = [stored EXCEPT ![r] = row.duration]
       \/ /\ ~row.present
          /\ Goto(r, "failed")
          /\ UNCHANGED stored
    /\ UNCHANGED <<tables, appt, job, req, checked, old, history>>

\* ... and inserts the row, without the coupon and the discount it was given;
\* a foreign key without its row makes it throw.
Insert(r) ==
    LET in == req[r]
        referencesExist == service[in.service].present /\ staff[in.staff].present
    IN  /\ At(r, "insert")
        /\ \/ /\ referencesExist
              /\ Goto(r, "features")
              /\ appt' = [appt EXCEPT ![r] =
                            [staff |-> in.staff, service |-> in.service,
                             start |-> in.start,
                             end |-> in.start + stored[r],
                             coupon |-> FALSE, status |-> "PENDING"]]
           \/ /\ ~referencesExist
              /\ Goto(r, "failed")
              /\ UNCHANGED appt
        /\ UNCHANGED <<tables, job, req, locals, history>>

------------------------------------------------------------------------------
(* PUT /appointments/:id/cancel, PUT /appointments/:id/status and           *)
(* DELETE /appointments/:id: read the row, judge it, write it.              *)

\* What each use case demands of the status it read.
PermittedAnyStart(in, st) ==   \* variant: the IN_PROGRESS guard dropped
    /\ in.kind = "cancel" => isCancellable(st)
    /\ in.kind = "updateStatus" => isModifiable(st)

PermittedAnyStatus(in, st) ==   \* variant: the isModifiable guard dropped
    /\ in.kind = "cancel" => isCancellable(st)
    /\ in.kind = "updateStatus" /\ in.status = "IN_PROGRESS" => hasStarted(st)

Permitted(in, st) ==
    /\ in.kind = "cancel" => isCancellable(st)
    /\ in.kind = "updateStatus" =>
          isModifiable(st) /\ (in.status = "IN_PROGRESS" => hasStarted(st))

FindAppointment(r) ==
    LET in == req[r]
        ok == Stored(in.target) /\ Permitted(in, appt[in.target].status)
        next == IF in.kind = "delete" THEN "deleteRow" ELSE "writeStatus"
    IN  /\ At(r, "findAppointment")
        /\ \/ /\ ok
              /\ Goto(r, next)
              /\ old' = [old EXCEPT ![r] = appt[in.target].status]
           \/ /\ ~ok
              /\ Goto(r, "failed")
              /\ UNCHANGED old
        /\ UNCHANGED <<tables, appt, job, req, checked, stored, history>>

NewStatus(in) == IF in.kind = "cancel" THEN "CANCELLED" ELSE in.status

WriteStatusUpsert(r) ==   \* variant: a missing row is not noticed
    /\ At(r, "writeStatus")
    /\ Goto(r, "features")
    /\ appt' = [appt EXCEPT ![req[r].target] = [status |-> NewStatus(req[r])]]
    /\ UNCHANGED <<tables, job, req, locals, history>>

\* update where id and tenant match: the status read is not looked at again.
WriteStatus(r) ==
    LET a == req[r].target IN
    /\ At(r, "writeStatus")
    /\ \/ /\ Stored(a)
          /\ Goto(r, "features")
          /\ appt' = [appt EXCEPT ![a].status = NewStatus(req[r])]
          /\ overwritten' = IF appt[a].status = old[r] THEN overwritten
                            ELSE overwritten \cup {a}
       \/ /\ ~Stored(a)
          /\ Goto(r, "failed")
          /\ UNCHANGED <<appt, overwritten>>
    /\ UNCHANGED <<tables, job, req, locals, seen, orderUses, limits, admin>>

DeleteRow(r) ==
    LET a == req[r].target IN
    /\ At(r, "deleteRow")
    /\ \/ /\ Stored(a)
          /\ Goto(r, "done")
          /\ appt' = [appt EXCEPT ![a] = NoAppointment]
       \/ /\ ~Stored(a)
          /\ Goto(r, "failed")
          /\ UNCHANGED appt
    /\ UNCHANGED <<tables, job, req, locals, history>>

------------------------------------------------------------------------------
(* The tail create, cancel and updateStatus share: read the tenant's        *)
(* features, then put a job on the notification queue.                      *)

JobFor(in) == IF in.kind = "create" THEN "PENDING_APPROVAL" ELSE NewStatus(in)

ReadFeatures(r) ==
    /\ At(r, "features")
    /\ IF email /\ JobFor(req[r]) \in JobType
       THEN Goto(r, "enqueue")
       ELSE Goto(r, "done")
    /\ UNCHANGED <<tables, appt, job, req, locals, history>>

Enqueue(r) ==
    /\ At(r, "enqueue")
    /\ Goto(r, "done")
    /\ job' = [job EXCEPT ![r] = JobFor(req[r])]
    /\ UNCHANGED <<tables, appt, req, locals, history>>

------------------------------------------------------------------------------
(* A statement rejects (lost connection, process death): the use case ends  *)
(* where it is, and what it has written stays.                              *)

Interrupt(r) ==
    /\ r \in InFlight
    /\ pc' = [pc EXCEPT ![r] = "failed"]
    /\ UNCHANGED <<tables, appt, job, req, locals, history>>

------------------------------------------------------------------------------
(* Administrative requests.  Each comes down to one statement (or one       *)
(* database transaction), so each is one action.                            *)

Edit ==
    /\ admin < MaxAdmin
    /\ Cardinality(InFlight) < MaxInFlight
    /\ admin' = admin + 1
    /\ UNCHANGED <<appt, job, req, pc, locals, seen, orderUses, overwritten>>

UpdateService(sv) ==
    /\ Edit
    /\ service[sv].present
    /\ \E active \in BOOLEAN, d \in EditDurations :
          service' = [service EXCEPT ![sv].active = active, ![sv].duration = d]
    /\ UNCHANGED <<staff, offers, coupon, email, limits>>

\* Appointments hold a foreign key to their service and their staff member,
\* so a referenced row cannot be deleted; staff_services rows go with it.
DeleteService(sv) ==
    /\ Edit
    /\ service[sv].present
    /\ \A a \in Requests : Stored(a) => appt[a].service # sv
    /\ service' = [service EXCEPT ![sv].present = FALSE]
    /\ offers' = {pair \in offers : pair[2] # sv}
    /\ UNCHANGED <<staff, coupon, email, limits>>

UpdateStaff(w) ==
    /\ Edit
    /\ staff[w].present
    /\ \E active \in BOOLEAN : staff' = [staff EXCEPT ![w].active = active]
    /\ UNCHANGED <<service, offers, coupon, email, limits>>

DeleteStaff(w) ==
    /\ Edit
    /\ staff[w].present
    /\ \A a \in Requests : Stored(a) => appt[a].staff # w
    /\ staff' = [staff EXCEPT ![w].present = FALSE]
    /\ offers' = {pair \in offers : pair[1] # w}
    /\ UNCHANGED <<service, coupon, email, limits>>

\* One transaction: delete the member's rows, insert the given ones.
SyncStaffServices(w) ==
    /\ Edit
    /\ \E wanted \in SUBSET Services :
          /\ wanted # {} => staff[w].present
          /\ \A sv \in wanted : service[sv].present
          /\ offers' = {pair \in offers : pair[1] # w} \cup ({w} \X wanted)
    /\ UNCHANGED <<service, staff, coupon, email, limits>>

AssignStaffService(w, sv) ==
    /\ Edit
    /\ staff[w].present /\ service[sv].present
    /\ <<w, sv>> \notin offers
    /\ offers' = offers \cup {<<w, sv>>}
    /\ UNCHANGED <<service, staff, coupon, email, limits>>

\* The limit may be set below the count, and given up; the count stays.
UpdateCoupon ==
    /\ Edit
    /\ coupon.present
    /\ \E usable \in BOOLEAN, limit \in Limits \cup {coupon.limit} :
          /\ coupon' = [coupon EXCEPT !.usable = usable, !.limit = limit]
          /\ limits' = limits \cup {limit}
    /\ UNCHANGED <<service, staff, offers, email>>

DeleteCoupon ==
    /\ Edit
    /\ coupon.present
    /\ coupon' = [coupon EXCEPT !.present = FALSE]
    /\ UNCHANGED <<service, staff, offers, email, limits>>

SwitchEmail ==
    /\ Edit
    /\ email' = ~email
    /\ UNCHANGED <<service, staff, offers, coupon, limits>>

\* Time passes the coupon's expiresAt.
ExpireCoupon ==
    /\ coupon.usable
    /\ coupon' = [coupon EXCEPT !.usable = FALSE]
    /\ UNCHANGED <<service, staff, offers, email, appt, job, req, pc, locals,
                   history>>

\* A shop order increments the same counter without validating the coupon.
OrderRedeems ==
    /\ orderUses < MaxOrders
    /\ coupon.present
    /\ coupon' = [coupon EXCEPT !.usage = @ + 1]
    /\ orderUses' = orderUses + 1
    /\ UNCHANGED <<service, staff, offers, email, appt, job, req, pc, locals,
                   seen, limits, overwritten, admin>>

------------------------------------------------------------------------------
Init ==
    /\ service \in [Services -> [present: {TRUE}, active: {TRUE},
                                 duration: Durations]]
    /\ staff = [w \in Staff |-> [present |-> TRUE, active |-> TRUE]]
    /\ offers = Staff \X Services
    /\ coupon \in [present: {TRUE}, usable: {TRUE}, limit: Limits, usage: {0}]
    /\ email = TRUE
    /\ appt = [r \in Requests |-> NoAppointment]
    /\ job = [r \in Requests |-> "none"]
    /\ req = [r \in Requests |-> NoRequest]
    /\ pc = [r \in Requests |-> "idle"]
    /\ checked = [r \in Requests |-> 0]
    /\ stored = [r \in Requests |-> 0]
    /\ old = [r \in Requests |-> "none"]
    /\ seen = [r \in Requests |-> {}]
    /\ orderUses = 0
    /\ limits = {coupon.limit}
    /\ overwritten = {}
    /\ admin = 0

CreateStep(r) ==
    \/ FindService(r) \/ FindStaff(r) \/ GetServices(r) \/ CheckSlot(r)
    \/ FindCoupon(r) \/ IncrementUsage(r) \/ ReadDuration(r) \/ Insert(r)

ChangeStep(r) == FindAppointment(r) \/ WriteStatus(r) \/ DeleteRow(r)

NotifyStep(r) == ReadFeatures(r) \/ Enqueue(r)

Progress(r) == CreateStep(r) \/ ChangeStep(r) \/ NotifyStep(r)

Environment ==
    \/ \E sv \in Services : UpdateService(sv) \/ DeleteService(sv)
    \/ \E w \in Staff : UpdateStaff(w) \/ DeleteStaff(w) \/ SyncStaffServices(w)
    \/ \E w \in Staff, sv \in Services : AssignStaffService(w, sv)
    \/ UpdateCoupon \/ DeleteCoupon \/ SwitchEmail \/ ExpireCoupon
    \/ OrderRedeems

Next ==
    \/ \E r \in Requests :
          StartCreate(r) \/ StartChange(r) \/ Progress(r) \/ Interrupt(r)
    \/ Environment

Spec == Init /\ [][Next]_vars

------------------------------------------------------------------------------
(* Properties *)

TypeOK ==
    /\ service \in [Services -> [present: BOOLEAN, active: BOOLEAN,
                                 duration: Int]]
    /\ staff \in [Staff -> [present: BOOLEAN, active: BOOLEAN]]
    /\ offers \subseteq Staff \X Services
    /\ coupon \in [present: BOOLEAN, usable: BOOLEAN,
                   limit: Nat \cup {NoLimit}, usage: Nat]
    /\ email \in BOOLEAN
    /\ appt \in [Requests -> Appointment \cup {NoAppointment}]
    /\ job \in [Requests -> JobType \cup {"none"}]
    /\ req \in [Requests -> CreateRequest \cup CancelRequest \cup StatusRequest
                            \cup DeleteRequest \cup {NoRequest}]
    /\ pc \in [Requests -> Steps \cup AtRest]
    /\ checked \in [Requests -> Int]
    /\ stored \in [Requests -> Int]
    /\ old \in [Requests -> Status \cup {"none"}]
    /\ seen \in [Requests -> SUBSET Requests]
    /\ orderUses \in Nat
    /\ coupon.limit \in limits /\ limits \subseteq Nat \cup {NoLimit}
    /\ overwritten \subseteq Requests
    /\ admin \in Nat

\* The interval a was inserted with is not the one its request had checked.
Drifted(a) == checked[a] # stored[a]

\* Two appointments take up the same time of the same staff member.
Clash(a, b) ==
    /\ a # b /\ a \in Blocking(appt[a].staff) /\ b \in Blocking(appt[b].staff)
    /\ appt[a].staff = appt[b].staff
    /\ Overlaps(appt[a].start, appt[a].end, appt[b].start, appt[b].end)

\* A double booking is never an oversight of checkAvailability: of two
\* clashing appointments neither check could see the other as blocking (they
\* raced between check and insert, or one was brought back from NO_SHOW), or
\* the service's duration was edited between the check and the insert.
OverlapOnlyByRace ==
    \A a, b \in Requests :
        Stored(a) /\ Stored(b) /\ Clash(a, b) =>
            \/ a \notin seen[b] /\ b \notin seen[a]
            \/ Drifted(a) \/ Drifted(b)

\* What a booking of service sv with w from s on would be judged by, were it
\* served now and alone.
CreateAccepts(w, sv, s) ==
    /\ service[sv].present /\ service[sv].active
    /\ staff[w].present /\ staff[w].active
    /\ <<w, sv>> \in offers
    /\ CheckAvailability(w, s, s + service[sv].duration)

PositiveLengths(w, sv) ==
    /\ service[sv].duration > 0
    /\ \A a \in Blocking(w) : appt[a].start < appt[a].end

\* The list of slots and the booking differ in four tests only: of a slot of
\* the day that is not past, create accepts those offered whose service and
\* staff member are active and belong together, and that no appointment from
\* outside the list's window reaches into.  The two overlap tests, written
\* differently, decide alike, unless a duration was edited to zero or below.
OffersDifferAsListed ==
    \A w \in Staff, sv \in Services, t \in WorkStart .. (WorkEnd - 1), off \in Offsets :
        LET s == t + off
            e == s + service[sv].duration
        IN  /\ PositiveLengths(w, sv)
            /\ (t - WorkStart) % SlotStep = 0
            /\ t + service[sv].duration <= WorkEnd
            => (CreateAccepts(w, sv, s) <=>
                  /\ t \in OfferedSlots(w, sv, s, off)
                  /\ service[sv].active /\ staff[w].active /\ <<w, sv>> \in offers
                  /\ \A a \in Blocking(w) \ ReadForList(w) :
                        ~Overlaps(appt[a].start, appt[a].end, s, e))

\* No sequence of requests takes an appointment to IN_PROGRESS, because
\* updateStatus demands that it has started already.
NeverInProgress ==
    \A a \in Requests : Stored(a) => appt[a].status # "IN_PROGRESS"

\* Bookings overspend a coupon that has always been limited by less than the
\* number of requests in progress at once, however many follow each other:
\* measured by the highest limit it has had, since a lower one is set without
\* a look at the count.  The uses shop orders count (which never validate) do
\* not make bookings overspend it further.
Redeeming == {r \in Requests : pc[r] = "incrementUsage"}
CouponOvershootBounded ==
    \/ NoLimit \in limits
    \/ \E n \in limits : coupon.usage - orderUses + Cardinality(Redeeming)
                              <= n + MaxInFlight - 1

Terminal(a) == Stored(a) /\ ~isModifiable(appt[a].status)

\* A COMPLETED or CANCELLED appointment changes its status only at the hands
\* of a request that had read it before it became final.
FinalChangedOnlyByStaleRead ==
    [][\A a \in Requests :
         Terminal(a) /\ appt'[a] # NoAppointment
                     /\ appt'[a].status # appt[a].status =>
            \E r \in Requests : /\ pc[r] = "writeStatus"
                                /\ pc'[r] # "writeStatus"
                                /\ req[r].target = a
                                /\ isModifiable(old[r])]_vars

\* Promised by the code and broken by it: see the README.
\* "The selected time slot is already booked": no two appointments that take
\* up time of one staff member overlap.
NoDoubleBooking ==
    \A a, b \in Requests : Stored(a) /\ Stored(b) => ~Clash(a, b)
==============================================================================

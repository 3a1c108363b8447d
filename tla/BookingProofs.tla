---------------------------- MODULE BookingProofs ----------------------------
(***************************************************************************)
(* Proofs about Booking for every number of requests, staff members and    *)
(* services, every duration (negative ones included) and every bound.      *)
(***************************************************************************)
EXTENDS BookingCalendar, FiniteSetTheorems, TLAPS

------------------------------------------------------------------------------
(* The two overlap tests *)

\* The database query finds every appointment that overlaps the slot,
\* whatever the two intervals are, empty and inverted ones included.
LEMMA QueryFindsOverlaps ==
    ASSUME NEW from \in Int, NEW until \in Int, NEW s \in Int, NEW e \in Int
    PROVE  Overlaps(from, until, s, e) => ConflictQuery(from, until, s, e)
BY DEF Overlaps, ConflictQuery, CoversStart, CoversEnd, LiesInside

\* For intervals of positive length the query finds nothing else, so the
\* query and the in-memory test decide alike.
LEMMA QueryIsOverlap ==
    ASSUME NEW from \in Int, NEW until \in Int, NEW s \in Int, NEW e \in Int,
           from < until, s < e
    PROVE  ConflictQuery(from, until, s, e) <=> Overlaps(from, until, s, e)
BY DEF Overlaps, ConflictQuery, CoversStart, CoversEnd, LiesInside

------------------------------------------------------------------------------
(* Types.  The steps of a request are only run with the input they expect. *)

CreateSteps == {"findService", "findStaff", "getServices", "checkAvailability",
                "findCoupon", "incrementUsage", "readDuration", "insert"}
ChangeRequest == CancelRequest \cup StatusRequest

Fits(step, input) ==
    /\ step \in CreateSteps => input \in CreateRequest
    /\ step = "findAppointment" => input \in ChangeRequest \cup DeleteRequest
    /\ step = "writeStatus" => input \in ChangeRequest
    /\ step = "deleteRow" => input \in DeleteRequest
    /\ step = "features" => input \in CreateRequest \cup ChangeRequest
    /\ step = "enqueue" => JobFor(input) \in JobType

StepsFit == \A r \in Requests : Fits(pc[r], req[r])

TypeInv == TypeOK /\ StepsFit

\* Before the first request, nothing is stored and nothing runs.
LEMMA InitTypeInv == Init => TypeInv
<1> SUFFICES ASSUME Init PROVE TypeInv
  OBVIOUS
<1> USE DEF Init
<1>1. service \in [Services -> [present: BOOLEAN, active: BOOLEAN,
                               duration: Int]]
  BY BookingConstants DEF BookingConstants
<1>2. staff \in [Staff -> [present: BOOLEAN, active: BOOLEAN]]
  OBVIOUS
<1>7. /\ coupon \in [present: BOOLEAN, usable: BOOLEAN,
                     limit: Nat \cup {NoLimit}, usage: Nat]
      /\ coupon.limit \in limits /\ limits \subseteq Nat \cup {NoLimit}
  <2>1. coupon \in [present: {TRUE}, usable: {TRUE}, limit: Limits, usage: {0}]
    OBVIOUS
  <2>2. coupon.limit \in Limits /\ Limits \subseteq Nat \cup {NoLimit}
    BY <2>1, BookingConstants DEF BookingConstants
  <2>3. limits = {coupon.limit}
    OBVIOUS
  <2>4. coupon \in [present: BOOLEAN, usable: BOOLEAN,
                    limit: Nat \cup {NoLimit}, usage: Nat]
    <3>1. coupon = [present |-> TRUE, usable |-> TRUE,
                    limit |-> coupon.limit, usage |-> 0]
      BY ONLY <2>1
    <3>2. coupon.limit \in Nat \cup {NoLimit}
      BY <2>2
    <3>3. ASSUME NEW l \in Nat \cup {NoLimit}
          PROVE  [present |-> TRUE, usable |-> TRUE, limit |-> l, usage |-> 0]
                    \in [present: BOOLEAN, usable: BOOLEAN,
                        limit: Nat \cup {NoLimit}, usage: Nat]
      BY ONLY TRUE
    <3>4. [present |-> TRUE, usable |-> TRUE, limit |-> coupon.limit, usage |-> 0]
             \in [present: BOOLEAN, usable: BOOLEAN,
                 limit: Nat \cup {NoLimit}, usage: Nat]
      BY <3>2, <3>3, Zenon
    <3> QED BY ONLY <3>1, <3>4, Zenon
  <2> QED BY ONLY <2>2, <2>3, <2>4
<1>3. /\ appt \in [Requests -> Appointment \cup {NoAppointment}]
      /\ req \in [Requests -> CreateRequest \cup CancelRequest
                              \cup StatusRequest \cup DeleteRequest
                              \cup {NoRequest}]
  OBVIOUS
<1>4. /\ offers \subseteq Staff \X Services
      /\ email \in BOOLEAN
      /\ job \in [Requests -> JobType \cup {"none"}]
      /\ pc \in [Requests -> Steps \cup AtRest]
      /\ checked \in [Requests -> Int]
      /\ stored \in [Requests -> Int]
      /\ old \in [Requests -> Status \cup {"none"}]
      /\ seen \in [Requests -> SUBSET Requests]
      /\ orderUses \in Nat
      /\ overwritten \subseteq Requests
      /\ admin \in Nat
  BY DEF AtRest
<1>5. TypeOK
  BY <1>1, <1>2, <1>3, <1>4, <1>7 DEF TypeOK
<1>6. StepsFit
  BY DEF StepsFit, Fits, CreateSteps
<1> QED BY <1>5, <1>6 DEF TypeInv

\* A request that moves on to a step its input fits keeps all inputs fitting.
LEMMA GotoKeepsFit ==
    ASSUME StepsFit, pc \in [Requests -> Steps \cup AtRest], NEW r \in Requests,
           NEW step, Goto(r, step), req' = req, Fits(step, req[r])
    PROVE  StepsFit'
BY DEF StepsFit, Goto, Fits

\* The same for a request that begins.
LEMMA BeginKeepsFit ==
    ASSUME StepsFit, TypeOK, NEW r \in Requests, NEW input, NEW step,
           Begin(r, input, step), Fits(step, input)
    PROVE  StepsFit'
BY DEF StepsFit, TypeOK, Goto, Fits, Begin

\* A step that leaves requests and their statements alone.
LEMMA EditKeepsFit ==
    ASSUME StepsFit, pc' = pc, req' = req
    PROVE  StepsFit'
BY DEF StepsFit, Fits

USE DEF At

\* A request begins with the input its first statement expects.
LEMMA StartTypeInv ==
    ASSUME TypeInv, NEW r \in Requests, StartCreate(r) \/ StartChange(r)
    PROVE  TypeInv'
<1> USE DEF TypeInv
<1>1. CASE StartCreate(r)
  <2>1. PICK input \in CreateRequest : Begin(r, input, "findService")
    BY <1>1 DEF StartCreate
  <2>2. TypeOK'
    BY <2>1 DEF TypeOK, Begin, Goto, tables, locals, history, Steps
  <2>3. StepsFit'
    BY <2>1, BeginKeepsFit DEF Fits, CreateSteps
  <2> QED BY <2>2, <2>3
<1>2. CASE StartChange(r)
  <2>1. PICK input \in ChangeRequest \cup DeleteRequest :
            Begin(r, input, "findAppointment")
    BY <1>2 DEF StartChange, ChangeRequest
  <2>2. TypeOK'
    BY <2>1 DEF TypeOK, Begin, Goto, tables, locals, history, Steps,
       ChangeRequest
  <2>3. StepsFit'
    BY <2>1, BeginKeepsFit DEF Fits, CreateSteps
  <2> QED BY <2>2, <2>3
<1> QED BY <1>1, <1>2

\* The statements of POST /appointments keep the types.
LEMMA CreateTypeInv ==
    ASSUME TypeInv, NEW r \in Requests, CreateStep(r)
    PROVE  TypeInv'
<1> USE DEF TypeInv
<1>0. Fits("failed", req[r])
  BY DEF Fits, CreateSteps
<1>1. CASE FindService(r)
  <2>1. req[r] \in CreateRequest /\ Fits("findStaff", req[r])
    BY <1>1 DEF FindService, StepsFit, Fits, CreateSteps
  <2>2. TypeOK'
    BY <1>1, <2>1 DEF FindService, Goto, TypeOK, CreateRequest, tables, history,
       Steps, AtRest
  <2> QED BY <1>0, <1>1, <2>1, <2>2, GotoKeepsFit DEF FindService, TypeOK
<1>2. CASE FindStaff(r)
  <2>1. Fits("getServices", req[r])
    BY <1>2 DEF FindStaff, StepsFit, Fits, CreateSteps
  <2>2. TypeOK'
    BY <1>2 DEF FindStaff, Goto, TypeOK, tables, locals, history, Steps, AtRest
  <2> QED BY <1>0, <1>2, <2>1, <2>2, GotoKeepsFit DEF FindStaff, TypeOK
<1>3. CASE GetServices(r)
  <2>1. Fits("checkAvailability", req[r])
    BY <1>3 DEF GetServices, StepsFit, Fits, CreateSteps
  <2>2. TypeOK'
    BY <1>3 DEF GetServices, Goto, TypeOK, tables, locals, history, Steps, AtRest
  <2> QED BY <1>0, <1>3, <2>1, <2>2, GotoKeepsFit DEF GetServices, TypeOK
<1>4. CASE CheckSlot(r)
  <2>1. Fits("findCoupon", req[r]) /\ Fits("readDuration", req[r])
    BY <1>4 DEF CheckSlot, StepsFit, Fits, CreateSteps
  <2>2. Blocking(req[r].staff) \subseteq Requests
    BY DEF Blocking
  <2>3. TypeOK'
    BY <1>4, <2>2 DEF CheckSlot, Goto, TypeOK, tables, locals, Steps, AtRest
  <2> QED BY <1>0, <1>4, <2>1, <2>3, GotoKeepsFit DEF CheckSlot, TypeOK
<1>5. CASE FindCoupon(r)
  <2>1. Fits("incrementUsage", req[r])
    BY <1>5 DEF FindCoupon, StepsFit, Fits, CreateSteps
  <2>2. TypeOK'
    BY <1>5 DEF FindCoupon, Goto, TypeOK, tables, locals, history, Steps, AtRest
  <2> QED BY <1>0, <1>5, <2>1, <2>2, GotoKeepsFit DEF FindCoupon, TypeOK
<1>6. CASE IncrementUsage(r)
  <2>1. Fits("readDuration", req[r])
    BY <1>6 DEF IncrementUsage, StepsFit, Fits, CreateSteps
  <2>2. /\ coupon' \in [present: BOOLEAN, usable: BOOLEAN,
                          limit: Nat \cup {NoLimit}, usage: Nat]
        /\ coupon'.limit = coupon.limit
    BY <1>6 DEF IncrementUsage, TypeOK
  <2>3. TypeOK'
    BY <1>6, <2>2 DEF IncrementUsage, Goto, TypeOK, locals, history, Steps,
       AtRest
  <2> QED BY <1>0, <1>6, <2>1, <2>3, GotoKeepsFit DEF IncrementUsage, TypeOK
<1>7. CASE ReadDuration(r)
  <2>1. req[r] \in CreateRequest /\ Fits("insert", req[r])
    BY <1>7 DEF ReadDuration, StepsFit, Fits, CreateSteps
  <2>2. TypeOK'
    BY <1>7, <2>1 DEF ReadDuration, Goto, TypeOK, CreateRequest, tables, history,
       Steps, AtRest
  <2> QED BY <1>0, <1>7, <2>1, <2>2, GotoKeepsFit DEF ReadDuration, TypeOK
<1>8. CASE Insert(r)
  <2>1. req[r] \in CreateRequest /\ Fits("features", req[r])
    BY <1>8 DEF Insert, StepsFit, Fits, CreateSteps
  <2>2. appt' \in [Requests -> Appointment \cup {NoAppointment}]
    <3> DEFINE row == [staff |-> req[r].staff, service |-> req[r].service,
                       start |-> req[r].start,
                       end |-> req[r].start + stored[r],
                       coupon |-> FALSE, status |-> "PENDING"]
    <3>1. /\ req[r].staff \in Staff /\ req[r].service \in Services
          /\ req[r].start \in Int /\ stored[r] \in Int
      BY <2>1, BookingConstants DEF TypeOK, CreateRequest, BookingConstants
    <3>2. req[r].start + stored[r] \in Int
      BY <3>1
    <3>3. row \in Appointment
      BY <3>1, <3>2 DEF Appointment, Status
    <3>4. appt' = appt \/ appt' = [appt EXCEPT ![r] = row]
      BY <1>8 DEF Insert
    <3> QED BY <3>3, <3>4 DEF TypeOK
  <2>3. TypeOK'
    BY <1>8, <2>2 DEF Insert, Goto, TypeOK, tables, locals, history, Steps, AtRest
  <2> QED BY <1>0, <1>8, <2>1, <2>3, GotoKeepsFit DEF Insert, TypeOK
<1> QED BY <1>1, <1>2, <1>3, <1>4, <1>5, <1>6, <1>7, <1>8 DEF CreateStep

\* So do those of cancel, updateStatus and delete.
LEMMA ChangeTypeInv ==
    ASSUME TypeInv, NEW r \in Requests, ChangeStep(r)
    PROVE  TypeInv'
<1> USE DEF TypeInv
<1>0. Fits("failed", req[r]) /\ Fits("done", req[r])
  BY DEF Fits, CreateSteps
<1>1. CASE FindAppointment(r)
  <2> DEFINE in == req[r]
             next == IF in.kind = "delete" THEN "deleteRow" ELSE "writeStatus"
  <2>1. in \in ChangeRequest \cup DeleteRequest
    BY <1>1 DEF FindAppointment, StepsFit, Fits
  <2>2. Fits(next, in)
    BY <2>1 DEF Fits, CreateSteps, ChangeRequest, CancelRequest, StatusRequest,
       DeleteRequest
  <2>3. in.target \in Requests
    BY <2>1 DEF ChangeRequest, CancelRequest, StatusRequest, DeleteRequest
  <2>4. Stored(in.target) => appt[in.target].status \in Status
    BY <2>3 DEF TypeOK, Stored, Appointment
  <2>5. old' \in [Requests -> Status \cup {"none"}]
    BY <1>1, <2>4 DEF FindAppointment, TypeOK
  <2>6. TypeOK'
    BY <1>1, <2>5 DEF FindAppointment, Goto, TypeOK, tables, history, Steps,
       AtRest
  <2>7. /\ Goto(r, next) \/ Goto(r, "failed")
        /\ req' = req
    BY <1>1 DEF FindAppointment
  <2> QED BY <1>0, <2>2, <2>6, <2>7, GotoKeepsFit DEF TypeOK
<1>2. CASE WriteStatus(r)
  <2> DEFINE in == req[r]
  <2>1. in \in ChangeRequest
    BY <1>2 DEF WriteStatus, StepsFit, Fits
  <2>2. Fits("features", in)
    BY <2>1 DEF Fits, CreateSteps
  <2>3. in.target \in Requests /\ NewStatus(in) \in Status
    BY <2>1, BookingConstants DEF ChangeRequest, CancelRequest, StatusRequest,
       NewStatus, BookingConstants, Status
  <2>4. appt' \in [Requests -> Appointment \cup {NoAppointment}]
    <3>1. CASE appt' = appt
      BY <3>1 DEF TypeOK
    <3>2. CASE /\ Stored(in.target)
               /\ appt' = [appt EXCEPT ![in.target].status = NewStatus(in)]
      <4> DEFINE row == [appt[in.target] EXCEPT !.status = NewStatus(in)]
      <4>1. appt[in.target] \in Appointment
        BY <2>3, <3>2 DEF TypeOK, Stored
      <4>2. row \in Appointment
        BY <2>3, <4>1 DEF Appointment
      <4>3. appt' = [appt EXCEPT ![in.target] = row]
        BY <3>2
      <4> QED BY <2>3, <4>2, <4>3 DEF TypeOK
    <3> QED BY <1>2, <3>1, <3>2 DEF WriteStatus
  <2>5. TypeOK'
    BY <1>2, <2>3, <2>4 DEF WriteStatus, Goto, TypeOK, tables, locals, Steps,
       AtRest
  <2>6. /\ Goto(r, "features") \/ Goto(r, "failed")
        /\ req' = req
    BY <1>2 DEF WriteStatus
  <2> QED BY <1>0, <2>2, <2>5, <2>6, GotoKeepsFit DEF TypeOK
<1>3. CASE DeleteRow(r)
  <2>1. appt' \in [Requests -> Appointment \cup {NoAppointment}]
    BY <1>3 DEF DeleteRow, TypeOK
  <2>4. /\ UNCHANGED <<tables, job, req, locals, history>>
        /\ pc' \in [Requests -> Steps \cup AtRest]
    BY <1>3 DEF DeleteRow, Goto, TypeOK, AtRest
  <2>2. TypeOK'
    BY <2>1, <2>4 DEF TypeOK, tables, locals, history
  <2>3. /\ Goto(r, "done") \/ Goto(r, "failed")
        /\ req' = req
    BY <1>3 DEF DeleteRow
  <2> QED BY <1>0, <2>2, <2>3, GotoKeepsFit DEF TypeOK
<1> QED BY <1>1, <1>2, <1>3 DEF ChangeStep

\* So does the tail that reads the features and queues a job.
LEMMA NotifyTypeInv ==
    ASSUME TypeInv, NEW r \in Requests, NotifyStep(r)
    PROVE  TypeInv'
<1> USE DEF TypeInv
<1>0. Fits("done", req[r])
  BY DEF Fits, CreateSteps
<1>1. CASE ReadFeatures(r)
  <2>1. TypeOK'
    BY <1>1 DEF ReadFeatures, Goto, TypeOK, tables, locals, history, Steps,
       AtRest
  <2>2. CASE email /\ JobFor(req[r]) \in JobType
    <3>1. Fits("enqueue", req[r])
      BY <2>2 DEF Fits, CreateSteps
    <3> QED BY <1>1, <2>1, <2>2, <3>1, GotoKeepsFit DEF ReadFeatures, TypeOK
  <2>3. CASE ~(email /\ JobFor(req[r]) \in JobType)
    BY <1>0, <1>1, <2>1, <2>3, GotoKeepsFit DEF ReadFeatures, TypeOK
  <2> QED BY <2>2, <2>3
<1>2. CASE Enqueue(r)
  <2>1. JobFor(req[r]) \in JobType
    BY <1>2 DEF Enqueue, StepsFit, Fits
  <2>2. TypeOK'
    BY <1>2, <2>1 DEF Enqueue, Goto, TypeOK, tables, locals, history, AtRest
  <2> QED BY <1>0, <1>2, <2>2, GotoKeepsFit DEF Enqueue, TypeOK
<1> QED BY <1>1, <1>2 DEF NotifyStep

\* An interrupted request runs nothing any more.
LEMMA InterruptTypeInv ==
    ASSUME TypeInv, NEW r \in Requests, Interrupt(r)
    PROVE  TypeInv'
<1> USE DEF TypeInv
<1>1. Fits("failed", req[r])
  BY DEF Fits, CreateSteps
<1>2. TypeOK'
  BY DEF Interrupt, TypeOK, tables, locals, history, AtRest
<1> QED BY <1>1, <1>2, GotoKeepsFit DEF Interrupt, Goto, TypeOK

\* Edits and the passing of time move no request and change no appointment.
LEMMA EnvironmentFrame ==
    ASSUME Environment
    PROVE  UNCHANGED <<appt, job, req, pc, locals, seen, overwritten>>
BY DEF Environment, Edit, UpdateService, DeleteService, UpdateStaff,
   DeleteStaff, SyncStaffServices, AssignStaffService, UpdateCoupon,
   DeleteCoupon, SwitchEmail, ExpireCoupon, OrderRedeems, history

ServiceRow == [present: BOOLEAN, active: BOOLEAN, duration: Int]
CouponRow == [present: BOOLEAN, usable: BOOLEAN,
              limit: Nat \cup {NoLimit}, usage: Nat]

\* Edits, expiry and shop orders keep the types of the tables.
LEMMA EnvironmentTypeInv ==
    ASSUME TypeInv, Environment
    PROVE  TypeInv'
<1> USE DEF TypeInv
<1> DEFINE Rest == /\ service' \in [Services -> ServiceRow]
                   /\ staff' \in [Staff -> [present: BOOLEAN, active: BOOLEAN]]
                   /\ offers' \subseteq Staff \X Services
                   /\ coupon' \in CouponRow
                   /\ email' \in BOOLEAN
                   /\ orderUses' \in Nat
                   /\ coupon'.limit \in limits'
                   /\ limits' \subseteq Nat \cup {NoLimit}
                   /\ admin' \in Nat
<1>0. /\ service \in [Services -> ServiceRow]
      /\ staff \in [Staff -> [present: BOOLEAN, active: BOOLEAN]]
      /\ offers \subseteq Staff \X Services
      /\ coupon \in CouponRow
      /\ email \in BOOLEAN
      /\ orderUses \in Nat
      /\ coupon.limit \in limits
      /\ limits \subseteq Nat \cup {NoLimit}
      /\ admin \in Nat
  BY DEF TypeOK, ServiceRow, CouponRow
<1>1. ASSUME NEW sv \in Services, UpdateService(sv) PROVE Rest
  <2>1. PICK active \in BOOLEAN, d \in EditDurations :
            service' = [service EXCEPT ![sv].active = active,
                                       ![sv].duration = d]
    BY <1>1 DEF UpdateService
  <2>2. d \in Int
    BY BookingConstants DEF BookingConstants
  <2> DEFINE row == [service[sv] EXCEPT !.active = active, !.duration = d]
  <2>3. row \in ServiceRow
    BY <1>0, <2>2 DEF ServiceRow
  <2>4. service' = [service EXCEPT ![sv] = row]
    BY <2>1
  <2>5. service' \in [Services -> ServiceRow]
    BY <1>0, <2>3, <2>4
  <2> QED BY <1>0, <1>1, <2>5 DEF UpdateService, Edit
<1>2. ASSUME NEW sv \in Services, DeleteService(sv) PROVE Rest
  <2> DEFINE row == [service[sv] EXCEPT !.present = FALSE]
  <2>1. row \in ServiceRow
    BY <1>0 DEF ServiceRow
  <2>2. service' = [service EXCEPT ![sv] = row]
    BY <1>2 DEF DeleteService
  <2>3. service' \in [Services -> ServiceRow]
    BY <1>0, <2>1, <2>2
  <2> QED BY <1>0, <1>2, <2>3 DEF DeleteService, Edit
<1>3. ASSUME NEW w \in Staff, UpdateStaff(w) PROVE Rest
  BY <1>0, <1>3 DEF UpdateStaff, Edit
<1>4. ASSUME NEW w \in Staff, DeleteStaff(w) PROVE Rest
  <2>1. /\ staff' \in [Staff -> [present: BOOLEAN, active: BOOLEAN]]
        /\ offers' \subseteq Staff \X Services
    BY <1>0, <1>4 DEF DeleteStaff
  <2> QED BY <1>0, <1>4, <2>1 DEF DeleteStaff, Edit
<1>5. ASSUME NEW w \in Staff, SyncStaffServices(w) PROVE Rest
  <2>1. offers' \subseteq Staff \X Services
    BY <1>0, <1>5 DEF SyncStaffServices
  <2> QED BY <1>0, <1>5, <2>1 DEF SyncStaffServices, Edit
<1>6. ASSUME NEW w \in Staff, NEW sv \in Services, AssignStaffService(w, sv)
      PROVE  Rest
  BY <1>0, <1>6 DEF AssignStaffService, Edit
<1>7. ASSUME UpdateCoupon PROVE Rest
  <2>1. PICK usable \in BOOLEAN, limit \in Limits \cup {coupon.limit} :
            /\ coupon' = [coupon EXCEPT !.usable = usable, !.limit = limit]
            /\ limits' = limits \cup {limit}
    BY <1>7 DEF UpdateCoupon
  <2>2. limit \in Nat \cup {NoLimit}
    BY <1>0, BookingConstants DEF BookingConstants, CouponRow
  <2>3. coupon' \in CouponRow /\ coupon'.limit = limit
    BY <1>0, <2>1, <2>2 DEF CouponRow
  <2> QED BY <1>0, <1>7, <2>1, <2>2, <2>3 DEF UpdateCoupon, Edit
<1>8. ASSUME DeleteCoupon PROVE Rest
  <2>1. coupon' \in CouponRow /\ coupon'.limit = coupon.limit
    BY <1>0, <1>8 DEF DeleteCoupon, CouponRow
  <2> QED BY <1>0, <1>8, <2>1 DEF DeleteCoupon, Edit
<1>9. ASSUME SwitchEmail PROVE Rest
  <2>1. email' \in BOOLEAN
    BY <1>9, Zenon DEF SwitchEmail
  <2> QED BY <1>0, <1>9, <2>1 DEF SwitchEmail, Edit
<1>10. ASSUME ExpireCoupon PROVE Rest
  <2>1. coupon' \in CouponRow /\ coupon'.limit = coupon.limit
    BY <1>0, <1>10 DEF ExpireCoupon, CouponRow
  <2> QED BY <1>0, <1>10, <2>1 DEF ExpireCoupon, history
<1>11. ASSUME OrderRedeems PROVE Rest
  <2>1. coupon' \in CouponRow /\ coupon'.limit = coupon.limit
    BY <1>0, <1>11 DEF OrderRedeems, CouponRow
  <2> QED BY <1>0, <1>11, <2>1 DEF OrderRedeems
<1> HIDE DEF Rest
<1>12. Rest
  BY <1>1, <1>2, <1>3, <1>4, <1>5, <1>6, <1>7, <1>8, <1>9, <1>10, <1>11
     DEF Environment
<1>13. TypeOK'
  BY <1>12, EnvironmentFrame DEF Rest, TypeOK, locals, ServiceRow, CouponRow
<1> QED BY <1>13, EnvironmentFrame, EditKeepsFit

\* Nothing happens.
LEMMA StutterTypeInv ==
    ASSUME TypeInv, UNCHANGED vars
    PROVE  TypeInv'
BY DEF TypeInv, TypeOK, StepsFit, Fits, Stored, vars, tables, locals, history

\* Every state is well typed, and every request runs only statements of the
\* use case it asked for: the inductive form of the type invariant.
THEOREM TypeInvariant == Spec => []TypeInv
<1>1. TypeInv /\ [Next]_vars => TypeInv'
  BY StartTypeInv, CreateTypeInv, ChangeTypeInv, NotifyTypeInv,
     InterruptTypeInv, EnvironmentTypeInv, StutterTypeInv DEF Next, Progress
<1> QED BY <1>1, InitTypeInv, PTL DEF Spec

\* Every variable keeps its type, and no step runs with another's input.
THEOREM TypeCorrect == Spec => []TypeOK
BY TypeInvariant, PTL DEF TypeInv
==============================================================================

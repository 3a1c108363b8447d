---------------------------- MODULE BookingSafety ----------------------------
(***************************************************************************)
(* The safety properties of Booking, for every value of the constants: how *)
(* a double booking can come about, what becomes of final appointments and *)
(* of IN_PROGRESS, how far a coupon is overspent, and what bookings        *)
(* promise of the calendar.                                                *)
(***************************************************************************)
EXTENDS BookingProofs

USE DEF At

------------------------------------------------------------------------------
(* Double bookings.  A request's check stays true of what it saw, because   *)
(* an appointment never changes its staff member or its interval and is     *)
(* never inserted again once it is deleted.                                 *)

AfterCheck == {"findCoupon", "incrementUsage", "readDuration", "insert"}

\* The request of a has left the use case that may insert a.
Past(a) == pc[a] \notin CreateSteps \cup {"idle"}

HasChecked(r) == pc[r] \in AfterCheck \/ Stored(r)

\* The row is what the request asked for, with the duration read last.
RowMatches(r) ==
    Stored(r) => /\ appt[r].staff = req[r].staff
                 /\ appt[r].start = req[r].start
                 /\ appt[r].end = req[r].start + stored[r]

\* What the check saw as blocking is still out of the way of the slot.
Clear(r) ==
    HasChecked(r) =>
        \A a \in seen[r] :
            Stored(a) /\ appt[a].staff = req[r].staff =>
                ~ConflictQuery(appt[a].start, appt[a].end,
                               req[r].start, req[r].start + checked[r])

SlotInv ==
    /\ \A a \in Requests : Stored(a) => Past(a)
    /\ \A r \in Requests : \A a \in seen[r] : Past(a)
    /\ \A r \in Requests : RowMatches(r)
    /\ \A r \in Requests : Clear(r)

\* Nobody has checked anything yet.
LEMMA InitSlotInv == Init => SlotInv
BY DEF Init, SlotInv, Stored, RowMatches, Clear, HasChecked, AfterCheck

\* A step that inserts nothing, checks nothing, and changes no slot.
Quiet ==
    /\ seen' = seen
    /\ \A a \in Requests :
          /\ Past(a) => Past(a)'
          /\ Stored(a)' => /\ Stored(a)
                           /\ appt'[a].staff = appt[a].staff
                           /\ appt'[a].start = appt[a].start
                           /\ appt'[a].end = appt[a].end
                           /\ stored'[a] = stored[a]
          /\ HasChecked(a)' => /\ HasChecked(a)
                               /\ req'[a] = req[a]
                               /\ checked'[a] = checked[a]

\* Such a step leaves every check as true as it was.
LEMMA QuietKeepsSlots ==
    ASSUME TypeInv, SlotInv, Quiet
    PROVE  SlotInv'
<1>1. \A r \in Requests : seen[r] \subseteq Requests
  BY DEF TypeInv, TypeOK
<1>2. \A a \in Requests : (Stored(a) => Past(a))'
  BY DEF SlotInv, Quiet
<1>3. \A r \in Requests : \A a \in seen'[r] : Past(a)'
  BY <1>1 DEF SlotInv, Quiet
<1>4. ASSUME NEW r \in Requests PROVE RowMatches(r)'
  <2>1. Stored(r)' => HasChecked(r)'
    BY DEF HasChecked
  <2> QED BY <2>1 DEF SlotInv, Quiet, RowMatches
<1>5. ASSUME NEW r \in Requests PROVE Clear(r)'
  <2> SUFFICES ASSUME HasChecked(r)', NEW a \in seen[r], Stored(a)',
                      appt'[a].staff = req'[r].staff
               PROVE  ~ConflictQuery(appt'[a].start, appt'[a].end,
                                     req'[r].start,
                                     req'[r].start + checked'[r])
    BY DEF Clear, Quiet
  <2>1. a \in Requests
    BY <1>1
  <2>2. HasChecked(r) /\ req'[r] = req[r] /\ checked'[r] = checked[r]
    BY DEF Quiet
  <2>3. /\ Stored(a) /\ appt'[a].staff = appt[a].staff
        /\ appt'[a].start = appt[a].start /\ appt'[a].end = appt[a].end
    BY <2>1 DEF Quiet
  <2> QED BY <2>2, <2>3 DEF SlotInv, Clear
<1> QED BY <1>2, <1>3, <1>4, <1>5 DEF SlotInv

\* Steps that only move a request on, or end it.
LEMMA MoveIsQuiet ==
    ASSUME TypeInv, SlotInv, NEW r \in Requests, NEW step,
           Goto(r, step), step \notin CreateSteps \cup {"idle"},
           UNCHANGED <<appt, req, checked, stored, seen>>
    PROVE  Quiet
BY DEF TypeInv, TypeOK, SlotInv, Goto, Quiet, Past, HasChecked, Stored,
   AfterCheck, CreateSteps

\* Steps inside the create use case, before the insert.
LEMMA CreateMoveIsQuiet ==
    ASSUME TypeInv, SlotInv, NEW r \in Requests, NEW step, Goto(r, step),
           pc[r] \in CreateSteps, step # "idle",
           step \in AfterCheck => pc[r] \in AfterCheck /\ checked' = checked,
           \A q \in Requests \ {r} : /\ checked'[q] = checked[q]
                                     /\ stored'[q] = stored[q],
           UNCHANGED <<appt, req, seen>>
    PROVE  Quiet
<1>1. ~Stored(r)
  BY DEF SlotInv, Past
<1>2. pc' = [pc EXCEPT ![r] = step] /\ pc \in [Requests -> Steps \cup AtRest]
  BY DEF Goto, TypeInv, TypeOK
<1>3. \A a \in Requests : Past(a) => Past(a)'
  BY <1>2 DEF Past
<1>4. \A a \in Requests : Stored(a)' => Stored(a) /\ a # r
  BY <1>1 DEF Stored
<1>5. \A a \in Requests : HasChecked(a)' => /\ HasChecked(a)
                                            /\ checked'[a] = checked[a]
  BY <1>2, <1>4 DEF HasChecked
<1> QED BY <1>3, <1>4, <1>5 DEF Quiet

\* When the check passes, what it saw is out of the way of its slot.
LEMMA CheckKeepsSlots ==
    ASSUME TypeInv, SlotInv, NEW r \in Requests, CheckSlot(r)
    PROVE  SlotInv'
<1> DEFINE w == req[r].staff
           s == req[r].start
           free == CheckAvailability(w, s, s + checked[r])
<1>1. /\ ~Stored(r) /\ pc[r] = "checkAvailability"
      /\ UNCHANGED <<appt, req, checked, stored>>
      /\ seen' = [seen EXCEPT ![r] = Blocking(w)]
      /\ pc \in [Requests -> Steps \cup AtRest]
      /\ seen \in [Requests -> SUBSET Requests]
  <2>1. pc[r] = "checkAvailability"
    BY DEF CheckSlot
  <2>2. ~Stored(r)
    BY <2>1 DEF SlotInv, Past, CreateSteps
  <2>3. /\ UNCHANGED <<appt, req, checked, stored>>
        /\ seen' = [seen EXCEPT ![r] = Blocking(w)]
    BY DEF CheckSlot, locals
  <2> QED BY <2>1, <2>2, <2>3 DEF TypeInv, TypeOK
<1>2. PICK next : /\ pc' = [pc EXCEPT ![r] = next]
                  /\ \/ next \in AfterCheck /\ free
                     \/ next = "failed"
  BY DEF CheckSlot, Goto, AfterCheck
<1>3. \A a \in Requests : Past(a) => Past(a)'
  BY <1>1, <1>2 DEF Past, CreateSteps
<1>4. \A a \in Blocking(w) : a \in Requests /\ Stored(a)
  BY DEF Blocking
<1>5. \A a \in Requests : (Stored(a) => Past(a))'
  BY <1>1, <1>3 DEF SlotInv, Stored
<1>6. \A q \in Requests : \A a \in seen'[q] : Past(a)'
  BY <1>1, <1>3, <1>4 DEF SlotInv
<1>7. \A q \in Requests : RowMatches(q)'
  BY <1>1 DEF SlotInv, RowMatches, Stored
<1>8. ASSUME NEW q \in Requests \ {r} PROVE Clear(q)'
  BY <1>1, <1>2 DEF SlotInv, Clear, HasChecked, Stored
<1>9. Clear(r)'
  <2> SUFFICES ASSUME HasChecked(r)', NEW a \in Blocking(w)
               PROVE  ~ConflictQuery(appt[a].start, appt[a].end,
                                     s, s + checked[r])
    BY <1>1 DEF Clear, Stored
  <2>1. free
    BY <1>1, <1>2 DEF HasChecked, Stored, AfterCheck
  <2> QED BY <2>1 DEF CheckAvailability
<1> QED BY <1>5, <1>6, <1>7, <1>8, <1>9 DEF SlotInv

\* The inserted row was seen by nobody, since its request had not ended its
\* own use case when the others checked.
LEMMA InsertKeepsSlots ==
    ASSUME TypeInv, SlotInv, NEW r \in Requests, Insert(r), appt' # appt
    PROVE  SlotInv'
<1> DEFINE row == [staff |-> req[r].staff, service |-> req[r].service,
                   start |-> req[r].start, end |-> req[r].start + stored[r],
                   coupon |-> FALSE, status |-> "PENDING"]
<1>1. /\ pc[r] = "insert" /\ ~Past(r) /\ ~Stored(r)
      /\ pc' = [pc EXCEPT ![r] = "features"]
      /\ appt' = [appt EXCEPT ![r] = row]
      /\ UNCHANGED <<req, checked, stored, seen>>
  <2>1. pc[r] = "insert"
    BY DEF Insert
  <2>2. ~Past(r) /\ ~Stored(r)
    BY <2>1 DEF SlotInv, Past, CreateSteps
  <2>3. /\ pc' = [pc EXCEPT ![r] = "features"]
        /\ appt' = [appt EXCEPT ![r] = row]
    BY DEF Insert, Goto
  <2>4. UNCHANGED <<req, checked, stored, seen>>
    BY DEF Insert, locals, history
  <2> QED BY <2>1, <2>2, <2>3, <2>4
<1>2. /\ pc \in [Requests -> Steps \cup AtRest]
      /\ appt \in [Requests -> Appointment \cup {NoAppointment}]
      /\ seen \in [Requests -> SUBSET Requests]
  BY DEF TypeInv, TypeOK
<1>3. appt'[r] = row /\ \A a \in Requests \ {r} : appt'[a] = appt[a]
  BY <1>1, <1>2
<1>4. \A a \in Requests : Past(a) => Past(a)'
  BY <1>1, <1>2 DEF Past, CreateSteps
<1>5. Past(r)'
  BY <1>1, <1>2 DEF Past, CreateSteps
<1>6. \A a \in Requests : (Stored(a) => Past(a))'
  BY <1>3, <1>4, <1>5 DEF SlotInv, Stored
<1>7. \A q \in Requests : \A a \in seen'[q] : Past(a)'
  BY <1>1, <1>2, <1>4 DEF SlotInv
<1>8. \A q \in Requests : RowMatches(q)'
  BY <1>1, <1>3 DEF SlotInv, RowMatches, Stored
<1>9. \A q \in Requests : \A a \in seen[q] : a \in Requests \ {r}
  BY <1>1, <1>2 DEF SlotInv
<1>10. ASSUME NEW q \in Requests PROVE Clear(q)'
  <2>1. HasChecked(q)' => HasChecked(q)
    BY <1>1, <1>2, <1>3 DEF HasChecked, Stored, AfterCheck
  <2>2. \A a \in seen[q] : appt'[a] = appt[a]
    BY <1>3, <1>9
  <2> QED BY <1>1, <2>1, <2>2 DEF SlotInv, Clear, Stored
<1> QED BY <1>6, <1>7, <1>8, <1>10 DEF SlotInv

\* An arriving request has checked nothing.
LEMMA BeginIsQuiet ==
    ASSUME TypeInv, SlotInv, NEW r \in Requests, NEW input, NEW step,
           Begin(r, input, step), step \notin AfterCheck
    PROVE  Quiet
<1>1. /\ pc[r] = "idle" /\ pc' = [pc EXCEPT ![r] = step]
      /\ req' = [req EXCEPT ![r] = input]
      /\ UNCHANGED <<appt, checked, stored, seen>>
  BY DEF Begin, Goto, locals, history
<1>2. ~Stored(r)
  BY <1>1 DEF SlotInv, Past
<1>3. /\ pc \in [Requests -> Steps \cup AtRest]
      /\ req' = [req' EXCEPT ![r] = input] /\ \A q \in Requests \ {r} : req'[q] = req[q]
  BY <1>1 DEF TypeInv, TypeOK
<1>4. \A a \in Requests : Past(a) => Past(a)'
  BY <1>1, <1>3 DEF Past
<1>5. \A a \in Requests : HasChecked(a)' => HasChecked(a) /\ a # r
  BY <1>1, <1>2, <1>3 DEF HasChecked, Stored
<1> QED BY <1>1, <1>3, <1>4, <1>5 DEF Quiet, Stored

\* Changing a status or deleting a row moves no slot.
LEMMA WriteIsQuiet ==
    ASSUME TypeInv, SlotInv, NEW r \in Requests, WriteStatus(r) \/ DeleteRow(r)
    PROVE  Quiet
<1> DEFINE x == req[r].target
<1>1. /\ pc \in [Requests -> Steps \cup AtRest]
      /\ appt \in [Requests -> Appointment \cup {NoAppointment}]
  BY DEF TypeInv, TypeOK
<1>2. PICK step \in {"features", "done", "failed"} :
          pc' = [pc EXCEPT ![r] = step]
  BY DEF WriteStatus, DeleteRow, Goto
<1>3. pc[r] \in {"writeStatus", "deleteRow"}
  BY DEF WriteStatus, DeleteRow
<1>4. UNCHANGED <<req, checked, stored, seen>>
  BY DEF WriteStatus, DeleteRow, locals, history
<1>5. x \in Requests
  BY <1>3 DEF TypeInv, StepsFit, Fits, ChangeRequest, CancelRequest,
     StatusRequest, DeleteRequest
<1>6. \A a \in Requests \ {x} : appt'[a] = appt[a]
  BY <1>1, <1>5 DEF WriteStatus, DeleteRow
<1>7. appt'[x] # NoAppointment => /\ Stored(x)
                                  /\ appt'[x].staff = appt[x].staff
                                  /\ appt'[x].start = appt[x].start
                                  /\ appt'[x].end = appt[x].end
  <2>1. CASE appt' = appt
    BY <2>1 DEF Stored
  <2>2. CASE Stored(x) /\ appt' = [appt EXCEPT ![x].status = NewStatus(req[r])]
    <3>1. appt[x] \in Appointment
      BY <1>1, <1>5, <2>2 DEF Stored
    <3>2. appt'[x] = [appt[x] EXCEPT !.status = NewStatus(req[r])]
      BY <1>1, <1>5, <2>2
    <3> QED BY <2>2, <3>1, <3>2 DEF Appointment
  <2>3. CASE appt' = [appt EXCEPT ![x] = NoAppointment]
    BY <1>1, <1>5, <2>3 DEF Stored
  <2> QED BY <2>1, <2>2, <2>3 DEF WriteStatus, DeleteRow
<1>8. \A a \in Requests : Past(a) => Past(a)'
  BY <1>1, <1>2 DEF Past, CreateSteps
<1>9. \A a \in Requests : HasChecked(a)' => HasChecked(a)
  BY <1>1, <1>2, <1>6, <1>7 DEF HasChecked, Stored, AfterCheck
<1> QED BY <1>4, <1>6, <1>7, <1>8, <1>9 DEF Quiet, Stored

\* Every step is quiet, a check or an insert.
LEMMA NextKeepsSlots ==
    ASSUME TypeInv, SlotInv, [Next]_vars
    PROVE  SlotInv'
<1> USE QuietKeepsSlots
<1>1. ASSUME NEW r \in Requests, StartCreate(r) \/ StartChange(r)
      PROVE  SlotInv'
  <2>1. CASE StartCreate(r)
    <3>1. PICK input \in CreateRequest : Begin(r, input, "findService")
      BY <2>1 DEF StartCreate
    <3> QED BY <3>1, BeginIsQuiet DEF AfterCheck
  <2>2. CASE StartChange(r)
    <3>1. PICK input \in CancelRequest \cup StatusRequest \cup DeleteRequest :
              Begin(r, input, "findAppointment")
      BY <2>2 DEF StartChange
    <3> QED BY <3>1, BeginIsQuiet DEF AfterCheck
  <2> QED BY <1>1, <2>1, <2>2
<1>2. ASSUME NEW r \in Requests, CreateStep(r)
      PROVE  SlotInv'
  <2>1. CASE FindService(r)
    <3>1. PICK step \in {"findStaff", "failed"} : Goto(r, step)
      BY <2>1 DEF FindService
    <3>2. /\ pc[r] \in CreateSteps
          /\ UNCHANGED <<appt, req, stored, seen>>
          /\ \A q \in Requests \ {r} : checked'[q] = checked[q]
      BY <2>1 DEF FindService, CreateSteps, history, TypeInv, TypeOK
    <3> QED BY <3>1, <3>2, CreateMoveIsQuiet DEF AfterCheck
  <2>2. CASE FindStaff(r) \/ GetServices(r)
    <3>1. PICK step \in {"getServices", "checkAvailability", "failed"} :
              Goto(r, step)
      BY <2>2 DEF FindStaff, GetServices
    <3>2. /\ pc[r] \in CreateSteps
          /\ UNCHANGED <<appt, req, checked, stored, seen>>
      BY <2>2 DEF FindStaff, GetServices, CreateSteps, locals, history
    <3> QED BY <3>1, <3>2, CreateMoveIsQuiet DEF AfterCheck
  <2>3. CASE CheckSlot(r)
    BY <2>3, CheckKeepsSlots
  <2>4. CASE FindCoupon(r) \/ IncrementUsage(r) \/ ReadDuration(r)
    <3>1. PICK step \in {"incrementUsage", "readDuration", "insert", "failed"} :
              Goto(r, step)
      BY <2>4 DEF FindCoupon, IncrementUsage, ReadDuration
    <3>2. /\ pc[r] \in CreateSteps /\ pc[r] \in AfterCheck
          /\ UNCHANGED <<appt, req, checked, seen>>
          /\ \A q \in Requests \ {r} : stored'[q] = stored[q]
      BY <2>4 DEF FindCoupon, IncrementUsage, ReadDuration, CreateSteps,
         AfterCheck, locals, history, TypeInv, TypeOK
    <3> QED BY <3>1, <3>2, CreateMoveIsQuiet
  <2>5. CASE Insert(r) /\ appt' # appt
    BY <2>5, InsertKeepsSlots
  <2>6. CASE Insert(r) /\ appt' = appt
    <3>1. PICK step \in {"features", "failed"} : Goto(r, step)
      BY <2>6 DEF Insert
    <3>2. UNCHANGED <<appt, req, checked, stored, seen>>
      BY <2>6 DEF Insert, locals, history
    <3> QED BY <3>1, <3>2, MoveIsQuiet DEF CreateSteps
  <2> QED BY <1>2, <2>1, <2>2, <2>3, <2>4, <2>5, <2>6 DEF CreateStep
<1>3. ASSUME NEW r \in Requests, FindAppointment(r)
      PROVE  SlotInv'
  <2>1. PICK step \in {"writeStatus", "deleteRow", "failed"} : Goto(r, step)
    BY <1>3 DEF FindAppointment
  <2>2. UNCHANGED <<appt, req, checked, stored, seen>>
    BY <1>3 DEF FindAppointment, history
  <2> QED BY <2>1, <2>2, MoveIsQuiet DEF CreateSteps
<1>4. ASSUME NEW r \in Requests, WriteStatus(r) \/ DeleteRow(r)
      PROVE  SlotInv'
  BY <1>4, WriteIsQuiet
<1>5. ASSUME NEW r \in Requests, NotifyStep(r) \/ Interrupt(r)
      PROVE  SlotInv'
  <2>1. PICK step \in {"enqueue", "done", "failed"} : Goto(r, step)
    BY <1>5 DEF NotifyStep, ReadFeatures, Enqueue, Interrupt, Goto
  <2>2. UNCHANGED <<appt, req, checked, stored, seen>>
    BY <1>5 DEF NotifyStep, ReadFeatures, Enqueue, Interrupt, locals, history
  <2> QED BY <2>1, <2>2, MoveIsQuiet DEF CreateSteps
<1>6. CASE Environment \/ UNCHANGED vars
  <2>1. UNCHANGED <<appt, req, pc, checked, stored, seen>>
    BY <1>6, EnvironmentFrame DEF vars, locals, history
  <2> QED BY <2>1 DEF Quiet, Past, Stored, HasChecked
<1> QED BY <1>1, <1>2, <1>3, <1>4, <1>5, <1>6 DEF Next, Progress, ChangeStep

\* Of two clashing appointments, at least one was not visible to the other's
\* check, or its interval is not the one that was checked.
LEMMA SlotInvExplainsClashes ==
    ASSUME TypeInv, SlotInv
    PROVE  OverlapOnlyByRace
<1> SUFFICES ASSUME NEW a \in Requests, NEW b \in Requests, Clash(a, b),
                    Stored(a), Stored(b), ~Drifted(a), ~Drifted(b)
             PROVE  a \notin seen[b] /\ b \notin seen[a]
  BY DEF OverlapOnlyByRace
<1>1. /\ appt[a].start \in Int /\ appt[a].end \in Int
      /\ appt[b].start \in Int /\ appt[b].end \in Int
  BY DEF TypeInv, TypeOK, Stored, Appointment
<1>2. ASSUME NEW x \in Requests, NEW y \in Requests, x \in seen[y],
             Stored(x), Stored(y), ~Drifted(y),
             appt[x].staff = appt[y].staff
      PROVE  ~ConflictQuery(appt[x].start, appt[x].end,
                            appt[y].start, appt[y].end)
  BY <1>2 DEF SlotInv, RowMatches, Clear, HasChecked, Drifted
<1>3. /\ appt[a].staff = appt[b].staff
      /\ Overlaps(appt[a].start, appt[a].end, appt[b].start, appt[b].end)
      /\ Overlaps(appt[b].start, appt[b].end, appt[a].start, appt[a].end)
  BY <1>1 DEF Clash, Overlaps
<1> QED BY <1>1, <1>2, <1>3, QueryFindsOverlaps

\* What a check saw stays out of the way of the slot it was made for.
THEOREM SlotInvariant == Spec => []SlotInv
<1>1. TypeInv /\ SlotInv /\ [Next]_vars => SlotInv'
  BY NextKeepsSlots
<1> QED BY <1>1, InitSlotInv, TypeInvariant, PTL DEF Spec

\* Two overlapping bookings of one staff member are the work of a race
\* between check and insert, of a revived NO_SHOW, or of an edited duration;
\* checkAvailability itself never lets one through.
THEOREM DoubleBookingsAreRaces == Spec => []OverlapOnlyByRace
<1>1. TypeInv /\ SlotInv => OverlapOnlyByRace
  BY SlotInvExplainsClashes
<1> QED BY <1>1, SlotInvariant, TypeInvariant, PTL

------------------------------------------------------------------------------
(* Statuses.  A request on its way to write a status has read one that its  *)
(* use case permits, and none of those leads to IN_PROGRESS.                *)

StatusInv ==
    /\ NeverInProgress
    /\ \A r \in Requests : pc[r] = "writeStatus" =>
          /\ isModifiable(old[r])
          /\ NewStatus(req[r]) # "IN_PROGRESS"

\* A step that writes no row and sends no request on to write one.
StatusQuiet ==
    /\ \A a \in Requests : appt'[a] = appt[a] \/ appt'[a] = NoAppointment
    /\ \A r \in Requests : pc'[r] = "writeStatus" =>
          /\ pc[r] = "writeStatus"
          /\ old'[r] = old[r] /\ req'[r] = req[r]

\* Such a step takes nothing to IN_PROGRESS.
LEMMA QuietKeepsStatus ==
    ASSUME StatusInv, StatusQuiet
    PROVE  StatusInv'
BY DEF StatusInv, StatusQuiet, NeverInProgress, Stored, isModifiable, NewStatus

\* A move between statements that write no status is one.
LEMMA MoveKeepsStatus ==
    ASSUME TypeInv, NEW r \in Requests, NEW step, Goto(r, step),
           step # "writeStatus", UNCHANGED <<appt, req, old>>
    PROVE  StatusQuiet
BY DEF TypeInv, TypeOK, Goto, StatusQuiet

\* A request goes on to write a status only if the one it read permits it,
\* and then it does not write IN_PROGRESS.
LEMMA FindKeepsStatus ==
    ASSUME TypeInv, StatusInv, NEW r \in Requests, FindAppointment(r)
    PROVE  StatusInv'
<1> DEFINE in == req[r]
           st == appt[in.target].status
<1>1. /\ pc[r] = "findAppointment" /\ UNCHANGED <<appt, req>>
      /\ pc \in [Requests -> Steps \cup AtRest]
      /\ old \in [Requests -> Status \cup {"none"}]
  BY DEF FindAppointment, TypeInv, TypeOK
<1>2. in \in ChangeRequest \cup DeleteRequest
  BY <1>1 DEF TypeInv, StepsFit, Fits
<1>3. CASE Goto(r, "failed") /\ old' = old
  BY <1>1, <1>3, MoveKeepsStatus, QuietKeepsStatus
<1>4. CASE Goto(r, "deleteRow") /\ old' = [old EXCEPT ![r] = st]
  BY <1>1, <1>4 DEF StatusInv, NeverInProgress, Stored, Goto, isModifiable,
     NewStatus
<1>5. CASE /\ Goto(r, "writeStatus") /\ old' = [old EXCEPT ![r] = st]
           /\ Stored(in.target) /\ Permitted(in, st) /\ in.kind # "delete"
  <2>1. in.target \in Requests /\ in.kind \in {"cancel", "updateStatus"}
    BY <1>2, <1>5 DEF ChangeRequest, CancelRequest, StatusRequest, DeleteRequest
  <2>2. st # "IN_PROGRESS"
    BY <1>5, <2>1 DEF StatusInv, NeverInProgress
  <2>3. isModifiable(st) /\ NewStatus(in) # "IN_PROGRESS"
    BY <1>5, <2>1, <2>2 DEF Permitted, isCancellable, isModifiable, hasStarted,
       NewStatus
  <2> QED BY <1>1, <1>5, <2>3 DEF StatusInv, NeverInProgress, Stored, Goto,
          isModifiable, NewStatus
<1> QED BY <1>3, <1>4, <1>5 DEF FindAppointment

\* The status written is the one that was permitted.
LEMMA WriteKeepsStatus ==
    ASSUME TypeInv, StatusInv, NEW r \in Requests, WriteStatus(r)
    PROVE  StatusInv'
<1> DEFINE x == req[r].target
<1>1. /\ pc[r] = "writeStatus" /\ UNCHANGED <<req, old>>
      /\ pc \in [Requests -> Steps \cup AtRest]
      /\ appt \in [Requests -> Appointment \cup {NoAppointment}]
      /\ NewStatus(req[r]) # "IN_PROGRESS"
  BY DEF WriteStatus, locals, TypeInv, TypeOK, StatusInv
<1>2. PICK step \in {"features", "failed"} : pc' = [pc EXCEPT ![r] = step]
  BY DEF WriteStatus, Goto
<1>3. \A a \in Requests : appt'[a] # NoAppointment =>
          appt'[a] = appt[a] \/ appt'[a].status = NewStatus(req[r])
  <2>1. CASE appt' = [appt EXCEPT ![x].status = NewStatus(req[r])] /\ Stored(x)
    <3>1. ASSUME NEW a \in Requests, a = x
          PROVE  appt'[a].status = NewStatus(req[r])
      <4>1. appt[a] \in Appointment
        BY <1>1, <2>1, <3>1 DEF Stored
      <4>2. appt'[a] = [appt[a] EXCEPT !.status = NewStatus(req[r])]
        BY <1>1, <2>1, <3>1
      <4> QED BY <4>1, <4>2 DEF Appointment
    <3>2. ASSUME NEW a \in Requests, a # x
          PROVE  appt'[a] = appt[a]
      BY <1>1, <2>1, <3>2
    <3> QED BY <3>1, <3>2
  <2>2. CASE appt' = appt
    BY <2>2
  <2> QED BY <2>1, <2>2 DEF WriteStatus
<1>4. NeverInProgress'
  BY <1>1, <1>3 DEF StatusInv, NeverInProgress, Stored
<1>5. \A q \in Requests : pc'[q] = "writeStatus" => pc[q] = "writeStatus"
  BY <1>1, <1>2
<1> QED BY <1>1, <1>4, <1>5 DEF StatusInv, isModifiable, NewStatus

\* Every step is quiet, a judgement or a write.
LEMMA NextKeepsStatus ==
    ASSUME TypeInv, StatusInv, [Next]_vars
    PROVE  StatusInv'
<1> USE QuietKeepsStatus
<1>1. ASSUME NEW r \in Requests, StartCreate(r) \/ StartChange(r)
      PROVE  StatusInv'
  <2>1. PICK step \in {"findService", "findAppointment"} :
            /\ Goto(r, step)
            /\ UNCHANGED <<appt, old>>
            /\ \A q \in Requests \ {r} : req'[q] = req[q]
    BY <1>1 DEF StartCreate, StartChange, Begin, locals, TypeInv, TypeOK
  <2> QED BY <2>1 DEF TypeInv, TypeOK, Goto, StatusQuiet
<1>2. ASSUME NEW r \in Requests, CreateStep(r), appt' = appt
      PROVE  StatusInv'
  <2>1. PICK step \in Steps \cup AtRest : Goto(r, step) /\ step # "writeStatus"
    BY <1>2 DEF CreateStep, FindService, FindStaff, GetServices, CheckSlot,
       FindCoupon, IncrementUsage, ReadDuration, Insert, Steps, AtRest
  <2>2. UNCHANGED <<req, old>>
    BY <1>2 DEF CreateStep, FindService, FindStaff, GetServices, CheckSlot,
       FindCoupon, IncrementUsage, ReadDuration, Insert, locals
  <2> QED BY <1>2, <2>1, <2>2, MoveKeepsStatus
<1>3. ASSUME NEW r \in Requests, CreateStep(r), appt' # appt
      PROVE  StatusInv'
  <2>1. Insert(r)
    BY <1>3 DEF CreateStep, FindService, FindStaff, GetServices, CheckSlot,
       FindCoupon, IncrementUsage, ReadDuration
  <2>2. /\ Goto(r, "features") /\ UNCHANGED <<req, old>>
        /\ \A a \in Requests : appt'[a] = appt[a] \/ appt'[a].status = "PENDING"
    BY <1>3, <2>1 DEF Insert, locals, TypeInv, TypeOK
  <2>3. NeverInProgress'
    BY <2>2 DEF StatusInv, NeverInProgress, Stored
  <2>4. \A q \in Requests : pc'[q] = "writeStatus" => pc[q] = "writeStatus"
    BY <2>2 DEF Goto, TypeInv, TypeOK
  <2> QED BY <2>2, <2>3, <2>4 DEF StatusInv, isModifiable, NewStatus
<1>4. ASSUME NEW r \in Requests, FindAppointment(r)
      PROVE  StatusInv'
  BY <1>4, FindKeepsStatus
<1>5. ASSUME NEW r \in Requests, WriteStatus(r)
      PROVE  StatusInv'
  BY <1>5, WriteKeepsStatus
<1>6. ASSUME NEW r \in Requests, DeleteRow(r) \/ NotifyStep(r) \/ Interrupt(r)
      PROVE  StatusInv'
  <2>1. PICK step \in {"enqueue", "done", "failed"} : Goto(r, step)
    BY <1>6 DEF DeleteRow, NotifyStep, ReadFeatures, Enqueue, Interrupt, Goto
  <2>2. UNCHANGED <<req, old>>
    BY <1>6 DEF DeleteRow, NotifyStep, ReadFeatures, Enqueue, Interrupt, locals
  <2>3. \A a \in Requests : appt'[a] = appt[a] \/ appt'[a] = NoAppointment
    BY <1>6 DEF DeleteRow, NotifyStep, ReadFeatures, Enqueue, Interrupt,
       TypeInv, TypeOK
  <2> QED BY <2>1, <2>2, <2>3 DEF TypeInv, TypeOK, Goto, StatusQuiet
<1>7. CASE Environment \/ UNCHANGED vars
  <2>1. UNCHANGED <<appt, req, pc, old>>
    BY <1>7, EnvironmentFrame DEF vars, locals
  <2> QED BY <2>1 DEF StatusQuiet
<1> QED BY <1>1, <1>2, <1>3, <1>4, <1>5, <1>6, <1>7 DEF Next, Progress,
        ChangeStep

\* Nothing is IN_PROGRESS, nobody is about to write it, and whoever is about
\* to change a status had read one that may be changed.
THEOREM StatusInvariant == Spec => []StatusInv
<1>1. Init => StatusInv
  BY DEF Init, StatusInv, NeverInProgress, Stored
<1>2. TypeInv /\ StatusInv /\ [Next]_vars => StatusInv'
  BY NextKeepsStatus
<1> QED BY <1>1, <1>2, TypeInvariant, PTL DEF Spec

\* No interleaving of any number of requests takes an appointment to
\* IN_PROGRESS.
THEOREM InProgressUnreachable == Spec => []NeverInProgress
BY StatusInvariant, PTL DEF StatusInv

\* A COMPLETED or CANCELLED appointment changes its status only through a
\* request that read it before it became final.
THEOREM FinalChangesAreStale == Spec => FinalChangedOnlyByStaleRead
<1> DEFINE Stale == \A a \in Requests :
                      Terminal(a) /\ appt'[a] # NoAppointment
                                  /\ appt'[a].status # appt[a].status =>
                         \E r \in Requests : /\ pc[r] = "writeStatus"
                                             /\ pc'[r] # "writeStatus"
                                             /\ req[r].target = a
                                             /\ isModifiable(old[r])
<1>1. TypeInv /\ SlotInv /\ StatusInv /\ [Next]_vars => [Stale]_vars
  <2> SUFFICES ASSUME TypeInv, SlotInv, StatusInv, Next, NEW a \in Requests,
                      Terminal(a), appt'[a] # NoAppointment,
                      appt'[a].status # appt[a].status
               PROVE  \E r \in Requests : /\ pc[r] = "writeStatus"
                                          /\ pc'[r] # "writeStatus"
                                          /\ req[r].target = a
                                          /\ isModifiable(old[r])
    OBVIOUS
  <2>1. appt' # appt
    OBVIOUS
  <2>2. PICK r \in Requests : Insert(r) \/ WriteStatus(r) \/ DeleteRow(r)
    BY <2>1, EnvironmentFrame DEF Next, StartCreate, StartChange, Begin,
       Progress, CreateStep, ChangeStep, NotifyStep, FindService, FindStaff,
       GetServices, CheckSlot, FindCoupon, IncrementUsage, ReadDuration,
       FindAppointment, ReadFeatures, Enqueue, Interrupt
  <2>3. WriteStatus(r) /\ req[r].target = a
    <3>1. appt \in [Requests -> Appointment \cup {NoAppointment}]
      BY DEF TypeInv, TypeOK
    <3>2. CASE Insert(r)
      <4>1. a # r
        BY <3>2 DEF Insert, SlotInv, Past, CreateSteps, Terminal
      <4> QED BY <3>1, <3>2, <4>1 DEF Insert
    <3>3. CASE DeleteRow(r)
      BY <3>1, <3>3 DEF DeleteRow
    <3>4. CASE WriteStatus(r)
      BY <3>1, <3>4 DEF WriteStatus
    <3> QED BY <2>2, <3>2, <3>3, <3>4
  <2>4. pc[r] = "writeStatus" /\ pc'[r] # "writeStatus" /\ isModifiable(old[r])
    BY <2>3 DEF WriteStatus, Goto, StatusInv, TypeInv, TypeOK
  <2> QED BY <2>3, <2>4
<1> QED BY <1>1, StatusInvariant, SlotInvariant, TypeInvariant, PTL
        DEF Spec, FinalChangedOnlyByStaleRead

------------------------------------------------------------------------------
(* How far bookings overspend a limited coupon.  The bound is not inductive *)
(* by itself: that fewer than MaxInFlight others redeem when a validation   *)
(* succeeds rests on the number of requests in progress.                    *)


CouponInv == Cardinality(InFlight) <= MaxInFlight /\ CouponOvershootBounded

\* Both sets of requests are finite, and those that redeem are in flight.
LEMMA RequestSets ==
    /\ IsFiniteSet(InFlight) /\ IsFiniteSet(Redeeming)
    /\ Redeeming \subseteq InFlight
    /\ Cardinality(InFlight) \in Nat /\ Cardinality(Redeeming) \in Nat
    /\ Cardinality(Redeeming) <= Cardinality(InFlight)
<1>1. InFlight \subseteq Requests /\ Redeeming \subseteq InFlight
  BY DEF InFlight, Redeeming, AtRest
<1>2. IsFiniteSet(InFlight)
  BY <1>1, FS_Subset, BookingConstants DEF BookingConstants
<1> QED BY <1>1, <1>2, FS_Subset, FS_CardinalityType

\* The same of the next state.
LEMMA RequestSetsNext ==
    /\ IsFiniteSet(InFlight') /\ IsFiniteSet(Redeeming')
    /\ Redeeming' \subseteq InFlight'
    /\ Cardinality(InFlight') \in Nat /\ Cardinality(Redeeming') \in Nat
    /\ Cardinality(Redeeming') <= Cardinality(InFlight')
<1>1. InFlight' \subseteq Requests /\ Redeeming' \subseteq InFlight'
  BY DEF InFlight, Redeeming, AtRest
<1>2. IsFiniteSet(InFlight')
  BY <1>1, FS_Subset, BookingConstants DEF BookingConstants
<1> QED BY <1>1, <1>2, FS_Subset, FS_CardinalityType

\* What bookings have counted so far, and the limits there have been.
LEMMA CouponTypes ==
    ASSUME TypeInv
    PROVE  /\ coupon.usage \in Nat /\ orderUses \in Nat
           /\ coupon.limit \in limits /\ limits \subseteq Nat \cup {NoLimit}
BY DEF TypeInv, TypeOK

\* No use is counted yet.
LEMMA InitCouponInv == Init => CouponInv
<1> SUFFICES ASSUME Init PROVE CouponInv
  OBVIOUS
<1>1. InFlight = {} /\ Redeeming = {}
  BY DEF Init, InFlight, Redeeming, AtRest
<1>2. Cardinality({}) = 0
  BY FS_EmptySet
<1>3. /\ coupon.usage = 0 /\ orderUses = 0 /\ coupon.limit \in limits
      /\ limits \subseteq Nat \cup {NoLimit}
  BY InitTypeInv, CouponTypes DEF Init
<1>4. CASE coupon.limit = NoLimit
  BY <1>1, <1>2, <1>3, <1>4, BookingConstants
     DEF CouponInv, CouponOvershootBounded, BookingConstants
<1>5. CASE coupon.limit \in Nat
  <2>1. coupon.usage - orderUses + Cardinality(Redeeming)
           <= coupon.limit + MaxInFlight - 1
    BY <1>1, <1>2, <1>3, <1>5, BookingConstants DEF BookingConstants
  <2>2. Cardinality(InFlight) <= MaxInFlight
    BY <1>1, <1>2, BookingConstants DEF BookingConstants
  <2>3. CouponOvershootBounded
    BY <1>3, <2>1 DEF CouponOvershootBounded
  <2> QED BY <2>2, <2>3 DEF CouponInv
<1> QED BY <1>3, <1>4, <1>5

\* A step after which no more uses are counted or about to be, and no limit is
\* forgotten.
LEMMA NoMoreUses ==
    ASSUME TypeInv, TypeInv', CouponInv, limits \subseteq limits',
           Cardinality(InFlight') <= MaxInFlight,
           coupon'.usage - orderUses' + Cardinality(Redeeming')
              <= coupon.usage - orderUses + Cardinality(Redeeming)
    PROVE  CouponInv'
<1> DEFINE uses == coupon.usage - orderUses + Cardinality(Redeeming)
           usesNext == coupon'.usage - orderUses' + Cardinality(Redeeming')
<1>1. uses \in Int /\ usesNext \in Int /\ MaxInFlight \in Nat /\ usesNext <= uses
  <2>1. coupon'.usage \in Nat /\ orderUses' \in Nat
    BY DEF TypeInv, TypeOK
  <2> QED BY <2>1, CouponTypes, RequestSets, RequestSetsNext, BookingConstants
          DEF BookingConstants
<1>2. CASE NoLimit \in limits
  BY <1>2 DEF CouponInv, CouponOvershootBounded
<1>3. CASE NoLimit \notin limits
  <2>1. PICK n \in limits : uses <= n + MaxInFlight - 1
    BY <1>3 DEF CouponInv, CouponOvershootBounded
  <2>2. n \in Nat /\ n \in limits'
    BY <1>3, CouponTypes
  <2> HIDE DEF uses, usesNext
  <2>3. usesNext <= n + MaxInFlight - 1
    BY <1>1, <2>1, <2>2
  <2> QED BY <2>2, <2>3 DEF CouponInv, CouponOvershootBounded, usesNext
<1> QED BY <1>2, <1>3

\* A step that counts no use and sends no request on to redeem.
LEMMA CountsNothing ==
    ASSUME TypeInv, TypeInv', CouponInv, limits \subseteq limits',
           coupon'.usage = coupon.usage, orderUses' = orderUses,
           InFlight' \subseteq InFlight, Redeeming' \subseteq Redeeming
    PROVE  CouponInv'
<1>1. /\ Cardinality(InFlight') <= Cardinality(InFlight)
      /\ Cardinality(Redeeming') <= Cardinality(Redeeming)
  BY RequestSets, FS_Subset
<1>2. Cardinality(InFlight') <= MaxInFlight
  BY <1>1, RequestSets, RequestSetsNext, BookingConstants
     DEF CouponInv, BookingConstants
<1>3. coupon'.usage - orderUses' + Cardinality(Redeeming')
         <= coupon.usage - orderUses + Cardinality(Redeeming)
  BY <1>1, RequestSets, RequestSetsNext, CouponTypes
<1> QED BY <1>2, <1>3, NoMoreUses

\* A step of a request in flight that goes anywhere but to the redemption.
LEMMA MoveCountsNothing ==
    ASSUME TypeInv, TypeInv', CouponInv, NEW r \in Requests, NEW step,
           r \in InFlight, step # "incrementUsage", step # "idle",
           Goto(r, step), UNCHANGED <<coupon, orderUses, limits>>
    PROVE  CouponInv'
<1>1. pc' = [pc EXCEPT ![r] = step] /\ pc \in [Requests -> Steps \cup AtRest]
  BY DEF Goto, TypeInv, TypeOK
<1>2. InFlight' \subseteq InFlight /\ Redeeming' \subseteq Redeeming
  BY <1>1 DEF InFlight, Redeeming
<1> QED BY <1>2, CountsNothing

\* A request arrives only while there is room for it.
LEMMA BeginCouponInv ==
    ASSUME TypeInv, TypeInv', CouponInv, NEW r \in Requests, NEW input, NEW step,
           step # "incrementUsage", Begin(r, input, step)
    PROVE  CouponInv'
<1>1. /\ pc' = [pc EXCEPT ![r] = step] /\ pc \in [Requests -> Steps \cup AtRest]
      /\ Cardinality(InFlight) < MaxInFlight
      /\ coupon' = coupon /\ orderUses' = orderUses /\ limits' = limits
  BY DEF Begin, Goto, TypeInv, TypeOK, tables, history
<1>2. InFlight' \subseteq InFlight \cup {r} /\ Redeeming' \subseteq Redeeming
  BY <1>1 DEF InFlight, Redeeming
<1>3. /\ IsFiniteSet(InFlight \cup {r})
      /\ Cardinality(InFlight \cup {r}) <= Cardinality(InFlight) + 1
  <2>1. IsFiniteSet(InFlight) /\ Cardinality(InFlight) \in Nat
    BY RequestSets
  <2>2. /\ IsFiniteSet(InFlight \cup {r})
        /\ Cardinality(InFlight \cup {r}) =
              IF r \in InFlight THEN Cardinality(InFlight)
              ELSE Cardinality(InFlight) + 1
    BY <2>1, FS_AddElement, Zenon
  <2> QED BY <2>1, <2>2
<1>4. Cardinality(InFlight') <= Cardinality(InFlight \cup {r})
  BY <1>2, <1>3, FS_Subset
<1>5. Cardinality(InFlight \cup {r}) \in Nat
  BY <1>3, FS_CardinalityType
<1>6. Cardinality(Redeeming') <= Cardinality(Redeeming)
  BY <1>2, RequestSets, FS_Subset
<1>7. Cardinality(InFlight') <= MaxInFlight
  BY <1>1, <1>3, <1>4, <1>5, RequestSets, RequestSetsNext, BookingConstants
     DEF BookingConstants
<1>8. coupon'.usage - orderUses' + Cardinality(Redeeming')
         <= coupon.usage - orderUses + Cardinality(Redeeming)
  BY <1>1, <1>6, RequestSets, RequestSetsNext, CouponTypes
<1> QED BY <1>1, <1>7, <1>8, NoMoreUses

\* A validation succeeds below the limit of the moment, and at most
\* MaxInFlight requests, this one included, are then about to count a use.
LEMMA FindCouponInv ==
    ASSUME TypeInv, TypeInv', CouponInv, NEW r \in Requests, FindCoupon(r)
    PROVE  CouponInv'
<1>1. /\ pc[r] = "findCoupon" /\ pc \in [Requests -> Steps \cup AtRest]
      /\ coupon' = coupon /\ orderUses' = orderUses /\ limits' = limits
  BY DEF FindCoupon, TypeInv, TypeOK, tables, history
<1>2. r \in InFlight
  BY <1>1 DEF InFlight, AtRest
<1>3. CASE Goto(r, "failed")
  BY <1>1, <1>2, <1>3, MoveCountsNothing
<1>4. CASE CouponValid /\ Goto(r, "incrementUsage")
  <2>1. InFlight' \subseteq InFlight
    BY <1>1, <1>2, <1>4 DEF Goto, InFlight
  <2>2. Cardinality(InFlight') <= Cardinality(InFlight)
    BY <2>1, RequestSets, FS_Subset
  <2>3. Cardinality(InFlight') <= MaxInFlight
    BY <2>2, RequestSets, RequestSetsNext, BookingConstants
       DEF CouponInv, BookingConstants
  <2>4. CASE coupon.limit = NoLimit
    <3>1. NoLimit \in limits'
      BY <1>1, <2>4, CouponTypes
    <3> QED BY <2>3, <3>1 DEF CouponInv, CouponOvershootBounded
  <2>5. CASE coupon.limit # NoLimit
    <3>1. /\ coupon.limit \in Nat /\ coupon.limit \in limits'
          /\ coupon.usage < coupon.limit
      BY <1>1, <1>4, <2>5, CouponTypes DEF CouponValid
    <3>2. coupon'.usage - orderUses' + Cardinality(Redeeming')
             <= coupon.limit + MaxInFlight - 1
      BY <1>1, <2>3, <3>1, RequestSetsNext, CouponTypes, BookingConstants
         DEF BookingConstants
    <3> QED BY <2>3, <3>1, <3>2 DEF CouponInv, CouponOvershootBounded
  <2> QED BY <2>4, <2>5
<1> QED BY <1>3, <1>4 DEF FindCoupon

\* The use a request was about to count, counted.
LEMMA IncrementCouponInv ==
    ASSUME TypeInv, TypeInv', CouponInv, NEW r \in Requests, IncrementUsage(r)
    PROVE  CouponInv'
<1>1. /\ pc[r] = "incrementUsage" /\ pc \in [Requests -> Steps \cup AtRest]
      /\ orderUses' = orderUses /\ limits' = limits /\ coupon \in CouponRow
  BY DEF IncrementUsage, TypeInv, TypeOK, history, CouponRow
<1>2. r \in InFlight /\ r \in Redeeming
  BY <1>1 DEF InFlight, AtRest, Redeeming
<1>3. CASE Goto(r, "failed") /\ coupon' = coupon
  BY <1>1, <1>2, <1>3, MoveCountsNothing
<1>4. CASE Goto(r, "readDuration") /\ coupon' = [coupon EXCEPT !.usage = @ + 1]
  <2>1. coupon'.usage = coupon.usage + 1
    BY <1>1, <1>4 DEF CouponRow
  <2>2. InFlight' \subseteq InFlight /\ Redeeming' \subseteq Redeeming \ {r}
    BY <1>1, <1>2, <1>4 DEF Goto, InFlight, Redeeming
  <2>3. /\ IsFiniteSet(Redeeming \ {r})
        /\ Cardinality(Redeeming \ {r}) = Cardinality(Redeeming) - 1
    BY <1>2, RequestSets, FS_RemoveElement
  <2>4. /\ Cardinality(InFlight') <= Cardinality(InFlight)
        /\ Cardinality(Redeeming') <= Cardinality(Redeeming \ {r})
    BY <2>2, <2>3, RequestSets, FS_Subset
  <2>5. Cardinality(InFlight') <= MaxInFlight
    BY <2>4, RequestSets, RequestSetsNext, BookingConstants
       DEF CouponInv, BookingConstants
  <2>6. coupon'.usage - orderUses' + Cardinality(Redeeming')
           <= coupon.usage - orderUses + Cardinality(Redeeming)
    BY <1>1, <2>1, <2>3, <2>4, RequestSets, RequestSetsNext, CouponTypes
  <2> QED BY <1>1, <2>5, <2>6, NoMoreUses
<1> QED BY <1>3, <1>4 DEF IncrementUsage

\* Edits count nothing, an edited limit is remembered beside the others, and
\* a shop order's use is subtracted again.
LEMMA EnvironmentCouponInv ==
    ASSUME TypeInv, TypeInv', CouponInv, Environment
    PROVE  CouponInv'
<1>1. InFlight' = InFlight /\ Redeeming' = Redeeming
  BY EnvironmentFrame DEF InFlight, Redeeming
<1>2. coupon \in CouponRow
  BY DEF TypeInv, TypeOK, CouponRow
<1>3. CASE OrderRedeems
  <2>1. coupon'.usage = coupon.usage + 1 /\ orderUses' = orderUses + 1
        /\ limits' = limits
    BY <1>2, <1>3 DEF OrderRedeems, CouponRow
  <2>2. coupon'.usage - orderUses' + Cardinality(Redeeming')
           <= coupon.usage - orderUses + Cardinality(Redeeming)
    BY <1>1, <2>1, CouponTypes, RequestSets
  <2> QED BY <1>1, <2>1, <2>2, NoMoreUses DEF CouponInv
<1>4. CASE ~OrderRedeems
  <2>1. coupon'.usage = coupon.usage /\ orderUses' = orderUses
        /\ limits \subseteq limits'
    BY <1>2, <1>4 DEF Environment, Edit, UpdateService, DeleteService,
       UpdateStaff, DeleteStaff, SyncStaffServices, AssignStaffService,
       UpdateCoupon, DeleteCoupon, SwitchEmail, ExpireCoupon, history, CouponRow
  <2> QED BY <1>1, <2>1, CountsNothing
<1> QED BY <1>3, <1>4

\* Every step is one of the above.
LEMMA NextCouponInv ==
    ASSUME TypeInv, TypeInv', CouponInv, [Next]_vars
    PROVE  CouponInv'
<1>1. ASSUME NEW r \in Requests, StartCreate(r) \/ StartChange(r)
      PROVE  CouponInv'
  BY <1>1, BeginCouponInv DEF StartCreate, StartChange
<1>2. ASSUME NEW r \in Requests,
             \/ FindService(r) \/ FindStaff(r) \/ GetServices(r)
             \/ ReadDuration(r) \/ Insert(r) \/ ChangeStep(r) \/ NotifyStep(r)
             \/ Interrupt(r) \/ CheckSlot(r)
      PROVE  CouponInv'
  <2> DEFINE Other == (Steps \cup AtRest) \ {"incrementUsage", "idle"}
  <2>1. r \in InFlight /\ UNCHANGED <<coupon, orderUses, limits>>
    BY <1>2 DEF FindService, FindStaff, GetServices, CheckSlot, ReadDuration,
       Insert, ChangeStep, FindAppointment, WriteStatus, DeleteRow, NotifyStep,
       ReadFeatures, Enqueue, Interrupt, InFlight, AtRest, tables, history
  <2>2. \E step \in Other : Goto(r, step)
    BY <1>2 DEF FindService, FindStaff, GetServices, CheckSlot, ReadDuration,
       Insert, ChangeStep, FindAppointment, WriteStatus, DeleteRow, NotifyStep,
       ReadFeatures, Enqueue, Interrupt, Goto, Steps, AtRest
  <2> QED BY <2>1, <2>2, MoveCountsNothing
<1>3. ASSUME NEW r \in Requests, FindCoupon(r) \/ IncrementUsage(r)
      PROVE  CouponInv'
  BY <1>3, FindCouponInv, IncrementCouponInv
<1>4. CASE UNCHANGED vars
  BY <1>4, CountsNothing DEF vars, tables, history, InFlight, Redeeming
<1> QED BY <1>1, <1>2, <1>3, <1>4, EnvironmentCouponInv
        DEF Next, Progress, CreateStep

\* However many bookings follow each other, and however the limit is changed
\* meanwhile, they overspend the highest limit the coupon has had by less than
\* the number of requests in progress at once, unless it once had none.
THEOREM OvershootIsBounded == Spec => []CouponOvershootBounded
<1>1. TypeInv /\ TypeInv' /\ CouponInv /\ [Next]_vars => CouponInv'
  BY NextCouponInv
<1>2. CouponInv => CouponOvershootBounded
  BY DEF CouponInv
<1> QED BY <1>1, <1>2, InitCouponInv, TypeInvariant, PTL DEF Spec

------------------------------------------------------------------------------
(* Offered slots *)

\* In every state, and for every slot of the day, the list of slots and the
\* check that create runs differ in four things only: create also demands an
\* active service, an active staff member and their assignment, and sees the
\* appointments that began before the list's window.
THEOREM OffersDifferFromBookings == Spec => []OffersDifferAsListed
<1>1. TypeInv => OffersDifferAsListed
  <2> SUFFICES ASSUME TypeInv, NEW w \in Staff, NEW sv \in Services,
                      NEW t \in WorkStart .. (WorkEnd - 1), NEW off \in Offsets,
                      PositiveLengths(w, sv), (t - WorkStart) % SlotStep = 0,
                      t + service[sv].duration <= WorkEnd
               PROVE  CreateAccepts(w, sv, t + off) <=>
                         /\ t \in OfferedSlots(w, sv, t + off, off)
                         /\ service[sv].active /\ staff[w].active
                         /\ <<w, sv>> \in offers
                         /\ \A a \in Blocking(w) \ ReadForList(w) :
                               ~Overlaps(appt[a].start, appt[a].end, t + off,
                                         t + off + service[sv].duration)
    BY DEF OffersDifferAsListed
  <2> DEFINE s == t + off
             e == t + off + service[sv].duration
  <2>1. t \in Int /\ off \in Int /\ s \in Int /\ service[sv].duration \in Int /\ e \in Int
        /\ s >= s /\ service[sv].duration > 0
    BY BookingConstants DEF BookingConstants, TypeInv, TypeOK, PositiveLengths
  <2>2. s < e
    BY <2>1
  <2> HIDE DEF s, e
  <2>3. ASSUME NEW a \in Blocking(w)
        PROVE  ConflictQuery(appt[a].start, appt[a].end, s, e)
                  <=> Overlaps(appt[a].start, appt[a].end, s, e)
    <3>1. appt[a].start \in Int /\ appt[a].end \in Int /\ appt[a].start < appt[a].end
      BY DEF Blocking, Stored, PositiveLengths, TypeInv, TypeOK, Appointment
    <3> QED BY <2>1, <2>2, <3>1, QueryIsOverlap
  <2>4. ReadForList(w) \subseteq Blocking(w)
    BY DEF ReadForList
  <2>5. CheckAvailability(w, s, e) <=>
           /\ \A a \in ReadForList(w) : ~Overlaps(appt[a].start, appt[a].end, s, e)
           /\ \A a \in Blocking(w) \ ReadForList(w) :
                 ~Overlaps(appt[a].start, appt[a].end, s, e)
    BY <2>3, <2>4 DEF CheckAvailability
  <2>6. t \in OfferedSlots(w, sv, s, off) <=>
           /\ service[sv].present /\ staff[w].present
           /\ \A a \in ReadForList(w) : ~Overlaps(appt[a].start, appt[a].end, s, e)
    BY <2>1 DEF OfferedSlots, s, e
  <2>7. CreateAccepts(w, sv, s) <=>
           /\ service[sv].present /\ service[sv].active
           /\ staff[w].present /\ staff[w].active
           /\ <<w, sv>> \in offers
           /\ CheckAvailability(w, s, e)
    BY DEF CreateAccepts, s, e
  <2> QED BY ONLY <2>5, <2>6, <2>7 DEF s, e
<1> QED BY <1>1, TypeInvariant, PTL DEF TypeInv

------------------------------------------------------------------------------
(* The calendar.  What the steps that touch appointments do to the diary.   *)

\* Appointments are entries of the diary.
LEMMA AppointmentsAreEntries ==
    /\ Appointment = Diary!Entry /\ NoAppointment = Diary!NoEntry
    /\ Status = Diary!Status
BY DEF Appointment, NoAppointment, Status, Diary!Entry, Diary!NoEntry, Diary!Status

\* The row a request inserts was not there before, and begins PENDING.
LEMMA InsertEnters ==
    ASSUME TypeInv, TypeInv', SlotInv, NEW r \in Requests, Insert(r), appt' # appt
    PROVE  /\ Diary!Enter(r)
           /\ appt'[r].staff = req[r].staff /\ appt'[r].start = req[r].start
           /\ appt'[r].end = req[r].start + stored[r]
<1> DEFINE row == [staff |-> req[r].staff, service |-> req[r].service,
                   start |-> req[r].start, end |-> req[r].start + stored[r],
                   coupon |-> FALSE, status |-> "PENDING"]
<1>1. appt' = [appt EXCEPT ![r] = row] /\ pc[r] = "insert"
  BY DEF Insert
<1>2. ~Stored(r)
  BY <1>1 DEF SlotInv, Past, CreateSteps
<1>3. /\ appt \in [Requests -> Appointment \cup {NoAppointment}]
      /\ appt' \in [Requests -> Appointment \cup {NoAppointment}]
  BY DEF TypeInv, TypeOK
<1>4. appt'[r] = row /\ \A a \in Requests \ {r} : appt'[a] = appt[a]
  BY <1>1, <1>3
<1>5. row # NoAppointment
  BY DEF NoAppointment
<1>6. appt'[r] \in Appointment
  BY <1>3, <1>4, <1>5
<1> QED BY <1>2, <1>4, <1>6, AppointmentsAreEntries
        DEF Stored, Diary!Enter, Diary!OnlyChanges

\* A status written to a row amends its entry.
LEMMA WriteAmends ==
    ASSUME TypeInv, StatusInv, NEW r \in Requests, WriteStatus(r), appt' # appt
    PROVE  /\ req[r].target \in Requests /\ Stored(req[r].target)
           /\ appt'[req[r].target].status = NewStatus(req[r])
           /\ Diary!Amend(req[r].target)
<1> DEFINE x == req[r].target
<1>1. /\ appt \in [Requests -> Appointment \cup {NoAppointment}]
      /\ pc[r] = "writeStatus" /\ Stored(x)
      /\ appt' = [appt EXCEPT ![x].status = NewStatus(req[r])]
  BY DEF TypeInv, TypeOK, WriteStatus
<1>2. req[r] \in ChangeRequest
  BY <1>1 DEF TypeInv, StepsFit, Fits
<1>3. x \in Requests /\ NewStatus(req[r]) \in Status
  BY <1>2, BookingConstants
     DEF ChangeRequest, CancelRequest, StatusRequest, NewStatus, Status, BookingConstants
<1>4. appt[x] \in Appointment
  BY <1>1, <1>3 DEF Stored
<1>5. appt'[x] = [appt[x] EXCEPT !.status = NewStatus(req[r])]
  BY <1>1, <1>3
<1>6. \A a \in Requests \ {x} : appt'[a] = appt[a]
  BY <1>1, <1>3
<1>7. NewStatus(req[r]) # "IN_PROGRESS"
  BY <1>1 DEF StatusInv
<1>8. appt'[x].status = NewStatus(req[r])
  BY <1>4, <1>5 DEF Appointment
<1>9. Diary!Amend(x)
  BY <1>1, <1>3, <1>5, <1>6, <1>7, AppointmentsAreEntries
     DEF Diary!Amend, Diary!OnlyChanges, Stored
<1> QED BY <1>1, <1>3, <1>8, <1>9

\* A deleted row is erased.
LEMMA DeleteErases ==
    ASSUME TypeInv, NEW r \in Requests, DeleteRow(r), appt' # appt
    PROVE  req[r].target \in Requests /\ Diary!Erase(req[r].target)
<1> DEFINE x == req[r].target
<1>1. /\ appt \in [Requests -> Appointment \cup {NoAppointment}]
      /\ pc[r] = "deleteRow" /\ Stored(x) /\ appt' = [appt EXCEPT ![x] = NoAppointment]
  BY DEF TypeInv, TypeOK, DeleteRow
<1>2. x \in Requests
  BY <1>1 DEF TypeInv, StepsFit, Fits, DeleteRequest
<1> QED BY <1>1, <1>2, AppointmentsAreEntries DEF Diary!Erase, Diary!OnlyChanges, Stored

\* Nothing else touches appointments.
LEMMA WhoWritesAppointments ==
    ASSUME [Next]_vars, appt' # appt
    PROVE  \E r \in Requests : Insert(r) \/ WriteStatus(r) \/ DeleteRow(r)
BY EnvironmentFrame DEF Next, vars, StartCreate, StartChange, Begin,
   Progress, CreateStep, ChangeStep, NotifyStep, FindService, FindStaff,
   GetServices, CheckSlot, FindCoupon, IncrementUsage, ReadDuration,
   FindAppointment, ReadFeatures, Enqueue, Interrupt

\* With any number of requests in progress, an appointment begins PENDING,
\* keeps its staff, service and interval for life, never reaches IN_PROGRESS,
\* and comes back from nothing.
THEOREM BookingImplementsLooseCalendar == Spec => ImplementsLooseCalendar
<1>1. Init => Diary!Init
  BY AppointmentsAreEntries DEF Init, Diary!Init
<1>2. TypeInv /\ TypeInv' /\ SlotInv /\ StatusInv /\ [Next]_vars => [Diary!LooseNext]_appt
  <2> SUFFICES ASSUME TypeInv, TypeInv', SlotInv, StatusInv, [Next]_vars, appt' # appt
               PROVE  Diary!LooseNext
    OBVIOUS
  <2>1. PICK r \in Requests : Insert(r) \/ WriteStatus(r) \/ DeleteRow(r)
    BY WhoWritesAppointments
  <2>2. \E a \in Requests : Diary!Enter(a) \/ Diary!Amend(a) \/ Diary!Erase(a)
    BY <2>1, InsertEnters, WriteAmends, DeleteErases
  <2>3. appt' \in [Requests -> Diary!Entry \cup {Diary!NoEntry}]
    BY AppointmentsAreEntries DEF TypeInv, TypeOK
  <2> QED BY <2>2, <2>3 DEF Diary!LooseNext
<1> QED BY <1>1, <1>2, TypeInvariant, SlotInvariant, StatusInvariant, PTL
        DEF Spec, ImplementsLooseCalendar, Diary!LooseSpec

------------------------------------------------------------------------------
(* The promise of the calendar.  A request that was not overtaken finds,    *)
(* when it writes, what it had found when it read.                          *)

\* Then a booking lands on a free slot, and only an appointment that is not
\* final changes its status.
LEMMA UnovertakenStep ==
    ASSUME TypeInv, TypeInv', SlotInv, StatusInv, [Next]_vars, appt' # appt,
           ~OvertakenStep
    PROVE  \E a \in Requests : Diary!Book(a) \/ Diary!Revise(a) \/ Diary!Erase(a)
<1>1. PICK r \in Requests : Insert(r) \/ WriteStatus(r) \/ DeleteRow(r)
  BY WhoWritesAppointments
<1>2. CASE Insert(r)
  <2>1. /\ Diary!Enter(r)
        /\ appt'[r].staff = req[r].staff /\ appt'[r].start = req[r].start
        /\ appt'[r].end = req[r].start + stored[r]
    BY <1>2, InsertEnters
  <2>2. pc[r] = "insert" /\ pc'[r] = "features"
    BY <1>2 DEF Insert, Goto, TypeInv, TypeOK
  <2>3. stored[r] = checked[r] /\ Blocking(req[r].staff) \subseteq seen[r]
    BY <2>2 DEF OvertakenStep, Overtaken, Drifted
  <2>4. req[r] \in CreateRequest
    BY <2>2 DEF TypeInv, StepsFit, Fits, CreateSteps
  <2>5. req[r].start \in Int /\ req[r].start + checked[r] \in Int
    <3>1. req[r].start \in Starts
      BY <2>4 DEF CreateRequest
    <3>2. checked[r] \in Int
      BY DEF TypeInv, TypeOK
    <3>3. req[r].start \in Int
      BY <3>1, BookingConstants DEF BookingConstants
    <3> QED BY <3>2, <3>3
  <2>6. ASSUME NEW a \in Requests, Diary!Occupies(appt[a]), appt[a].staff = req[r].staff
        PROVE  ~Overlaps(appt[a].start, appt[a].end, req[r].start, req[r].start + checked[r])
    <3>1. Stored(a) /\ appt[a] \in Appointment
      BY <2>6 DEF Diary!Occupies, Stored, NoAppointment, TypeInv, TypeOK
    <3>2. a \in Blocking(req[r].staff)
      BY <2>6, <3>1 DEF Blocking, BlockingStatus, Diary!Occupies, Appointment
    <3>3. appt[a].start \in Int /\ appt[a].end \in Int
      BY <3>1 DEF Appointment
    <3>4. ~ConflictQuery(appt[a].start, appt[a].end, req[r].start, req[r].start + checked[r])
      BY <2>2, <2>3, <2>6, <3>1, <3>2 DEF SlotInv, Clear, HasChecked, AfterCheck
    <3> QED BY <2>5, <3>3, <3>4, QueryFindsOverlaps
  <2>7. Diary!SlotFree(appt'[r])
    <3>1. appt'[r].end = req[r].start + checked[r]
      BY <2>1, <2>3
    <3> QED BY ONLY <3>1, <2>1, <2>6 DEF Diary!SlotFree, Diary!Overlaps, Overlaps
  <2> QED BY <2>1, <2>7 DEF Diary!Book
<1>3. CASE WriteStatus(r)
  <2>1. /\ req[r].target \in Requests /\ Stored(req[r].target)
        /\ Diary!Amend(req[r].target)
    BY <1>3, WriteAmends
  <2>2. pc[r] = "writeStatus" /\ pc'[r] = "features"
    BY <1>3, <2>1 DEF WriteStatus, Goto, TypeInv, TypeOK
  <2>3. isModifiable(appt[req[r].target].status)
    BY <2>2 DEF OvertakenStep, Overtaken, StatusInv
  <2> QED BY <2>1, <2>3 DEF Diary!Revise, Diary!Final, isModifiable
<1>4. CASE DeleteRow(r)
  BY <1>4, DeleteErases
<1> QED BY <1>1, <1>2, <1>3, <1>4

\* So a step is an operation of the calendar or the write of an overtaken
\* request.
LEMMA CalendarOrRace ==
    ASSUME TypeInv, TypeInv', SlotInv, StatusInv, [Next]_vars
    PROVE  [Diary!Next \/ OvertakenStep]_appt
<1> SUFFICES ASSUME appt' # appt, ~OvertakenStep
             PROVE  Diary!Next
  OBVIOUS
<1>1. appt' \in [Requests -> Diary!Entry \cup {Diary!NoEntry}]
  BY AppointmentsAreEntries DEF TypeInv, TypeOK
<1> QED BY <1>1, UnovertakenStep DEF Diary!Next

\* However many requests overlap, the appointments change as the calendar
\* promises, except where a request writes after it was overtaken: after the
\* length of its service, the appointments its check saw or the status it
\* read have changed.
THEOREM BookingIsCalendarButForRaces == Spec => CalendarButForRaces
<1>1. TypeInv /\ TypeInv' /\ SlotInv /\ StatusInv /\ [Next]_vars
      => [Diary!Next \/ OvertakenStep]_appt
  BY CalendarOrRace
<1> QED BY <1>1, TypeInvariant, SlotInvariant, StatusInvariant, PTL
        DEF Spec, CalendarButForRaces

\* A behaviour in which no request writes after it was overtaken, however many
\* run at once, is one of the calendar.
THEOREM BookingImplementsCalendar ==
    Spec /\ [][~OvertakenStep]_vars => ImplementsCalendar
<1>1. Init => Diary!Init
  BY AppointmentsAreEntries DEF Init, Diary!Init
<1>2. TypeInv /\ TypeInv' /\ SlotInv /\ StatusInv /\ [Next]_vars
      /\ [~OvertakenStep]_vars => [Diary!Next]_appt
  <2> SUFFICES ASSUME TypeInv, TypeInv', SlotInv, StatusInv, [Next]_vars,
                      [~OvertakenStep]_vars, appt' # appt
               PROVE  Diary!Next
    OBVIOUS
  <2>1. ~OvertakenStep
    BY DEF vars
  <2> QED BY <2>1, CalendarOrRace
<1> QED BY <1>1, <1>2, TypeInvariant, SlotInvariant, StatusInvariant, PTL
        DEF Spec, ImplementsCalendar, Diary!Spec

------------------------------------------------------------------------------
(* Cancellation notices.  The appointment of a notice is CANCELLED when the *)
(* notice is decided on, and whoever writes another status over that must   *)
(* have read it before, since nobody may change a CANCELLED one.            *)

Kept(a) == appt[a].status = "CANCELLED" \/ a \in overwritten

NoticeInv ==
    \A r \in Requests :
        Announces(r) =>
            /\ pc[r] # "idle" /\ req[r].target \in Requests /\ Past(req[r].target)
            /\ Stored(req[r].target) => Kept(req[r].target)

\* A request that has left the create use case does not come back to it.
LEMMA PastStays == ASSUME TypeInv, [Next]_vars PROVE \A a \in Requests : Past(a) => Past(a)'
<1> USE DEF Goto, Past
<1>1. pc \in [Requests -> Steps \cup AtRest]
  BY DEF TypeInv, TypeOK
<1>2. ASSUME NEW r \in Requests, StartCreate(r) \/ StartChange(r) \/ CreateStep(r)
      PROVE  pc[r] \in CreateSteps \cup {"idle"} /\ \E step : pc' = [pc EXCEPT ![r] = step]
  BY <1>2 DEF StartCreate, StartChange, Begin, CreateStep, FindService, FindStaff,
     GetServices, CheckSlot, FindCoupon, IncrementUsage, ReadDuration, Insert, CreateSteps
<1>3. ASSUME NEW r \in Requests, ChangeStep(r) \/ NotifyStep(r) \/ Interrupt(r)
      PROVE  \E step \in {"writeStatus", "deleteRow", "features", "enqueue", "done", "failed"} :
                pc' = [pc EXCEPT ![r] = step]
  BY <1>3 DEF ChangeStep, FindAppointment, WriteStatus, DeleteRow, NotifyStep,
     ReadFeatures, Enqueue, Interrupt
<1>4. ASSUME Environment \/ UNCHANGED vars PROVE pc' = pc
  BY <1>4, EnvironmentFrame DEF vars
<1> QED BY <1>1, <1>2, <1>3, <1>4 DEF Next, Progress, CreateSteps

\* A step that decides on no notice and brings no CANCELLED appointment back,
\* unless it overwrites its status.
LEMMA NoNewNotice ==
    ASSUME TypeInv, NoticeInv, [Next]_vars,
           \A r \in Requests : Announces(r)' =>
               Announces(r) /\ req'[r] = req[r] /\ pc'[r] # "idle",
           \A a \in Requests :
               /\ Past(a) /\ Stored(a)'
               /\ Stored(a) => Kept(a)
               => Kept(a)'
    PROVE  NoticeInv'
<1> SUFFICES ASSUME NEW r \in Requests, Announces(r)'
             PROVE  (/\ pc[r] # "idle" /\ req[r].target \in Requests /\ Past(req[r].target)
                     /\ Stored(req[r].target) => Kept(req[r].target))'
  BY DEF NoticeInv
<1>1. /\ req[r].target \in Requests /\ Past(req[r].target)
      /\ Stored(req[r].target) => Kept(req[r].target)
  BY DEF NoticeInv
<1>2. \A a \in Requests : Past(a) => Past(a)'
  BY PastStays
<1> QED BY <1>1, <1>2 DEF Past, Stored, Kept

\* Whatever overlaps, no notice is belied but by an overwritten status.
LEMMA NextNoticeInv ==
    ASSUME TypeInv, SlotInv, StatusInv, NoticeInv, [Next]_vars PROVE NoticeInv'
<1> USE DEF Goto
<1>1. /\ pc \in [Requests -> Steps \cup AtRest] /\ req = [r \in Requests |-> req[r]]
      /\ job = [r \in Requests |-> job[r]] /\ appt = [r \in Requests |-> appt[r]]
  BY DEF TypeInv, TypeOK
<1>2. ASSUME NEW r \in Requests, StartCreate(r) \/ StartChange(r) PROVE NoticeInv'
  <2>1. /\ job' = job /\ appt' = appt /\ overwritten' = overwritten /\ pc[r] = "idle"
        /\ \E input : req' = [req EXCEPT ![r] = input]
        /\ \/ pc' = [pc EXCEPT ![r] = "findService"]
           \/ pc' = [pc EXCEPT ![r] = "findAppointment"]
    <3>1. CASE StartCreate(r)
      BY <3>1 DEF StartCreate, Begin, history
    <3>2. CASE StartChange(r)
      BY <3>2 DEF StartChange, Begin, history
    <3> QED BY <1>2, <3>1, <3>2
  <2>2. ~Announces(r) /\ ~Announces(r)'
    BY <1>1, <2>1 DEF NoticeInv, Announces
  <2>3. \A q \in Requests \ {r} : pc'[q] = pc[q] /\ req'[q] = req[q]
    BY <1>1, <2>1
  <2>4. \A q \in Requests : Announces(q)' => Announces(q) /\ q # r
    BY <2>1, <2>2, <2>3 DEF Announces
  <2>5. \A q \in Requests : Announces(q)' => pc'[q] # "idle"
    BY <2>3, <2>4 DEF NoticeInv
  <2> QED BY <2>1, <2>3, <2>4, <2>5, NoNewNotice DEF Stored, Kept
<1>3. ASSUME NEW r \in Requests, req' = req,
             \/ job' = job /\ \E step \in (Steps \cup AtRest) \ {"idle", "features", "enqueue"} :
                                  pc' = [pc EXCEPT ![r] = step]
             \/ NotifyStep(r)
             \/ job' = job /\ JobFor(req[r]) # "CANCELLED"
                           /\ pc' = [pc EXCEPT ![r] = "features"]
      PROVE  \A q \in Requests : Announces(q)' => Announces(q) /\ pc'[q] # "idle"
  <2>1. \A q \in Requests \ {r} : pc'[q] = pc[q] /\ job'[q] = job[q]
    BY <1>1, <1>3 DEF NotifyStep, ReadFeatures, Enqueue
  <2>2. pc'[r] # "idle"
    BY <1>1, <1>3 DEF NotifyStep, ReadFeatures, Enqueue
  <2>3. Announces(r)' => Announces(r)
    <3>1. CASE NotifyStep(r)
      BY <1>1, <1>3, <3>1 DEF NotifyStep, ReadFeatures, Enqueue, Announces
    <3>2. CASE ~NotifyStep(r)
      BY <1>1, <1>3, <3>2 DEF Announces
    <3> QED BY <3>1, <3>2
  <2>4. \A q \in Requests \ {r} : Announces(q)' = Announces(q)
    BY <1>3, <2>1 DEF Announces
  <2> QED BY <2>1, <2>2, <2>3, <2>4 DEF NoticeInv
<1>4. ASSUME NEW r \in Requests,
             \/ FindService(r) \/ FindStaff(r) \/ GetServices(r) \/ CheckSlot(r)
             \/ FindCoupon(r) \/ IncrementUsage(r) \/ ReadDuration(r)
             \/ FindAppointment(r) \/ NotifyStep(r) \/ Interrupt(r)
      PROVE  NoticeInv'
  <2>1. appt' = appt /\ req' = req /\ overwritten' = overwritten
    BY <1>4 DEF FindService, FindStaff, GetServices, CheckSlot, FindCoupon,
       IncrementUsage, ReadDuration, FindAppointment, NotifyStep, ReadFeatures, Enqueue,
       Interrupt, history
  <2>2. \/ job' = job /\ \E step \in (Steps \cup AtRest) \ {"idle", "features", "enqueue"} :
                                  pc' = [pc EXCEPT ![r] = step]
        \/ NotifyStep(r)
    BY <1>4 DEF FindService, FindStaff, GetServices, CheckSlot, FindCoupon,
       IncrementUsage, ReadDuration, FindAppointment, Interrupt, Steps, AtRest
  <2> QED BY <1>3, <2>1, <2>2, NoNewNotice DEF Stored, Kept
<1>5. ASSUME NEW r \in Requests, Insert(r) PROVE NoticeInv'
  <2>1. /\ pc[r] = "insert" /\ req' = req /\ job' = job /\ JobFor(req[r]) # "CANCELLED"
        /\ overwritten' = overwritten
    BY <1>5 DEF Insert, JobFor, TypeInv, StepsFit, Fits, CreateSteps, CreateRequest, history
  <2>2. pc' = [pc EXCEPT ![r] = "features"] \/ pc' = [pc EXCEPT ![r] = "failed"]
    BY <1>5 DEF Insert
  <2>3. \A a \in Requests : Past(a) => appt'[a] = appt[a]
    BY <1>1, <1>5, <2>1 DEF Insert, Past, CreateSteps
  <2>4. \A q \in Requests : Announces(q)' => Announces(q) /\ pc'[q] # "idle"
    BY <1>3, <2>1, <2>2 DEF Steps, AtRest
  <2> QED BY <2>1, <2>3, <2>4, NoNewNotice DEF Stored, Kept
<1>6. ASSUME NEW r \in Requests, DeleteRow(r) PROVE NoticeInv'
  <2>1. req' = req /\ job' = job /\ overwritten' = overwritten
    BY <1>6 DEF DeleteRow, history
  <2>2. pc' = [pc EXCEPT ![r] = "done"] \/ pc' = [pc EXCEPT ![r] = "failed"]
    BY <1>6 DEF DeleteRow
  <2>3. \A a \in Requests : appt'[a] = appt[a] \/ appt'[a] = NoAppointment
    BY <1>1, <1>6 DEF DeleteRow
  <2>4. \A q \in Requests : Announces(q)' => Announces(q) /\ pc'[q] # "idle"
    BY <1>3, <2>1, <2>2 DEF Steps, AtRest
  <2> QED BY <2>1, <2>3, <2>4, NoNewNotice DEF Stored, Kept
<1>7. ASSUME NEW r \in Requests, WriteStatus(r) PROVE NoticeInv'
  <2> DEFINE x == req[r].target
  <2>1. pc[r] = "writeStatus" /\ req' = req /\ job' = job /\ isModifiable(old[r])
    BY <1>7 DEF WriteStatus, StatusInv
  <2>2. req[r] \in ChangeRequest /\ x \in Requests
    BY <2>1 DEF TypeInv, StepsFit, Fits, ChangeRequest, CancelRequest, StatusRequest
  <2>3. CASE ~Stored(x)
    <3>1. /\ pc' = [pc EXCEPT ![r] = "failed"] /\ appt' = appt
          /\ overwritten' = overwritten
      BY <1>7, <2>3 DEF WriteStatus
    <3>2. \A q \in Requests : Announces(q)' => Announces(q) /\ pc'[q] # "idle"
      BY <1>3, <2>1, <3>1 DEF AtRest
    <3> QED BY <2>1, <3>1, <3>2, NoNewNotice DEF Stored, Kept
  <2>4. CASE Stored(x)
    <3>1. /\ pc' = [pc EXCEPT ![r] = "features"]
          /\ appt' = [appt EXCEPT ![x].status = NewStatus(req[r])]
          /\ overwritten' = IF appt[x].status = old[r] THEN overwritten
                            ELSE overwritten \cup {x}
      BY <1>7, <2>4 DEF WriteStatus
    <3>2. \A a \in Requests \ {x} : appt'[a] = appt[a]
      BY <1>1, <3>1
    <3>3. \A a \in Requests : Stored(a) /\ Kept(a) => Kept(a)'
      <4>1. overwritten \subseteq overwritten'
        BY <3>1
      <4>2. appt[x].status = "CANCELLED" => x \in overwritten'
        BY <2>1, <3>1 DEF isModifiable
      <4> QED BY <3>2, <4>1, <4>2 DEF Kept
    <3>4. \A a \in Requests : Stored(a)' => Stored(a)
      BY <2>4, <3>2 DEF Stored
    <3>5. CASE JobFor(req[r]) # "CANCELLED"
      <4>1. \A q \in Requests : Announces(q)' => Announces(q) /\ pc'[q] # "idle"
        BY <1>3, <2>1, <3>1, <3>5
      <4> QED BY <2>1, <3>3, <3>4, <4>1, NoNewNotice
    <3>6. CASE JobFor(req[r]) = "CANCELLED"
      <4>1. NewStatus(req[r]) = "CANCELLED"
        BY <2>2, <3>6 DEF JobFor, ChangeRequest, CancelRequest, StatusRequest
      <4>2. appt[x] \in Appointment
        BY <2>2, <2>4 DEF Stored, TypeInv, TypeOK
      <4>3. appt'[x].status = "CANCELLED"
        BY <1>1, <2>2, <3>1, <4>1, <4>2 DEF Appointment
      <4>4. ASSUME NEW q \in Requests, Announces(q)', q # r
            PROVE  (/\ pc[q] # "idle" /\ req[q].target \in Requests /\ Past(req[q].target)
                    /\ Stored(req[q].target) => Kept(req[q].target))'
        <5>1. Announces(q) /\ pc'[q] = pc[q]
          BY <1>1, <2>1, <3>1, <4>4 DEF Announces
        <5>2. /\ pc[q] # "idle" /\ req[q].target \in Requests /\ Past(req[q].target)
              /\ Stored(req[q].target) => Kept(req[q].target)
          BY <5>1 DEF NoticeInv
        <5>3. \A a \in Requests : Past(a) => Past(a)'
          BY PastStays
        <5>4. Stored(req[q].target)' => Kept(req[q].target)'
          BY <2>1, <3>3, <3>4, <5>2 DEF Stored
        <5> QED BY <2>1, <5>1, <5>2, <5>3, <5>4 DEF Past, Stored, Kept
      <4>5. pc'[r] # "idle" /\ Past(x)' /\ Kept(x)'
        <5>1. Past(x)
          BY <2>2, <2>4 DEF SlotInv
        <5>2. Past(x)'
          BY <2>1, <2>2, <5>1, PastStays DEF Past
        <5> QED BY <1>1, <2>1, <3>1, <4>3, <5>2 DEF Kept
      <4> QED BY <2>1, <2>2, <4>4, <4>5 DEF NoticeInv, Past, Kept, Stored
    <3> QED BY <3>5, <3>6
  <2> QED BY <2>3, <2>4
<1>8. ASSUME Environment \/ UNCHANGED vars PROVE NoticeInv'
  <2>1. UNCHANGED <<appt, job, req, pc, overwritten>>
    BY <1>8, EnvironmentFrame DEF vars, history
  <2> QED BY <2>1 DEF NoticeInv, Announces, Past, Stored, Kept
<1> QED BY <1>2, <1>4, <1>5, <1>6, <1>7, <1>8
        DEF Next, Progress, CreateStep, ChangeStep

\* However many requests overlap, and whatever the administrators do in
\* between, a cancellation notice is belied only by a status written over
\* the cancellation by a request that had read the appointment before it.
THEOREM NoticesAreBeliedByRaces == Spec => []NoticesBeliedOnlyByRace
<1>1. Init => NoticeInv
  BY DEF Init, NoticeInv, Announces
<1>2. TypeInv /\ SlotInv /\ StatusInv /\ NoticeInv /\ [Next]_vars => NoticeInv'
  BY NextNoticeInv
<1>3. NoticeInv => NoticesBeliedOnlyByRace
  BY DEF NoticeInv, Kept, NoticesBeliedOnlyByRace
<1> QED BY <1>1, <1>2, <1>3, TypeInvariant, SlotInvariant, StatusInvariant, PTL
        DEF Spec
===============================================================================

------------------------ MODULE RoomInventory_proofs ------------------------
(***************************************************************************)
(* Proofs about RoomInventory, for every number of bookings, requests,     *)
(* nights and rooms: its type invariant, the bound on overselling, that it *)
(* implements BookingLifecycle, and, when requests do not get in each      *)
(* other's way, the exactness of the calendar and that it implements       *)
(* RoomLedger.                                                             *)
(***************************************************************************)
EXTENDS RoomInventory, FiniteSetTheorems, TLAPS

-----------------------------------------------------------------------------
(* Types *)

LEMMA IdleIsTask == Idle \in Task
  BY RoomAssumption DEF Idle, Task

LEMMA OnIsTask ==
  ASSUME NEW op \in {"confirm", "checked", "reject"}, NEW b \in Bookings \union {NoBooking}
  PROVE  On(op, b) \in Task
  BY RoomAssumption DEF On, Task

\* The rooms of a range can be added to the calendar without leaving its type.
LEMMA ReleasedType ==
  ASSUME avail \in [Nights -> Int], NEW N, NEW q \in Int
  PROVE  Released(N, q) \in [Nights -> Int]
  BY DEF Released

LEMMA StatusNames ==
  /\ Lifecycle!Settled \subseteq Lifecycle!Status \ {"NONE"}
  /\ {"NONE", "REQUESTED", "REJECTED", "AWAITING_PAYMENT", "EXPIRED"} \subseteq Lifecycle!Status
  /\ {"unset", "ahead", "passed"} = Lifecycle!Deadline
  BY DEF Lifecycle!Settled, Lifecycle!Status, Lifecycle!Deadline

\* The state has its type initially, and every step keeps it; that a carried
\* booking exists is needed for the calendar a rejection writes.
LEMMA TypeInit == Init => TypeOK
  <1> SUFFICES ASSUME Init PROVE TypeOK
    OBVIOUS
  <1> QED
    BY IdleIsTask, StatusNames, RoomAssumption DEF Init, TypeOK

LEMMA TypeStep == TypeOK /\ CarriedIsSound /\ [Next]_vars => TypeOK'
  <1> SUFFICES ASSUME TypeOK, CarriedIsSound, [Next]_vars PROVE TypeOK'
    OBVIOUS
  <1> USE IdleIsTask, StatusNames, RoomAssumption DEF TypeOK, calendar, booking
  <1>1. ASSUME NEW p \in Procs, CreateRead(p) PROVE TypeOK'
    <2>1. PICK N \in Ranges, q \in 1..MaxRooms :
            task' = [task EXCEPT ![p] =
                        [op |-> "create", bk |-> NoBooking, nights |-> N, rooms |-> q]]
      BY <1>1 DEF CreateRead
    <2>2. [op |-> "create", bk |-> NoBooking, nights |-> N, rooms |-> q] \in Task
      BY DEF Task
    <2> QED
      BY <1>1, <2>1, <2>2 DEF CreateRead
  <1>2. ASSUME NEW p \in Procs, CreateCommit(p) PROVE TypeOK'
    <2>1. task[p].nights \in SUBSET Nights /\ task[p].rooms \in 0..MaxRooms
      BY DEF Task
    <2>2. Held(task[p].nights, task[p].rooms) \in [Nights -> Int]
      BY <2>1 DEF Held
    <2> QED
      BY <1>2, <2>1, <2>2 DEF CreateCommit, NewStatus
  <1>3. ASSUME NEW p \in Procs, NEW b \in Bookings, ConfirmRead(p, b) PROVE TypeOK'
    BY <1>3, OnIsTask DEF ConfirmRead, Confirmable
  <1>4. ASSUME NEW p \in Procs, ConfirmCheck(p) PROVE TypeOK'
    <2>1. task[p].bk \in Bookings \union {NoBooking}
      BY DEF Task
    <2> QED
      BY <1>4, <2>1, OnIsTask DEF ConfirmCheck
  <1>5. ASSUME NEW p \in Procs, ConfirmWrite(p) PROVE TypeOK'
    BY <1>5 DEF ConfirmWrite
  <1>6. ASSUME NEW p \in Procs, NEW b \in Bookings, RejectRead(p, b) PROVE TypeOK'
    BY <1>6, OnIsTask DEF RejectRead
  <1>7. ASSUME NEW p \in Procs, RejectCommit(p) PROVE TypeOK'
    <2>1. task[p].bk \in Bookings
      BY <1>7 DEF RejectCommit, CarriedIsSound
    <2>2. Released(stay[task[p].bk], rooms[task[p].bk]) \in [Nights -> Int]
      BY <2>1, ReleasedType
    <2> QED
      BY <1>7, <2>1, <2>2 DEF RejectCommit
  <1>8. ASSUME NEW p \in Procs, Abort(p) PROVE TypeOK'
    BY <1>8 DEF Abort
  <1>9. ExpireScan => TypeOK'
    BY DEF ExpireScan
  <1>10. ASSUME NEW b \in Bookings, ExpireCommit(b) PROVE TypeOK'
    <2>1. EndedReturnsRooms(b) \in [Nights -> Int]
      BY ReleasedType DEF EndedReturnsRooms
    <2> QED
      BY <1>10, <2>1 DEF ExpireCommit
  <1>11. ASSUME NEW b \in Bookings, ExpireFail(b) PROVE TypeOK'
    BY <1>11 DEF ExpireFail
  <1>12. ASSUME NEW b \in Bookings, Lapse(b) PROVE TypeOK'
    BY <1>12 DEF Lapse
  <1>13. ASSUME NEW b \in Bookings, PaymentWrites(b) PROVE TypeOK'
    BY <1>13 DEF PaymentWrites
  <1>14. Restart => TypeOK'
    BY DEF Restart
  <1>15. ASSUME NEW N \in SUBSET Nights, NEW v \in 0..Capacity, SetAvailability(N, v)
         PROVE  TypeOK'
    BY <1>15 DEF SetAvailability
  <1>16. ASSUME NEW N \in Ranges, DeleteAvailabilityRange(N) PROVE TypeOK'
    <2>1. ASSUME NEW p \in Procs PROVE [task[p] EXCEPT !.op = "doomed"] \in Task
      BY DEF Task
    <2> QED
      BY <1>16, <2>1 DEF DeleteAvailabilityRange
  <1>17. CASE UNCHANGED vars
    BY <1>17 DEF vars
  <1> QED
    <2>1. ASSUME ProviderEdit PROVE TypeOK'
      <3>1. ASSUME NEW N \in Ranges, BlockDates(N) PROVE TypeOK'
        <4>1. N \in SUBSET Nights /\ 0 \in 0..Capacity
          OBVIOUS
        <4> QED
          BY <3>1, <4>1, <1>15 DEF BlockDates
      <3>2. ASSUME NEW N \in Ranges, NEW v \in 0..Capacity, SetAvailability(N, v)
            PROVE  TypeOK'
        <4>1. N \in SUBSET Nights
          OBVIOUS
        <4> QED
          BY <3>2, <4>1, <1>15
      <3>3. ASSUME NEW n \in Nights, NEW v \in 0..Capacity, UpdateSingleDate(n, v)
            PROVE  TypeOK'
        BY <3>3, <1>15 DEF UpdateSingleDate
      <3> QED
        BY <2>1, <3>1, <3>2, <3>3, <1>16 DEF ProviderEdit
    <2>2. ASSUME BookingNext PROVE TypeOK'
      BY <2>2, <1>1, <1>2, <1>3, <1>4, <1>5, <1>6, <1>7, <1>8, <1>9, <1>10, <1>11,
         <1>12, <1>13, <1>14 DEF BookingNext, HandlerStep, CronStep
    <2> QED
      BY <2>1, <2>2, <1>17 DEF Next
-----------------------------------------------------------------------------
(* What handlers carry *)

LEMMA CarriedInit == Init => CarriedIsSound
  BY DEF Init, CarriedIsSound, Idle

\* No step invalidates what a handler carries: the row a decision is about
\* stays, and a deadline once set stays set.
LEMMA CarriedStep == TypeOK /\ CarriedIsSound /\ [Next]_vars => CarriedIsSound'
  <1> SUFFICES ASSUME TypeOK, CarriedIsSound, [Next]_vars PROVE CarriedIsSound'
    OBVIOUS
  <1> USE DEF TypeOK, CarriedIsSound, calendar, booking
  <1>1. ASSUME NEW p \in Procs, CreateRead(p) PROVE CarriedIsSound'
    BY <1>1 DEF CreateRead
  <1>2. ASSUME NEW p \in Procs, CreateCommit(p) PROVE CarriedIsSound'
    BY <1>2 DEF CreateCommit, NewStatus, Idle
  <1>3. ASSUME NEW p \in Procs, NEW b \in Bookings, ConfirmRead(p, b)
        PROVE  CarriedIsSound'
    BY <1>3 DEF ConfirmRead, Confirmable, On
  <1>4. ASSUME NEW p \in Procs, ConfirmCheck(p) PROVE CarriedIsSound'
    BY <1>4 DEF ConfirmCheck, On, Idle
  <1>5. ASSUME NEW p \in Procs, ConfirmWrite(p) PROVE CarriedIsSound'
    BY <1>5 DEF ConfirmWrite, Idle
  <1>6. ASSUME NEW p \in Procs, NEW b \in Bookings, RejectRead(p, b)
        PROVE  CarriedIsSound'
    BY <1>6 DEF RejectRead, Rejectable, On
  <1>7. ASSUME NEW p \in Procs, RejectCommit(p) PROVE CarriedIsSound'
    BY <1>7 DEF RejectCommit, Idle
  <1>8. ASSUME NEW p \in Procs, Abort(p) PROVE CarriedIsSound'
    BY <1>8 DEF Abort, Idle
  <1>9. ExpireScan => CarriedIsSound'
    BY DEF ExpireScan, Due
  <1>10. ASSUME NEW b \in Bookings, ExpireCommit(b) PROVE CarriedIsSound'
    BY <1>10 DEF ExpireCommit
  <1>11. ASSUME NEW b \in Bookings, ExpireFail(b) PROVE CarriedIsSound'
    BY <1>11 DEF ExpireFail
  <1>12. ASSUME NEW b \in Bookings, Lapse(b) PROVE CarriedIsSound'
    BY <1>12 DEF Lapse
  <1>13. ASSUME NEW b \in Bookings, PaymentWrites(b) PROVE CarriedIsSound'
    BY <1>13, StatusNames DEF PaymentWrites
  <1>14. Restart => CarriedIsSound'
    BY DEF Restart, Idle
  <1>15. ASSUME NEW N, NEW v, SetAvailability(N, v) PROVE CarriedIsSound'
    BY <1>15 DEF SetAvailability
  <1>16. ASSUME NEW N, DeleteAvailabilityRange(N) PROVE CarriedIsSound'
    BY <1>16 DEF DeleteAvailabilityRange
  <1>17. CASE UNCHANGED vars
    BY <1>17 DEF vars
  <1> QED
    <2>1. ASSUME ProviderEdit PROVE CarriedIsSound'
      BY <2>1, <1>15, <1>16 DEF ProviderEdit, BlockDates, UpdateSingleDate
    <2>2. ASSUME BookingNext PROVE CarriedIsSound'
      BY <2>2, <1>1, <1>2, <1>3, <1>4, <1>5, <1>6, <1>7, <1>8, <1>9, <1>10, <1>11,
         <1>12, <1>13, <1>14 DEF BookingNext, HandlerStep, CronStep
    <2> QED
      BY <2>1, <2>2, <1>17 DEF Next
-----------------------------------------------------------------------------
(* The bound on overselling *)

Bounded(n) == avail[n] + MaxRooms * Cardinality(Procs \ Claimants(n)) >= 0

LEMMA Counts ==
  ASSUME NEW n
  PROVE  Cardinality(Procs \ Claimants(n)) \in Nat
  <1>1. IsFiniteSet(Procs \ Claimants(n))
    BY FS_Difference, RoomAssumption
  <1> QED
    BY <1>1, FS_CardinalityType

LEMMA MoreTimes ==
  ASSUME NEW c \in Nat, NEW d \in Nat, c <= d, NEW m \in Nat
  PROVE  m * c <= m * d
  OBVIOUS

\* A night stays bounded when its count is set to a value a provider may post,
\* or when nothing is taken from it and no request newly passes its check.
LEMMA QuietNight ==
  ASSUME TypeOK, OversellBound, NEW n \in Nights, avail'[n] \in Int,
         \/ avail'[n] >= 0
         \/ avail'[n] >= avail[n] /\ Claimants(n)' \subseteq Claimants(n)
  PROVE  Bounded(n)'
  <1> DEFINE spare  == Procs \ Claimants(n)
             spare1 == Procs \ Claimants(n)'
  <1>1. /\ IsFiniteSet(spare) /\ IsFiniteSet(spare1)
        /\ Cardinality(spare) \in Nat /\ Cardinality(spare1) \in Nat
    BY FS_Difference, FS_CardinalityType, RoomAssumption
  <1>2. CASE avail'[n] >= 0
    <2>1. MaxRooms * Cardinality(spare1) >= 0
      BY <1>1, RoomAssumption
    <2> QED
      BY <1>2, <2>1, <1>1, RoomAssumption DEF Bounded
  <1>3. CASE avail'[n] >= avail[n] /\ Claimants(n)' \subseteq Claimants(n)
    <2>1. Cardinality(spare) <= Cardinality(spare1)
      <3>1. spare \in SUBSET spare1
        BY <1>3
      <3> QED
        BY <3>1, <1>1, FS_Subset
    <2>2. MaxRooms * Cardinality(spare) <= MaxRooms * Cardinality(spare1)
      BY <2>1, <1>1, MoreTimes, RoomAssumption
    <2>3. avail[n] + MaxRooms * Cardinality(spare) >= 0
      BY DEF OversellBound
    <2>4. /\ avail[n] \in Int
          /\ MaxRooms * Cardinality(spare) \in Int
          /\ MaxRooms * Cardinality(spare1) \in Int
      BY <1>1, RoomAssumption DEF TypeOK
    <2>5. avail'[n] + MaxRooms * Cardinality(spare1) >= 0
      BY <1>3, <2>2, <2>3, <2>4
    <2> QED
      BY <2>5 DEF Bounded
  <1> QED
    BY <1>2, <1>3

\* A create that commits takes at most MaxRooms from a night, and no longer
\* counts among the night's claimants.
LEMMA SoldNight ==
  ASSUME TypeOK, OversellBound, NEW p \in Procs, CreateCommit(p), NEW n \in Nights
  PROVE  Bounded(n)'
  <1> DEFINE spare  == Procs \ Claimants(n)
             spare1 == Procs \ Claimants(n)'
  <1>1. task[p] \in Task /\ task'[p] = Idle /\ avail'[n] \in Int
    BY DEF TypeOK, CreateCommit, Held, Task
  <1>2. CASE n \in task[p].nights
    <2>1. spare1 = spare \union {p} /\ p \notin spare
      BY <1>1, <1>2 DEF Claimants, CreateCommit, Idle, TypeOK
    <2>2. IsFiniteSet(spare) /\ Cardinality(spare) \in Nat
      BY FS_Difference, FS_CardinalityType, RoomAssumption
    <2>3. Cardinality(spare1) = Cardinality(spare) + 1
      BY <2>1, <2>2, FS_AddElement
    <2>4. avail'[n] = avail[n] - task[p].rooms
      BY <1>2 DEF CreateCommit, Held, TypeOK
    <2>5. task[p].rooms \in Int /\ task[p].rooms <= MaxRooms /\ avail[n] \in Int
      BY <1>1, RoomAssumption DEF Task, TypeOK
    <2>6. MaxRooms * Cardinality(spare1) = MaxRooms * Cardinality(spare) + MaxRooms
      BY <2>2, <2>3, RoomAssumption
    <2>7. MaxRooms * Cardinality(spare) \in Int
      BY <2>2, RoomAssumption
    <2>8. avail[n] + MaxRooms * Cardinality(spare) >= 0
      BY DEF OversellBound
    <2>9. avail'[n] + MaxRooms * Cardinality(spare1) >= 0
      BY <2>4, <2>5, <2>6, <2>7, <2>8, RoomAssumption
    <2> QED
      BY <2>9 DEF Bounded
  <1>3. CASE n \notin task[p].nights
    <2>1. avail'[n] = avail[n]
      BY <1>3 DEF CreateCommit, Held, TypeOK
    <2>2. Claimants(n)' \subseteq Claimants(n)
      BY <1>1 DEF Claimants, CreateCommit, Idle, TypeOK
    <2> QED
      BY <1>1, <2>1, <2>2, QuietNight DEF TypeOK
  <1> QED
    BY <1>2, <1>3

LEMMA OversellInit == Init => OversellBound
  <1> SUFFICES ASSUME Init, NEW n \in Nights PROVE Bounded(n)
    BY DEF OversellBound, Bounded
  <1>1. avail[n] >= 0 /\ avail[n] \in Int
    BY RoomAssumption DEF Init
  <1> DEFINE spares == Cardinality(Procs \ Claimants(n))
  <1>2. spares \in Nat /\ MaxRooms \in Nat
    BY Counts, RoomAssumption
  <1> HIDE DEF spares
  <1>3. MaxRooms * spares >= 0 /\ MaxRooms * spares \in Int
    BY <1>2
  <1>4. avail[n] + MaxRooms * spares >= 0
    BY <1>1, <1>3
  <1> QED
    BY <1>4 DEF Bounded, spares

LEMMA OversellStep == IInv /\ TypeOK' /\ [Next]_vars => OversellBound'
  <1> SUFFICES ASSUME IInv, TypeOK', [Next]_vars, NEW n \in Nights PROVE Bounded(n)'
    BY DEF OversellBound, Bounded
  <1>t. /\ TypeOK /\ OversellBound /\ CarriedIsSound
        /\ avail[n] \in Int /\ avail'[n] \in Int
    BY DEF IInv, TypeOK
  <1>q. ASSUME avail'[n] >= avail[n], Claimants(n)' \subseteq Claimants(n)
        PROVE  Bounded(n)'
    BY <1>t, <1>q, QuietNight
  <1> USE DEF calendar, booking
  <1>1. ASSUME NEW p \in Procs, CreateRead(p) PROVE Bounded(n)'
    <2>1. PICK N \in Ranges, q \in 1..MaxRooms :
            /\ \A m \in N : Enough(m, q)
            /\ task' = [task EXCEPT ![p] =
                        [op |-> "create", bk |-> NoBooking, nights |-> N, rooms |-> q]]
      BY <1>1 DEF CreateRead
    <2>2. avail' = avail
      BY <1>1 DEF CreateRead
    <2>3. CASE n \in N
      BY <1>t, <2>1, <2>2, <2>3, QuietNight DEF Enough
    <2>4. CASE n \notin N
      BY <1>t, <1>q, <2>1, <2>2, <2>4 DEF Claimants, TypeOK
    <2> QED
      BY <2>3, <2>4
  <1>2. ASSUME NEW p \in Procs, CreateCommit(p) PROVE Bounded(n)'
    BY <1>t, <1>2, SoldNight
  <1>3. ASSUME NEW p \in Procs, NEW b \in Bookings, ConfirmRead(p, b) PROVE Bounded(n)'
    BY <1>t, <1>q, <1>3 DEF ConfirmRead, Confirmable, Claimants, On, TypeOK
  <1>4. ASSUME NEW p \in Procs, ConfirmCheck(p) PROVE Bounded(n)'
    BY <1>t, <1>q, <1>4 DEF ConfirmCheck, Claimants, On, Idle, TypeOK
  <1>5. ASSUME NEW p \in Procs, ConfirmWrite(p) PROVE Bounded(n)'
    BY <1>t, <1>q, <1>5 DEF ConfirmWrite, Claimants, Idle, TypeOK
  <1>6. ASSUME NEW p \in Procs, NEW b \in Bookings, RejectRead(p, b) PROVE Bounded(n)'
    BY <1>t, <1>q, <1>6 DEF RejectRead, Claimants, On, TypeOK
  <1>7. ASSUME NEW p \in Procs, RejectCommit(p) PROVE Bounded(n)'
    <2>1. task[p].bk \in Bookings
      BY <1>t, <1>7 DEF RejectCommit, CarriedIsSound
    <2>2. rooms[task[p].bk] \in Nat
      BY <1>t, <2>1, RoomAssumption DEF TypeOK
    <2>3. avail'[n] >= avail[n]
      BY <1>t, <1>7, <2>2 DEF RejectCommit, Released
    <2> QED
      BY <1>t, <1>q, <1>7, <2>3 DEF RejectCommit, Claimants, Idle, TypeOK
  <1>8. ASSUME NEW p \in Procs, Abort(p) PROVE Bounded(n)'
    BY <1>t, <1>q, <1>8 DEF Abort, Claimants, Idle, TypeOK
  <1>9. ASSUME ExpireScan PROVE Bounded(n)'
    BY <1>t, <1>q, <1>9 DEF ExpireScan, Claimants
  <1>10. ASSUME NEW b \in Bookings, ExpireCommit(b) PROVE Bounded(n)'
    <2>1. rooms[b] \in Nat
      BY <1>t, RoomAssumption DEF TypeOK
    <2>2. avail'[n] >= avail[n]
      BY <1>t, <1>10, <2>1 DEF ExpireCommit, EndedReturnsRooms, Released
    <2> QED
      BY <1>t, <1>q, <1>10, <2>2 DEF ExpireCommit, Claimants
  <1>11. ASSUME NEW b \in Bookings, ExpireFail(b) PROVE Bounded(n)'
    BY <1>t, <1>q, <1>11 DEF ExpireFail, Claimants
  <1>12. ASSUME NEW b \in Bookings, Lapse(b) PROVE Bounded(n)'
    BY <1>t, <1>q, <1>12 DEF Lapse, Claimants
  <1>13. ASSUME NEW b \in Bookings, PaymentWrites(b) PROVE Bounded(n)'
    BY <1>t, <1>q, <1>13 DEF PaymentWrites, Claimants
  <1>14. ASSUME Restart PROVE Bounded(n)'
    BY <1>t, <1>q, <1>14 DEF Restart, Claimants, Idle
  <1>15. ASSUME NEW N, NEW v \in 0..Capacity, SetAvailability(N, v) PROVE Bounded(n)'
    <2>1. avail'[n] >= 0 \/ avail'[n] = avail[n]
      BY <1>15, RoomAssumption DEF SetAvailability
    <2>2. Claimants(n)' = Claimants(n)
      BY <1>15 DEF SetAvailability, Claimants
    <2> QED
      BY <1>t, <2>1, <2>2, QuietNight
  <1>16. ASSUME NEW N, DeleteAvailabilityRange(N) PROVE Bounded(n)'
    <2>1. avail'[n] >= 0 \/ avail'[n] = avail[n]
      BY <1>16 DEF DeleteAvailabilityRange
    <2>2. Claimants(n)' \subseteq Claimants(n)
      BY <1>16 DEF DeleteAvailabilityRange, Claimants
    <2> QED
      BY <1>t, <2>1, <2>2, QuietNight
  <1>17. CASE UNCHANGED vars
    BY <1>t, <1>q, <1>17 DEF vars, Claimants
  <1> QED
    <2>1. ASSUME ProviderEdit PROVE Bounded(n)'
      <3>1. 0 \in 0..Capacity
        BY RoomAssumption
      <3> QED
        BY <2>1, <3>1, <1>15, <1>16 DEF ProviderEdit, BlockDates, UpdateSingleDate
    <2>2. ASSUME BookingNext PROVE Bounded(n)'
      BY <2>2, <1>1, <1>2, <1>3, <1>4, <1>5, <1>6, <1>7, <1>8, <1>9, <1>10, <1>11,
         <1>12, <1>13, <1>14 DEF BookingNext, HandlerStep, CronStep
    <2> QED
      BY <2>1, <2>2, <1>17 DEF Next

THEOREM InductiveInvariant == Spec => []IInv
  <1>1. Init => IInv
    BY TypeInit, CarriedInit, OversellInit DEF IInv
  <1>2. IInv /\ [Next]_vars => IInv'
    BY TypeStep, CarriedStep, OversellStep DEF IInv
  <1> QED
    BY <1>1, <1>2, PTL DEF Spec

\* Every column and every handler's local state keeps its type, whatever the
\* interleaving of requests, cron runs, provider edits and restarts.
THEOREM TypeCorrect == Spec => []TypeOK
  <1>1. IInv => TypeOK
    BY DEF IInv
  <1> QED
    BY <1>1, InductiveInvariant, PTL

\* A decision is written to an existing booking, and only bookings that were
\* offered for payment are in a cron run's list.
THEOREM CarriedSound == Spec => []CarriedIsSound
  <1>1. IInv => CarriedIsSound
    BY DEF IInv
  <1> QED
    BY <1>1, InductiveInvariant, PTL

\* For any number of requests served at once, however long the server runs, a
\* night is oversold by at most MaxRooms rooms for each of them.
THEOREM OversellingIsBounded == Spec => []OversellBound
  <1>1. IInv => OversellBound
    BY DEF IInv
  <1> QED
    BY <1>1, InductiveInvariant, PTL

-----------------------------------------------------------------------------
(* RoomInventory implements BookingLifecycle *)

LEMMA LifecycleInit == Init => Lifecycle!Init
  BY DEF Init, Lifecycle!Init

LEMMA LifecycleStep == IInv /\ [Next]_vars => [Lifecycle!Next]_(Lifecycle!vars)
  <1> SUFFICES ASSUME IInv, [Next]_vars
               PROVE  Lifecycle!Next \/ UNCHANGED <<status, deadline>>
    BY DEF Lifecycle!vars
  <1>t. TypeOK /\ CarriedIsSound
    BY DEF IInv
  <1> USE DEF calendar, booking
  <1>1. ASSUME NEW p \in Procs, CreateCommit(p) PROVE Lifecycle!Next
    BY <1>1 DEF CreateCommit, NewStatus, Lifecycle!Next, Lifecycle!Request, Lifecycle!Fresh
  <1>2. ASSUME NEW p \in Procs, ConfirmWrite(p) PROVE Lifecycle!Next
    <2>1. task[p].bk \in Bookings /\ status[task[p].bk] # "NONE"
      BY <1>t, <1>2 DEF ConfirmWrite, CarriedIsSound
    <2> QED
      BY <1>2, <2>1 DEF ConfirmWrite, Lifecycle!Next, Lifecycle!Offer
  <1>3. ASSUME NEW p \in Procs, RejectCommit(p) PROVE Lifecycle!Next
    <2>1. task[p].bk \in Bookings /\ status[task[p].bk] # "NONE"
      BY <1>t, <1>3 DEF RejectCommit, CarriedIsSound
    <2> QED
      BY <1>3, <2>1 DEF RejectCommit, Lifecycle!Next, Lifecycle!Decline
  <1>4. ASSUME NEW b \in Bookings, ExpireCommit(b) PROVE Lifecycle!Next
    BY <1>t, <1>4 DEF ExpireCommit, CarriedIsSound, Lifecycle!Next, Lifecycle!Expire,
                      Lifecycle!Expirable, Lifecycle!Offered
  <1>5. ASSUME NEW b \in Bookings, Lapse(b) PROVE Lifecycle!Next
    BY <1>5 DEF Lapse, Lifecycle!Next, Lifecycle!Lapse
  <1>6. ASSUME NEW b \in Bookings, PaymentWrites(b) PROVE Lifecycle!Next
    BY <1>6 DEF PaymentWrites, Lifecycle!Next, Lifecycle!Settle, Lifecycle!Offered
  <1>7. ASSUME NEW p \in Procs,
               \/ CreateRead(p) \/ ConfirmCheck(p) \/ Abort(p)
               \/ \E b \in Bookings : ConfirmRead(p, b) \/ RejectRead(p, b)
        PROVE  UNCHANGED <<status, deadline>>
    BY <1>7 DEF CreateRead, ConfirmCheck, Abort, ConfirmRead, RejectRead
  <1>8. ASSUME ExpireScan \/ Restart \/ (\E b \in Bookings : ExpireFail(b))
        PROVE  UNCHANGED <<status, deadline>>
    BY <1>8 DEF ExpireScan, Restart, ExpireFail
  <1>9. ASSUME ProviderEdit PROVE UNCHANGED <<status, deadline>>
    BY <1>9 DEF ProviderEdit, BlockDates, UpdateSingleDate, SetAvailability,
                DeleteAvailabilityRange
  <1>10. CASE UNCHANGED vars
    BY <1>10 DEF vars
  <1> QED
    BY <1>1, <1>2, <1>3, <1>4, <1>5, <1>6, <1>7, <1>8, <1>9, <1>10
       DEF Next, BookingNext, HandlerStep, CronStep

\* Every step of a request, of the cron, of a provider's edit or of a restart
\* is a step the booking lifecycle allows, or leaves the booking row alone.
THEOREM ImplementsLifecycle == Spec => LifecycleSpec
  <1> QED
    BY InductiveInvariant, LifecycleInit, LifecycleStep, PTL
       DEF LifecycleSpec, Lifecycle!Spec, Spec

-----------------------------------------------------------------------------
(* Requests that do not get in each other's way *)

\* The keys to a night that bookings hold, by their stays and rooms.
Keys(n, H, st, rm) == {k \in H \X (1..MaxRooms) : n \in st[k[1]] /\ k[2] <= rm[k[1]]}

LEMMA KeysFinite ==
  ASSUME NEW H, IsFiniteSet(H), NEW st, NEW rm, NEW n
  PROVE  IsFiniteSet(Keys(n, H, st, rm)) /\ Cardinality(Keys(n, H, st, rm)) \in Nat
  <1>1. IsFiniteSet(1..MaxRooms)
    BY FS_Interval, RoomAssumption
  <1>2. IsFiniteSet(H \X (1..MaxRooms))
    BY <1>1, FS_Product
  <1> QED
    BY <1>2, FS_Subset, FS_CardinalityType DEF Keys

\* A booking more has its rooms' keys more.
LEMMA KeysAdded ==
  ASSUME NEW H, IsFiniteSet(H), NEW b, b \notin H, NEW st, NEW rm,
         NEW q \in 0..MaxRooms, rm[b] = q, NEW n,
         NEW c \in Nat, c = Cardinality(Keys(n, H, st, rm))
  PROVE  Cardinality(Keys(n, H \union {b}, st, rm)) = IF n \in st[b] THEN c + q ELSE c
  <1> DEFINE A == Keys(n, H, st, rm)
             B == Keys(n, {b}, st, rm)
             f == [k \in 1..q |-> <<b, k>>]
  <1>1. Keys(n, H \union {b}, st, rm) = A \union B /\ A \cap B = {}
    BY DEF Keys
  <1>2. IsFiniteSet({b})
    BY FS_Singleton
  <1>3. /\ IsFiniteSet(A) /\ Cardinality(A) \in Nat
        /\ IsFiniteSet(B) /\ Cardinality(B) \in Nat
    BY <1>2, KeysFinite
  <1>4. Cardinality(B) = IF n \in st[b] THEN q ELSE 0
    <2>1. CASE n \notin st[b]
      <3>1. B = {}
        BY <2>1 DEF Keys
      <3> QED
        BY <2>1, <3>1, FS_EmptySet
    <2>2. CASE n \in st[b]
      <3>1. q \in 0..MaxRooms /\ MaxRooms \in Nat
        BY RoomAssumption
      <3>2. \A k \in 1..q : <<b, k>> \in B
        BY <2>2, <3>1 DEF Keys
      <3>3. \A x \in B : x[2] \in 1..q /\ x = <<b, x[2]>>
        BY <3>1 DEF Keys
      <3> HIDE DEF B
      <3>4. f \in [1..q -> B] /\ \A k \in 1..q : f[k] = <<b, k>>
        BY <3>2
      <3> HIDE DEF f
      <3>5. ASSUME NEW j \in 1..q, NEW k \in 1..q, f[j] = f[k] PROVE j = k
        <4>1. <<b, j>> = <<b, k>>
          BY <3>4, <3>5
        <4> QED
          BY <4>1
      <3>6. \A x \in B : \E k \in 1..q : f[k] = x
        BY <3>3, <3>4
      <3>7. f \in Bijection(1..q, B)
        BY <3>4, <3>5, <3>6 DEF Bijection, Injection, Surjection, IsInjective
      <3>8. q \in Int /\ 1 \in Int
        BY <3>1
      <3>9. /\ IsFiniteSet(1..q)
            /\ Cardinality(1..q) = IF 1 > q THEN 0 ELSE q - 1 + 1
        BY <3>8, FS_Interval
      <3>10. Cardinality(B) = Cardinality(1..q)
        BY <3>7, <3>9, FS_Bijection DEF ExistsBijection
      <3> QED
        BY <2>2, <3>1, <3>9, <3>10
    <2> QED
      BY <2>1, <2>2
  <1>5. Cardinality(A \union B) = Cardinality(A) + Cardinality(B) - Cardinality(A \cap B)
    BY <1>3, FS_Union
  <1>6. Cardinality(A \cap B) = 0
    BY <1>1, FS_EmptySet
  <1> HIDE DEF A, B
  <1>7. Cardinality(A \union B) = Cardinality(A) + Cardinality(B)
    BY <1>3, <1>5, <1>6
  <1>8. Cardinality(Keys(n, H \union {b}, st, rm)) = Cardinality(A) + Cardinality(B)
    BY <1>1, <1>7
  <1> QED
    BY <1>4, <1>8 DEF A

\* What undisturbed requests know when they write.
OrderlyInv ==
    /\ Undisturbed
    /\ rows = Nights
    /\ \A p \in Procs : task[p].op = "create" =>
            \A n \in task[p].nights : avail[n] >= task[p].rooms
    /\ \A b \in Bookings :
            status[b] \in {"NONE", "REQUESTED", "REJECTED"} => deadline[b] = "unset"
    /\ \A p \in Procs : task[p].op \in {"confirm", "checked", "reject"} =>
            task[p].bk \in Bookings /\ status[task[p].bk] = "REQUESTED"
    /\ NeverOversold

\* Some bookings, among them those that are open or about to expire, hold what the
\* calendar is short of.
Holders(H) ==
    /\ {b \in Bookings : status[b] \in {"REQUESTED", "AWAITING_PAYMENT"}} \subseteq H
    /\ \A b \in H : status[b] \notin Ended
    /\ sweep \subseteq H
    /\ \A n \in Nights : avail[n] = Capacity - Cardinality(Keys(n, H, stay, rooms))

HoldInv == \E H \in SUBSET Bookings : Holders(H)

LEMMA OrderlyInit == Init => OrderlyInv /\ HoldInv
  <1> SUFFICES ASSUME Init PROVE OrderlyInv /\ HoldInv
    OBVIOUS
  <1>1. OrderlyInv
    BY RoomAssumption DEF Init, OrderlyInv, Undisturbed, NeverOversold, Idle
  <1>2. \A n \in Nights : Keys(n, {}, stay, rooms) = {}
    BY DEF Keys
  <1>3. \A n \in Nights : avail[n] = Capacity - Cardinality(Keys(n, {}, stay, rooms))
    <2>1. \A n \in Nights : Cardinality(Keys(n, {}, stay, rooms)) = 0
      BY <1>2, FS_EmptySet
    <2>2. \A n \in Nights : avail[n] = Capacity - 0
      BY RoomAssumption DEF Init
    <2> QED
      BY <2>1, <2>2
  <1>4. Holders({})
    BY <1>3 DEF Init, Holders
  <1> QED
    BY <1>1, <1>4 DEF HoldInv

\* Each step of an undisturbed request leaves the others' reads true.
LEMMA OrderlyStep == IInv /\ OrderlyInv /\ [OrderlyNext]_vars => OrderlyInv'
  <1> SUFFICES ASSUME IInv, OrderlyInv, [OrderlyNext]_vars PROVE OrderlyInv'
    OBVIOUS
  <1>t. TypeOK /\ CarriedIsSound /\ Undisturbed /\ rows = Nights
    BY DEF IInv, OrderlyInv
  <1>u. Undisturbed'
    BY <1>t DEF OrderlyNext, vars, Undisturbed
  <1>s. {"NONE", "REQUESTED", "REJECTED"} \cap Lifecycle!Settled = {}
    BY DEF Lifecycle!Settled
  <1> USE <1>t, <1>u DEF OrderlyInv, NeverOversold, calendar, booking, TypeOK
  <1>1. ASSUME NEW p \in Procs, CreateRead(p) PROVE OrderlyInv'
    <2>1. PICK N \in Ranges, q \in 1..MaxRooms :
            /\ \A n \in N : Enough(n, q)
            /\ task' = [task EXCEPT ![p] =
                        [op |-> "create", bk |-> NoBooking, nights |-> N, rooms |-> q]]
      BY <1>1 DEF CreateRead
    <2> QED
      BY <1>1, <2>1 DEF CreateRead, Enough
  <1>2. ASSUME NEW p \in Procs, CreateCommit(p) PROVE OrderlyInv'
    <2>1. /\ task[p].op = "create" /\ task[p] \in Task /\ task[p].nights \subseteq Nights
          /\ task[p].rooms \in Int /\ task' = [task EXCEPT ![p] = Idle]
          /\ rows' = rows /\ deadline' = deadline
      BY <1>2, RoomAssumption DEF CreateCommit, Task
    <2>2. PICK b \in Bookings : status[b] = "NONE" /\ status' = [status EXCEPT ![b] = "REQUESTED"]
      BY <1>2 DEF CreateCommit, NewStatus
    <2>3. \A n \in Nights : avail'[n] = IF n \in task[p].nights THEN avail[n] - task[p].rooms
                                                               ELSE avail[n]
      BY <1>2 DEF CreateCommit, Held
    <2>4. \A n \in Nights : avail'[n] >= 0
      BY <2>1, <2>3
    <2>5. ASSUME NEW r \in Procs, task'[r].op = "create", NEW n \in task'[r].nights
          PROVE  avail'[n] >= task'[r].rooms
      <3>1. r # p /\ task'[r] = task[r]
        BY <2>1, <2>5 DEF Idle
      <3>2. task[r] \in Task /\ task[r].nights \subseteq Nights
        BY DEF Task
      <3>3. n \in Nights /\ n \notin task[p].nights
        BY <2>1, <2>5, <3>1, <3>2 DEF Undisturbed
      <3> QED
        BY <2>3, <2>5, <3>1, <3>3
    <2>6. ASSUME NEW r \in Procs, task'[r].op \in {"confirm", "checked", "reject"}
          PROVE  task'[r].bk \in Bookings /\ status'[task'[r].bk] = "REQUESTED"
      <3>1. r # p /\ task'[r] = task[r]
        BY <2>1, <2>6 DEF Idle
      <3> QED
        BY <2>2, <2>6, <3>1
    <2> QED
      BY <2>1, <2>2, <2>4, <2>5, <2>6
  <1>3. ASSUME NEW p \in Procs, NEW b \in Bookings, ConfirmRead(p, b) PROVE OrderlyInv'
    BY <1>3 DEF ConfirmRead, Confirmable, On
  <1>4. ASSUME NEW p \in Procs, ConfirmCheck(p) PROVE OrderlyInv'
    BY <1>4 DEF ConfirmCheck, On, Idle
  <1>5. ASSUME NEW p \in Procs, ConfirmWrite(p) PROVE OrderlyInv'
    <2>1. /\ task[p].bk \in Bookings /\ status[task[p].bk] = "REQUESTED"
          /\ task' = [task EXCEPT ![p] = Idle] /\ UNCHANGED <<rows, avail>>
      BY <1>5 DEF ConfirmWrite
    <2>2. ASSUME NEW r \in Procs, task'[r].op \in {"confirm", "checked", "reject"}
          PROVE  task'[r].bk \in Bookings /\ status'[task'[r].bk] = "REQUESTED"
      <3>1. r # p /\ task'[r] = task[r]
        BY <2>1, <2>2 DEF Idle
      <3>2. task[r].bk \in Bookings /\ status[task[r].bk] = "REQUESTED"
        BY <2>2, <3>1
      <3>3. task[r].bk # task[p].bk
        BY <2>1, <3>1, <3>2, RoomAssumption DEF Undisturbed
      <3> QED
        BY <1>5, <3>1, <3>2, <3>3 DEF ConfirmWrite
    <2>3. \A b \in Bookings : status'[b] \in {"NONE", "REQUESTED", "REJECTED"} => deadline'[b] = "unset"
      BY <1>5 DEF ConfirmWrite
    <2>4. \A r \in Procs : task'[r].op = "create" => \A n \in task'[r].nights : avail'[n] >= task'[r].rooms
      BY <2>1 DEF Idle
    <2> QED
      BY <2>1, <2>2, <2>3, <2>4
  <1>6. ASSUME NEW p \in Procs, NEW b \in Bookings, RejectRead(p, b) PROVE OrderlyInv'
    BY <1>6 DEF RejectRead, Rejectable, On
  <1>7. ASSUME NEW p \in Procs, RejectCommit(p) PROVE OrderlyInv'
    <2> DEFINE b == task[p].bk
    <2>1. /\ b \in Bookings /\ status[b] = "REQUESTED"
          /\ task' = [task EXCEPT ![p] = Idle] /\ rows' = rows /\ deadline' = deadline
          /\ status' = [status EXCEPT ![b] = "REJECTED"]
      BY <1>7 DEF RejectCommit
    <2>2. ASSUME NEW r \in Procs, task'[r].op \in {"confirm", "checked", "reject"}
          PROVE  task'[r].bk \in Bookings /\ status'[task'[r].bk] = "REQUESTED"
      <3>1. r # p /\ task'[r] = task[r]
        BY <2>1, <2>2 DEF Idle
      <3>2. task[r].bk \in Bookings /\ status[task[r].bk] = "REQUESTED"
        BY <2>2, <3>1
      <3>3. task[r].bk # b
        BY <2>1, <3>1, <3>2, RoomAssumption DEF Undisturbed
      <3> QED
        BY <2>1, <3>1, <3>2, <3>3
    <2>3. rooms[b] \in Nat
      BY <2>1, RoomAssumption
    <2>4. \A n \in Nights : avail'[n] >= avail[n] /\ avail'[n] \in Int
      BY <1>7, <2>3 DEF RejectCommit, Released
    <2>5. \A r \in Procs : task'[r].op = "create" => \A n \in task'[r].nights : avail'[n] >= task'[r].rooms
      <3>1. \A r \in Procs : task[r].nights \subseteq Nights /\ task[r].rooms \in Int
        BY RoomAssumption DEF Task
      <3> QED
        BY <2>1, <2>4, <3>1 DEF Idle
    <2>6. \A n \in Nights : avail'[n] >= 0
      BY <2>4
    <2> QED
      BY <2>1, <2>2, <2>5, <2>6
  <1>8. ASSUME NEW p \in Procs, Abort(p) PROVE OrderlyInv'
    BY <1>8 DEF Abort, Idle
  <1>9. ASSUME ExpireScan PROVE OrderlyInv'
    BY <1>9 DEF ExpireScan
  <1>10. ASSUME NEW b \in Bookings, ExpireCommit(b) PROVE OrderlyInv'
    <2>1. /\ task' = task /\ rows' = rows /\ deadline' = deadline
          /\ status' = [status EXCEPT ![b] = "EXPIRED"] /\ deadline[b] # "unset"
      BY <1>10 DEF ExpireCommit, CarriedIsSound
    <2>2. status[b] # "REQUESTED"
      BY <2>1
    <2>3. rooms[b] \in Nat
      BY RoomAssumption
    <2>4. \A n \in Nights : avail'[n] >= avail[n] /\ avail'[n] \in Int
      BY <1>10, <2>3 DEF ExpireCommit, EndedReturnsRooms, Released
    <2>5. \A r \in Procs : task'[r].op = "create" => \A n \in task'[r].nights : avail'[n] >= task'[r].rooms
      <3>1. \A r \in Procs : task[r].nights \subseteq Nights /\ task[r].rooms \in Int
        BY RoomAssumption DEF Task
      <3> QED
        BY <2>1, <2>4, <3>1
    <2>6. \A n \in Nights : avail'[n] >= 0
      BY <2>4
    <2> QED
      BY <2>1, <2>2, <2>5, <2>6
  <1>11. ASSUME NEW b \in Bookings, ExpireFail(b) PROVE OrderlyInv'
    BY <1>11 DEF ExpireFail
  <1>12. ASSUME NEW b \in Bookings, Lapse(b) PROVE OrderlyInv'
    BY <1>12 DEF Lapse
  <1>13. ASSUME NEW b \in Bookings, PaymentWrites(b) PROVE OrderlyInv'
    <2>1. /\ deadline[b] # "unset" /\ UNCHANGED <<rows, avail, deadline, task>>
      BY <1>13 DEF PaymentWrites
    <2>2. PICK s \in Lifecycle!Settled : status' = [status EXCEPT ![b] = s]
      BY <1>13 DEF PaymentWrites
    <2> QED
      BY <2>1, <2>2, <1>s
  <1>14. ASSUME Restart PROVE OrderlyInv'
    BY <1>14 DEF Restart, Idle
  <1>15. CASE UNCHANGED vars
    BY <1>15 DEF vars
  <1> QED
    BY <1>1, <1>2, <1>3, <1>4, <1>5, <1>6, <1>7, <1>8, <1>9, <1>10, <1>11, <1>12,
       <1>13, <1>14, <1>15 DEF OrderlyNext, BookingNext, HandlerStep, CronStep

\* A booking that gives its rooms back no longer holds any.
LEMMA HolderLeaves ==
  ASSUME TypeOK, rows = Nights, NEW H \in SUBSET Bookings, Holders(H), NEW b \in H,
         avail' = Released(stay[b], rooms[b]), NEW n \in Nights
  PROVE  avail'[n] = Capacity - Cardinality(Keys(n, H \ {b}, stay, rooms))
  <1> DEFINE G == H \ {b}
             c == Cardinality(Keys(n, G, stay, rooms))
  <1>1. IsFiniteSet(G) /\ b \notin G /\ G \union {b} = H
    BY FS_Subset, RoomAssumption
  <1>2. rooms[b] \in 0..MaxRooms /\ rooms[b] \in Nat /\ avail[n] \in Int
    BY RoomAssumption DEF TypeOK
  <1>3. c \in Nat
    BY <1>1, KeysFinite
  <1> HIDE DEF G
  <1>4. Cardinality(Keys(n, H, stay, rooms)) = IF n \in stay[b] THEN c + rooms[b] ELSE c
    <2>1. Cardinality(Keys(n, G \union {b}, stay, rooms))
            = IF n \in stay[b] THEN c + rooms[b] ELSE c
      <3> HIDE DEF c
      <3> QED
        BY <1>1, <1>2, <1>3, KeysAdded DEF c
    <2> QED
      BY <1>1, <2>1
  <1>5. avail[n] = Capacity - Cardinality(Keys(n, H, stay, rooms))
    BY DEF Holders
  <1>6. avail'[n] = IF n \in stay[b] THEN avail[n] + rooms[b] ELSE avail[n]
    BY DEF Released, RowsIn
  <1> HIDE DEF c
  <1>7. avail'[n] = Capacity - c
    BY <1>2, <1>3, <1>4, <1>5, <1>6, RoomAssumption
  <1> QED
    BY <1>7 DEF c, G

LEMMA HoldStep == IInv /\ OrderlyInv /\ HoldInv /\ [OrderlyNext]_vars => HoldInv'
  <1> SUFFICES ASSUME IInv, OrderlyInv, HoldInv, [OrderlyNext]_vars PROVE HoldInv'
    OBVIOUS
  <1>t. TypeOK /\ CarriedIsSound /\ rows = Nights
    BY DEF IInv, OrderlyInv
  <1>h. PICK H \in SUBSET Bookings : Holders(H)
    BY DEF HoldInv
  <1>k. ASSUME Holders(H)' PROVE HoldInv'
    BY <1>k DEF HoldInv
  <1> USE <1>t, <1>h DEF calendar, booking
  <1>1. ASSUME NEW p \in Procs, CreateCommit(p) PROVE HoldInv'
    <2>1. PICK b \in Bookings :
            /\ status[b] = "NONE"
            /\ status' = [status EXCEPT ![b] = "REQUESTED"]
            /\ stay' = [stay EXCEPT ![b] = task[p].nights]
            /\ rooms' = [rooms EXCEPT ![b] = task[p].rooms]
      BY <1>1 DEF CreateCommit, NewStatus
    <2> DEFINE G == H \union {b}
    <2>2. b \notin H /\ IsFiniteSet(H) /\ G \in SUBSET Bookings
      BY <2>1, FS_Subset, RoomAssumption DEF Holders, Ended
    <2>3. task[p].rooms \in 0..MaxRooms /\ task[p].rooms \in Int /\ task[p] \in Task
      BY RoomAssumption DEF TypeOK, Task
    <2>4. stay'[b] = task[p].nights /\ rooms'[b] = task[p].rooms
      BY <2>1 DEF TypeOK
    <2>5. \A n : Keys(n, H, stay', rooms') = Keys(n, H, stay, rooms)
      BY <2>1, <2>2 DEF Keys, TypeOK
    <2>6. ASSUME NEW n \in Nights
          PROVE  avail'[n] = Capacity - Cardinality(Keys(n, G, stay', rooms'))
      <3> DEFINE c == Cardinality(Keys(n, H, stay, rooms))
      <3>1. c \in Nat /\ avail[n] = Capacity - c
        BY <2>2, KeysFinite DEF Holders
      <3>2. Cardinality(Keys(n, G, stay', rooms')) = IF n \in stay'[b] THEN c + rooms'[b] ELSE c
        <4>1. rooms'[b] \in 0..MaxRooms
          BY <2>3, <2>4
        <4>2. Cardinality(Keys(n, H \union {b}, stay', rooms'))
                = IF n \in stay'[b] THEN c + rooms'[b] ELSE c
          <5>1. c = Cardinality(Keys(n, H, stay', rooms'))
            BY <2>5
          <5> HIDE DEF c
          <5> QED
            BY <2>2, <3>1, <4>1, <5>1, KeysAdded
        <4> QED
          BY <4>2
      <3>3. avail'[n] = IF n \in task[p].nights THEN avail[n] - task[p].rooms ELSE avail[n]
        BY <1>1 DEF CreateCommit, Held
      <3> HIDE DEF c, G
      <3> QED
        BY <2>3, <2>4, <3>1, <3>2, <3>3, RoomAssumption
    <2>7. sweep' = sweep
      BY <1>1 DEF CreateCommit
    <2>8. Holders(G)'
      BY <2>1, <2>2, <2>6, <2>7 DEF Holders, Ended, TypeOK
    <2> QED
      BY <2>2, <2>8 DEF HoldInv
  <1>2. ASSUME NEW p \in Procs, RejectCommit(p) PROVE HoldInv'
    <2>0. PICK b \in Bookings : b = task[p].bk
      BY <1>2 DEF RejectCommit, OrderlyInv
    <2> DEFINE G == H \ {b}
    <2>1. /\ status[b] = "REQUESTED"
          /\ status' = [status EXCEPT ![b] = "REJECTED"]
          /\ avail' = Released(stay[b], rooms[b]) /\ UNCHANGED <<stay, rooms, sweep>>
      BY <1>2, <2>0 DEF RejectCommit, OrderlyInv
    <2>2. b \in H /\ b \notin sweep
      BY <2>1 DEF Holders, OrderlyInv, CarriedIsSound
    <2>3. \A n \in Nights : avail'[n] = Capacity - Cardinality(Keys(n, G, stay, rooms))
      BY <2>1, <2>2, HolderLeaves
    <2>4. Holders(G)'
      <3>1. {a \in Bookings : status'[a] \in {"REQUESTED", "AWAITING_PAYMENT"}} \subseteq G
        BY <2>1 DEF Holders, TypeOK
      <3>2. \A a \in G : status'[a] \notin Ended
        BY <2>1 DEF Holders, TypeOK
      <3>3. sweep' \subseteq G
        BY <2>1, <2>2 DEF Holders
      <3>4. \A n \in Nights : avail'[n] = Capacity - Cardinality(Keys(n, G, stay', rooms'))
        BY <2>1, <2>3
      <3> QED
        BY <3>1, <3>2, <3>3, <3>4 DEF Holders
    <2> QED
      BY <2>4 DEF HoldInv
  <1>3. ASSUME NEW b \in Bookings, ExpireCommit(b) PROVE HoldInv'
    <2> DEFINE G == H \ {b}
    <2>1. /\ status' = [status EXCEPT ![b] = "EXPIRED"] /\ sweep' = sweep \ {b}
          /\ avail' = Released(stay[b], rooms[b]) /\ UNCHANGED <<stay, rooms>>
      BY <1>3 DEF ExpireCommit, EndedReturnsRooms
    <2>2. b \in H
      BY <1>3 DEF ExpireCommit, Holders
    <2>3. \A n \in Nights : avail'[n] = Capacity - Cardinality(Keys(n, G, stay, rooms))
      BY <2>1, <2>2, HolderLeaves
    <2>4. Holders(G)'
      <3>1. {a \in Bookings : status'[a] \in {"REQUESTED", "AWAITING_PAYMENT"}} \subseteq G
        BY <2>1 DEF Holders, TypeOK
      <3>2. \A a \in G : status'[a] \notin Ended
        BY <2>1 DEF Holders, TypeOK
      <3>3. sweep' \subseteq G
        BY <2>1 DEF Holders
      <3>4. \A n \in Nights : avail'[n] = Capacity - Cardinality(Keys(n, G, stay', rooms'))
        BY <2>1, <2>3
      <3> QED
        BY <3>1, <3>2, <3>3, <3>4 DEF Holders
    <2> QED
      BY <2>4 DEF HoldInv
  <1>4. ASSUME NEW p \in Procs, ConfirmWrite(p) PROVE HoldInv'
    <2>1. /\ task[p].bk \in Bookings /\ status[task[p].bk] = "REQUESTED"
          /\ status' = [status EXCEPT ![task[p].bk] = "AWAITING_PAYMENT"]
          /\ UNCHANGED <<avail, stay, rooms, sweep>>
      BY <1>4 DEF ConfirmWrite, OrderlyInv
    <2>2. Holders(H)'
      BY <2>1 DEF Holders, Ended, TypeOK
    <2> QED
      BY <2>2, <1>k
  <1>5. ASSUME NEW b \in Bookings, PaymentWrites(b) PROVE HoldInv'
    <2>1. PICK s \in Lifecycle!Settled : status' = [status EXCEPT ![b] = s]
      BY <1>5 DEF PaymentWrites
    <2>2. s \notin Ended /\ s \notin {"REQUESTED", "AWAITING_PAYMENT"}
      BY DEF Lifecycle!Settled, Ended
    <2>3. UNCHANGED <<avail, stay, rooms, sweep>>
      BY <1>5 DEF PaymentWrites
    <2>4. Holders(H)'
      BY <2>1, <2>2, <2>3 DEF Holders, TypeOK
    <2> QED
      BY <2>4, <1>k
  <1>6. ASSUME ExpireScan PROVE HoldInv'
    <2>1. Holders(H)'
      BY <1>6 DEF ExpireScan, Due, Holders
    <2> QED
      BY <2>1, <1>k
  <1>7. ASSUME UNCHANGED <<avail, status, stay, rooms>>, sweep' \subseteq sweep PROVE HoldInv'
    <2>1. Holders(H)'
      BY <1>7 DEF Holders
    <2> QED
      BY <2>1, <1>k
  <1>8. ASSUME NEW p \in Procs,
               \/ CreateRead(p) \/ ConfirmCheck(p) \/ Abort(p)
               \/ \E b \in Bookings : ConfirmRead(p, b) \/ RejectRead(p, b)
        PROVE  HoldInv'
    BY <1>7, <1>8 DEF CreateRead, ConfirmCheck, Abort, ConfirmRead, RejectRead
  <1>9. ASSUME NEW b \in Bookings, ExpireFail(b) \/ Lapse(b) PROVE HoldInv'
    BY <1>7, <1>9 DEF ExpireFail, Lapse
  <1>10. ASSUME Restart PROVE HoldInv'
    BY <1>7, <1>10 DEF Restart
  <1>11. CASE UNCHANGED vars
    BY <1>7, <1>11 DEF vars
  <1> QED
    BY <1>1, <1>2, <1>3, <1>4, <1>5, <1>6, <1>8, <1>9, <1>10, <1>11
       DEF OrderlyNext, BookingNext, HandlerStep, CronStep

LEMMA OrderlyInvariant == OrderlySpec => [](IInv /\ OrderlyInv /\ HoldInv)
  <1>1. OrderlySpec => Init /\ [][OrderlyNext]_vars
    BY PTL DEF OrderlySpec
  <1>2. Init => IInv /\ OrderlyInv /\ HoldInv
    BY TypeInit, CarriedInit, OversellInit, OrderlyInit DEF IInv
  <1>3. [OrderlyNext]_vars => [Next]_vars
    BY DEF OrderlyNext, Next
  <1>4. IInv /\ OrderlyInv /\ HoldInv /\ [OrderlyNext]_vars => (IInv /\ OrderlyInv /\ HoldInv)'
    BY <1>3, TypeStep, CarriedStep, OversellStep, OrderlyStep, HoldStep DEF IInv
  <1> QED
    BY <1>1, <1>2, <1>4, PTL

\* Requests that do not overlap never sell more rooms than the provider
\* posted, whatever failures, cron runs and restarts come between.
THEOREM OrderlyNeverOversells == OrderlySpec => []NeverOversold
  <1>1. OrderlyInv => NeverOversold
    BY DEF OrderlyInv
  <1> QED
    BY <1>1, OrderlyInvariant, PTL

\* A set of bookings has no more keys than a set that includes it.
LEMMA KeysOrdered ==
  ASSUME NEW H \in SUBSET Bookings, NEW G \in SUBSET H, NEW n
  PROVE  Cardinality(Keys(n, G, stay, rooms)) <= Cardinality(Keys(n, H, stay, rooms))
  <1>1. IsFiniteSet(H)
    BY FS_Subset, RoomAssumption
  <1>2. IsFiniteSet(Keys(n, H, stay, rooms))
    BY <1>1, KeysFinite
  <1>3. Keys(n, G, stay, rooms) \in SUBSET Keys(n, H, stay, rooms)
    BY DEF Keys
  <1> QED
    BY <1>2, <1>3, FS_Subset

\* The rooms an open booking holds are never shown as free.
THEOREM OrderlyNoPhantomRoom == OrderlySpec => []NoPhantomRoom
  <1>1. HoldInv => NoPhantomRoom
    <2> SUFFICES ASSUME HoldInv, NEW n \in Nights
                 PROVE  avail[n] <= Capacity - RoomsTaken(n, {"REQUESTED", "AWAITING_PAYMENT"})
      BY DEF NoPhantomRoom
    <2> DEFINE G == {b \in Bookings : status[b] \in {"REQUESTED", "AWAITING_PAYMENT"}}
    <2>1. PICK H \in SUBSET Bookings : Holders(H)
      BY DEF HoldInv
    <2>2. G \in SUBSET H /\ IsFiniteSet(H) /\ IsFiniteSet(G)
      BY <2>1, FS_Subset, RoomAssumption DEF Holders
    <2>3. /\ Cardinality(Keys(n, G, stay, rooms)) \in Nat
          /\ Cardinality(Keys(n, H, stay, rooms)) \in Nat
      BY <2>2, KeysFinite
    <2> HIDE DEF G
    <2>4. Cardinality(Keys(n, G, stay, rooms)) <= Cardinality(Keys(n, H, stay, rooms))
      BY <2>2, KeysOrdered
    <2>5. avail[n] <= Capacity - Cardinality(Keys(n, G, stay, rooms))
      BY <2>1, <2>3, <2>4, RoomAssumption DEF Holders
    <2>6. RoomsTaken(n, {"REQUESTED", "AWAITING_PAYMENT"}) = Cardinality(Keys(n, G, stay, rooms))
      BY DEF RoomsTaken, RoomsOf, Keys, G
    <2> QED
      BY <2>5, <2>6
  <1> QED
    BY <1>1, OrderlyInvariant, PTL

\* No room of a calendar that is not edited is lost: what the calendar is
\* short of, bookings that have not ended hold.
THEOREM OrderlyNoRoomLost == OrderlySpec => []NoRoomLost
  <1>1. TypeOK /\ HoldInv => NoRoomLost
    <2> SUFFICES ASSUME TypeOK, HoldInv, NEW n \in Nights
                 PROVE  avail[n] >= Capacity - RoomsTaken(n, Lifecycle!Status \ Ended)
      BY DEF NoRoomLost
    <2> DEFINE G == {b \in Bookings : status[b] \in Lifecycle!Status \ Ended}
    <2>1. PICK H \in SUBSET Bookings : Holders(H)
      BY DEF HoldInv
    <2>2. G \in SUBSET Bookings /\ H \in SUBSET G
      BY <2>1 DEF Holders, TypeOK
    <2>3. IsFiniteSet(H) /\ IsFiniteSet(G)
      BY <2>2, FS_Subset, RoomAssumption
    <2>4. /\ Cardinality(Keys(n, G, stay, rooms)) \in Nat
          /\ Cardinality(Keys(n, H, stay, rooms)) \in Nat
      BY <2>3, KeysFinite
    <2> HIDE DEF G
    <2>5. Cardinality(Keys(n, H, stay, rooms)) <= Cardinality(Keys(n, G, stay, rooms))
      BY <2>2, KeysOrdered
    <2>6. avail[n] >= Capacity - Cardinality(Keys(n, G, stay, rooms))
      BY <2>1, <2>4, <2>5, RoomAssumption DEF Holders
    <2>7. RoomsTaken(n, Lifecycle!Status \ Ended) = Cardinality(Keys(n, G, stay, rooms))
      BY DEF RoomsTaken, RoomsOf, Keys, G
    <2> QED
      BY <2>6, <2>7
  <1>2. IInv => TypeOK
    BY DEF IInv
  <1> QED
    BY <1>1, <1>2, OrderlyInvariant, PTL

LEMMA DecidedStep ==
  ASSUME IInv, OrderlyInv, [OrderlyNext]_vars, NEW b \in Bookings, status'[b] # status[b]
  PROVE  /\ status[b] # "REJECTED"
         /\ status'[b] \in {"REJECTED", "AWAITING_PAYMENT"} => status[b] = "REQUESTED"
  <1>t. TypeOK /\ CarriedIsSound
    BY DEF IInv
  <1>s. Lifecycle!Settled \cap {"REJECTED", "AWAITING_PAYMENT"} = {}
    BY DEF Lifecycle!Settled
  <1> USE <1>t DEF TypeOK, OrderlyInv, calendar, booking
  <1> DEFINE Goal == /\ status[b] # "REJECTED"
                     /\ status'[b] \in {"REJECTED", "AWAITING_PAYMENT"} => status[b] = "REQUESTED"
  <1>1. ASSUME NEW p \in Procs, CreateCommit(p) PROVE Goal
    BY <1>1 DEF CreateCommit, NewStatus
  <1>2. ASSUME NEW p \in Procs, ConfirmWrite(p) PROVE Goal
    BY <1>2 DEF ConfirmWrite
  <1>3. ASSUME NEW p \in Procs, RejectCommit(p) PROVE Goal
    BY <1>3 DEF RejectCommit
  <1>4. ASSUME NEW c \in Bookings, ExpireCommit(c) PROVE Goal
    BY <1>4 DEF ExpireCommit, CarriedIsSound
  <1>5. ASSUME NEW c \in Bookings, PaymentWrites(c) PROVE Goal
    BY <1>5, <1>s DEF PaymentWrites
  <1>6. status' # status
    OBVIOUS
  <1> QED
    BY <1>1, <1>2, <1>3, <1>4, <1>5, <1>6
       DEF OrderlyNext, BookingNext, HandlerStep, CronStep, vars, CreateRead, ConfirmRead,
           ConfirmCheck, RejectRead, Abort, ExpireScan, ExpireFail, Lapse, Restart

\* A request is accepted or declined once, and only while it is open.
THEOREM OrderlyDecidedOnce == OrderlySpec => DecidedOnce
  <1> DEFINE Once == \A b \in Bookings : status'[b] # status[b] =>
        /\ status[b] # "REJECTED"
        /\ status'[b] \in {"REJECTED", "AWAITING_PAYMENT"} => status[b] = "REQUESTED"
  <1>1. OrderlySpec => [][OrderlyNext]_vars
    BY PTL DEF OrderlySpec
  <1>2. IInv /\ OrderlyInv /\ [OrderlyNext]_vars => [Once]_vars
    BY DecidedStep
  <1>3. OrderlySpec => [][Once]_vars
    <2> HIDE DEF Once
    <2> QED
      BY <1>1, <1>2, OrderlyInvariant, PTL
  <1> QED
    BY <1>3 DEF DecidedOnce

-----------------------------------------------------------------------------
(* The ledger *)

\* What a create carries to its commit is a request one may make.
AskInv ==
    \A p \in Procs : task[p].op = "create" => task[p].nights # {} /\ task[p].rooms \in 1..MaxRooms

LEMMA AskStep == TypeOK /\ AskInv /\ [OrderlyNext]_vars => AskInv'
  <1> SUFFICES ASSUME TypeOK, AskInv, [OrderlyNext]_vars PROVE AskInv'
    OBVIOUS
  <1> USE DEF TypeOK, AskInv, calendar, booking
  <1>1. ASSUME NEW p \in Procs, CreateRead(p) PROVE AskInv'
    <2>1. PICK N \in Ranges, q \in 1..MaxRooms :
            /\ N # {}
            /\ task' = [task EXCEPT ![p] =
                        [op |-> "create", bk |-> NoBooking, nights |-> N, rooms |-> q]]
      BY <1>1 DEF CreateRead
    <2> QED
      BY <2>1
  <1>2. ASSUME NEW p \in Procs, CreateCommit(p) PROVE AskInv'
    BY <1>2 DEF CreateCommit, Idle
  <1>3. ASSUME NEW p \in Procs, NEW b \in Bookings, ConfirmRead(p, b) \/ RejectRead(p, b)
        PROVE  AskInv'
    BY <1>3 DEF ConfirmRead, RejectRead, On
  <1>4. ASSUME NEW p \in Procs, ConfirmCheck(p) PROVE AskInv'
    BY <1>4 DEF ConfirmCheck, On, Idle
  <1>5. ASSUME NEW p \in Procs, ConfirmWrite(p) PROVE AskInv'
    BY <1>5 DEF ConfirmWrite, Idle
  <1>6. ASSUME NEW p \in Procs, RejectCommit(p) PROVE AskInv'
    BY <1>6 DEF RejectCommit, Idle
  <1>7. ASSUME NEW p \in Procs, Abort(p) PROVE AskInv'
    BY <1>7 DEF Abort, Idle
  <1>8. ASSUME NEW b \in Bookings, ExpireCommit(b) \/ ExpireFail(b) \/ Lapse(b) \/ PaymentWrites(b)
        PROVE  AskInv'
    BY <1>8 DEF ExpireCommit, ExpireFail, Lapse, PaymentWrites
  <1>9. ASSUME ExpireScan PROVE AskInv'
    BY <1>9 DEF ExpireScan
  <1>10. ASSUME Restart PROVE AskInv'
    BY <1>10 DEF Restart, Idle
  <1>11. CASE UNCHANGED vars
    BY <1>11 DEF vars
  <1> QED
    BY <1>1, <1>2, <1>3, <1>4, <1>5, <1>6, <1>7, <1>8, <1>9, <1>10, <1>11
       DEF OrderlyNext, BookingNext, HandlerStep, CronStep

\* The commit of an undisturbed create takes rooms that are there.
LEMMA CommitTakes ==
  ASSUME TypeOK, OrderlyInv, AskInv, NEW p \in Procs, CreateCommit(p)
  PROVE  Ledger!Next
  <1>1. PICK b \in Bookings :
          /\ status[b] = "NONE"
          /\ status' = [status EXCEPT ![b] = "REQUESTED"]
          /\ stay' = [stay EXCEPT ![b] = task[p].nights]
          /\ rooms' = [rooms EXCEPT ![b] = task[p].rooms]
    BY DEF CreateCommit, NewStatus
  <1>2. PICK N, q : N = task[p].nights /\ q = task[p].rooms
    OBVIOUS
  <1>3. N \in (SUBSET Nights) \ {{}} /\ q \in 1..MaxRooms
    <2>1. task[p] \in Task /\ task[p].op = "create"
      BY DEF CreateCommit, TypeOK
    <2>2. task[p].nights \in SUBSET Nights
      BY <2>1 DEF Task
    <2>3. task[p].nights # {} /\ task[p].rooms \in 1..MaxRooms
      BY <2>1 DEF AskInv
    <2> QED
      BY <1>2, <2>2, <2>3
  <1>4. \A n \in N : avail[n] >= q
    BY <1>2 DEF CreateCommit, OrderlyInv
  <1>5. avail' = [n \in Nights |-> IF n \in N THEN avail[n] - q ELSE avail[n]]
    BY <1>2 DEF CreateCommit, Held
  <1>6. Ledger!Take(b, N, q)
    BY <1>1, <1>2, <1>4, <1>5 DEF Ledger!Take
  <1> QED
    BY <1>3, <1>6 DEF Ledger!Next

\* A booking that leaves the holders gives back what it held, and the calendar had
\* room for it.
LEMMA HolderGivesBack ==
  ASSUME TypeOK, rows = Nights, NEW H \in SUBSET Bookings, Holders(H), NEW b \in H,
         avail' = Released(stay[b], rooms[b]), NEW s \in {"REJECTED", "EXPIRED"},
         status' = [status EXCEPT ![b] = s], UNCHANGED <<stay, rooms>>
  PROVE  Ledger!Next
  <1>1. status[b] \in Ledger!Underway \union {"REQUESTED"}
    BY DEF Holders, Ended, Ledger!Underway, TypeOK, Lifecycle!Status, Lifecycle!Settled
  <1>2. avail' = [n \in Nights |-> IF n \in stay[b] THEN avail[n] + rooms[b] ELSE avail[n]]
    BY DEF Released, RowsIn
  <1>3. ASSUME NEW n \in stay[b] PROVE avail[n] + rooms[b] <= Capacity
    <2> DEFINE c == Cardinality(Keys(n, H \ {b}, stay, rooms))
    <2>1. n \in Nights
      BY DEF TypeOK
    <2>2. avail'[n] = Capacity - c
      BY <2>1, HolderLeaves
    <2>3. c \in Nat
      <3>1. IsFiniteSet(H \ {b}) /\ H \ {b} \in SUBSET Bookings
        BY FS_Subset, RoomAssumption
      <3> QED
        BY <3>1, KeysFinite
    <2>4. avail'[n] = avail[n] + rooms[b]
      BY <1>2, <2>1
    <2> HIDE DEF c
    <2> QED
      BY <2>2, <2>3, <2>4, RoomAssumption
  <1>4. Ledger!GiveBack(b)
    BY <1>1, <1>2, <1>3 DEF Ledger!GiveBack, Ledger!Over
  <1> QED
    BY <1>4 DEF Ledger!Next

\* Every step of OrderlySpec is one of the ledger's or leaves it alone.
LEMMA LedgerStep ==
  IInv /\ OrderlyInv /\ HoldInv /\ AskInv /\ [OrderlyNext]_vars => [Ledger!Next]_(Ledger!vars)
  <1> SUFFICES ASSUME IInv, OrderlyInv, HoldInv, AskInv, [OrderlyNext]_vars
               PROVE  Ledger!Next \/ UNCHANGED Ledger!vars
    OBVIOUS
  <1>t. TypeOK /\ CarriedIsSound /\ rows = Nights
    BY DEF IInv, OrderlyInv
  <1>h. PICK H \in SUBSET Bookings : Holders(H)
    BY DEF HoldInv
  <1>q. ASSUME UNCHANGED <<avail, status, stay, rooms>> PROVE UNCHANGED Ledger!vars
    BY <1>q DEF Ledger!vars
  <1>1. ASSUME NEW p \in Procs, CreateCommit(p) PROVE Ledger!Next
    BY <1>t, <1>1, CommitTakes
  <1>2. ASSUME NEW p \in Procs, RejectCommit(p) PROVE Ledger!Next
    <2>0. PICK b \in Bookings : b = task[p].bk
      BY <1>2 DEF RejectCommit, OrderlyInv
    <2>1. /\ status[b] = "REQUESTED"
          /\ status' = [status EXCEPT ![b] = "REJECTED"]
          /\ avail' = Released(stay[b], rooms[b]) /\ UNCHANGED <<stay, rooms>>
      BY <1>2, <2>0 DEF RejectCommit, OrderlyInv
    <2>2. b \in H
      BY <1>h, <2>1 DEF Holders
    <2> QED
      BY <1>t, <1>h, <2>1, <2>2, HolderGivesBack
  <1>3. ASSUME NEW b \in Bookings, ExpireCommit(b) PROVE Ledger!Next
    <2>1. /\ status' = [status EXCEPT ![b] = "EXPIRED"]
          /\ avail' = Released(stay[b], rooms[b]) /\ UNCHANGED <<stay, rooms>>
      BY <1>3 DEF ExpireCommit, EndedReturnsRooms
    <2>2. b \in H
      BY <1>h, <1>3 DEF ExpireCommit, Holders
    <2> QED
      BY <1>t, <1>h, <2>1, <2>2, HolderGivesBack
  <1>4. ASSUME NEW p \in Procs, ConfirmWrite(p) PROVE Ledger!Next
    <2>0. PICK b \in Bookings : b = task[p].bk
      BY <1>4 DEF ConfirmWrite, OrderlyInv
    <2>1. /\ status[b] = "REQUESTED"
          /\ status' = [status EXCEPT ![b] = "AWAITING_PAYMENT"]
          /\ UNCHANGED <<avail, stay, rooms>>
      BY <1>4, <2>0 DEF ConfirmWrite, OrderlyInv, calendar
    <2>2. Ledger!Proceed(b)
      BY <2>1 DEF Ledger!Proceed, Ledger!Underway
    <2> QED
      BY <2>2 DEF Ledger!Next
  <1>5. ASSUME NEW b \in Bookings, PaymentWrites(b) PROVE Ledger!Next
    <2>1. PICK s \in Lifecycle!Settled : status' = [status EXCEPT ![b] = s]
      BY <1>5 DEF PaymentWrites
    <2>2. UNCHANGED <<avail, stay, rooms>>
      BY <1>5 DEF PaymentWrites, calendar
    <2>3. status[b] \in Lifecycle!Settled \union {"AWAITING_PAYMENT", "EXPIRED"}
      BY <1>t, <1>5 DEF PaymentWrites, OrderlyInv, TypeOK, Lifecycle!Status
    <2>4. Ledger!Proceed(b)
      BY <2>1, <2>2, <2>3 DEF Ledger!Proceed, Ledger!Underway, Lifecycle!Settled
    <2> QED
      BY <2>4 DEF Ledger!Next
  <1>6. ASSUME NEW p \in Procs,
               \/ CreateRead(p) \/ ConfirmCheck(p) \/ Abort(p)
               \/ \E b \in Bookings : ConfirmRead(p, b) \/ RejectRead(p, b)
        PROVE  UNCHANGED Ledger!vars
    BY <1>q, <1>6 DEF CreateRead, ConfirmCheck, Abort, ConfirmRead, RejectRead, calendar, booking
  <1>7. ASSUME NEW b \in Bookings, ExpireFail(b) \/ Lapse(b) PROVE UNCHANGED Ledger!vars
    BY <1>q, <1>7 DEF ExpireFail, Lapse, calendar, booking
  <1>8. ASSUME ExpireScan \/ Restart PROVE UNCHANGED Ledger!vars
    BY <1>q, <1>8 DEF ExpireScan, Restart, calendar, booking
  <1>9. CASE UNCHANGED vars
    BY <1>q, <1>9 DEF vars
  <1> QED
    BY <1>1, <1>2, <1>3, <1>4, <1>5, <1>6, <1>7, <1>8, <1>9
       DEF OrderlyNext, BookingNext, HandlerStep, CronStep

\* Requests that do not overlap keep the calendar as one clerk would who checks and
\* writes at once, although the handlers check in one statement and write in another and
\* the cron, late payments, failures and restarts come between.
THEOREM OrderlyImplementsLedger == OrderlySpec => LedgerSpec
  <1>1. OrderlySpec => Init /\ [][OrderlyNext]_vars
    BY PTL DEF OrderlySpec
  <1>2. Init => AskInv /\ Ledger!Init
    BY DEF Init, AskInv, Idle, Ledger!Init
  <1>3. IInv => TypeOK
    BY DEF IInv
  <1>4. OrderlySpec => []AskInv
    BY <1>1, <1>2, <1>3, AskStep, OrderlyInvariant, PTL
  <1>5. OrderlySpec => Ledger!Init /\ [][Ledger!Next]_(Ledger!vars)
    BY <1>1, <1>2, <1>4, LedgerStep, OrderlyInvariant, PTL
  <1> QED
    BY <1>5, PTL DEF LedgerSpec, Ledger!Spec
=============================================================================

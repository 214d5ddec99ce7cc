------------------------- MODULE CouponSlots_proofs -------------------------
(***************************************************************************)
(* Proofs about CouponSlots, for any number of users, bookings and         *)
(* requests and any limits: its type invariant, how far the counter can    *)
(* fall short of the bookings that live, how far a coupon can be used      *)
(* beyond its limits, and what exactly the counter says when requests come *)
(* one at a time and none fails.                                           *)
(***************************************************************************)
EXTENDS CouponSlots, FiniteSetTheorems, TLAPS

-----------------------------------------------------------------------------
(* Types *)

LEMMA TaskTypes ==
  /\ Idle \in Task
  /\ \A u \in Users : [op |-> "count", user |-> u, bk |-> NoBooking] \in Task
  /\ \A op \in {"record", "confirm", "reject", "free"}, b \in Bookings : On(op, b) \in Task
  BY CouponAssumption DEF Idle, On, Task

LEMMA OneLessType ==
  ASSUME uses \in Nat
  PROVE  OneLess \in Nat /\ OneLess <= uses
  BY DEF OneLess

LEMMA InitSound == Init => TypeOK /\ TasksGrounded
  <1> SUFFICES ASSUME Init PROVE TypeOK /\ TasksGrounded
    OBVIOUS
  <1>1. TypeOK
    BY TaskTypes, CouponAssumption DEF Init, TypeOK, Status
  <1>2. TasksGrounded
    BY DEF Init, TasksGrounded, Idle
  <1> QED
    BY <1>1, <1>2

\* Every step keeps the types, and a handler acts for its booking's owner.
LEMMA SoundStep ==
  ASSUME TypeOK, TasksGrounded, [Next]_vars
  PROVE  TypeOK' /\ TasksGrounded'
  <1> USE TaskTypes, CouponAssumption DEF TypeOK, Status, Ended, SetStatus, coupon, booking, cron
  <1>1. ASSUME NEW p \in Procs, NEW u \in Users, ValidateTotal(p, u)
        PROVE  TypeOK' /\ TasksGrounded'
    BY <1>1 DEF ValidateTotal, TasksGrounded
  <1>2. ASSUME NEW p \in Procs, ValidateUser(p) PROVE TypeOK' /\ TasksGrounded'
    <2>1. [task[p] EXCEPT !.op = "create"] \in Task
      BY DEF Task
    <2>2. TypeOK'
      BY <1>2, <2>1 DEF ValidateUser
    <2>3. /\ task'[p].op = "create" /\ task'[p].user = task[p].user
          /\ \A r \in Procs : r # p => task'[r] = task[r]
      BY <1>2 DEF ValidateUser, Task
    <2>4. TasksGrounded'
      BY <1>2, <2>3 DEF ValidateUser, TasksGrounded
    <2> QED
      BY <2>2, <2>4
  <1>3. ASSUME NEW p \in Procs, CreateCommit(p) PROVE TypeOK' /\ TasksGrounded'
    BY <1>3 DEF CreateCommit, TasksGrounded, On
  <1>4. ASSUME NEW p \in Procs, RecordUsage(p) PROVE TypeOK' /\ TasksGrounded'
    <2>1. task[p].bk \in Bookings
      BY <1>4 DEF RecordUsage, TasksGrounded
    <2>2. TypeOK'
      BY <1>4, <2>1 DEF RecordUsage, WithRow, OneMore
    <2>3. TasksGrounded'
      BY <1>4 DEF RecordUsage, TasksGrounded, Idle
    <2> QED
      BY <2>2, <2>3
  <1>5. ASSUME NEW p \in Procs, NEW b \in Bookings, ConfirmRead(p, b) \/ RejectRead(p, b)
        PROVE  TypeOK' /\ TasksGrounded'
    BY <1>5 DEF ConfirmRead, RejectRead, TasksGrounded, On
  <1>6. ASSUME NEW p \in Procs, ConfirmWrite(p) \/ Refuse(p) \/ Abort(p)
        PROVE  TypeOK' /\ TasksGrounded'
    BY <1>6 DEF ConfirmWrite, Refuse, Abort, TasksGrounded, Idle
  <1>7. ASSUME NEW p \in Procs, RejectCommit(p) PROVE TypeOK' /\ TasksGrounded'
    <2>1. task[p].bk \in Bookings
      BY <1>7 DEF RejectCommit, TasksGrounded
    <2>2. task'[p] = On("free", task[p].bk) \/ task'[p] = Idle
      BY <1>7 DEF RejectCommit
    <2>3. TypeOK'
      BY <1>7, <2>1 DEF RejectCommit
    <2>4. \A r \in Procs : r # p => task'[r] = task[r]
      BY <1>7 DEF RejectCommit
    <2>5. TasksGrounded'
      BY <2>1, <2>2, <2>4 DEF TasksGrounded, On, Idle
    <2> QED
      BY <2>3, <2>5
  <1>8. ASSUME NEW p \in Procs, FreeSlot(p) PROVE TypeOK' /\ TasksGrounded'
    BY <1>8, OneLessType DEF FreeSlot, TasksGrounded, Idle
  <1>9. ASSUME \/ ExpireScan \/ ExpireFree \/ CronFails
               \/ \E b \in Bookings : ExpireCommit(b) \/ Settle(b)
               \/ \E c \in 0..MaxCap : UpdateCoupon(c)
        PROVE  TypeOK' /\ TasksGrounded'
    BY <1>9, OneLessType DEF ExpireScan, ExpireFree, CronFails, ExpireCommit, Settle,
                             UpdateCoupon, TasksGrounded
  <1>10. ASSUME Restart PROVE TypeOK' /\ TasksGrounded'
    BY <1>10 DEF Restart, TasksGrounded, Idle
  <1>11. CASE UNCHANGED vars
    BY <1>11 DEF vars, TasksGrounded
  <1> QED
    BY <1>1, <1>2, <1>3, <1>4, <1>5, <1>6, <1>7, <1>8, <1>9, <1>10, <1>11
       DEF Next, SmoothNext, HandlerStep

-----------------------------------------------------------------------------
(* What a step does to the counter, the rows and the claims.  Only a        *)
(* RecordUsage that writes adds to the first two, and it gives up a claim;  *)
(* a claim is made where its limit is checked.                              *)

NewUse(p) ==
    /\ RecordUsage(p)
    /\ task[p].bk \notin usages

LEMMA QuietStep ==
  ASSUME TypeOK, [Next]_vars, \A p \in Procs : ~NewUse(p)
  PROVE  uses' \in Nat /\ uses' <= uses /\ usages' = usages
  <1> USE OneLessType DEF TypeOK, coupon, cron
  <1>1. ASSUME NEW p \in Procs, HandlerStep(p)
        PROVE  uses' \in Nat /\ uses' <= uses /\ usages' = usages
    <2>1. CASE RecordUsage(p)
      <3>1. task[p].bk \in usages
        BY <2>1 DEF NewUse
      <3> QED
        BY <2>1, <3>1 DEF RecordUsage
    <2>2. CASE FreeSlot(p)
      BY <2>2 DEF FreeSlot
    <2>3. CASE ~RecordUsage(p) /\ ~FreeSlot(p)
      BY <1>1, <2>3 DEF HandlerStep, ValidateTotal, ValidateUser, CreateCommit,
                        ConfirmRead, RejectRead, ConfirmWrite, RejectCommit, Refuse
    <2> QED
      BY <2>1, <2>2, <2>3
  <1>2. ASSUME \/ ExpireScan \/ ExpireFree \/ CronFails \/ Restart
               \/ \E b \in Bookings : ExpireCommit(b) \/ Settle(b)
               \/ \E c \in 0..MaxCap : UpdateCoupon(c)
               \/ \E p \in Procs : Abort(p)
        PROVE  uses' \in Nat /\ uses' <= uses /\ usages' = usages
    BY <1>2 DEF ExpireScan, ExpireFree, CronFails, Restart, ExpireCommit, Settle,
                UpdateCoupon, Abort
  <1>3. CASE UNCHANGED vars
    BY <1>3 DEF vars
  <1> QED
    BY <1>1, <1>2, <1>3 DEF Next, SmoothNext

LEMMA ClaimStep ==
  ASSUME TypeOK, [Next]_vars, ~(\E p \in Procs, u \in Users : ValidateTotal(p, u))
  PROVE  Claims' \subseteq Claims
  <1> USE DEF TypeOK, Claims, coupon, cron
  <1>1. ASSUME NEW p \in Procs, ValidateUser(p) PROVE Claims' \subseteq Claims
    BY <1>1 DEF ValidateUser
  <1>2. ASSUME NEW p \in Procs, CreateCommit(p) PROVE Claims' \subseteq Claims
    BY <1>2 DEF CreateCommit
  <1>3. ASSUME NEW p \in Procs, HandlerStep(p) \/ Abort(p), ~ValidateUser(p), ~CreateCommit(p)
        PROVE  Claims' \subseteq Claims
    BY <1>3 DEF HandlerStep, RecordUsage, FreeSlot, ConfirmRead, RejectRead, ConfirmWrite,
                RejectCommit, Refuse, Abort, Idle, On
  <1>4. ASSUME \/ ExpireScan \/ ExpireFree \/ CronFails \/ Restart
               \/ \E b \in Bookings : ExpireCommit(b) \/ Settle(b)
               \/ \E c \in 0..MaxCap : UpdateCoupon(c)
        PROVE  Claims' \subseteq Claims
    BY <1>4 DEF ExpireScan, ExpireFree, CronFails, Restart, ExpireCommit, Settle,
                UpdateCoupon, Idle
  <1>5. CASE UNCHANGED vars
    BY <1>5 DEF vars
  <1> QED
    BY <1>1, <1>2, <1>3, <1>4, <1>5 DEF Next, SmoothNext

LEMMA OwnClaimStep ==
  ASSUME TypeOK, TasksGrounded, [Next]_vars, NEW u \in Users,
         ~(\E p \in Procs : ValidateUser(p) /\ task[p].user = u)
  PROVE  OwnClaims(u)' \subseteq OwnClaims(u)
  <1> USE DEF TypeOK, OwnClaims, coupon, cron
  <1>1. ASSUME NEW p \in Procs, ValidateUser(p) PROVE OwnClaims(u)' \subseteq OwnClaims(u)
    <2>1. /\ task'[p].user = task[p].user /\ task[p].user # u
          /\ \A r \in Procs : r # p => task'[r] = task[r]
      BY <1>1 DEF ValidateUser, Task
    <2> QED
      BY <2>1
  <1>2. ASSUME NEW p \in Procs, CreateCommit(p) PROVE OwnClaims(u)' \subseteq OwnClaims(u)
    BY <1>2 DEF CreateCommit, On
  <1>3. ASSUME NEW p \in Procs, HandlerStep(p) \/ Abort(p), ~ValidateUser(p), ~CreateCommit(p)
        PROVE  OwnClaims(u)' \subseteq OwnClaims(u)
    BY <1>3 DEF HandlerStep, ValidateTotal, RecordUsage, FreeSlot, ConfirmRead, RejectRead,
                ConfirmWrite, RejectCommit, Refuse, Abort, Idle, On
  <1>4. ASSUME \/ ExpireScan \/ ExpireFree \/ CronFails \/ Restart
               \/ \E b \in Bookings : ExpireCommit(b) \/ Settle(b)
               \/ \E c \in 0..MaxCap : UpdateCoupon(c)
        PROVE  OwnClaims(u)' \subseteq OwnClaims(u)
    BY <1>4 DEF ExpireScan, ExpireFree, CronFails, Restart, ExpireCommit, Settle,
                UpdateCoupon, Idle
  <1>5. CASE UNCHANGED vars
    BY <1>5 DEF vars
  <1> QED
    BY <1>1, <1>2, <1>3, <1>4, <1>5 DEF Next, SmoothNext

-----------------------------------------------------------------------------
(* The limits *)

\* The processes in a set of claims can be counted, and are at most all.
LEMMA ProcsCount ==
  ASSUME NEW S \in SUBSET Procs
  PROVE  IsFiniteSet(S) /\ Cardinality(S) \in Nat /\ Cardinality(S) <= Cardinality(Procs)
  BY FS_Subset, FS_CardinalityType, CouponAssumption

LEMMA ProcsPositive == Cardinality(Procs) \in Nat /\ Cardinality(Procs) >= 1
  <1>1. Cardinality(Procs) \in Nat /\ Cardinality(Procs) # 0
    BY FS_CardinalityType, FS_EmptySet, CouponAssumption
  <1> QED
    BY <1>1

\* A use that is recorded adds one to the counter and one row, and gives up
\* the claim of the process and of its user.
LEMMA NewUseEffect ==
  ASSUME TypeOK, TasksGrounded, NEW p \in Procs, NewUse(p)
  PROVE  /\ task[p].bk \in Bookings /\ task[p].user = Owner[task[p].bk]
         /\ uses' = uses + 1
         /\ usages' = usages \union {task[p].bk}
         /\ Claims' = Claims \ {p} /\ p \in Claims
         /\ \A u \in Users : OwnClaims(u)' = OwnClaims(u) \ {p}
         /\ p \in OwnClaims(task[p].user)
  <1>1. task[p].bk \in Bookings /\ task[p].user = Owner[task[p].bk]
    BY DEF NewUse, RecordUsage, TasksGrounded
  <1>2. uses' = uses + 1 /\ usages' = usages \union {task[p].bk}
    BY DEF NewUse, RecordUsage, WithRow, OneMore
  <1>3. task[p].op = "record" /\ task' = [task EXCEPT ![p] = Idle]
    BY DEF NewUse, RecordUsage
  <1>4. Claims' = Claims \ {p} /\ p \in Claims
    BY <1>3 DEF Claims, TypeOK, Idle
  <1>5. \A u \in Users : OwnClaims(u)' = OwnClaims(u) \ {p}
    BY <1>3 DEF OwnClaims, TypeOK, Idle
  <1>6. p \in OwnClaims(task[p].user)
    BY <1>3 DEF OwnClaims
  <1> QED
    BY <1>1, <1>2, <1>4, <1>5, <1>6

LEMMA CapStep == IInv /\ TypeOK' /\ [Next]_vars => CapBound'
  <1> SUFFICES ASSUME IInv, TypeOK', [Next]_vars PROVE CapBound'
    OBVIOUS
  <1> DEFINE n == Cardinality(Claims)
             m == Cardinality(Claims')
  <1>t. TypeOK /\ TasksGrounded /\ uses \in Nat /\ uses' \in Nat
    BY DEF IInv, TypeOK
  <1>n. n \in Nat /\ IsFiniteSet(Claims)
    BY ProcsCount DEF Claims
  <1>m. m \in Nat /\ m <= Cardinality(Procs)
    <2>1. Claims' \in SUBSET Procs
      BY DEF Claims
    <2> QED
      BY <2>1, ProcsCount
  <1>c. /\ uses + n <= MaxCap + Cardinality(Procs) - 1
        /\ MaxCap \in Nat /\ Cardinality(Procs) \in Nat
    BY ProcsPositive, CouponAssumption DEF IInv, CapBound
  <1>1. CASE \E p \in Procs : NewUse(p)
    <2>1. PICK p \in Procs : NewUse(p)
      BY <1>1
    <2>2. uses' = uses + 1 /\ Claims' = Claims \ {p} /\ p \in Claims
      BY <1>t, <2>1, NewUseEffect
    <2>3. m = n - 1
      BY <1>n, <2>2, FS_RemoveElement
    <2>4. uses' + m <= MaxCap + Cardinality(Procs) - 1
      BY <1>t, <1>n, <1>c, <2>2, <2>3
    <2> QED
      BY <2>4 DEF CapBound
  <1>2. CASE \E p \in Procs, u \in Users : ValidateTotal(p, u)
    <2>1. uses' = uses /\ uses < cap /\ cap <= MaxCap /\ cap \in Nat
      BY <1>2, <1>t DEF ValidateTotal, BelowCap, TypeOK, coupon
    <2>2. uses' + m <= MaxCap + Cardinality(Procs) - 1
      BY <1>t, <1>m, <1>c, <2>1
    <2> QED
      BY <2>2 DEF CapBound
  <1>3. CASE /\ \A p \in Procs : ~NewUse(p)
             /\ ~(\E p \in Procs, u \in Users : ValidateTotal(p, u))
    <2>1. uses' <= uses
      BY <1>t, <1>3, QuietStep
    <2>2. Claims' \subseteq Claims
      BY <1>t, <1>3, ClaimStep
    <2>3. m <= n
      BY <1>n, <2>2, FS_Subset
    <2>4. uses' + m <= MaxCap + Cardinality(Procs) - 1
      BY <1>t, <1>n, <1>m, <1>c, <2>1, <2>3
    <2> QED
      BY <2>4 DEF CapBound
  <1> QED
    BY <1>1, <1>2, <1>3

LEMMA UserStep == IInv /\ TypeOK' /\ [Next]_vars => UserBound'
  <1> SUFFICES ASSUME IInv, TypeOK', [Next]_vars, NEW u \in Users
               PROVE  Cardinality(UsesOf(u)') + Cardinality(OwnClaims(u)')
                        <= MaxPerUser + Cardinality(Procs) - 1
    BY DEF UserBound
  <1> DEFINE r  == Cardinality(UsesOf(u))
             r1 == Cardinality(UsesOf(u)')
             n  == Cardinality(OwnClaims(u))
             m  == Cardinality(OwnClaims(u)')
  <1>t. TypeOK /\ TasksGrounded /\ IsFiniteSet(usages)
    BY DEF IInv
  <1>r. IsFiniteSet(UsesOf(u)) /\ r \in Nat
    BY <1>t, FS_Subset, FS_CardinalityType DEF UsesOf
  <1>n. n \in Nat /\ IsFiniteSet(OwnClaims(u))
    BY ProcsCount DEF OwnClaims
  <1>m. m \in Nat /\ m <= Cardinality(Procs)
    <2>1. OwnClaims(u)' \in SUBSET Procs
      BY DEF OwnClaims
    <2> QED
      BY <2>1, ProcsCount
  <1>c. /\ r + n <= MaxPerUser + Cardinality(Procs) - 1
        /\ MaxPerUser \in Nat /\ Cardinality(Procs) \in Nat
    BY ProcsPositive, CouponAssumption DEF IInv, UserBound
  <1>1. CASE \E p \in Procs : NewUse(p)
    <2>1. PICK p \in Procs : NewUse(p)
      BY <1>1
    <2> DEFINE b == task[p].bk
    <2>2. /\ b \in Bookings /\ task[p].user = Owner[b]
          /\ usages' = usages \union {b} /\ b \notin usages
          /\ OwnClaims(u)' = OwnClaims(u) \ {p}
          /\ p \in OwnClaims(task[p].user)
      BY <1>t, <2>1, NewUseEffect DEF NewUse
    <2>3. CASE Owner[b] = u
      <3>1. UsesOf(u)' = UsesOf(u) \union {b} /\ b \notin UsesOf(u)
        BY <2>2, <2>3 DEF UsesOf
      <3>2. r1 = r + 1
        BY <1>r, <3>1, FS_AddElement
      <3>3. p \in OwnClaims(u)
        BY <2>2, <2>3
      <3>4. m = n - 1
        BY <1>n, <2>2, <3>3, FS_RemoveElement
      <3> QED
        BY <1>r, <1>n, <1>c, <3>2, <3>4
    <2>4. CASE Owner[b] # u
      <3>1. UsesOf(u)' = UsesOf(u)
        BY <2>2, <2>4 DEF UsesOf
      <3>2. m <= n
        <4>1. OwnClaims(u)' \subseteq OwnClaims(u)
          BY <2>2
        <4> QED
          BY <1>n, <4>1, FS_Subset
      <3> QED
        BY <1>r, <1>n, <1>m, <1>c, <3>1, <3>2
    <2> QED
      BY <2>3, <2>4
  <1>2. CASE \E p \in Procs : ValidateUser(p) /\ task[p].user = u
    <2>1. usages' = usages /\ r < MaxPerUser
      BY <1>2 DEF ValidateUser, BelowOwnCap, coupon
    <2>2. r1 = r
      BY <2>1 DEF UsesOf
    <2> QED
      BY <1>r, <1>m, <1>c, <2>1, <2>2
  <1>3. CASE /\ \A p \in Procs : ~NewUse(p)
             /\ ~(\E p \in Procs : ValidateUser(p) /\ task[p].user = u)
    <2>1. r1 = r
      <3>1. usages' = usages
        BY <1>t, <1>3, QuietStep
      <3> QED
        BY <3>1 DEF UsesOf
    <2>2. OwnClaims(u)' \subseteq OwnClaims(u)
      BY <1>t, <1>3, OwnClaimStep
    <2>3. m <= n
      BY <1>n, <2>2, FS_Subset
    <2> QED
      BY <1>r, <1>n, <1>m, <1>c, <2>1, <2>3
  <1> QED
    BY <1>1, <1>2, <1>3

-----------------------------------------------------------------------------
(* The counter against the bookings that live *)

Freeing == {p \in Procs : task[p].op = "free"}

\* What a step leaves of the bookings, seen from the counter: their statuses, or
\* one of them gets another, and rows are only added.
LEMMA BookingsStep ==
  ASSUME TypeOK, TasksGrounded, [Next]_vars
  PROVE  /\ usages \subseteq usages'
         /\ \/ UNCHANGED <<status, crossed>>
            \/ \E b \in Bookings, x \in Status : SetStatus(b, x)
  <1> USE DEF TypeOK, coupon, booking, cron
  <1>1. ASSUME UNCHANGED <<usages, booking>>
        PROVE  usages \subseteq usages' /\ UNCHANGED <<status, crossed>>
    BY <1>1
  <1>2. ASSUME NEW b \in Bookings, NEW x \in Status, SetStatus(b, x), UNCHANGED usages
        PROVE  usages \subseteq usages' /\ \E c \in Bookings, y \in Status : SetStatus(c, y)
    BY <1>2
  <1>3. {"REQUESTED", "AWAITING_PAYMENT", "SETTLED", "REJECTED", "EXPIRED"} \subseteq Status
    BY DEF Status, Ended
  <1>4. ASSUME NEW p \in Procs, CreateCommit(p) \/ ConfirmWrite(p) \/ RejectCommit(p)
        PROVE  usages \subseteq usages' /\ \E b \in Bookings, x \in Status : SetStatus(b, x)
    BY <1>2, <1>3, <1>4 DEF CreateCommit, ConfirmWrite, RejectCommit, TasksGrounded
  <1>5. ASSUME NEW p \in Procs, RecordUsage(p)
        PROVE  usages \subseteq usages' /\ UNCHANGED <<status, crossed>>
    BY <1>5 DEF RecordUsage, WithRow
  <1>6. ASSUME NEW p \in Procs, HandlerStep(p) \/ Abort(p), ~ RecordUsage(p),
               ~ (CreateCommit(p) \/ ConfirmWrite(p) \/ RejectCommit(p))
        PROVE  UNCHANGED <<usages, booking>>
    BY <1>6 DEF HandlerStep, ValidateTotal, ValidateUser, ConfirmRead, RejectRead, FreeSlot,
                Refuse, Abort
  <1>7. ASSUME NEW b \in Bookings, ExpireCommit(b) \/ Settle(b)
        PROVE  usages \subseteq usages' /\ \E c \in Bookings, x \in Status : SetStatus(c, x)
    BY <1>2, <1>3, <1>7 DEF ExpireCommit, Settle
  <1>8. ASSUME \/ ExpireScan \/ ExpireFree \/ CronFails \/ Restart
               \/ \E c \in 0..MaxCap : UpdateCoupon(c)
        PROVE  UNCHANGED <<usages, booking>>
    BY <1>8 DEF ExpireScan, ExpireFree, CronFails, Restart, UpdateCoupon
  <1>9. CASE UNCHANGED vars
    BY <1>1, <1>9 DEF vars
  <1> QED
    BY <1>1, <1>4, <1>5, <1>6, <1>7, <1>8, <1>9 DEF Next, SmoothNext

\* The bookings that ended unrecorded stay finitely many, and the cron frees one
\* slot at a time.
LEMMA FiniteStep ==
  ASSUME IInv, TypeOK', [Next]_vars
  PROVE  IsFiniteSet(Unrecorded') /\ (freeing' = {} \/ \E b : freeing' = {b})
  <1>t. TypeOK /\ TasksGrounded /\ IsFiniteSet(Unrecorded)
    BY DEF IInv
  <1>1. \E b : Unrecorded' \subseteq Unrecorded \union {b}
    BY <1>t, BookingsStep DEF Unrecorded, SetStatus, TypeOK
  <1>2. PICK b : Unrecorded' \subseteq Unrecorded \union {b}
    BY <1>1
  <1>3. IsFiniteSet(Unrecorded')
    <2>1. IsFiniteSet(Unrecorded \union {b})
      BY <1>t, FS_AddElement
    <2> QED
      BY <1>2, <2>1, FS_Subset
  <1>4. freeing = {} \/ \E c : freeing = {c}
    BY DEF IInv
  <1>5. freeing' = {} \/ \E c : freeing' = {c}
    <2>1. ASSUME NEW c, ExpireCommit(c) PROVE freeing' = {c}
      BY <2>1 DEF ExpireCommit
    <2>2. ASSUME ExpireFree \/ Restart PROVE freeing' = {}
      BY <2>2 DEF ExpireFree, Restart
    <2>3. ASSUME CronFails PROVE freeing' = {} \/ freeing' = freeing
      BY <2>3 DEF CronFails
    <2>4. ASSUME \/ \E p \in Procs : HandlerStep(p) \/ Abort(p)
                 \/ \E c \in Bookings : Settle(c)
                 \/ \E c \in 0..MaxCap : UpdateCoupon(c)
                 \/ ExpireScan \/ UNCHANGED vars
          PROVE  freeing' = freeing
      BY <2>4 DEF HandlerStep, ValidateTotal, ValidateUser, CreateCommit, RecordUsage,
                  ConfirmRead, ConfirmWrite, RejectRead, RejectCommit, FreeSlot, Refuse, Abort,
                  Settle, UpdateCoupon, ExpireScan, vars, cron
    <2> QED
      BY <1>4, <2>1, <2>2, <2>3, <2>4 DEF Next, SmoothNext
  <1> QED
    BY <1>3, <1>5

\* The counter, before the bookings and slots it should count are compared: no
\* step makes it shorter by more than them.
LEMMA CountStep ==
  ASSUME IInv, TypeOK', [Next]_vars, crossed' = {}
  PROVE  Cardinality(Live') + Pending' <= uses' + Cardinality(Unrecorded')
  <1> DEFINE l == Cardinality(Live)
             l1 == Cardinality(Live')
             d == Cardinality(Unrecorded)
             d1 == Cardinality(Unrecorded')
             f == Cardinality(Freeing)
             f1 == Cardinality(Freeing')
             g == Cardinality(freeing)
             g1 == Cardinality(freeing')
             n == uses
             n1 == uses'
             Enough == l1 + (f1 + g1) <= n1 + d1
  <1>t. /\ TypeOK /\ TasksGrounded
        /\ IsFiniteSet(usages) /\ IsFiniteSet(Unrecorded)
    BY DEF IInv
  <1>n. n \in Nat /\ n1 \in Nat
    BY <1>t DEF TypeOK
  <1>0. Cardinality({}) = 0 /\ \A x : IsFiniteSet({x}) /\ Cardinality({x}) = 1
    BY FS_EmptySet, FS_Singleton
  <1>s. IsFiniteSet(usages')
    <2>1. CASE \E p \in Procs : NewUse(p)
      BY <1>t, <2>1, NewUseEffect, FS_AddElement
    <2>2. CASE \A p \in Procs : ~ NewUse(p)
      BY <1>t, <2>2, QuietStep
    <2> QED
      BY <2>1, <2>2
  <1>l. IsFiniteSet(Live) /\ l \in Nat /\ l1 \in Nat
    BY <1>t, <1>s, FS_Subset, FS_CardinalityType DEF Live
  <1>d. d \in Nat /\ d1 \in Nat
    BY <1>t, FiniteStep, FS_CardinalityType
  <1>f. IsFiniteSet(Freeing) /\ f \in Nat /\ f1 \in Nat
    <2>1. Freeing \in SUBSET Procs /\ Freeing' \in SUBSET Procs
      BY DEF Freeing
    <2> QED
      BY <2>1, ProcsCount
  <1>g. IsFiniteSet(freeing) /\ g \in Nat /\ g1 \in Nat
    <2>1. IsFiniteSet({})
      BY FS_EmptySet
    <2>2. IsFiniteSet(freeing)
      BY <1>0, <2>1 DEF IInv
    <2>3. IsFiniteSet(freeing')
      BY <1>0, <2>1, FiniteStep
    <2> QED
      BY <2>2, <2>3, FS_CardinalityType
  <1>c. crossed = {}
    BY <1>t, BookingsStep DEF SetStatus
  <1>e. l + (f + g) <= n + d
    BY <1>c DEF IInv, LiveAreCounted, Pending, Freeing
  <1>a. SUFFICES Enough
    BY DEF Pending, Freeing
  <1>q. ASSUME UNCHANGED <<usages, status>>, Freeing' \subseteq Freeing, freeing' \subseteq freeing,
               uses <= uses'
        PROVE  Enough
    <2>0. n <= n1
      BY <1>q
    <2>1. l1 = l /\ d1 = d
      BY <1>q DEF Live, Unrecorded
    <2>2. f1 <= f
      BY <1>q, <1>f, FS_Subset
    <2>3. g1 <= g
      BY <1>q, <1>g, FS_Subset
    <2> HIDE DEF l, l1, d, d1, f, f1, g, g1, n, n1
    <2> QED
      BY <1>n, <1>l, <1>d, <1>f, <1>g, <1>e, <2>0, <2>1, <2>2, <2>3
  <1>k. ASSUME NEW b \in Bookings, NEW x \in Status \ Ended, SetStatus(b, x),
               UNCHANGED <<uses, usages, freeing>>, Freeing' \subseteq Freeing
        PROVE  Enough
    <2>0. n1 = n
      BY <1>k
    <2>1. status[b] \notin Ended
      BY <1>k DEF SetStatus
    <2>2. Live' = Live /\ Unrecorded' = Unrecorded
      BY <1>k, <1>t, <2>1 DEF SetStatus, Live, Unrecorded, TypeOK
    <2>3. f1 <= f
      BY <1>k, <1>f, FS_Subset
    <2>4. l1 = l /\ d1 = d /\ g1 = g
      BY <1>k, <2>2
    <2> HIDE DEF l, l1, d, d1, f, f1, g, g1, n, n1
    <2> QED
      BY <1>n, <2>0, <1>l, <1>d, <1>f, <1>g, <1>e, <2>3, <2>4
  <1>x. ASSUME NEW b \in Bookings, NEW x \in Ended, SetStatus(b, x), UNCHANGED <<uses, usages>>,
               f1 + g1 <= f + g + 1
        PROVE  Enough
    <2>0. n1 = n
      BY <1>x
    <2>1. status[b] \notin Ended
      BY <1>x DEF SetStatus
    <2>2. CASE b \in usages
      <3>1. Live' = Live \ {b} /\ b \in Live /\ Unrecorded' = Unrecorded
        BY <1>x, <1>t, <2>1, <2>2 DEF SetStatus, Live, Unrecorded, TypeOK
      <3>2. l1 = l - 1 /\ d1 = d
        BY <1>l, <3>1, FS_RemoveElement
      <3> HIDE DEF l, l1, d, d1, f, f1, g, g1, n, n1
      <3> QED
        BY <1>x, <1>n, <2>0, <1>l, <1>d, <1>f, <1>g, <1>e, <3>2
    <2>3. CASE b \notin usages
      <3>1. Unrecorded' = Unrecorded \union {b} /\ b \notin Unrecorded /\ Live' = Live
        BY <1>x, <1>t, <2>1, <2>3 DEF SetStatus, Live, Unrecorded, TypeOK
      <3>2. d1 = d + 1 /\ l1 = l
        BY <1>t, <3>1, FS_AddElement
      <3> HIDE DEF l, l1, d, d1, f, f1, g, g1, n, n1
      <3> QED
        BY <1>x, <1>n, <2>0, <1>l, <1>d, <1>f, <1>g, <1>e, <3>2
    <2> QED
      BY <2>2, <2>3
  <1> USE DEF coupon, booking, cron
  <1>1. ASSUME NEW p \in Procs, RecordUsage(p) PROVE Enough
    <2> DEFINE b == task[p].bk
    <2>0. /\ b \in Bookings /\ UNCHANGED <<status, freeing>>
          /\ Freeing' = Freeing
      BY <1>1, <1>t DEF RecordUsage, TasksGrounded, Freeing, Idle, TypeOK
    <2>1. CASE b \in usages
      BY <1>1, <1>q, <1>n, <2>0, <2>1 DEF RecordUsage
    <2>2. CASE b \notin usages
      <3>1. n1 = n + 1 /\ usages' = usages \union {b}
        BY <1>1, <2>2 DEF RecordUsage, WithRow, OneMore
      <3>2. CASE status[b] \in Ended
        <4>1. Live' = Live /\ Unrecorded' = Unrecorded \ {b} /\ b \in Unrecorded
          BY <2>0, <2>2, <3>1, <3>2 DEF Live, Unrecorded
        <4>2. d1 = d - 1 /\ l1 = l
          BY <1>t, <4>1, FS_RemoveElement
        <4>3. f1 = f /\ g1 = g
          BY <2>0
        <4> HIDE DEF l, l1, d, d1, f, f1, g, g1, n, n1, b
        <4> QED
          BY <1>n, <1>l, <1>d, <1>f, <1>g, <1>e, <3>1, <4>2, <4>3
      <3>3. CASE status[b] \notin Ended
        <4>1. Live' = Live \union {b} /\ b \notin Live /\ Unrecorded' = Unrecorded
          BY <2>0, <2>2, <3>1, <3>3 DEF Live, Unrecorded
        <4>2. l1 = l + 1 /\ d1 = d
          BY <1>l, <4>1, FS_AddElement
        <4>3. f1 = f /\ g1 = g
          BY <2>0
        <4> HIDE DEF l, l1, d, d1, f, f1, g, g1, n, n1, b
        <4> QED
          BY <1>n, <1>l, <1>d, <1>f, <1>g, <1>e, <3>1, <4>2, <4>3
      <3> QED
        BY <3>2, <3>3
    <2> QED
      BY <2>1, <2>2
  <1>2. ASSUME NEW p \in Procs, FreeSlot(p) PROVE Enough
    <2>1. /\ Freeing' = Freeing \ {p} /\ p \in Freeing
          /\ n - 1 <= n1 /\ UNCHANGED <<usages, status, freeing>>
      BY <1>2, <1>t, <1>n DEF FreeSlot, OneLess, Freeing, Idle, TypeOK
    <2>2. l1 = l /\ d1 = d /\ g1 = g
      BY <2>1 DEF Live, Unrecorded
    <2>3. f1 = f - 1
      BY <1>f, <2>1, FS_RemoveElement
    <2> HIDE DEF l, l1, d, d1, f, f1, g, g1, n, n1
    <2> QED
      BY <1>n, <1>l, <1>d, <1>f, <1>g, <1>e, <2>1, <2>2, <2>3
  <1>3. ASSUME ExpireFree PROVE Enough
    <2>1. /\ freeing # {} /\ freeing' = {} /\ n - 1 <= n1
          /\ UNCHANGED <<usages, status, task>>
      BY <1>3, <1>t, <1>n DEF ExpireFree, OneLess
    <2>2. l1 = l /\ d1 = d /\ f1 = f
      BY <2>1 DEF Live, Unrecorded, Freeing
    <2>3. g1 = 0 /\ g = 1
      <3>1. \E b : freeing = {b}
        BY <2>1 DEF IInv
      <3> QED
        BY <1>0, <2>1, <3>1
    <2> HIDE DEF l, l1, d, d1, f, f1, g, g1, n, n1
    <2> QED
      BY <1>n, <1>l, <1>d, <1>f, <1>g, <1>e, <2>1, <2>2, <2>3
  <1>4. ASSUME NEW p \in Procs, CreateCommit(p) PROVE Enough
    <2>1. PICK b \in Bookings : /\ SetStatus(b, "REQUESTED")
                                /\ task' = [task EXCEPT ![p] = On("record", b)]
      BY <1>4 DEF CreateCommit
    <2>2. Freeing' \subseteq Freeing /\ UNCHANGED <<uses, usages, freeing>>
      BY <1>4, <1>t, <2>1 DEF CreateCommit, Freeing, On, TypeOK
    <2> HIDE DEF Enough
    <2> QED
      BY <1>k, <2>1, <2>2 DEF Status, Ended
  <1>5. ASSUME NEW p \in Procs, ConfirmWrite(p) PROVE Enough
    <2>1. /\ task[p].bk \in Bookings /\ SetStatus(task[p].bk, "AWAITING_PAYMENT")
          /\ Freeing' \subseteq Freeing /\ UNCHANGED <<uses, usages, freeing>>
      BY <1>5, <1>t DEF ConfirmWrite, Freeing, Idle, TypeOK, TasksGrounded
    <2> HIDE DEF Enough
    <2> QED
      BY <1>k, <2>1 DEF Status, Ended
  <1>6. ASSUME NEW b \in Bookings, Settle(b) PROVE Enough
    <2>1. SetStatus(b, "SETTLED") /\ Freeing' = Freeing /\ UNCHANGED <<uses, usages, freeing>>
      BY <1>6 DEF Settle, Freeing
    <2> HIDE DEF Enough
    <2> QED
      BY <1>k, <2>1 DEF Status, Ended
  <1>7. ASSUME NEW p \in Procs, RejectCommit(p) PROVE Enough
    <2> DEFINE b == task[p].bk
    <2>1. /\ b \in Bookings /\ SetStatus(b, "REJECTED") /\ UNCHANGED <<uses, usages, freeing>>
          /\ p \notin Freeing /\ task' = [task EXCEPT ![p] = task'[p]]
      BY <1>7, <1>t DEF RejectCommit, Freeing, TypeOK, TasksGrounded
    <2>2. Freeing' \subseteq Freeing \union {p}
      BY <1>t, <2>1 DEF Freeing, TypeOK
    <2>3. f1 <= f + 1
      <3>1. IsFiniteSet(Freeing \union {p}) /\ Cardinality(Freeing \union {p}) = f + 1
        BY <1>f, <2>1, FS_AddElement
      <3> QED
        BY <2>2, <3>1, FS_Subset
    <2>4. f1 + g1 <= f + g + 1
      BY <1>f, <1>g, <2>1, <2>3
    <2>5. "REJECTED" \in Ended
      BY DEF Ended
    <2> HIDE DEF Enough, f, f1, g, g1, n, n1, b
    <2> QED
      BY <1>x, <2>1, <2>4, <2>5
  <1>8. ASSUME NEW b \in Bookings, ExpireCommit(b) PROVE Enough
    <2>1. /\ SetStatus(b, "EXPIRED") /\ UNCHANGED <<uses, usages, task>>
          /\ freeing = {} /\ freeing' = {b}
      BY <1>8 DEF ExpireCommit
    <2>2. f1 = f /\ g = 0 /\ g1 = 1
      BY <1>0, <2>1 DEF Freeing
    <2>3. f1 + g1 <= f + g + 1
      BY <1>f, <2>2
    <2>4. "EXPIRED" \in Ended
      BY DEF Ended
    <2> HIDE DEF Enough, f, f1, g, g1, n, n1
    <2> QED
      BY <1>x, <2>1, <2>3, <2>4
  <1>9. ASSUME NEW p \in Procs, NEW t, t.op # "free", task' = [task EXCEPT ![p] = t],
               UNCHANGED <<coupon, booking, cron>>
        PROVE  Enough
    <2>1. Freeing' \subseteq Freeing
      BY <1>9, <1>t DEF Freeing, TypeOK
    <2> HIDE DEF Enough
    <2> QED
      BY <1>9, <1>q, <1>n, <2>1
  <1>10. ASSUME NEW p \in Procs, HandlerStep(p) \/ Abort(p), ~ RecordUsage(p), ~ FreeSlot(p),
                ~ CreateCommit(p), ~ ConfirmWrite(p), ~ RejectCommit(p)
         PROVE  Enough
    <2>1. ASSUME ValidateUser(p) PROVE Enough
      <3>1. task' = [task EXCEPT ![p] = [task[p] EXCEPT !.op = "create"]]
        BY <2>1 DEF ValidateUser
      <3>2. [task[p] EXCEPT !.op = "create"].op = "create"
        BY <1>t DEF TypeOK, Task
      <3> HIDE DEF Enough
      <3> QED
        BY <1>9, <2>1, <3>1, <3>2 DEF ValidateUser
    <2>2. ASSUME NEW b \in Bookings, ConfirmRead(p, b) \/ RejectRead(p, b) PROVE Enough
      <3> HIDE DEF Enough
      <3> QED
        BY <1>9, <2>2 DEF ConfirmRead, RejectRead, On
    <2>3. ASSUME NEW u \in Users, ValidateTotal(p, u) PROVE Enough
      <3> HIDE DEF Enough
      <3> QED
        BY <1>9, <2>3 DEF ValidateTotal
    <2>4. ASSUME Refuse(p) \/ Abort(p) PROVE Enough
      <3> HIDE DEF Enough
      <3> QED
        BY <1>9, <2>4 DEF Refuse, Abort, Idle
    <2> HIDE DEF Enough
    <2> QED
      BY <1>10, <2>1, <2>2, <2>3, <2>4 DEF HandlerStep
  <1>11. ASSUME ExpireScan \/ CronFails \/ Restart \/ (\E c \in 0..MaxCap : UpdateCoupon(c))
                \/ UNCHANGED vars
         PROVE  Enough
    <2>1. UNCHANGED <<uses, usages, status>> /\ freeing' \subseteq freeing
      BY <1>11 DEF ExpireScan, CronFails, Restart, UpdateCoupon, vars
    <2>2. Freeing' \subseteq Freeing
      BY <1>11 DEF ExpireScan, CronFails, Restart, UpdateCoupon, vars, Freeing, Idle
    <2> HIDE DEF Enough
    <2> QED
      BY <1>q, <1>n, <2>1, <2>2
  <1> HIDE DEF Enough
  <1> QED
    BY <1>1, <1>2, <1>3, <1>4, <1>5, <1>6, <1>7, <1>8, <1>10, <1>11 DEF Next, SmoothNext

LEMMA LedgerStep ==
  IInv /\ TypeOK' /\ [Next]_vars => IsFiniteSet(usages)' /\ LiveAreCounted'
  <1> SUFFICES ASSUME IInv, TypeOK', [Next]_vars
               PROVE  IsFiniteSet(usages') /\ LiveAreCounted'
    OBVIOUS
  <1>0. uses' \in Nat
    BY DEF TypeOK
  <1> DEFINE n1 == uses'
  <1>z. 0 <= n1
    <2> HIDE DEF n1
    <2>1. n1 \in Nat
      BY <1>0 DEF n1
    <2> QED
      BY <2>1
  <1> HIDE DEF n1
  <1> SUFFICES IsFiniteSet(usages') /\ uses' <= Cardinality(usages')
    BY <1>z, CountStep DEF LiveAreCounted, n1
  <1>t. /\ TypeOK /\ TasksGrounded /\ IsFiniteSet(usages)
        /\ uses \in Nat /\ uses <= Cardinality(usages)
    BY DEF IInv, TypeOK, LiveAreCounted
  <1>n. Cardinality(usages) \in Nat
    BY <1>t, FS_CardinalityType
  <1>1. CASE \E p \in Procs : NewUse(p)
    <2>1. PICK p \in Procs : NewUse(p)
      BY <1>1
    <2>2. uses' = uses + 1 /\ usages' = usages \union {task[p].bk} /\ task[p].bk \notin usages
      BY <1>t, <2>1, NewUseEffect DEF NewUse
    <2>3. IsFiniteSet(usages') /\ Cardinality(usages') = Cardinality(usages) + 1
      BY <1>t, <2>2, FS_AddElement
    <2> QED
      BY <1>t, <1>n, <2>2, <2>3
  <1>2. CASE \A p \in Procs : ~NewUse(p)
    <2>1. uses' \in Nat /\ uses' <= uses /\ usages' = usages
      BY <1>t, <1>2, QuietStep
    <2> QED
      BY <1>t, <1>n, <2>1
  <1> QED
    BY <1>1, <1>2

-----------------------------------------------------------------------------
LEMMA InvariantInit == Init => IInv
  <1> SUFFICES ASSUME Init PROVE IInv
    OBVIOUS
  <1>1. Claims = {} /\ uses = 0 /\ usages = {} /\ freeing = {}
    BY DEF Init, Claims, Idle
  <1>2. \A u \in Users : UsesOf(u) = {} /\ OwnClaims(u) = {}
    BY DEF Init, UsesOf, OwnClaims, Idle
  <1>3. Cardinality({}) = 0 /\ IsFiniteSet({})
    BY FS_EmptySet
  <1>4. 0 <= MaxCap + Cardinality(Procs) - 1 /\ 0 <= MaxPerUser + Cardinality(Procs) - 1
    BY ProcsPositive, CouponAssumption
  <1>5. CapBound
    BY <1>1, <1>3, <1>4 DEF CapBound
  <1>6. UserBound
    BY <1>2, <1>3, <1>4 DEF UserBound
  <1>7. Live = {} /\ Unrecorded = {} /\ Freeing = {}
    BY DEF Init, Live, Unrecorded, Ended, Freeing, Idle
  <1>8. LiveAreCounted
    BY <1>1, <1>3, <1>7 DEF LiveAreCounted, Pending, Freeing
  <1> QED
    BY <1>1, <1>3, <1>5, <1>6, <1>7, <1>8, InitSound DEF IInv

-----------------------------------------------------------------------------
LEMMA InvariantStep == IInv /\ [Next]_vars => IInv'
  <1> SUFFICES ASSUME IInv, [Next]_vars PROVE IInv'
    OBVIOUS
  <1>1. TypeOK' /\ TasksGrounded'
    BY SoundStep DEF IInv
  <1> QED
    BY <1>1, CapStep, UserStep, FiniteStep, LedgerStep DEF IInv

THEOREM InductiveInvariant == Spec => []IInv
  <1> QED
    BY InvariantInit, InvariantStep, PTL DEF Spec

\* The columns and handlers keep their types; the counter never goes negative.
THEOREM TypeCorrect == Spec => []TypeOK
  <1>1. IInv => TypeOK
    BY DEF IInv
  <1> QED
    BY <1>1, InductiveInvariant, PTL

\* A coupon is never used more often than its largest limit and one more for
\* each other request served at the same time.
THEOREM CapIsBounded == Spec => []CapBound
  <1>1. IInv => CapBound
    BY DEF IInv
  <1> QED
    BY <1>1, InductiveInvariant, PTL

\* No user redeems it more often than the user's limit and one more for each
\* other request served at the same time.
THEOREM UserIsBounded == Spec => []UserBound
  <1>1. IInv => UserBound
    BY DEF IInv
  <1> QED
    BY <1>1, InductiveInvariant, PTL

\* Whatever requests, failures and the cron do, the counter falls short of the
\* bookings that live by at most one for each booking that ended unrecorded, is
\* never negative and never exceeds the rows that explain it.
THEOREM LiveStayCounted == Spec => []LiveAreCounted
  <1>1. IInv => LiveAreCounted
    BY DEF IInv
  <1> QED
    BY <1>1, InductiveInvariant, PTL

-----------------------------------------------------------------------------
(* One request at a time, nothing fails *)

Alone == \E p : Procs = {p}

\* What the one handler knows of its booking, and the cron of its list: a
\* booking that is not yet refused or expired has its row, or gets it next, and
\* only a payment brings back one that expired.
Grounds ==
    /\ Alone
    /\ \A p \in Procs :
        /\ task[p].op \in {"confirm", "reject", "record"} => status[task[p].bk] = "REQUESTED"
        /\ task[p].op = "record" => task[p].bk \notin usages
    /\ \A b \in Bookings :
        /\ status[b] = "NONE" => b \notin usages
        /\ status[b] \in {"REQUESTED", "AWAITING_PAYMENT", "SETTLED"} =>
               b \in usages \/ \E p \in Procs : task[p].op = "record" /\ task[p].bk = b
    /\ sweep \subseteq {b \in usages : status[b] \in {"AWAITING_PAYMENT", "SETTLED"}}
    /\ sweep \cap crossed = {}
    /\ \A b \in crossed : status[b] = "SETTLED"
    /\ offered \subseteq {b \in usages : status[b] \in {"AWAITING_PAYMENT", "SETTLED", "EXPIRED"}}

\* The bookings the counter counts.
Held == Counted \ crossed

LEMMA ExactForm ==
  CountIsExact <=> uses = Cardinality(Held) + (Cardinality(Freeing) + Cardinality(freeing))
  BY DEF CountIsExact, Pending, Freeing, Held

LEMMA GroundsInit == Alone /\ Init => Grounds /\ CountIsExact
  <1> SUFFICES ASSUME Alone, Init PROVE Grounds /\ CountIsExact
    OBVIOUS
  <1>1. Grounds
    BY DEF Init, Grounds, Idle
  <1>2. Held = {} /\ Freeing = {} /\ freeing = {} /\ uses = 0
    BY DEF Init, Held, Counted, Freeing, Idle
  <1>3. Cardinality({}) = 0
    BY FS_EmptySet
  <1>4. CountIsExact
    BY <1>2, <1>3, ExactForm
  <1> QED
    BY <1>1, <1>4

\* The one request, its step, and what it leaves to the cron.
LEMMA GroundsStep == IInv /\ Grounds /\ [SmoothNext]_vars => Grounds'
  <1> SUFFICES ASSUME IInv, Grounds, [SmoothNext]_vars PROVE Grounds'
    OBVIOUS
  <1>t. TypeOK /\ TasksGrounded
    BY DEF IInv
  <1>p. PICK p : Procs = {p}
    BY DEF Grounds, Alone
  <1> USE <1>t, <1>p DEF TypeOK, Grounds, Alone, Ended, coupon, booking, cron
  <1>1. ASSUME NEW u \in Users, ValidateTotal(p, u) PROVE Grounds'
    BY <1>1 DEF ValidateTotal
  <1>2. ASSUME ValidateUser(p) PROVE Grounds'
    <2>1. task'[p].op = "create" /\ task[p].op = "count"
      BY <1>2 DEF ValidateUser, Task
    <2> QED
      BY <1>2, <2>1 DEF ValidateUser
  <1>3. ASSUME CreateCommit(p) PROVE Grounds'
    <2>1. PICK b \in Bookings : /\ status[b] = "NONE"
                                /\ status' = [status EXCEPT ![b] = "REQUESTED"]
                                /\ crossed' = crossed
                                /\ task' = [task EXCEPT ![p] = On("record", b)]
      BY <1>3 DEF CreateCommit, SetStatus
    <2>2. task'[p].op = "record" /\ task'[p].bk = b /\ task[p].op = "create"
      BY <1>3, <2>1 DEF On, CreateCommit
    <2> QED
      BY <1>3, <2>1, <2>2 DEF CreateCommit
  <1>4. ASSUME RecordUsage(p) PROVE Grounds'
    <2>1. /\ task[p].op = "record" /\ task'[p].op = "idle"
          /\ usages' = usages \union {task[p].bk} /\ status[task[p].bk] = "REQUESTED"
          /\ UNCHANGED <<status, offered, crossed, sweep, freeing>>
      BY <1>4 DEF RecordUsage, WithRow, Idle
    <2> QED
      BY <2>1
  <1>5. ASSUME NEW b \in Bookings, ConfirmRead(p, b) \/ RejectRead(p, b) PROVE Grounds'
    <2>1. /\ task[p].op = "idle" /\ task'[p].op \in {"confirm", "reject"}
          /\ task'[p].bk = b /\ status[b] = "REQUESTED"
          /\ UNCHANGED <<usages, booking, sweep, freeing>>
      BY <1>5 DEF ConfirmRead, RejectRead, On
    <2> QED
      BY <2>1
  <1>6. ASSUME ConfirmWrite(p) \/ RejectCommit(p) PROVE Grounds'
    <2> DEFINE b == task[p].bk
    <2>1. /\ task[p].op \in {"confirm", "reject"} /\ task'[p].op \in {"idle", "free"}
          /\ b \in Bookings /\ status[b] = "REQUESTED"
          /\ crossed' = crossed
          /\ \/ /\ status' = [status EXCEPT ![b] = "AWAITING_PAYMENT"]
                /\ offered' = offered \union {b}
             \/ /\ status' = [status EXCEPT ![b] = "REJECTED"]
                /\ offered' = offered
          /\ usages' = usages /\ sweep' = sweep /\ freeing' = freeing
      BY <1>6 DEF ConfirmWrite, RejectCommit, SetStatus, On, Idle, TasksGrounded
    <2>2. b \in usages
      BY <2>1
    <2> QED
      BY <2>1, <2>2
  <1>7. ASSUME FreeSlot(p) \/ Refuse(p) PROVE Grounds'
    BY <1>7 DEF FreeSlot, Refuse, Idle
  <1>8. ASSUME NEW b \in Bookings, ExpireCommit(b) PROVE Grounds'
    <2>1. /\ b \in usages /\ status[b] \in {"AWAITING_PAYMENT", "SETTLED"} /\ b \notin crossed
          /\ status' = [status EXCEPT ![b] = "EXPIRED"] /\ crossed' = crossed
          /\ sweep' = sweep \ {b} /\ UNCHANGED <<usages, task, offered>>
      BY <1>8 DEF ExpireCommit, SetStatus
    <2>2. \A q \in Procs : task[q].op \in {"confirm", "reject", "record"} =>
            task[q].bk # b /\ task[q].bk \in Bookings
      BY <2>1 DEF TasksGrounded
    <2> QED
      BY <2>1, <2>2
  <1>9. ASSUME NEW b \in Bookings, Settle(b) PROVE Grounds'
    <2>1. /\ b \in usages /\ status[b] \in {"AWAITING_PAYMENT", "SETTLED", "EXPIRED"}
          /\ status' = [status EXCEPT ![b] = "SETTLED"]
          /\ crossed' = IF status[b] = "EXPIRED" THEN crossed \union {b} ELSE crossed
          /\ UNCHANGED <<usages, offered, task, sweep, freeing>>
      BY <1>9 DEF Settle, SetStatus
    <2>2. \A q \in Procs : task[q].op \in {"confirm", "reject", "record"} =>
            task[q].bk # b /\ task[q].bk \in Bookings
      BY <2>1 DEF TasksGrounded
    <2>3. \A a \in Bookings : a # b => status'[a] = status[a]
      BY <2>1
    <2>4. sweep \cap crossed' = {}
      BY <2>1
    <2> QED
      BY <2>1, <2>2, <2>3, <2>4
  <1>10. ASSUME ExpireScan PROVE Grounds'
    <2>1. \A b \in Bookings : status[b] = "AWAITING_PAYMENT" => b \in usages /\ b \notin crossed
      BY DEF TasksGrounded
    <2>2. PICK S \in SUBSET {b \in Bookings : status[b] = "AWAITING_PAYMENT"} : sweep' = S
      BY <1>10 DEF ExpireScan
    <2>3. UNCHANGED <<usages, booking, task, freeing>>
      BY <1>10 DEF ExpireScan
    <2>4. sweep' \subseteq {b \in usages : status[b] \in {"AWAITING_PAYMENT", "SETTLED"}}
      BY <2>1, <2>2
    <2>5. sweep' \cap crossed = {}
      BY <2>1, <2>2
    <2> QED
      BY <2>3, <2>4, <2>5
  <1>11. ASSUME ExpireFree PROVE Grounds'
    BY <1>11 DEF ExpireFree
  <1>12. CASE UNCHANGED vars
    BY <1>12 DEF vars
  <1> QED
    BY <1>1, <1>2, <1>3, <1>4, <1>5, <1>6, <1>7, <1>8, <1>9, <1>10, <1>11, <1>12
       DEF SmoothNext, HandlerStep

\* The count stays exact when the counter moves by as much as the bookings
\* and the slots on their way back together.
LEMMA Balance ==
  ASSUME CountIsExact,
         NEW l \in Nat, l = Cardinality(Held), NEW l1 \in Nat, l1 = Cardinality(Held'),
         NEW f \in Nat, f = Cardinality(Freeing), NEW f1 \in Nat, f1 = Cardinality(Freeing'),
         NEW g \in Nat, g = Cardinality(freeing), NEW g1 \in Nat, g1 = Cardinality(freeing'),
         uses \in Nat, uses' \in Nat, uses' - uses = (l1 - l) + (f1 - f) + (g1 - g)
  PROVE  CountIsExact'
  <1>1. uses = l + (f + g)
    BY DEF CountIsExact, Pending, Freeing, Held
  <1>2. uses' = l1 + (f1 + g1)
    BY <1>1
  <1> QED
    BY <1>2 DEF CountIsExact, Pending, Freeing, Held

LEMMA ExactStep == IInv /\ IInv' /\ Grounds /\ Grounds' /\ CountIsExact /\ [SmoothNext]_vars => CountIsExact'
  <1> SUFFICES ASSUME IInv, IInv', Grounds, Grounds', CountIsExact, [SmoothNext]_vars
               PROVE  CountIsExact'
    OBVIOUS
  <1>t. TypeOK /\ TasksGrounded /\ uses \in Nat /\ uses' \in Nat
    BY DEF IInv, TypeOK
  <1>p. PICK p : Procs = {p}
    BY DEF Grounds, Alone
  <1>0. Cardinality({}) = 0 /\ \A x : Cardinality({x}) = 1
    BY FS_EmptySet, FS_Singleton
  <1>l. /\ IsFiniteSet(Held) /\ Cardinality(Held) \in Nat
        /\ IsFiniteSet(Held') /\ Cardinality(Held') \in Nat
    <2>1. IsFiniteSet(usages) /\ IsFiniteSet(usages')
      BY DEF IInv
    <2> QED
      BY <2>1, FS_Subset, FS_CardinalityType DEF Held, Counted
  <1>f. /\ Cardinality(Freeing) = IF task[p].op = "free" THEN 1 ELSE 0
        /\ Cardinality(Freeing') = IF task'[p].op = "free" THEN 1 ELSE 0
    <2>1. Freeing = IF task[p].op = "free" THEN {p} ELSE {}
      BY <1>p DEF Freeing
    <2>2. Freeing' = IF task'[p].op = "free" THEN {p} ELSE {}
      BY <1>p DEF Freeing
    <2> QED
      BY <1>0, <2>1, <2>2
  <1>g. /\ Cardinality(freeing) = IF freeing = {} THEN 0 ELSE 1
        /\ Cardinality(freeing') = IF freeing' = {} THEN 0 ELSE 1
    <2>1. freeing = {} \/ \E b : freeing = {b}
      BY DEF IInv
    <2>2. freeing' = {} \/ \E b : freeing' = {b}
      BY DEF IInv
    <2> QED
      BY <1>0, <2>1, <2>2
  <1>c. /\ Cardinality(Freeing) \in Nat /\ Cardinality(Freeing') \in Nat
        /\ Cardinality(freeing) \in Nat /\ Cardinality(freeing') \in Nat
    BY <1>f, <1>g
  <1> DEFINE l  == Cardinality(Held)
             l1 == Cardinality(Held')
             f  == Cardinality(Freeing)
             f1 == Cardinality(Freeing')
             g  == Cardinality(freeing)
             g1 == Cardinality(freeing')
  <1>b. ASSUME uses' - uses = (l1 - l) + (f1 - f) + (g1 - g) PROVE CountIsExact'
    BY <1>b, <1>t, <1>l, <1>c, Balance
  <1>e. uses = l + (f + g)
    BY DEF CountIsExact, Pending, Freeing, Held, Counted
  <1>q. ASSUME uses' = uses, Held' = Held, freeing' = freeing,
               task'[p].op # "free", task[p].op # "free"
        PROVE  CountIsExact'
    BY <1>b, <1>q, <1>t, <1>l, <1>f, <1>c
  <1>r. ASSUME uses' = uses, Held' = Held, freeing' = freeing, task' = task
        PROVE  CountIsExact'
    BY <1>b, <1>r, <1>t, <1>l, <1>f, <1>c
  <1>1. ASSUME NEW u \in Users, ValidateTotal(p, u) PROVE CountIsExact'
    BY <1>1, <1>q, <1>t, <1>p DEF ValidateTotal, Held, Counted, TypeOK, coupon, booking, cron
  <1>2. ASSUME ValidateUser(p) PROVE CountIsExact'
    <2>1. task'[p].op = "create" /\ task[p].op = "count"
      BY <1>2, <1>t, <1>p DEF ValidateUser, Task, TypeOK
    <2> QED
      BY <1>2, <2>1, <1>q DEF ValidateUser, Held, Counted, coupon, booking, cron
  <1>3. ASSUME CreateCommit(p) PROVE CountIsExact'
    <2>1. PICK b \in Bookings : /\ status[b] = "NONE"
                                /\ status' = [status EXCEPT ![b] = "REQUESTED"]
                                /\ crossed' = crossed
                                /\ task' = [task EXCEPT ![p] = On("record", b)]
      BY <1>3 DEF CreateCommit, SetStatus, Ended
    <2>2. task'[p].op = "record" /\ task[p].op = "create" /\ b \notin usages
      BY <1>3, <2>1, <1>t, <1>p DEF On, CreateCommit, TypeOK, Grounds
    <2>3. Held' = Held /\ uses' = uses /\ freeing' = freeing
      BY <1>3, <2>1, <2>2, <1>t DEF Held, Counted, CreateCommit, TypeOK, coupon, booking, cron
    <2> QED
      BY <2>2, <2>3, <1>q
  <1>4. ASSUME RecordUsage(p) PROVE CountIsExact'
    <2>1. task[p].bk \notin usages /\ status[task[p].bk] = "REQUESTED" /\ task[p].bk \notin crossed
      BY <1>4, <1>p DEF RecordUsage, Grounds
    <2>2. /\ uses' = uses + 1 /\ usages' = usages \union {task[p].bk}
          /\ UNCHANGED <<status, crossed, freeing>>
          /\ task'[p].op = "idle" /\ task[p].op = "record"
      BY <1>4, <2>1, <1>t, <1>p DEF RecordUsage, WithRow, OneMore, Idle, TypeOK, booking, cron
    <2>3. Held' = Held \union {task[p].bk} /\ task[p].bk \notin Held
      BY <2>1, <2>2 DEF Held, Counted, Ended
    <2>4. l1 = l + 1
      BY <2>3, <1>l, FS_AddElement
    <2>5. f = 0 /\ f1 = 0 /\ g1 = g
      BY <2>2, <1>f
    <2> HIDE DEF l, l1, f, f1, g, g1
    <2> QED
      BY <2>2, <2>4, <2>5, <1>b, <1>t, <1>l, <1>c DEF l, g
  <1>5. ASSUME NEW b \in Bookings, ConfirmRead(p, b) \/ RejectRead(p, b) PROVE CountIsExact'
    BY <1>5, <1>q, <1>t, <1>p DEF ConfirmRead, RejectRead, On, Held, Counted, TypeOK, coupon, booking, cron
  <1>6. ASSUME ConfirmWrite(p) PROVE CountIsExact'
    <2> DEFINE b == task[p].bk
    <2>1. /\ task[p].op = "confirm" /\ task'[p].op = "idle" /\ status[b] = "REQUESTED"
          /\ status' = [status EXCEPT ![b] = "AWAITING_PAYMENT"]
          /\ UNCHANGED <<uses, usages, crossed, freeing>>
      BY <1>6, <1>t, <1>p DEF ConfirmWrite, SetStatus, Ended, Grounds, Idle, TypeOK, coupon, cron
    <2>2. Held' = Held
      BY <2>1, <1>t DEF Held, Counted, Ended, TypeOK
    <2> QED
      BY <2>1, <2>2, <1>q
  <1>7. ASSUME RejectCommit(p) PROVE CountIsExact'
    <2> DEFINE b == task[p].bk
    <2>1. /\ task[p].op = "reject" /\ status[b] = "REQUESTED"
          /\ b \in Bookings /\ status' = [status EXCEPT ![b] = "REJECTED"]
          /\ UNCHANGED <<uses, usages, crossed, freeing>>
      BY <1>7, <1>t, <1>p DEF RejectCommit, SetStatus, Ended, Grounds, TasksGrounded, coupon, cron
    <2>2. b \in usages /\ b \notin crossed
      BY <2>1, <1>p DEF Grounds
    <2>3. CASE b \in Tours
      <3>1. Held' = Held
        BY <2>1, <2>3, <1>t DEF Held, Counted, Ended, TypeOK
      <3>2. task'[p].op = "idle"
        BY <1>7, <2>3, <1>t, <1>p DEF RejectCommit, FreesSlot, Idle, TypeOK
      <3> QED
        BY <2>1, <3>1, <3>2, <1>q
    <2>4. CASE b \notin Tours
      <3>1. Held' = Held \ {b} /\ b \in Held
        BY <2>1, <2>2, <2>4, <1>t DEF Held, Counted, Ended, TypeOK
      <3>2. l1 = l - 1
        BY <3>1, <1>l, FS_RemoveElement
      <3>3. task'[p].op = "free"
        BY <1>7, <2>4, <1>t, <1>p DEF RejectCommit, FreesSlot, On, TypeOK
      <3>4. f = 0 /\ f1 = 1 /\ g1 = g
        BY <2>1, <3>3, <1>f
      <3> HIDE DEF l, l1, f, f1, g, g1
      <3> QED
        BY <2>1, <3>2, <3>4, <1>b, <1>t, <1>l, <1>c DEF l, g
    <2> QED
      BY <2>3, <2>4
  <1>8. ASSUME FreeSlot(p) PROVE CountIsExact'
    <2>1. /\ task[p].op = "free" /\ task'[p].op = "idle" /\ uses' = OneLess
          /\ Held' = Held /\ freeing' = freeing
      BY <1>8, <1>t, <1>p DEF FreeSlot, Idle, Held, Counted, TypeOK, booking, cron
    <2>2. f = 1 /\ f1 = 0 /\ g1 = g /\ l1 = l
      BY <2>1, <1>f
    <2> HIDE DEF l, l1, f, f1, g, g1
    <2>3. uses > 0
      BY <2>2, <1>e, <1>l, <1>c DEF l, g
    <2>4. uses' = uses - 1
      BY <2>1, <2>3 DEF OneLess
    <2> QED
      BY <2>2, <2>4, <1>b, <1>t, <1>l, <1>c DEF l, g
  <1>9. ASSUME Refuse(p) PROVE CountIsExact'
    <2>1. /\ task[p].op # "free" /\ task'[p].op # "free"
          /\ Held' = Held /\ uses' = uses /\ freeing' = freeing
      BY <1>9, <1>t, <1>p DEF Refuse, Idle, Held, Counted, TypeOK, coupon, booking, cron
    <2> QED
      BY <2>1, <1>q
  <1>10. ASSUME NEW b \in Bookings, ExpireCommit(b) PROVE CountIsExact'
    <2>1. /\ b \in usages /\ status[b] \in {"AWAITING_PAYMENT", "SETTLED"} /\ b \notin crossed
          /\ status' = [status EXCEPT ![b] = "EXPIRED"]
          /\ freeing = {} /\ freeing' = {b}
          /\ UNCHANGED <<uses, usages, crossed, task>>
      BY <1>10 DEF ExpireCommit, SetStatus, Ended, Grounds, coupon
    <2>2. Held' = Held \ {b} /\ b \in Held
      BY <2>1, <1>t DEF Held, Counted, Ended, TypeOK
    <2>3. l1 = l - 1
      BY <2>2, <1>l, FS_RemoveElement
    <2>4. f1 = f /\ g = 0 /\ g1 = 1
      BY <2>1, <1>f, <1>g
    <2> HIDE DEF l, l1, f, f1, g, g1
    <2> QED
      BY <2>1, <2>3, <2>4, <1>b, <1>t, <1>l, <1>c DEF l, f
  <1>11. ASSUME ExpireFree PROVE CountIsExact'
    <2>1. /\ freeing # {} /\ freeing' = {} /\ uses' = OneLess
          /\ Held' = Held /\ task' = task
      BY <1>11 DEF ExpireFree, Held, Counted, booking
    <2>2. f1 = f /\ g = 1 /\ g1 = 0 /\ l1 = l
      BY <2>1, <1>f, <1>g
    <2> HIDE DEF l, l1, f, f1, g, g1
    <2>3. uses > 0
      BY <2>2, <1>e, <1>l, <1>c DEF l, f
    <2>4. uses' = uses - 1
      BY <2>1, <2>3 DEF OneLess
    <2> QED
      BY <2>2, <2>4, <1>b, <1>t, <1>l, <1>c DEF l, f
  <1>12. ASSUME NEW b \in Bookings, Settle(b) PROVE CountIsExact'
    <2>1. /\ status[b] \in {"AWAITING_PAYMENT", "SETTLED", "EXPIRED"}
          /\ status' = [status EXCEPT ![b] = "SETTLED"]
          /\ crossed' = IF status[b] = "EXPIRED" THEN crossed \union {b} ELSE crossed
          /\ UNCHANGED <<uses, usages, task, freeing>>
      BY <1>12 DEF Settle, SetStatus, Grounds, Ended, coupon, cron
    <2>2. Held' = Held
      BY <2>1, <1>t DEF Held, Counted, Ended, TypeOK
    <2> QED
      BY <2>1, <2>2, <1>r
  <1>13. ASSUME ExpireScan PROVE CountIsExact'
    BY <1>13, <1>r DEF ExpireScan, Held, Counted, coupon, booking
  <1>14. CASE UNCHANGED vars
    BY <1>14, <1>r DEF vars, Held, Counted
  <1> QED
    BY <1>p, <1>1, <1>2, <1>3, <1>4, <1>5, <1>6, <1>7, <1>8, <1>9, <1>10, <1>11, <1>12,
       <1>13, <1>14 DEF SmoothNext, HandlerStep

\* However many bookings, users, cron runs and late payments there are: if requests
\* come one at a time and none fails, the counter counts every recorded booking
\* that lives or is a rejected tour, and every slot on its way back, but for the
\* bookings that were paid after they had expired.
THEOREM CountStaysExact == Alone /\ SmoothSpec => []CountIsExact
  <1>1. Alone /\ Init => IInv /\ Grounds /\ CountIsExact
    BY InvariantInit, GroundsInit
  <1>2. IInv /\ [SmoothNext]_vars => IInv'
    <2> SUFFICES ASSUME IInv, [SmoothNext]_vars PROVE IInv'
      OBVIOUS
    <2>1. [Next]_vars
      BY DEF Next
    <2> QED
      BY <2>1, InvariantStep
  <1>3. IInv /\ Grounds /\ CountIsExact /\ [SmoothNext]_vars => (IInv /\ Grounds /\ CountIsExact)'
    BY <1>2, GroundsStep, ExactStep
  <1> QED
    BY <1>1, <1>3, PTL DEF SmoothSpec
=============================================================================

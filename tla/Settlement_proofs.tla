------------------------- MODULE Settlement_proofs -------------------------
(***************************************************************************)
(* Proofs about Settlement, for every amount and every number of requests, *)
(* workers, refunds and payouts: its type invariant, that REFUNDED is      *)
(* never claimed without cover, that requests which do not disturb each    *)
(* other never give back too much and never pay twice, and that a full     *)
(* refund is noticed.                                                      *)
(***************************************************************************)
EXTENDS Settlement, FiniteSetTheorems, TLAPS

-----------------------------------------------------------------------------
(* Sums of amounts, as numbers of units *)

LEMMA UnitsFinite ==
  ASSUME NEW g, NEW S \in SUBSET Refunds
  PROVE  IsFiniteSet(Units(g, S)) /\ Cardinality(Units(g, S)) \in Nat
  <1>1. IsFiniteSet(S)
    BY SettlementAssumption, FS_Subset
  <1>2. IsFiniteSet(1..Amount)
    BY SettlementAssumption, FS_Interval
  <1>3. IsFiniteSet(S \X (1..Amount))
    BY <1>1, <1>2, FS_Product
  <1>4. Units(g, S) \in SUBSET (S \X (1..Amount))
    BY DEF Units
  <1>5. IsFiniteSet(Units(g, S))
    BY <1>3, <1>4, FS_Subset
  <1> QED
    BY <1>5, FS_CardinalityType

\* More refunds, or larger ones, have the larger sum.
LEMMA UnitsGrow ==
  ASSUME NEW g \in [Refunds -> 0..Amount], NEW h \in [Refunds -> 0..Amount],
         NEW S \in SUBSET Refunds, NEW T \in SUBSET Refunds,
         \A r \in S : g[r] > 0 => r \in T /\ g[r] <= h[r]
  PROVE  Cardinality(Units(g, S)) <= Cardinality(Units(h, T))
  <1>1. Units(g, S) \in SUBSET Units(h, T)
    <2> SUFFICES ASSUME NEW r \in S, NEW i \in 1..Amount, i <= g[r]
                 PROVE  r \in T /\ i <= h[r]
      BY DEF Units
    <2> QED
      BY SettlementAssumption
  <1> QED
    BY <1>1, UnitsFinite, FS_Subset

\* A refund of amount a that is made adds a to the sum.
LEMMA UnitsAdd ==
  ASSUME NEW g \in [Refunds -> 0..Amount], NEW r \in Refunds, g[r] = 0, NEW a \in 0..Amount
  PROVE  Cardinality(Units([g EXCEPT ![r] = a], Refunds)) = Cardinality(Units(g, Refunds)) + a
  <1> DEFINE h == [g EXCEPT ![r] = a]
             new == {r} \X (1..a)
  <1>1. Units(h, Refunds) = Units(g, Refunds) \union new
    <2>1. ASSUME NEW q \in Refunds, NEW i \in 1..Amount
          PROVE  i <= h[q] <=> i <= g[q] \/ (q = r /\ i \in 1..a)
      BY SettlementAssumption
    <2>2. ASSUME NEW i \in 1..a PROVE i \in 1..Amount
      BY SettlementAssumption
    <2> QED
      BY <2>1, <2>2 DEF Units
  <1>2. Units(g, Refunds) \cap new = {}
    <2> SUFFICES ASSUME NEW i \in 1..a, i <= g[r] PROVE FALSE
      BY DEF Units
    <2> QED
      OBVIOUS
  <1>3. IsFiniteSet(new) /\ Cardinality(new) = a
    <2>1. IsFiniteSet({r}) /\ Cardinality({r}) = 1
      BY FS_Singleton
    <2>2. IsFiniteSet(1..a) /\ Cardinality(1..a) = a
      BY FS_Interval
    <2>3. IsFiniteSet(new) /\ Cardinality(new) = Cardinality({r}) * Cardinality(1..a)
      BY <2>1, <2>2, FS_Product
    <2> QED
      BY <2>1, <2>2, <2>3
  <1>4. IsFiniteSet(Units(g, Refunds)) /\ Cardinality(Units(g, Refunds)) \in Nat
    BY UnitsFinite
  <1>5. Cardinality(Units(g, Refunds) \union new)
          = Cardinality(Units(g, Refunds)) + Cardinality(new) - Cardinality({})
    BY <1>2, <1>3, <1>4, FS_Union
  <1>6. Cardinality({}) = 0
    BY FS_EmptySet
  <1>7. Cardinality(Units(h, Refunds)) = Cardinality(Units(g, Refunds)) + Cardinality(new)
    <2> HIDE DEF h, new
    <2> QED
      BY <1>1, <1>3, <1>4, <1>5, <1>6
  <1> QED
    BY <1>3, <1>7

\* In a state of the right type, the sums are numbers.
LEMMA TotalType ==
  ASSUME TypeOK
  PROVE  Total \in Nat /\ Recorded \in Nat /\ unnamed \in Nat
  <1>1. unnamed \in Nat
    BY SettlementAssumption DEF TypeOK
  <1>2. Cardinality(Units(given, Refunds)) \in Nat /\ Cardinality(Units(rows, Refunds)) \in Nat
    BY UnitsFinite
  <1> QED
    BY <1>1, <1>2 DEF Total, Recorded

-----------------------------------------------------------------------------
(* Types *)

LEMMA IdleType == Idle \in Task
  BY SettlementAssumption DEF Idle, Task

LEMMA TypeInit == Init => TypeOK
  <1> SUFFICES ASSUME Init PROVE TypeOK
    OBVIOUS
  <1>1. 0 \in 0..Amount
    BY SettlementAssumption
  <1> QED
    BY <1>1, IdleType DEF Init, TypeOK, BookingStatus, PaymentStatus, PayoutStatus

\* What requests and events refer to exists: a row has its refund, a commit the
\* refund it is about, with the amount that was asked.
Grounded ==
    /\ \A r \in Refunds : r \in news \/ rows[r] > 0 => given[r] > 0
    /\ \A r \in Refunds : rows[r] > 0 => rows[r] >= given[r]
    /\ \A p \in Procs :
        /\ task[p].op \in {"issue", "commit"} => task[p].sum > 0
        /\ task[p].op = "commit" => task[p].ref \in Refunds /\ given[task[p].ref] = task[p].sum
        /\ task[p].op \in {"paid", "fail"} =>
             task[p].row \in Payouts /\ payout[task[p].row] # "NONE"
    /\ \A w \in Workers : worker[w] # Free => given[worker[w].ref] > 0

\* A worker that handles an event has one of a refund, which has an amount.
LEMMA JobType ==
  ASSUME TypeOK, NEW w \in Workers, worker[w].at \in {"create", "sum", "mark"}
  PROVE  worker[w] \in Job /\ worker[w] # Free
  BY DEF TypeOK, Job, Free

LEMMA TypeStep ==
  ASSUME TypeOK, Grounded, [Next]_vars
  PROVE  TypeOK'
  <1> DEFINE Rest == /\ status' \in BookingStatus
                     /\ pay' \in PaymentStatus
                     /\ given' \in [Refunds -> 0..Amount]
                     /\ rows' \in [Refunds -> 0..Amount]
                     /\ unnamed' \in 0..Amount
                     /\ payout' \in [Payouts -> PayoutStatus]
                     /\ news' \in SUBSET Refunds
                     /\ task' \in [Procs -> Task]
                     /\ worker' \in [Workers -> Job \union {Free}]
  <1> USE DEF TypeOK, money, refund, BookingStatus, PaymentStatus, PayoutStatus
  <1>1. ASSUME NEW p \in Procs, RequestStep(p) PROVE Rest
    <2>1. ASSUME NEW t \in Task, Begin(p, t) PROVE task' \in [Procs -> Task]
      BY <2>1 DEF Begin
    <2>2. ASSUME End(p) PROVE task' \in [Procs -> Task]
      BY <2>2, IdleType DEF End
    <2>3. ASSUME NEW o \in {"refund", "complete", "payout"} PROVE [Idle EXCEPT !.op = o] \in Task
      BY IdleType DEF Task
    <2>4. ASSUME NEW o \in {"paid", "fail"}, NEW k \in Payouts
          PROVE  [Idle EXCEPT !.op = o, !.row = k] \in Task
      BY IdleType DEF Task
    <2>5. ASSUME RefundRead(p) PROVE Rest
      BY <2>5, <2>1, <2>3 DEF RefundRead
    <2>6. ASSUME RefundCheck(p) PROVE Rest
      <3>1. PICK a \in 1..Refundable :
              task' = [task EXCEPT ![p] = [Idle EXCEPT !.op = "issue", !.sum = a]]
        BY <2>6 DEF RefundCheck
      <3>2. a \in 0..Amount
        BY <3>1, TotalType, SettlementAssumption DEF Refundable
      <3>3. [Idle EXCEPT !.op = "issue", !.sum = a] \in Task
        BY <3>2, IdleType DEF Task
      <3> QED
        BY <2>6, <3>1, <3>3 DEF RefundCheck
    <2>7. ASSUME RefundIssue(p) PROVE Rest
      <3>1. PICK r \in Refunds :
              /\ given' = [given EXCEPT ![r] = task[p].sum]
              /\ news' = news \union {r}
              /\ task' = [task EXCEPT ![p] = [@ EXCEPT !.op = "commit", !.ref = r]]
        BY <2>7 DEF RefundIssue
      <3>2. task[p].sum \in 0..Amount
        BY DEF Task
      <3>3. [task[p] EXCEPT !.op = "commit", !.ref = r] \in Task
        BY DEF Task
      <3> QED
        BY <2>7, <3>1, <3>2, <3>3 DEF RefundIssue
    <2>8. ASSUME RefundCommit(p) PROVE Rest
      <3>1. task[p].ref \in Refunds /\ task[p].sum \in 0..Amount
        BY <2>8 DEF RefundCommit, Grounded, Task
      <3> QED
        BY <2>8, <3>1, <2>2 DEF RefundCommit
    <2>9. ASSUME CompleteRead(p) PROVE Rest
      BY <2>9, <2>1, <2>3 DEF CompleteRead
    <2>10. ASSUME CompleteWrite(p) PROVE Rest
      BY <2>10, <2>2 DEF CompleteWrite
    <2>11. ASSUME PayoutRead(p) PROVE Rest
      BY <2>11, <2>1, <2>3 DEF PayoutRead
    <2>12. ASSUME PayoutCheck(p) PROVE Rest
      <3>1. [task[p] EXCEPT !.op = "insert"] \in Task
        BY DEF Task
      <3> QED
        BY <2>12, <3>1 DEF PayoutCheck
    <2>13. ASSUME PayoutInsert(p) PROVE Rest
      BY <2>13, <2>2 DEF PayoutInsert
    <2>14. ASSUME NEW k \in Payouts, MarkCompletedRead(p, k) PROVE Rest
      BY <2>14, <2>1, <2>4 DEF MarkCompletedRead
    <2>15. ASSUME NEW k \in Payouts, MarkFailedRead(p, k) PROVE Rest
      BY <2>15, <2>1, <2>4 DEF MarkFailedRead
    <2>16. ASSUME MarkWrite(p) PROVE Rest
      BY <2>16, <2>2 DEF MarkWrite
    <2>17. ASSUME Abort(p) PROVE Rest
      BY <2>17, <2>2 DEF Abort
    <2> HIDE DEF Rest
    <2> QED
      BY <1>1, <2>5, <2>6, <2>7, <2>8, <2>9, <2>10, <2>11, <2>12, <2>13, <2>14, <2>15,
         <2>16, <2>17 DEF RequestStep
  <1>2. ASSUME NEW w \in Workers, HandlerStep(w) PROVE Rest
    <2>1. ASSUME HandlerFind(w) PROVE Rest
      BY <2>1 DEF HandlerFind, Job
    <2>2. ASSUME HandlerCreate(w) PROVE Rest
      <3>1. worker[w] \in Job
        BY <2>2, JobType DEF HandlerCreate
      <3>2. worker[w].ref \in Refunds /\ [worker[w] EXCEPT !.at = "sum"] \in Job
        BY <3>1 DEF Job
      <3>3. Amount \in 0..Amount
        BY SettlementAssumption
      <3> QED
        BY <2>2, <3>2, <3>3 DEF HandlerCreate
    <2>3. ASSUME HandlerConflict(w) PROVE Rest
      <3>1. worker[w] \in Job
        BY <2>3, JobType DEF HandlerConflict
      <3> QED
        BY <2>3, <3>1 DEF HandlerConflict, Job
    <2>4. ASSUME HandlerSum(w) PROVE Rest
      <3>1. worker[w] \in Job
        BY <2>4, JobType DEF HandlerSum
      <3>2. [worker[w] EXCEPT !.at = "mark"] \in Job
        BY <3>1 DEF Job
      <3> QED
        BY <2>4, <3>2 DEF HandlerSum
    <2>5. ASSUME HandlerMark(w) PROVE Rest
      BY <2>5 DEF HandlerMark
    <2> QED
      BY <1>2, <2>1, <2>2, <2>3, <2>4, <2>5 DEF HandlerStep
  <1>3. ASSUME NEW r \in Refunds, Redeliver(r) PROVE Rest
    BY <1>3 DEF Redeliver
  <1>4. ASSUME LateEvent PROVE Rest
    BY <1>4 DEF LateEvent
  <1>5. CASE UNCHANGED vars
    BY <1>5 DEF vars
  <1>6. CASE Next
    <2>1. orderly' \in BOOLEAN /\ shown' \in BOOLEAN
      BY <1>6 DEF Next
    <2>2. Rest
      <3> HIDE DEF Rest
      <3> QED
        BY <1>6, <1>1, <1>2, <1>3, <1>4 DEF Next, Step
    <2> QED
      BY <2>1, <2>2
  <1> QED
    BY <1>5, <1>6

-----------------------------------------------------------------------------
(* What rows, requests and events refer to *)

LEMMA GroundedInit == Init => Grounded
  BY DEF Init, Grounded, Idle

\* Nothing that was given or recorded is taken back.
Grows ==
    /\ \A r \in Refunds : rows[r] <= rows'[r]
    /\ unnamed <= unnamed'
    /\ \A r \in Refunds : given[r] > 0 => given'[r] = given[r]

LEMMA GroundedStep ==
  ASSUME TypeOK, Grounded, [Next]_vars
  PROVE  Grounded' /\ Grows
  <1> USE DEF TypeOK, Grounded, Grows, money, refund
  <1>0. unnamed \in Int /\ \A r \in Refunds : given[r] \in Nat /\ rows[r] \in Nat
    BY SettlementAssumption
  <1>1. ASSUME NEW p \in Procs, RequestStep(p) PROVE Grounded' /\ Grows
    <2>1. ASSUME NEW t, t.op \notin {"issue", "commit", "paid", "fail"}, Begin(p, t),
                 UNCHANGED <<refund, payout, news, worker>>
          PROVE  Grounded' /\ Grows
      BY <1>0, <2>1 DEF Begin
    <2>2. ASSUME End(p), UNCHANGED <<refund, news, worker>>,
                 \A k \in Payouts : payout[k] # "NONE" => payout'[k] # "NONE"
          PROVE  Grounded' /\ Grows
      BY <1>0, <2>2 DEF End, Idle
    <2>3. ASSUME NEW o \in {"paid", "fail"}, NEW k \in Payouts, payout[k] # "NONE",
                 Begin(p, [Idle EXCEPT !.op = o, !.row = k]),
                 UNCHANGED <<refund, payout, news, worker>>
          PROVE  Grounded' /\ Grows
      BY <1>0, <2>3 DEF Begin, Idle
    <2>5. ASSUME RefundRead(p) PROVE Grounded' /\ Grows
      BY <2>5, <2>1 DEF RefundRead, Idle
    <2>6. ASSUME RefundCheck(p) PROVE Grounded' /\ Grows
      <3>1. PICK a \in 1..Refundable :
              task' = [task EXCEPT ![p] = [Idle EXCEPT !.op = "issue", !.sum = a]]
        BY <2>6 DEF RefundCheck
      <3>2. a > 0
        BY <3>1, TotalType, SettlementAssumption DEF Refundable
      <3> QED
        BY <1>0, <2>6, <3>1, <3>2 DEF RefundCheck, Idle
    <2>7. ASSUME RefundIssue(p) PROVE Grounded' /\ Grows
      <3>1. PICK r \in Refunds :
              /\ given[r] = 0
              /\ given' = [given EXCEPT ![r] = task[p].sum]
              /\ news' = news \union {r}
              /\ task' = [task EXCEPT ![p] = [@ EXCEPT !.op = "commit", !.ref = r]]
        BY <2>7 DEF RefundIssue
      <3>2. task[p].sum > 0 /\ task[p].sum \in 0..Amount
        BY <2>7 DEF RefundIssue, Task
      <3>3. ASSUME NEW q \in Procs, q # p, task[q].op = "commit" PROVE task[q].ref # r
        BY <3>1, <3>3
      <3>4. \A q \in Procs : q # p => task'[q] = task[q]
        BY <3>1
      <3>5. task'[p].op = "commit" /\ task'[p].ref = r /\ task'[p].sum = task[p].sum
        BY <3>1 DEF Task
      <3>6. \A x \in Refunds : given[x] > 0 => given'[x] = given[x]
        BY <3>1
      <3>7. given'[r] > 0 /\ given'[r] = task[p].sum
        BY <3>1, <3>2
      <3>8. \A w \in Workers : worker[w] # Free => worker[w].ref \in Refunds
        BY DEF Job
      <3> QED
        BY <1>0, <2>7, <3>1, <3>2, <3>3, <3>4, <3>5, <3>6, <3>7, <3>8 DEF RefundIssue
    <2>8. ASSUME RefundCommit(p) PROVE Grounded' /\ Grows
      <3> DEFINE r == task[p].ref
      <3>1. r \in Refunds /\ given[r] = task[p].sum /\ given[r] > 0
        BY <2>8 DEF RefundCommit
      <3>2. rows[r] = 0 /\ rows' = [rows EXCEPT ![r] = task[p].sum]
        BY <2>8 DEF RefundCommit
      <3>3. rows'[r] = given[r] /\ \A q \in Refunds : q # r => rows'[q] = rows[q]
        BY <3>1, <3>2
      <3>4. UNCHANGED <<given, unnamed, payout, news, worker>>
        BY <2>8 DEF RefundCommit
      <3>5. \A q \in Procs : task'[q] = IF q = p THEN Idle ELSE task[q]
        BY <2>8 DEF RefundCommit, End
      <3>6. Grows
        BY <1>0, <3>1, <3>2, <3>3, <3>4
      <3> HIDE DEF r
      <3> QED
        BY <1>0, <3>1, <3>3, <3>4, <3>5, <3>6 DEF Idle
    <2>9. ASSUME CompleteRead(p) PROVE Grounded' /\ Grows
      BY <2>9, <2>1 DEF CompleteRead, Idle
    <2>10. ASSUME CompleteWrite(p) PROVE Grounded' /\ Grows
      BY <2>10, <2>2 DEF CompleteWrite
    <2>11. ASSUME PayoutRead(p) PROVE Grounded' /\ Grows
      BY <2>11, <2>1 DEF PayoutRead, Idle
    <2>12. ASSUME PayoutCheck(p) PROVE Grounded' /\ Grows
      BY <1>0, <2>12 DEF PayoutCheck
    <2>13. ASSUME PayoutInsert(p) PROVE Grounded' /\ Grows
      BY <2>13, <2>2 DEF PayoutInsert
    <2>14. ASSUME NEW k \in Payouts, MarkCompletedRead(p, k) PROVE Grounded' /\ Grows
      BY <2>14, <2>3 DEF MarkCompletedRead
    <2>15. ASSUME NEW k \in Payouts, MarkFailedRead(p, k) PROVE Grounded' /\ Grows
      BY <2>15, <2>3 DEF MarkFailedRead, Failable
    <2>16. ASSUME MarkWrite(p) PROVE Grounded' /\ Grows
      BY <2>16, <2>2 DEF MarkWrite
    <2>17. ASSUME Abort(p) PROVE Grounded' /\ Grows
      BY <2>17, <2>2 DEF Abort
    <2> HIDE DEF Grounded, Grows
    <2> QED
      BY <1>1, <2>5, <2>6, <2>7, <2>8, <2>9, <2>10, <2>11, <2>12, <2>13, <2>14, <2>15,
         <2>16, <2>17 DEF RequestStep
  <1>2. ASSUME NEW w \in Workers, HandlerStep(w) PROVE Grounded' /\ Grows
    <2>1. ASSUME HandlerFind(w) PROVE Grounded' /\ Grows
      BY <1>0, <2>1 DEF HandlerFind
    <2>2. ASSUME HandlerCreate(w) PROVE Grounded' /\ Grows
      <3>1. worker[w] \in Job /\ worker[w] # Free
        BY <2>2, JobType DEF HandlerCreate
      <3>2. worker[w].ref \in Refunds /\ given[worker[w].ref] > 0
        BY <3>1 DEF Job
      <3>3. ~ worker[w].named => unnamed = 0
        BY <1>0, <2>2, SettlementAssumption DEF HandlerCreate, Known
      <3>4. worker'[w].ref = worker[w].ref
        BY <2>2, <3>1 DEF HandlerCreate, Job
      <3>5. \A v \in Workers : v # w => worker'[v] = worker[v]
        BY <2>2 DEF HandlerCreate
      <3>6. UNCHANGED <<given, payout, news, task>>
        BY <2>2 DEF HandlerCreate
      <3>7. Grows
        BY <1>0, <2>2, <3>2, <3>3, <3>6 DEF HandlerCreate
      <3>8. \A r \in Refunds : rows'[r] > 0 => given[r] > 0 /\ rows'[r] >= given[r]
        BY <1>0, <2>2, <3>2, SettlementAssumption DEF HandlerCreate
      <3> QED
        BY <3>2, <3>4, <3>5, <3>6, <3>7, <3>8
    <2>3. ASSUME HandlerConflict(w) PROVE Grounded' /\ Grows
      <3>1. worker[w] # Free
        BY <2>3, JobType DEF HandlerConflict
      <3> QED
        BY <1>0, <2>3, <3>1 DEF HandlerConflict
    <2>4. ASSUME HandlerSum(w) PROVE Grounded' /\ Grows
      <3>1. worker[w] # Free /\ worker[w] \in Job
        BY <2>4, JobType DEF HandlerSum
      <3>2. worker'[w] = Free \/ worker'[w].ref = worker[w].ref
        BY <2>4, <3>1 DEF HandlerSum, Job
      <3>3. \A v \in Workers : v # w => worker'[v] = worker[v]
        BY <2>4 DEF HandlerSum
      <3> QED
        BY <1>0, <2>4, <3>1, <3>2, <3>3 DEF HandlerSum
    <2>5. ASSUME HandlerMark(w) PROVE Grounded' /\ Grows
      BY <1>0, <2>5 DEF HandlerMark
    <2> HIDE DEF Grounded, Grows
    <2> QED
      BY <1>2, <2>1, <2>2, <2>3, <2>4, <2>5 DEF HandlerStep
  <1>3. ASSUME NEW r \in Refunds, Redeliver(r) PROVE Grounded' /\ Grows
    BY <1>0, <1>3 DEF Redeliver
  <1>4. ASSUME LateEvent PROVE Grounded' /\ Grows
    BY <1>0, <1>4 DEF LateEvent
  <1>5. CASE UNCHANGED vars
    BY <1>0, <1>5 DEF vars
  <1> HIDE DEF Grounded, Grows
  <1> QED
    BY <1>1, <1>2, <1>3, <1>4, <1>5 DEF Next, Step

-----------------------------------------------------------------------------
(* What is called refunded is covered *)

\* A refund of the whole amount covers it.
LEMMA WholeCovers ==
  ASSUME TypeOK, NEW r \in Refunds, given[r] = Amount
  PROVE  Total >= Amount
  <1> DEFINE g == [given EXCEPT ![r] = 0]
  <1>1. 0 \in 0..Amount /\ Amount \in 0..Amount
    BY SettlementAssumption
  <1>2. g \in [Refunds -> 0..Amount] /\ g[r] = 0 /\ [g EXCEPT ![r] = Amount] = given
    BY <1>1 DEF TypeOK
  <1>3. Cardinality(Units([g EXCEPT ![r] = Amount], Refunds)) = Cardinality(Units(g, Refunds)) + Amount
    <2> HIDE DEF g
    <2> QED
      BY <1>1, <1>2, UnitsAdd
  <1>4. Cardinality(Units(g, Refunds)) \in Nat
    BY UnitsFinite
  <1>5. Cardinality(Units(given, Refunds)) = Cardinality(Units(g, Refunds)) + Amount
    BY <1>2, <1>3
  <1> HIDE DEF g
  <1> QED
    BY <1>4, <1>5, SettlementAssumption DEF Total

LEMMA TotalGrows ==
  ASSUME TypeOK, TypeOK', Grounded, Grows
  PROVE  /\ Total <= Total' /\ Recorded <= Recorded'
         /\ Total' \in Nat /\ Recorded' \in Nat
         /\ unnamed' \in Nat
  <1>1. \A r \in Refunds : given[r] > 0 => given[r] <= given'[r]
    BY SettlementAssumption DEF TypeOK, Grows
  <1>2. Cardinality(Units(given, Refunds)) <= Cardinality(Units(given', Refunds))
    BY <1>1, UnitsGrow DEF TypeOK
  <1>3. Cardinality(Units(rows, Refunds)) <= Cardinality(Units(rows', Refunds))
    BY UnitsGrow DEF TypeOK, Grows
  <1>4. /\ Cardinality(Units(given', Refunds)) \in Nat
        /\ Cardinality(Units(rows, Refunds)) \in Nat
        /\ Cardinality(Units(rows', Refunds)) \in Nat
    BY UnitsFinite
  <1>5. unnamed \in Nat /\ unnamed' \in Nat
    BY SettlementAssumption DEF TypeOK
  <1> QED
    BY <1>2, <1>3, <1>4, <1>5 DEF Total, Recorded, Grows

\* Once a row says more than its refund gave, it does for good.
LEMMA OverstatedStays ==
  ASSUME TypeOK, TypeOK', Grounded, Grows, Overstated
  PROVE  Overstated'
  <1>1. unnamed \in Nat /\ unnamed' \in Nat
    BY SettlementAssumption DEF TypeOK
  <1>2. CASE unnamed > 0
    BY <1>1, <1>2 DEF Grows, Overstated
  <1>3. CASE \E r \in Refunds : rows[r] > given[r]
    <2>1. PICK r \in Refunds : rows[r] > given[r]
      BY <1>3
    <2>2. rows[r] \in Nat /\ given[r] \in Nat /\ rows'[r] \in Nat
      BY SettlementAssumption DEF TypeOK
    <2>3. given[r] > 0
      BY <2>1, <2>2 DEF Grounded
    <2>4. given'[r] = given[r] /\ rows[r] <= rows'[r]
      BY <2>3 DEF Grows
    <2> QED
      BY <2>1, <2>2, <2>4 DEF Overstated
  <1> QED
    BY <1>2, <1>3 DEF Overstated

\* What covers the payment.
Covered == Total >= Amount \/ Overstated

\* A worker about to mark has summed enough, and what is marked is covered.
CoverSound ==
    /\ \A w \in Workers : worker[w].at = "mark" => CoversAll
    /\ RefundedIsCovered

LEMMA CoverInit == Init => CoverSound
  BY DEF Init, CoverSound, RefundedIsCovered, Free

LEMMA CoverStep ==
  ASSUME TypeOK, TypeOK', Grounded, CoverSound, [Next]_vars
  PROVE  CoverSound'
  <1>1. Grounded' /\ Grows
    BY GroundedStep
  <1>2. (CoversAll => CoversAll') /\ (Covered => Covered')
    <2>1. Total \in Nat /\ Recorded \in Nat
      BY TotalType
    <2>2. /\ Total <= Total' /\ Total' \in Nat
          /\ Recorded <= Recorded' /\ Recorded' \in Nat
      BY <1>1, TotalGrows
    <2>3. CoversAll => CoversAll'
      BY <2>1, <2>2, SettlementAssumption DEF CoversAll
    <2>4. Total >= Amount => Total' >= Amount
      BY <2>1, <2>2, SettlementAssumption
    <2> QED
      BY <1>1, <2>3, <2>4, OverstatedStays DEF Covered
  <1>3. CoversAll => Covered
    <2> SUFFICES ASSUME CoversAll, ~ Overstated PROVE Total >= Amount
      BY DEF Covered
    <2>1. \A r \in Refunds : rows[r] \in Nat /\ given[r] \in Nat
      BY SettlementAssumption DEF TypeOK
    <2>2. \A r \in Refunds : rows[r] <= given[r]
      BY <2>1 DEF Overstated
    <2>3. Cardinality(Units(rows, Refunds)) <= Cardinality(Units(given, Refunds))
      BY <2>2, UnitsGrow DEF TypeOK
    <2>4. /\ Cardinality(Units(rows, Refunds)) \in Nat
          /\ Cardinality(Units(given, Refunds)) \in Nat
      BY UnitsFinite
    <2>5. unnamed = 0
      BY TotalType DEF Overstated
    <2> QED
      BY <2>3, <2>4, <2>5, SettlementAssumption DEF CoversAll, Recorded, Total
  <1>4. ASSUME \A w \in Workers : worker'[w] = worker[w] \/ worker'[w].at # "mark",
               pay' = pay \/ pay' # "REFUNDED", status' = status \/ status' # "REFUNDED"
        PROVE  CoverSound'
    BY <1>2, <1>4 DEF CoverSound, RefundedIsCovered, Covered
  <1>5. ASSUME NEW p \in Procs, RequestStep(p) PROVE CoverSound'
    <2>1. CASE RefundCommit(p) /\ task[p].sum = Amount
      <3>1. task[p].ref \in Refunds /\ given[task[p].ref] = Amount
        BY <2>1 DEF RefundCommit, Grounded
      <3>2. Covered
        BY <3>1, WholeCovers DEF Covered
      <3> QED
        BY <1>2, <2>1, <3>2 DEF CoverSound, RefundedIsCovered, RefundCommit, Covered
    <2>2. CASE RefundCommit(p) /\ task[p].sum # Amount
      BY <1>4, <2>2 DEF RefundCommit, money
    <2>3. ASSUME UNCHANGED worker, UNCHANGED pay, status' = status \/ status' = "COMPLETED"
          PROVE  CoverSound'
      BY <1>4, <2>3
    <2> QED
      BY <1>5, <2>1, <2>2, <2>3
      DEF RequestStep, RefundRead, RefundCheck, RefundIssue, CompleteRead, CompleteWrite,
          PayoutRead, PayoutCheck, PayoutInsert, MarkCompletedRead, MarkFailedRead, MarkWrite,
          Abort, money
  <1>6. ASSUME NEW w \in Workers, HandlerStep(w) PROVE CoverSound'
    <2>1. ASSUME HandlerFind(w) \/ HandlerCreate(w) \/ HandlerConflict(w) PROVE CoverSound'
      <3>1. worker'[w].at # "mark"
        <4>1. CASE HandlerFind(w)
          BY <4>1 DEF HandlerFind, TypeOK
        <4>2. CASE HandlerCreate(w)
          <5>1. worker[w] \in Job
            BY <4>2, JobType DEF HandlerCreate
          <5> QED
            BY <4>2, <5>1 DEF HandlerCreate, TypeOK, Job
        <4>3. CASE HandlerConflict(w)
          BY <4>3 DEF HandlerConflict, TypeOK, Free
        <4> QED
          BY <2>1, <4>1, <4>2, <4>3
      <3>2. \A v \in Workers : v # w => worker'[v] = worker[v]
        BY <2>1 DEF HandlerFind, HandlerCreate, HandlerConflict, TypeOK
      <3> QED
        BY <1>4, <2>1, <3>1, <3>2 DEF HandlerFind, HandlerCreate, HandlerConflict, money
    <2>2. ASSUME HandlerSum(w) PROVE CoverSound'
      <3>1. worker'[w].at = "mark" => CoversAll
        BY <2>2 DEF HandlerSum, TypeOK, Free
      <3>2. \A v \in Workers : v # w => worker'[v] = worker[v]
        BY <2>2 DEF HandlerSum, TypeOK
      <3> QED
        BY <1>2, <2>2, <3>1, <3>2 DEF HandlerSum, CoverSound, RefundedIsCovered, Covered, money
    <2>3. ASSUME HandlerMark(w) PROVE CoverSound'
      <3>1. Covered
        BY <1>3, <2>3 DEF HandlerMark, CoverSound
      <3>2. \A v \in Workers : worker'[v] = worker[v] \/ worker'[v].at # "mark"
        BY <2>3 DEF HandlerMark, TypeOK, Free
      <3> QED
        BY <1>2, <3>1, <3>2 DEF CoverSound, RefundedIsCovered, Covered
    <2> QED
      BY <1>6, <2>1, <2>2, <2>3 DEF HandlerStep
  <1>7. ASSUME NEW r \in Refunds, Redeliver(r) PROVE CoverSound'
    BY <1>4, <1>7 DEF Redeliver, money
  <1>8. ASSUME LateEvent PROVE CoverSound'
    BY <1>4, <1>8 DEF LateEvent
  <1>9. CASE UNCHANGED vars
    BY <1>4, <1>9 DEF vars
  <1> QED
    BY <1>5, <1>6, <1>7, <1>8, <1>9 DEF Next, Step

-----------------------------------------------------------------------------
(* Requests that do not disturb each other *)

\* No two payouts were made.
AtMostOne == \A k, l \in Made : k = l

\* While requests have not disturbed each other: they do not now, the money given
\* back and the money a request is about to give fit the payment, and a request
\* about to write a payout still sees what it has checked.
OrderlySound ==
    orderly =>
      /\ Calm
      /\ Total <= Amount
      /\ AtMostOne
      /\ \A p \in Procs :
          /\ task[p].op = "issue" => Total + task[p].sum <= Amount
          /\ task[p].op = "insert" => NoPayoutYet
          /\ task[p].op = "fail" => payout[task[p].row] # "PAID"

LEMMA OrderlyInit == Init => OrderlySound
  <1> SUFFICES ASSUME Init PROVE OrderlySound
    OBVIOUS
  <1>1. TypeOK
    BY TypeInit
  <1>2. Units(given, Refunds) = {}
    BY SettlementAssumption DEF Init, Units
  <1>3. Total = 0
    BY <1>2, FS_EmptySet DEF Total
  <1> QED
    BY <1>3, SettlementAssumption DEF Init, OrderlySound, Calm, Busy, Idle, AtMostOne, Made

\* The request that takes a step is alone, before it and after it.
LEMMA Alone ==
  ASSUME TypeOK, Calm, Calm', NEW p \in Procs, RequestStep(p), NEW q \in Procs, q # p
  PROVE  task'[q].op = "idle"
  <1>1. task'[q] = task[q]
    BY DEF RequestStep, RefundRead, RefundCheck, RefundIssue, RefundCommit, CompleteRead,
           CompleteWrite, PayoutRead, PayoutCheck, PayoutInsert, MarkCompletedRead,
           MarkFailedRead, MarkWrite, Abort, Begin, End, TypeOK
  <1>2. p \in Busy \/ p \in Busy'
    BY DEF RequestStep, RefundRead, RefundCheck, RefundIssue, RefundCommit, CompleteRead,
           CompleteWrite, PayoutRead, PayoutCheck, PayoutInsert, MarkCompletedRead,
           MarkFailedRead, MarkWrite, Abort, Begin, End, TypeOK, Busy, Idle
  <1>3. ASSUME p \in Busy PROVE task[q].op = "idle"
    BY <1>3 DEF Calm, Busy
  <1>4. ASSUME p \in Busy' PROVE task'[q].op = "idle"
    BY <1>4 DEF Calm, Busy
  <1> QED
    BY <1>1, <1>2, <1>3, <1>4

LEMMA OrderlyStep ==
  ASSUME TypeOK, TypeOK', Grounded, OrderlySound, [Next]_vars
  PROVE  OrderlySound'
  <1> SUFFICES ASSUME orderly' PROVE OrderlySound'
    BY DEF OrderlySound
  <1>1. orderly /\ Calm /\ Calm'
    BY DEF Next, vars, OrderlySound, Calm, Busy
  <1>2. Total \in Nat /\ Total' \in Nat
    <2>1. Total' = Cardinality(Units(given', Refunds))
      BY DEF Total
    <2> QED
      BY <2>1, UnitsFinite DEF Total
  <1>3. given' = given => Total' = Total
    BY DEF Total
  <1>4. ASSUME UNCHANGED <<given, payout, task>> PROVE OrderlySound'
    BY <1>1, <1>3, <1>4 DEF OrderlySound, AtMostOne, Made, NoPayoutYet
  <1>5. ASSUME NEW p \in Procs, RequestStep(p) PROVE OrderlySound'
    <2>1. \A q \in Procs : q # p => task'[q].op = "idle"
      BY <1>1, <1>5, Alone
    <2>2. ASSUME UNCHANGED <<given, payout>>, task'[p].op \notin {"issue", "insert", "fail"}
          PROVE  OrderlySound'
      BY <1>1, <1>3, <2>1, <2>2 DEF OrderlySound, AtMostOne, Made
    <2>3. ASSUME End(p) PROVE task'[p].op = "idle"
      BY <2>3 DEF End, Idle, TypeOK
    <2>4. ASSUME NEW t, Begin(p, t) PROVE task'[p] = t
      BY <2>4 DEF Begin, TypeOK
    <2>5. ASSUME RefundRead(p) PROVE OrderlySound'
      BY <2>5, <2>2, <2>4 DEF RefundRead, Idle, refund
    <2>6. ASSUME RefundCheck(p) PROVE OrderlySound'
      <3>1. PICK a \in 1..Refundable :
              task' = [task EXCEPT ![p] = [Idle EXCEPT !.op = "issue", !.sum = a]]
        BY <2>6 DEF RefundCheck
      <3>2. task'[p].op = "issue" /\ task'[p].sum = a
        BY <3>1 DEF TypeOK, Idle
      <3>3. \A r \in Refunds : given[r] > 0 => rows[r] > 0
        BY <1>1, <2>6, SettlementAssumption DEF Calm, Busy, RefundCheck, refund, Idle, TypeOK, Task
      <3>4. Total <= Recorded
        <4>1. \A r \in Refunds : given[r] > 0 => given[r] <= rows[r]
          BY <3>3 DEF Grounded
        <4>2. Cardinality(Units(given, Refunds)) <= Cardinality(Units(rows, Refunds))
          BY <4>1, UnitsGrow DEF TypeOK
        <4>3. /\ Cardinality(Units(given, Refunds)) \in Nat
              /\ Cardinality(Units(rows, Refunds)) \in Nat
          BY UnitsFinite
        <4> QED
          BY <4>2, <4>3, TotalType DEF Total, Recorded
      <3>5. Total + a <= Amount
        <4>2. a \in Int /\ a <= Amount - Recorded
          BY <3>1, TotalType, SettlementAssumption DEF Refundable
        <4> QED
          BY <1>2, <3>4, <4>2, TotalType, SettlementAssumption
      <3>6. UNCHANGED <<given, payout>>
        BY <2>6 DEF RefundCheck, refund
      <3> QED
        BY <1>1, <1>3, <2>1, <3>2, <3>5, <3>6 DEF OrderlySound, AtMostOne, Made
    <2>7. ASSUME RefundIssue(p) PROVE OrderlySound'
      <3>1. PICK r \in Refunds :
              /\ given[r] = 0
              /\ given' = [given EXCEPT ![r] = task[p].sum]
              /\ task' = [task EXCEPT ![p] = [@ EXCEPT !.op = "commit", !.ref = r]]
        BY <2>7 DEF RefundIssue
      <3>2. task[p].sum \in 0..Amount
        BY DEF TypeOK, Task
      <3>3. Total' = Total + task[p].sum
        BY <3>1, <3>2, UnitsAdd DEF Total, TypeOK
      <3>4. Total' <= Amount
        BY <1>1, <2>7, <3>3 DEF OrderlySound, RefundIssue
      <3>5. task'[p].op = "commit"
        BY <3>1 DEF TypeOK, Task
      <3>6. UNCHANGED payout
        BY <2>7 DEF RefundIssue
      <3> QED
        BY <1>1, <2>1, <3>4, <3>5, <3>6 DEF OrderlySound, AtMostOne, Made
    <2>8. ASSUME RefundCommit(p) PROVE OrderlySound'
      BY <2>8, <2>2, <2>3 DEF RefundCommit
    <2>9. ASSUME CompleteRead(p) PROVE OrderlySound'
      BY <2>9, <2>2, <2>4 DEF CompleteRead, Idle, refund
    <2>10. ASSUME CompleteWrite(p) PROVE OrderlySound'
      BY <2>10, <2>2, <2>3 DEF CompleteWrite, refund
    <2>11. ASSUME PayoutRead(p) PROVE OrderlySound'
      BY <2>11, <2>2, <2>4 DEF PayoutRead, Idle, refund
    <2>12. ASSUME PayoutCheck(p) PROVE OrderlySound'
      <3>1. task'[p].op = "insert" /\ NoPayoutYet /\ UNCHANGED <<given, payout>>
        BY <2>12 DEF PayoutCheck, TypeOK, Task, refund
      <3> QED
        BY <1>1, <1>3, <2>1, <3>1 DEF OrderlySound, AtMostOne, Made, NoPayoutYet
    <2>13. ASSUME PayoutInsert(p) PROVE OrderlySound'
      <3>1. NoPayoutYet
        BY <1>1, <2>13 DEF OrderlySound, PayoutInsert
      <3>2. PICK k \in Payouts : payout' = [payout EXCEPT ![k] = "PENDING"]
        BY <2>13 DEF PayoutInsert
      <3>3. AtMostOne'
        BY <3>1, <3>2 DEF NoPayoutYet, AtMostOne, Made, TypeOK
      <3>4. task'[p].op = "idle" /\ UNCHANGED given
        BY <2>3, <2>13 DEF PayoutInsert, refund
      <3> QED
        BY <1>1, <1>3, <2>1, <3>3, <3>4 DEF OrderlySound
    <2>14. ASSUME NEW k \in Payouts, MarkCompletedRead(p, k) PROVE OrderlySound'
      BY <2>14, <2>2, <2>4 DEF MarkCompletedRead, Idle, refund
    <2>15. ASSUME NEW k \in Payouts, MarkFailedRead(p, k) PROVE OrderlySound'
      <3>1. task'[p].op = "fail" /\ task'[p].row = k
        BY <2>15, <2>4 DEF MarkFailedRead, Idle
      <3>2. payout[k] # "PAID" /\ UNCHANGED <<given, payout>>
        BY <2>15 DEF MarkFailedRead, Failable, refund
      <3> QED
        BY <1>1, <1>3, <2>1, <3>1, <3>2 DEF OrderlySound, AtMostOne, Made
    <2>16. ASSUME MarkWrite(p) PROVE OrderlySound'
      <3>1. task[p].row \in Payouts
        BY <2>16 DEF MarkWrite, Grounded
      <3>2. payout[task[p].row] # "NONE"
        BY <2>16 DEF MarkWrite, Grounded
      <3>3. \A k \in Payouts : payout'[k] # "NONE" <=> payout[k] # "NONE"
        BY <2>16, <3>1, <3>2 DEF MarkWrite, TypeOK
      <3>4. AtMostOne'
        BY <1>1, <3>3 DEF OrderlySound, AtMostOne, Made
      <3>5. task'[p].op = "idle" /\ UNCHANGED given
        BY <2>3, <2>16 DEF MarkWrite, refund
      <3> QED
        BY <1>1, <1>3, <2>1, <3>4, <3>5 DEF OrderlySound
    <2>17. ASSUME Abort(p) PROVE OrderlySound'
      BY <2>17, <2>2, <2>3 DEF Abort, refund
    <2> QED
      BY <1>5, <2>5, <2>6, <2>7, <2>8, <2>9, <2>10, <2>11, <2>12, <2>13, <2>14, <2>15,
         <2>16, <2>17 DEF RequestStep
  <1>6. ASSUME NEW w \in Workers, HandlerStep(w) PROVE OrderlySound'
    BY <1>4, <1>6 DEF HandlerStep, HandlerFind, HandlerCreate, HandlerConflict, HandlerSum,
                      HandlerMark, refund
  <1>7. ASSUME NEW r \in Refunds, Redeliver(r) PROVE OrderlySound'
    BY <1>4, <1>7 DEF Redeliver, refund
  <1>8. ASSUME LateEvent PROVE OrderlySound'
    BY <1>4, <1>8 DEF LateEvent, refund
  <1>9. CASE UNCHANGED vars
    BY <1>4, <1>9 DEF vars
  <1> QED
    BY <1>5, <1>6, <1>7, <1>8, <1>9 DEF Next, Step

-----------------------------------------------------------------------------
(* A full refund is noticed *)

\* A worker that sums the rows has made sure of its own.
OwnRow(w) ==
    worker[w].at \in {"sum", "mark"} => Known(worker[w].ref, worker[w].named)

\* What FullRefundShown says while every event named its refund.
NamedShown ==
    /\ Total >= Amount
    /\ news = {} /\ \A w \in Workers : worker[w] = Free
    /\ unnamed = 0
    => shown

\* ... and every refund is on the way, in a worker's hands or recorded.
ShownSound ==
    /\ unnamed = 0 =>
         \A r \in Refunds : given[r] > 0 =>
           \/ r \in news \/ rows[r] > 0
           \/ \E w \in Workers : worker[w] # Free /\ worker[w].ref = r
    /\ \A w \in Workers : OwnRow(w)
    /\ NamedShown

LEMMA ShownInit == Init => ShownSound
  <1> SUFFICES ASSUME Init PROVE ShownSound
    OBVIOUS
  <1>1. Units(given, Refunds) = {}
    BY SettlementAssumption DEF Init, Units
  <1>2. Total = 0
    BY <1>1, FS_EmptySet DEF Total
  <1> QED
    BY <1>2, SettlementAssumption DEF Init, ShownSound, OwnRow, NamedShown, Free

LEMMA ShownStep ==
  ASSUME TypeOK, TypeOK', Grounded, ShownSound, [Next]_vars
  PROVE  ShownSound'
  <1>1. Grounded' /\ Grows
    BY GroundedStep
  <1>2. unnamed \in Nat /\ unnamed' \in Nat /\ unnamed <= unnamed'
    BY <1>1, TotalType, TotalGrows DEF Grows
  <1>3. given' = given => Total' = Total
    BY DEF Total
  <1>13. \A r \in Refunds : rows[r] > 0 => rows'[r] > 0
    <2>1. \A r \in Refunds : rows[r] \in Nat /\ rows'[r] \in Nat
      BY SettlementAssumption DEF TypeOK
    <2> QED
      BY <1>1, <2>1 DEF Grows
  <1>4. shown => shown'
    BY DEF Next, vars
  <1>5. ASSUME NEW r \in Refunds, NEW named \in BOOLEAN, Known(r, named) PROVE Known(r, named)'
    BY <1>1, <1>2, <1>5, <1>13 DEF Known, Grows
  <1>6. \A w \in Workers : worker[w].at \in {"sum", "mark"} =>
           worker[w].named \in BOOLEAN /\ worker[w].ref \in Refunds
    BY JobType DEF Job
  <1>7. ASSUME UNCHANGED <<given, news, worker>> PROVE ShownSound'
    <2>1. NamedShown'
      BY <1>2, <1>3, <1>4, <1>7, SettlementAssumption DEF ShownSound, NamedShown
    <2>2. \A w \in Workers : OwnRow(w)'
      BY <1>5, <1>6, <1>7 DEF ShownSound, OwnRow
    <2>3. unnamed' = 0 =>
            \A r \in Refunds : given'[r] > 0 =>
              \/ r \in news' \/ rows'[r] > 0
              \/ \E w \in Workers : worker'[w] # Free /\ worker'[w].ref = r
      BY <1>1, <1>2, <1>7, <1>13 DEF ShownSound, Grows
    <2> QED
      BY <2>1, <2>2, <2>3 DEF ShownSound
  <1>8. ASSUME NEW p \in Procs, RequestStep(p) PROVE ShownSound'
    <2>1. CASE RefundIssue(p)
      <3>1. PICK r \in Refunds :
              /\ given' = [given EXCEPT ![r] = task[p].sum]
              /\ news' = news \union {r}
        BY <2>1 DEF RefundIssue
      <3>2. UNCHANGED <<rows, unnamed, worker>>
        BY <2>1 DEF RefundIssue
      <3> QED
        BY <3>1, <3>2 DEF ShownSound, OwnRow, NamedShown, Known, TypeOK
    <2>2. CASE ~ RefundIssue(p)
      BY <1>7, <1>8, <2>2
      DEF RequestStep, RefundRead, RefundCheck, RefundCommit, CompleteRead, CompleteWrite,
          PayoutRead, PayoutCheck, PayoutInsert, MarkCompletedRead, MarkFailedRead, MarkWrite,
          Abort, refund
    <2> QED
      BY <2>1, <2>2
  <1>9. ASSUME NEW w \in Workers, HandlerStep(w) PROVE ShownSound'
    <2>1. \A v \in Workers : v # w => worker'[v] = worker[v]
      BY <1>9 DEF HandlerStep, HandlerFind, HandlerCreate, HandlerConflict, HandlerSum,
                  HandlerMark, TypeOK
    <2>2. given' = given
      BY <1>9 DEF HandlerStep, HandlerFind, HandlerCreate, HandlerConflict, HandlerSum,
                  HandlerMark, refund
    <2> DEFINE Kept == unnamed' = 0 =>
                         \A r \in Refunds : given'[r] > 0 =>
                           \/ r \in news' \/ rows'[r] > 0
                           \/ \E v \in Workers : worker'[v] # Free /\ worker'[v].ref = r
    <2>3. ASSUME Kept, OwnRow(w)', NamedShown' PROVE ShownSound'
      <3>1. ASSUME NEW v \in Workers, v # w PROVE OwnRow(v)'
        BY <1>5, <1>6, <2>1, <3>1 DEF ShownSound, OwnRow
      <3> QED
        BY <2>3, <3>1 DEF ShownSound
    <2>4. ASSUME HandlerFind(w) PROVE ShownSound'
      <3>1. PICK r \in news, named \in BOOLEAN :
              /\ worker' = [worker EXCEPT ![w] =
                   [at |-> IF Known(r, named) THEN "sum" ELSE "create", ref |-> r, named |-> named]]
              /\ news' = news \ {r}
        BY <2>4 DEF HandlerFind
      <3>2. UNCHANGED <<rows, unnamed>> /\ worker[w] = Free
        BY <2>4 DEF HandlerFind, refund
      <3>3. /\ worker'[w].at = IF Known(r, named) THEN "sum" ELSE "create"
            /\ worker'[w].ref = r /\ worker'[w].named = named /\ worker'[w] # Free
        BY <3>1 DEF TypeOK, Free
      <3>0. r \in Refunds
        BY DEF TypeOK
      <3>4. OwnRow(w)'
        BY <1>5, <3>0, <3>3 DEF OwnRow
      <3>5. Kept
        BY <2>1, <2>2, <3>1, <3>2, <3>3 DEF ShownSound
      <3>6. NamedShown'
        BY <3>3 DEF NamedShown
      <3> QED
        BY <2>3, <3>4, <3>5, <3>6
    <2>5. ASSUME HandlerCreate(w) PROVE ShownSound'
      <3>1. worker[w] \in Job /\ worker[w] # Free
        BY <2>5, JobType DEF HandlerCreate
      <3>2. /\ worker'[w].at = "sum" /\ worker'[w].ref = worker[w].ref
            /\ worker'[w].named = worker[w].named /\ worker'[w] # Free
        BY <2>5, <3>1 DEF HandlerCreate, Job, Free, TypeOK
      <3>4. OwnRow(w)'
        BY <2>5, <3>1, <3>2, SettlementAssumption DEF HandlerCreate, Known, OwnRow, Job, TypeOK
      <3>5. Kept
        BY <1>2, <1>13, <2>1, <2>2, <2>5, <3>1, <3>2 DEF ShownSound, HandlerCreate
      <3>6. NamedShown'
        BY <3>2 DEF NamedShown
      <3> QED
        BY <2>3, <3>4, <3>5, <3>6
    <2>6. ASSUME HandlerConflict(w) PROVE ShownSound'
      <3>1. news' = news \union {worker[w].ref} /\ worker'[w] = Free /\ UNCHANGED <<rows, unnamed>>
        BY <2>6 DEF HandlerConflict, TypeOK, refund
      <3>2. OwnRow(w)'
        BY <3>1 DEF Free, OwnRow
      <3>3. Kept
        BY <2>1, <2>2, <3>1 DEF ShownSound
      <3>4. NamedShown'
        BY <3>1 DEF NamedShown
      <3> QED
        BY <2>3, <3>2, <3>3, <3>4
    <2>7. ASSUME worker[w].at \in {"sum", "mark"}, worker'[w] = Free, UNCHANGED <<news, rows, unnamed>>
          PROVE  Kept /\ OwnRow(w)'
      <3>1. Known(worker[w].ref, worker[w].named) /\ worker[w].named \in BOOLEAN
        BY <1>6, <2>7 DEF ShownSound, OwnRow
      <3>2. unnamed = 0 => rows[worker[w].ref] > 0
        BY <3>1 DEF Known
      <3> QED
        BY <2>1, <2>2, <2>7, <3>2 DEF ShownSound, OwnRow, Free
    <2>8. ASSUME HandlerSum(w) PROVE ShownSound'
      <3>1. worker[w] \in Job /\ worker[w].at = "sum" /\ UNCHANGED <<news, rows, unnamed>>
        BY <2>8, JobType DEF HandlerSum, refund
      <3>2. CASE CoversAll
        <4>1. /\ worker'[w].at = "mark" /\ worker'[w].ref = worker[w].ref
              /\ worker'[w].named = worker[w].named /\ worker'[w] # Free
          BY <2>8, <3>1, <3>2 DEF HandlerSum, Job, Free, TypeOK
        <4>2. OwnRow(w)'
          BY <1>5, <1>6, <3>1, <4>1 DEF ShownSound, OwnRow
        <4>3. Kept
          BY <2>1, <2>2, <3>1, <4>1 DEF ShownSound
        <4>4. NamedShown'
          BY <4>1 DEF NamedShown
        <4> QED
          BY <2>3, <4>2, <4>3, <4>4
      <3>3. CASE ~ CoversAll
        <4>1. worker'[w] = Free
          BY <2>8, <3>3 DEF HandlerSum, TypeOK
        <4>2. Kept /\ OwnRow(w)'
          BY <2>7, <3>1, <4>1
        <4>3. ASSUME news' = {}, \A v \in Workers : worker'[v] = Free, unnamed' = 0
              PROVE  Total' < Amount
          <5>1. \A r \in Refunds : given[r] > 0 => rows[r] > 0
            BY <2>2, <3>1, <4>2, <4>3
          <5>2. \A r \in Refunds : given[r] > 0 => given[r] <= rows[r]
            BY <5>1 DEF Grounded
          <5>3. Cardinality(Units(given, Refunds)) <= Cardinality(Units(rows, Refunds))
            BY <5>2, UnitsGrow DEF TypeOK
          <5>4. Total \in Nat /\ Recorded \in Nat /\ unnamed = 0
            BY <3>1, <4>3, TotalType
          <5>5. Cardinality(Units(rows, Refunds)) \in Nat
            BY UnitsFinite
          <5>6. Total <= Recorded /\ ~ (Recorded >= Amount)
            BY <3>3, <5>3, <5>4, <5>5 DEF CoversAll, Recorded, Total
          <5> QED
            BY <1>3, <2>2, <5>4, <5>6, SettlementAssumption
        <4>4. NamedShown'
          <5>1. Total' \in Nat
            BY <1>3, <2>2, TotalType
          <5> QED
            BY <4>3, <5>1, SettlementAssumption DEF NamedShown
        <4> HIDE DEF Kept
        <4> QED
          BY <2>3, <4>2, <4>4
      <3> QED
        BY <3>2, <3>3
    <2>9. ASSUME HandlerMark(w) PROVE ShownSound'
      <3>1. worker[w].at = "mark" /\ worker'[w] = Free /\ UNCHANGED <<news, rows, unnamed>>
        BY <2>9 DEF HandlerMark, TypeOK, refund
      <3>2. Kept /\ OwnRow(w)'
        BY <2>7, <3>1
      <3>3. shown'
        <4>1. worker' # worker
          BY <3>1 DEF Free
        <4> QED
          BY <2>9, <4>1, <3>1 DEF Next, vars, HandlerMark, Free
      <3> HIDE DEF Kept
      <3> QED
        BY <2>3, <3>2, <3>3 DEF NamedShown
    <2> HIDE DEF Kept
    <2> QED
      BY <1>9, <2>4, <2>5, <2>6, <2>8, <2>9 DEF HandlerStep
  <1>10. ASSUME NEW r \in Refunds, Redeliver(r) PROVE ShownSound'
    BY <1>10 DEF Redeliver, ShownSound, OwnRow, NamedShown, Known, refund
  <1>11. ASSUME LateEvent PROVE ShownSound'
    BY <1>7, <1>11 DEF LateEvent, refund
  <1>12. CASE UNCHANGED vars
    BY <1>7, <1>12 DEF vars
  <1> QED
    BY <1>8, <1>9, <1>10, <1>11, <1>12 DEF Next, Step

\* A row under the payment's own id is of the whole payment, and the worker that
\* made it goes on to mark the payment.
UnnamedSound ==
    /\ unnamed \in {0, Amount}
    /\ unnamed > 0 => shown \/ \E w \in Workers : worker[w].at \in {"sum", "mark"}

LEMMA UnnamedInit == Init => UnnamedSound
  BY DEF Init, UnnamedSound

LEMMA UnnamedStep ==
  ASSUME TypeOK, TypeOK', Grounded, UnnamedSound, [Next]_vars
  PROVE  UnnamedSound'
  <1>1. shown => shown'
    BY DEF Next, vars
  <1>2. ASSUME UNCHANGED <<unnamed, worker>> PROVE UnnamedSound'
    BY <1>1, <1>2 DEF UnnamedSound
  <1>3. ASSUME NEW p \in Procs, RequestStep(p) PROVE UnnamedSound'
    BY <1>2, <1>3
    DEF RequestStep, RefundRead, RefundCheck, RefundIssue, RefundCommit, CompleteRead,
        CompleteWrite, PayoutRead, PayoutCheck, PayoutInsert, MarkCompletedRead, MarkFailedRead,
        MarkWrite, Abort, refund
  <1>4. ASSUME NEW w \in Workers, HandlerStep(w) PROVE UnnamedSound'
    <2>1. \A v \in Workers : v # w => worker'[v] = worker[v]
      BY <1>4 DEF HandlerStep, HandlerFind, HandlerCreate, HandlerConflict, HandlerSum,
                  HandlerMark, TypeOK
    <2>2. ASSUME worker[w].at \notin {"sum", "mark"}, UNCHANGED unnamed PROVE UnnamedSound'
      BY <1>1, <2>1, <2>2 DEF UnnamedSound
    <2>3. CASE HandlerFind(w)
      BY <2>2, <2>3 DEF HandlerFind, Free, refund
    <2>4. CASE HandlerCreate(w)
      <3>1. worker[w] \in Job
        BY <2>4, JobType DEF HandlerCreate
      <3>2. worker'[w].at = "sum"
        BY <2>4, <3>1 DEF HandlerCreate, Job, TypeOK
      <3>3. unnamed' \in {unnamed, Amount}
        BY <2>4 DEF HandlerCreate
      <3> QED
        BY <3>2, <3>3 DEF UnnamedSound
    <2>5. CASE HandlerConflict(w)
      BY <2>2, <2>5 DEF HandlerConflict, refund
    <2>6. CASE HandlerSum(w)
      <3>1. worker[w] \in Job /\ UNCHANGED unnamed
        BY <2>6, JobType DEF HandlerSum, refund
      <3>2. CASE CoversAll
        <4>1. worker'[w].at = "mark"
          BY <2>6, <3>1, <3>2 DEF HandlerSum, Job, TypeOK
        <4> QED
          BY <3>1, <4>1 DEF UnnamedSound
      <3>3. CASE ~ CoversAll
        <4>1. Cardinality(Units(rows, Refunds)) \in Nat
          BY UnitsFinite
        <4>2. unnamed = 0
          BY <3>3, <4>1, SettlementAssumption DEF UnnamedSound, CoversAll, Recorded
        <4> QED
          BY <3>1, <4>2 DEF UnnamedSound
      <3> QED
        BY <3>2, <3>3
    <2>7. CASE HandlerMark(w)
      <3>1. shown' /\ UNCHANGED unnamed
        <4>1. worker' # worker
          BY <2>7 DEF HandlerMark, Free, TypeOK
        <4> QED
          BY <2>7, <4>1 DEF Next, vars, HandlerMark, refund
      <3> QED
        BY <3>1 DEF UnnamedSound
    <2> QED
      BY <1>4, <2>3, <2>4, <2>5, <2>6, <2>7 DEF HandlerStep
  <1>5. ASSUME NEW r \in Refunds, Redeliver(r) PROVE UnnamedSound'
    BY <1>2, <1>5 DEF Redeliver, refund
  <1>6. ASSUME LateEvent PROVE UnnamedSound'
    BY <1>2, <1>6 DEF LateEvent, refund
  <1>7. CASE UNCHANGED vars
    BY <1>2, <1>7 DEF vars
  <1> QED
    BY <1>3, <1>4, <1>5, <1>6, <1>7 DEF Next, Step

-----------------------------------------------------------------------------
(* A payout made or about to be made is one request's *)

FewMade == Cardinality(Made) + Cardinality(Inserting) <= Cardinality(Procs)

LEMMA PartsAreFinite ==
  /\ IsFiniteSet(Made) /\ Cardinality(Made) \in Nat
  /\ IsFiniteSet(Inserting) /\ Cardinality(Inserting) \in Nat
  /\ IsFiniteSet(Made') /\ Cardinality(Made') \in Nat
  /\ IsFiniteSet(Inserting') /\ Cardinality(Inserting') \in Nat
  /\ Cardinality(Procs) \in Nat
  /\ Cardinality(Inserting') <= Cardinality(Procs)
  <1>1. Made \in SUBSET Payouts /\ Made' \in SUBSET Payouts
    BY DEF Made
  <1>2. Inserting \in SUBSET Procs /\ Inserting' \in SUBSET Procs
    BY DEF Inserting
  <1> QED
    BY <1>1, <1>2, SettlementAssumption, FS_Subset, FS_CardinalityType

LEMMA FewInit == Init => FewMade
  <1> SUFFICES ASSUME Init PROVE FewMade
    OBVIOUS
  <1>1. Made = {} /\ Inserting = {}
    BY DEF Init, Made, Inserting, Idle
  <1> QED
    BY <1>1, PartsAreFinite, FS_EmptySet DEF FewMade

LEMMA FewStep ==
  ASSUME TypeOK, TypeOK', Grounded, FewMade, [Next]_vars
  PROVE  FewMade'
  <1>1. ASSUME Made' = Made, Inserting' \subseteq Inserting PROVE FewMade'
    <2>1. Cardinality(Inserting') <= Cardinality(Inserting)
      BY <1>1, PartsAreFinite, FS_Subset
    <2> QED
      BY <1>1, <2>1, PartsAreFinite DEF FewMade
  <1>2. ASSUME NEW p \in Procs, RequestStep(p) PROVE FewMade'
    <2>1. ASSUME NEW t, t.op # "insert", task' = [task EXCEPT ![p] = t] PROVE Inserting' \subseteq Inserting
      BY <2>1 DEF Inserting, TypeOK
    <2>2. ASSUME UNCHANGED payout PROVE Made' = Made
      BY <2>2 DEF Made
    <2>3. Idle.op = "idle"
      BY DEF Idle
    <2>4. CASE PayoutCheck(p)
      <3>1. Made' = {}
        BY <2>4 DEF PayoutCheck, NoPayoutYet, Made
      <3> QED
        BY <3>1, PartsAreFinite, FS_EmptySet DEF FewMade
    <2>5. CASE PayoutInsert(p)
      <3>1. PICK k \in Payouts : payout[k] = "NONE" /\ payout' = [payout EXCEPT ![k] = "PENDING"]
        BY <2>5 DEF PayoutInsert
      <3>2. Made' = Made \union {k} /\ k \notin Made
        BY <3>1 DEF Made, TypeOK
      <3>3. p \in Inserting /\ Inserting' = Inserting \ {p}
        BY <2>3, <2>5 DEF PayoutInsert, End, Inserting, TypeOK
      <3>4. Cardinality(Made') = Cardinality(Made) + 1
        BY <3>2, PartsAreFinite, FS_AddElement
      <3>5. Cardinality(Inserting') = Cardinality(Inserting) - 1
        BY <3>3, PartsAreFinite, FS_RemoveElement
      <3> QED
        BY <3>4, <3>5, PartsAreFinite DEF FewMade
    <2>6. CASE MarkWrite(p)
      <3>1. Made' = Made
        BY <2>6 DEF MarkWrite, Grounded, Made, TypeOK
      <3>2. Inserting' \subseteq Inserting
        BY <2>1, <2>3, <2>6 DEF MarkWrite, End
      <3> QED
        BY <1>1, <3>1, <3>2
    <2>7. CASE RefundRead(p) \/ CompleteRead(p) \/ PayoutRead(p)
               \/ \E k \in Payouts : MarkCompletedRead(p, k) \/ MarkFailedRead(p, k)
      BY <1>1, <2>1, <2>2, <2>7
      DEF RefundRead, CompleteRead, PayoutRead, MarkCompletedRead, MarkFailedRead, Begin, Idle
    <2>8. CASE RefundCheck(p)
      BY <1>1, <2>1, <2>2, <2>8 DEF RefundCheck, Idle
    <2>9. CASE RefundIssue(p)
      <3>1. PICK r \in Refunds : task' = [task EXCEPT ![p] = [task[p] EXCEPT !.op = "commit", !.ref = r]]
        BY <2>9 DEF RefundIssue
      <3>2. [task[p] EXCEPT !.op = "commit", !.ref = r].op = "commit"
        BY DEF TypeOK, Task
      <3> QED
        BY <1>1, <2>1, <2>2, <2>9, <3>1, <3>2 DEF RefundIssue
    <2>10. CASE RefundCommit(p) \/ CompleteWrite(p) \/ Abort(p)
      BY <1>1, <2>1, <2>2, <2>3, <2>10 DEF RefundCommit, CompleteWrite, Abort, End
    <2> QED
      BY <1>2, <2>4, <2>5, <2>6, <2>7, <2>8, <2>9, <2>10 DEF RequestStep
  <1>3. ASSUME UNCHANGED <<payout, task>> PROVE FewMade'
    BY <1>1, <1>3 DEF Made, Inserting
  <1>4. ASSUME NEW w \in Workers, HandlerStep(w) PROVE FewMade'
    BY <1>3, <1>4 DEF HandlerStep, HandlerFind, HandlerCreate, HandlerConflict, HandlerSum,
                      HandlerMark
  <1>5. CASE (\E r \in Refunds : Redeliver(r)) \/ LateEvent
    BY <1>3, <1>5 DEF Redeliver, LateEvent
  <1>6. CASE UNCHANGED vars
    BY <1>3, <1>6 DEF vars
  <1> QED
    BY <1>2, <1>4, <1>5, <1>6 DEF Next, Step

-----------------------------------------------------------------------------
(* The theorems *)

IInv ==
    TypeOK /\ Grounded /\ CoverSound /\ OrderlySound /\ ShownSound /\ UnnamedSound /\ FewMade

THEOREM Invariance == Spec => []IInv
  <1>1. Init => IInv
    BY TypeInit, GroundedInit, CoverInit, OrderlyInit, ShownInit, UnnamedInit,
       FewInit
    DEF IInv
  <1>2. IInv /\ [Next]_vars => IInv'
    BY TypeStep, GroundedStep, CoverStep, OrderlyStep, ShownStep, UnnamedStep,
       FewStep
    DEF IInv
  <1> QED
    BY <1>1, <1>2, PTL DEF Spec

\* Every column and every request's and worker's local state keeps its type: no
\* refund is larger than the payment.
THEOREM TypeCorrect == Spec => []TypeOK
  <1>1. IInv => TypeOK
    BY DEF IInv
  <1> QED
    BY <1>1, Invariance, PTL

\* Whatever requests, handlers and late events do, REFUNDED is covered by what
\* the gateway gave back, or the handler made a row of the whole payment.
THEOREM RefundsAreCovered == Spec => []RefundedIsCovered
  <1>1. IInv => RefundedIsCovered
    BY DEF IInv, CoverSound
  <1> QED
    BY <1>1, Invariance, PTL

\* Requests that do not disturb each other give back at most what was paid,
\* although late events may reset the status that createRefund checks.
THEOREM RefundsAreBounded == Spec => []NeverOverRefunded
  <1>1. IInv => NeverOverRefunded
    BY DEF IInv, OrderlySound, NeverOverRefunded
  <1> QED
    BY <1>1, Invariance, PTL

\* They make at most one payout for the item, and requests that overlap no more
\* than one each.
THEOREM PayoutsStayFew == Spec => []PayoutsAreFew
  <1>1. IInv => PayoutsAreFew
    BY DEF IInv, FewMade, OrderlySound, AtMostOne, PayoutsAreFew
  <1> QED
    BY <1>1, Invariance, PTL

\* They leave a payout that was paid alone.
THEOREM PaidIsFinal == Spec => PaidStays
  <1>1. ASSUME IInv, [Next]_vars, orderly', NEW k \in Payouts, payout[k] = "PAID"
        PROVE  payout'[k] = "PAID"
    <2>1. orderly
      BY <1>1 DEF Next, vars
    <2>2. CASE \E p \in Procs : RequestStep(p) /\ ~ UNCHANGED payout
      <3>1. PICK p \in Procs : RequestStep(p) /\ ~ UNCHANGED payout
        BY <2>2
      <3>2. CASE PayoutInsert(p)
        BY <1>1, <3>2 DEF PayoutInsert, IInv, TypeOK
      <3>3. CASE MarkWrite(p)
        <4>1. task[p].op = "fail" => payout[task[p].row] # "PAID"
          BY <1>1, <2>1 DEF IInv, OrderlySound
        <4> QED
          BY <1>1, <3>3, <4>1 DEF MarkWrite, IInv, TypeOK
      <3> QED
        BY <3>1, <3>2, <3>3
        DEF RequestStep, RefundRead, RefundCheck, RefundIssue, RefundCommit, CompleteRead,
            CompleteWrite, PayoutRead, PayoutCheck, MarkCompletedRead, MarkFailedRead, Abort
    <2>3. CASE UNCHANGED payout
      BY <1>1, <2>3
    <2> QED
      BY <1>1, <2>2, <2>3
      DEF Next, Step, HandlerStep, HandlerFind, HandlerCreate, HandlerConflict, HandlerSum,
          HandlerMark, Redeliver, LateEvent, vars
  <1>2. IInv /\ [Next]_vars =>
          [orderly' => \A k \in Payouts : payout[k] = "PAID" => payout'[k] = "PAID"]_vars
    BY <1>1
  <1> QED
    BY <1>2, Invariance, PTL DEF Spec, PaidStays

\* Once everything was given back and every event handled, the payment has been
\* called refunded.
THEOREM FullRefundNoticed == Spec => []FullRefundShown
  <1>1. IInv => FullRefundShown
    <2> SUFFICES ASSUME IInv, Total >= Amount, news = {}, \A w \in Workers : worker[w] = Free
                 PROVE  shown
      BY DEF FullRefundShown
    <2>1. CASE unnamed = 0
      BY <2>1 DEF IInv, ShownSound, NamedShown
    <2>2. CASE unnamed # 0
      BY <2>2, SettlementAssumption DEF IInv, UnnamedSound, Free
    <2> QED
      BY <2>1, <2>2
  <1> QED
    BY <1>1, Invariance, PTL
=============================================================================

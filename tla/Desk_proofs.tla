----------------------------- MODULE Desk_proofs -----------------------------
(***************************************************************************)
(* Proofs about Desk, for any numbers of requests and rows: what the runs  *)
(* check of permits, bucket lists, admins, partners, ratings, rooms, tags, *)
(* coupons, itineraries, waiting lists and password resets.  Each service  *)
(* has an inductive invariant of its own, which the steps of the others    *)
(* leave alone.                                                            *)
(***************************************************************************)
EXTENDS Desk, FiniteSetTheorems, TLAPS

\* A service changes by its own steps only.
LEMMA OwnSteps ==
    ASSUME [Next]_vars
    PROVE  /\ Offline!Next \/ UNCHANGED roomVars
           /\ Listing!Next \/ UNCHANGED listVars
           /\ Label!Next \/ UNCHANGED tagVars
           /\ Rating!Next \/ UNCHANGED starVars
           /\ Permit!Next \/ UNCHANGED permitVars
           /\ Partner!Next \/ UNCHANGED inviteVars
           /\ Admin!Next \/ UNCHANGED adminVars
           /\ Bucket!Next \/ UNCHANGED itemVars
           /\ Offer!Next \/ UNCHANGED offerVars
           /\ Day!Next \/ UNCHANGED dayVars
           /\ Wait!Next \/ UNCHANGED waitVars
           /\ Reset!Next \/ UNCHANGED resetVars
           /\ part' = part
  <1>1. CASE UNCHANGED vars
    BY <1>1 DEF vars
  <1>2. CASE Next
    BY <1>2 DEF Next, OfflineStep, ListingStep, LabelStep, RatingStep, PermitStep,
                PartnerStep, AdminStep, BucketStep, OfferStep, DayStep, WaitStep, ResetStep
  <1> QED
    BY <1>1, <1>2

-----------------------------------------------------------------------------
(* Finite sets as the services have them *)

LEMMA SameFinite ==
    \A S : /\ IsFiniteSet(S) <=> Admin!IsFiniteSet(S)
           /\ IsFiniteSet(S) <=> Partner!IsFiniteSet(S)
           /\ IsFiniteSet(S) <=> Rating!IsFiniteSet(S)
           /\ IsFiniteSet(S) <=> Listing!IsFiniteSet(S)
           /\ IsFiniteSet(S) <=> Label!IsFiniteSet(S)
  BY DEF IsFiniteSet, Admin!IsFiniteSet, Partner!IsFiniteSet, Rating!IsFiniteSet,
         Listing!IsFiniteSet, Label!IsFiniteSet

LEMMA SameCardinality ==
    \A S : /\ Admin!Cardinality(S) = Cardinality(S)
           /\ Partner!Cardinality(S) = Cardinality(S)
           /\ Rating!Cardinality(S) = Cardinality(S)
           /\ Listing!Cardinality(S) = Cardinality(S)
           /\ Label!Cardinality(S) = Cardinality(S)
  BY DEF Cardinality, Admin!Cardinality, Partner!Cardinality, Rating!Cardinality,
         Listing!Cardinality, Label!Cardinality

LEMMA FiniteProcs == IsFiniteSet(Procs)
  BY DeskAssumption, SameFinite DEF Admin!AdminsAssumption

\* Where at most one process does a thing, no other does it.
LEMMA OnlyOne ==
    ASSUME NEW S, S \subseteq Procs, Cardinality(S) <= 1, NEW p \in S, NEW q \in S
    PROVE  p = q
  <1>1. IsFiniteSet(S)
    BY FiniteProcs, FS_Subset
  <1>2. IsFiniteSet(S \ {p}) /\ Cardinality(S \ {p}) = Cardinality(S) - 1
    BY <1>1, FS_RemoveElement
  <1>3. Cardinality(S \ {p}) \in Nat /\ Cardinality(S) \in Nat
    BY <1>1, <1>2, FS_CardinalityType
  <1>4. Cardinality(S \ {p}) = 0
    BY <1>2, <1>3
  <1>5. S \ {p} = {}
    BY <1>2, <1>4, FS_EmptySet
  <1> QED
    BY <1>5

-----------------------------------------------------------------------------
(* Permits *)

\* What the requests carry is as good as when it was read: documents are never taken
\* away, and what was approved once stays approved once.
PermitCarried ==
    /\ permit = "APPROVED" => approved # "never"
    /\ \A p \in Procs :
        /\ permitTask[p].op = "submit" => permitTask[p].docs = Permit!Docs
        /\ permitTask[p].op = "approve" => docs = Permit!Docs
        /\ permitTask[p].op = "attach" => approved # "never"

PermitInv == Permit!TypeOK /\ Permit!DocumentsFirst /\ PermitCarried

LEMMA PermitIdle == Permit!Idle \in Permit!Task /\ Permit!Idle.op = "idle"
  BY DEF Permit!Idle, Permit!Task

LEMMA PermitInit == Init => PermitInv
  <1> SUFFICES ASSUME Permit!Init PROVE PermitInv
    BY DEF Init
  <1>1. permitTask \in [Procs -> Permit!Task] /\ \A p \in Procs : permitTask[p].op = "idle"
    BY PermitIdle DEF Permit!Init
  <1>2. permit \in {"COLLECTING_DOCS", "REQUIRED"}
    BY DEF Permit!Init
  <1>3. Permit!TypeOK
    BY <1>1, <1>2 DEF Permit!TypeOK, Permit!Init, Permit!PermitStatus
  <1>4. Permit!DocumentsFirst
    BY <1>2 DEF Permit!DocumentsFirst, Permit!Init
  <1>5. PermitCarried
    BY <1>1, <1>2 DEF PermitCarried
  <1> QED
    BY <1>3, <1>4, <1>5 DEF PermitInv

\* The requests as a step leaves them.
LEMMA PermitMoved ==
    ASSUME PermitInv, NEW p \in Procs, NEW t \in Permit!Task,
           permitTask' = [permitTask EXCEPT ![p] = t]
    PROVE  /\ permitTask' \in [Procs -> Permit!Task]
           /\ permitTask'[p] = t
           /\ \A q \in Procs \ {p} : permitTask'[q] = permitTask[q]
  BY DEF PermitInv, Permit!TypeOK

LEMMA PermitNext == ASSUME PermitInv, Permit!Next PROVE PermitInv'
  <1> USE DEF PermitInv
  <1> DEFINE Same == UNCHANGED <<permit, docs, approved, paper, sweeping>>
  <1>a. ASSUME NEW p \in Procs, NEW t \in Permit!Task, Same,
               permitTask' = [permitTask EXCEPT ![p] = t],
               t.op = "submit" => t.docs = Permit!Docs,
               t.op = "approve" => docs = Permit!Docs,
               t.op = "attach" => approved # "never"
        PROVE  PermitInv'
    <2>1. Permit!TypeOK' /\ Permit!DocumentsFirst'
      BY <1>a, PermitMoved DEF Permit!TypeOK, Permit!DocumentsFirst
    <2>2. PermitCarried'
      BY <1>a, PermitMoved DEF PermitCarried
    <2> QED
      BY <2>1, <2>2
  <1>1. ASSUME NEW p \in Procs, Permit!SubmitRead(p) PROVE PermitInv'
    <2>1. PICK brought \in SUBSET Permit!Docs :
            /\ brought \union docs = Permit!Docs
            /\ permitTask' = [permitTask EXCEPT
                                ![p] = [op |-> "submit", docs |-> brought \union docs]]
      BY <1>1 DEF Permit!SubmitRead, Permit!Begin, Permit!Complete
    <2>2. [op |-> "submit", docs |-> brought \union docs] \in Permit!Task
      BY <2>1 DEF Permit!Task
    <2> QED
      BY <1>1, <2>1, <2>2, <1>a DEF Permit!SubmitRead
  <1>2. ASSUME NEW p \in Procs, NEW op \in {"approve", "reject", "attach"},
               permitTask' = [permitTask EXCEPT ![p] = [Permit!Idle EXCEPT !.op = op]], Same,
               op = "approve" => permit = "SUBMITTED",
               op = "attach" => permit = "APPROVED"
        PROVE  PermitInv'
    <2>1. [Permit!Idle EXCEPT !.op = op] \in Permit!Task /\ [Permit!Idle EXCEPT !.op = op].op = op
      BY DEF Permit!Idle, Permit!Task
    <2> QED
      BY <1>2, <2>1, <1>a DEF PermitCarried, Permit!DocumentsFirst
  <1>3. ASSUME NEW p \in Procs,
               Permit!ApproveRead(p) \/ Permit!RejectRead(p) \/ Permit!AttachRead(p)
        PROVE  PermitInv'
    BY <1>2, <1>3 DEF Permit!ApproveRead, Permit!RejectRead, Permit!AttachRead, Permit!Begin
  <1>4. ASSUME NEW p \in Procs, Permit!Abort(p) PROVE PermitInv'
    BY <1>4, <1>a, PermitIdle DEF Permit!Abort, Permit!End
  <1>5. ASSUME NEW p \in Procs,
               Permit!SubmitWrite(p) \/ Permit!ApproveWrite(p) \/ Permit!RejectWrite(p)
                  \/ Permit!AttachWrite(p)
        PROVE  PermitInv'
    <2>1. permitTask' = [permitTask EXCEPT ![p] = Permit!Idle]
      BY <1>5 DEF Permit!SubmitWrite, Permit!ApproveWrite, Permit!RejectWrite,
                  Permit!AttachWrite, Permit!End
    <2>2. /\ permitTask' \in [Procs -> Permit!Task]
          /\ permitTask'[p].op = "idle"
          /\ \A q \in Procs \ {p} : permitTask'[q] = permitTask[q]
      BY <2>1, PermitMoved, PermitIdle
    <2>3. paper' \in BOOLEAN /\ sweeping' \in BOOLEAN
      BY <1>5 DEF Permit!SubmitWrite, Permit!ApproveWrite, Permit!RejectWrite,
                  Permit!AttachWrite, Permit!TypeOK
    <2>4. docs \subseteq docs' /\ docs' \in SUBSET Permit!Docs
      BY <1>5 DEF Permit!SubmitWrite, Permit!ApproveWrite, Permit!RejectWrite,
                  Permit!AttachWrite, Permit!TypeOK, Permit!Task
    <2>5. /\ approved' \in {"never", "recently", "long ago"}
          /\ approved # "never" => approved' # "never"
          /\ permit' \in Permit!PermitStatus
      BY <1>5 DEF Permit!SubmitWrite, Permit!ApproveWrite, Permit!RejectWrite,
                  Permit!AttachWrite, Permit!TypeOK, Permit!PermitStatus
    <2>6. permit' = "APPROVED" => approved' # "never"
      BY <1>5 DEF Permit!SubmitWrite, Permit!ApproveWrite, Permit!RejectWrite,
                  Permit!AttachWrite, PermitCarried
    <2>7. /\ permit' \in {"SUBMITTED", "APPROVED"} => docs' = Permit!Docs
          /\ approved' # "never" => docs' = Permit!Docs
          /\ paper' => approved' # "never"
      BY <1>5, <2>3, <2>4 DEF Permit!SubmitWrite, Permit!ApproveWrite, Permit!RejectWrite,
                  Permit!AttachWrite, PermitCarried, Permit!DocumentsFirst, Permit!TypeOK
    <2>8. Permit!TypeOK' /\ Permit!DocumentsFirst'
      BY <2>2, <2>3, <2>4, <2>5, <2>7 DEF Permit!TypeOK, Permit!DocumentsFirst
    <2>9. PermitCarried'
      BY <2>2, <2>4, <2>5, <2>6 DEF PermitCarried
    <2> QED
      BY <2>8, <2>9
  <1>6. CASE Permit!SixMonths \/ Permit!SweepFind \/ Permit!SweepWrite \/ Permit!SweepFail
    <2>1. sweeping' \in BOOLEAN
      BY <1>6 DEF Permit!SixMonths, Permit!SweepFind, Permit!SweepWrite, Permit!SweepFail,
                  Permit!TypeOK
    <2>2. UNCHANGED <<docs, paper, permitTask>>
      BY <1>6 DEF Permit!SixMonths, Permit!SweepFind, Permit!SweepWrite, Permit!SweepFail
    <2>3. /\ permit' = permit \/ permit' = "EXPIRED"
          /\ approved' = approved \/ (approved # "never" /\ approved' = "long ago")
      BY <1>6 DEF Permit!SixMonths, Permit!SweepFind, Permit!SweepWrite, Permit!SweepFail
    <2>4. Permit!TypeOK'
      BY <2>1, <2>2, <2>3 DEF Permit!TypeOK, Permit!PermitStatus
    <2>5. Permit!DocumentsFirst'
      BY <2>2, <2>3 DEF Permit!DocumentsFirst
    <2>6. PermitCarried'
      BY <2>2, <2>3 DEF PermitCarried
    <2> QED
      BY <2>4, <2>5, <2>6
  <1> QED
    BY <1>1, <1>3, <1>4, <1>5, <1>6 DEF Permit!Next, Permit!RequestStep

LEMMA PermitStays == ASSUME PermitInv, UNCHANGED permitVars PROVE PermitInv'
  BY DEF permitVars, PermitInv, Permit!TypeOK, Permit!DocumentsFirst, PermitCarried

\* Nothing is submitted or approved without both documents, in whatever order customers,
\* admins and the scheduler read and write the permit.
THEOREM DocumentsComeFirst == Spec => []DocumentsFirst
  <1>1. PermitInv /\ [Next]_vars => PermitInv'
    BY OwnSteps, PermitNext, PermitStays
  <1>2. PermitInv => DocumentsFirst
    BY DEF PermitInv, DocumentsFirst
  <1> QED
    BY <1>1, <1>2, PermitInit, PTL DEF Spec

-----------------------------------------------------------------------------
(* Bucket lists *)

\* What is known, while no removal overlaps a checkout, of requests that have read.
BucketCarried ==
    /\ list = "PENDING_CHECKOUT" => Bucket!Listed # {}
    /\ \A p \in Procs :
        /\ itemTask[p].op = "checkout" => (list = "NONE" \/ Bucket!Listed # {})
        /\ itemTask[p].op = "remove" => list # "PENDING_CHECKOUT"

BucketInv == Bucket!TypeOK /\ (itemCalm => Bucket!Calm /\ BucketCarried)

LEMMA BucketIdle == Bucket!Idle \in Bucket!Task /\ Bucket!Idle.op = "idle"
  BY DEF Bucket!Idle, Bucket!Task

LEMMA BucketInit == Init => BucketInv
  <1> SUFFICES ASSUME Bucket!Init PROVE BucketInv
    BY DEF Init
  <1>1. itemTask \in [Procs -> Bucket!Task] /\ \A p \in Procs : itemTask[p].op = "idle"
    BY BucketIdle DEF Bucket!Init
  <1>2. 0 \in 0..MaxQuantity
    BY DeskAssumption DEF Bucket!BucketListsAssumption
  <1>3. Bucket!TypeOK
    BY <1>1, <1>2 DEF Bucket!TypeOK, Bucket!Init
  <1>4. Bucket!Calm /\ BucketCarried
    BY <1>1 DEF Bucket!Calm, BucketCarried, Bucket!Init
  <1> QED
    BY <1>3, <1>4 DEF BucketInv

\* The requests as a step leaves them.
LEMMA BucketMoved ==
    ASSUME Bucket!TypeOK, NEW p \in Procs, NEW t \in Bucket!Task,
           itemTask' = [itemTask EXCEPT ![p] = t]
    PROVE  /\ itemTask' \in [Procs -> Bucket!Task]
           /\ itemTask'[p] = t
           /\ \A q \in Procs \ {p} : itemTask'[q] = itemTask[q]
  BY DEF Bucket!TypeOK

\* A request that has read the list and is still to write.
LEMMA BucketReads ==
    ASSUME Bucket!TypeOK, BucketCarried, NEW p \in Procs, NEW t \in Bucket!Task,
           itemTask' = [itemTask EXCEPT ![p] = t], UNCHANGED <<list, quantity>>,
           t.op = "checkout" => Bucket!Listed # {},
           t.op = "remove" => list # "PENDING_CHECKOUT"
    PROVE  BucketCarried'
  <1>1. Bucket!Listed' = Bucket!Listed
    BY DEF Bucket!Listed
  <1> QED
    BY <1>1, BucketMoved DEF BucketCarried

LEMMA BucketRequest ==
    ASSUME Bucket!TypeOK, NEW p \in Procs, Bucket!RequestStep(p)
    PROVE  /\ itemTask' \in [Procs -> Bucket!Task]
           /\ quantity' \in [Pair -> 0..MaxQuantity]
           /\ list' \in {"NONE", "DRAFT", "PENDING_CHECKOUT"}
           /\ Bucket!Calm /\ BucketCarried => BucketCarried'
  <1> USE DEF Bucket!TypeOK
  <1>0. MaxQuantity \in Nat /\ 0 \in 0..MaxQuantity /\ \A n \in 1..MaxQuantity : n \in 0..MaxQuantity /\ n > 0
    BY DeskAssumption DEF Bucket!BucketListsAssumption
  <1> DEFINE Goal ==
           /\ itemTask' \in [Procs -> Bucket!Task]
           /\ quantity' \in [Pair -> 0..MaxQuantity]
           /\ list' \in {"NONE", "DRAFT", "PENDING_CHECKOUT"}
           /\ Bucket!Calm /\ BucketCarried => BucketCarried'
  <1>1. ASSUME Bucket!AddRead(p) \/ (\E i \in Pair : Bucket!ItemRead(p, i))
               \/ Bucket!CheckoutRead(p) \/ Bucket!DeleteRead(p)
        PROVE  Goal
    <2>1. PICK op \in {"add", "update", "remove", "checkout", "delete"}, i \in Pair \union {Nothing} :
            /\ itemTask' = [itemTask EXCEPT ![p] = [op |-> op, item |-> i]]
            /\ op = "checkout" => Bucket!Listed # {}
            /\ op = "remove" => list # "PENDING_CHECKOUT"
      BY <1>1 DEF Bucket!AddRead, Bucket!ItemRead, Bucket!CheckoutRead, Bucket!DeleteRead,
                  Bucket!Begin, Bucket!HasItems
    <2>2. UNCHANGED <<list, quantity>>
      BY <1>1 DEF Bucket!AddRead, Bucket!ItemRead, Bucket!CheckoutRead, Bucket!DeleteRead
    <2>3. [op |-> op, item |-> i] \in Bucket!Task
      BY DEF Bucket!Task
    <2> QED
      BY <2>1, <2>2, <2>3, BucketMoved, BucketReads
  <1>2. ASSUME Bucket!Abort(p) PROVE Goal
    BY <1>2, BucketIdle, BucketMoved, BucketReads DEF Bucket!Abort, Bucket!End
  <1>3. ASSUME itemTask' = [itemTask EXCEPT ![p] = Bucket!Idle]
        PROVE  /\ itemTask' \in [Procs -> Bucket!Task]
               /\ itemTask'[p].op = "idle"
               /\ \A q \in Procs \ {p} : itemTask'[q] = itemTask[q]
    BY <1>3, BucketIdle, BucketMoved
  <1>4. ASSUME Bucket!AddWrite(p) \/ Bucket!UpdateWrite(p) PROVE Goal
    <2>1. PICK i \in Pair, n \in 1..MaxQuantity : quantity' = [quantity EXCEPT ![i] = n]
      BY <1>4 DEF Bucket!AddWrite, Bucket!UpdateWrite, Bucket!Listed
    <2>2. itemTask' = [itemTask EXCEPT ![p] = Bucket!Idle] /\ UNCHANGED list
      BY <1>4 DEF Bucket!AddWrite, Bucket!UpdateWrite, Bucket!End
    <2>3. quantity' \in [Pair -> 0..MaxQuantity] /\ i \in Bucket!Listed'
      BY <2>1, <1>0 DEF Bucket!Listed
    <2>4. BucketCarried => BucketCarried'
      BY <2>2, <2>3, <1>3 DEF BucketCarried
    <2> QED
      BY <2>2, <2>3, <2>4, <1>3
  <1>5. ASSUME Bucket!RemoveWrite(p) PROVE Goal
    <2>1. itemTask' = [itemTask EXCEPT ![p] = Bucket!Idle] /\ UNCHANGED list
      BY <1>5 DEF Bucket!RemoveWrite, Bucket!End
    <2>2. quantity' \in [Pair -> 0..MaxQuantity]
      BY <1>5, <1>0 DEF Bucket!RemoveWrite
    <2>3. Bucket!Calm => \A q \in Procs : itemTask[q].op # "checkout"
      BY <1>5 DEF Bucket!RemoveWrite, Bucket!Calm
    <2>4. BucketCarried => list # "PENDING_CHECKOUT"
      BY <1>5 DEF Bucket!RemoveWrite, BucketCarried
    <2>5. Bucket!Calm /\ BucketCarried => BucketCarried'
      BY <2>1, <2>3, <2>4, <1>3 DEF BucketCarried
    <2> QED
      BY <2>1, <2>2, <2>5, <1>3
  <1>6. ASSUME Bucket!CheckoutWrite(p) PROVE Goal
    <2>1. /\ itemTask' = [itemTask EXCEPT ![p] = Bucket!Idle] /\ UNCHANGED quantity
          /\ itemTask[p].op = "checkout" /\ list # "NONE" /\ list' = "PENDING_CHECKOUT"
      BY <1>6 DEF Bucket!CheckoutWrite, Bucket!End
    <2>2. Bucket!Listed' = Bucket!Listed
      BY <2>1 DEF Bucket!Listed
    <2>3. Bucket!Calm => \A q \in Procs : itemTask[q].op # "remove"
      BY <2>1 DEF Bucket!Calm
    <2>4. Bucket!Calm /\ BucketCarried => BucketCarried'
      BY <2>1, <2>2, <2>3, <1>3 DEF BucketCarried
    <2> QED
      BY <2>1, <2>4, <1>3
  <1>7. ASSUME Bucket!DeleteWrite(p) PROVE Goal
    <2>1. /\ itemTask' = [itemTask EXCEPT ![p] = Bucket!Idle]
          /\ list' = "NONE" /\ quantity' = [i \in Pair |-> 0]
      BY <1>7 DEF Bucket!DeleteWrite, Bucket!End
    <2>2. BucketCarried'
      BY <2>1, <1>3 DEF BucketCarried
    <2> QED
      BY <2>1, <2>2, <1>0, <1>3
  <1> QED
    BY <1>1, <1>2, <1>4, <1>5, <1>6, <1>7 DEF Bucket!RequestStep

LEMMA BucketNext == ASSUME BucketInv, Bucket!Next PROVE BucketInv'
  <1>1. CASE Bucket!Create
    <2>1. /\ list' = "DRAFT" /\ UNCHANGED <<quantity, itemTask>>
          /\ \A p \in Procs : itemTask[p].op = "idle"
      BY <1>1 DEF Bucket!Create
    <2>2. itemCalm' \in BOOLEAN
      BY DEF Bucket!Next
    <2>3. Bucket!TypeOK'
      BY <2>1, <2>2 DEF BucketInv, Bucket!TypeOK
    <2>4. Bucket!Calm' /\ BucketCarried'
      BY <2>1 DEF Bucket!Calm, BucketCarried
    <2> QED
      BY <2>3, <2>4 DEF BucketInv
  <1>2. ASSUME NEW p \in Procs, Bucket!RequestStep(p) PROVE BucketInv'
    <2>1. Bucket!TypeOK
      BY DEF BucketInv
    <2>2. itemCalm' \in BOOLEAN
      BY DEF Bucket!Next
    <2>3. Bucket!TypeOK'
      BY <1>2, <2>1, <2>2, BucketRequest DEF Bucket!TypeOK
    <2>4. itemCalm' => itemCalm /\ Bucket!Calm'
      BY DEF Bucket!Next
    <2>5. itemCalm' => BucketCarried'
      BY <1>2, <2>1, <2>4, BucketRequest DEF BucketInv
    <2> QED
      BY <2>3, <2>4, <2>5 DEF BucketInv
  <1> QED
    BY <1>1, <1>2 DEF Bucket!Next, Bucket!Step

LEMMA BucketStays == ASSUME BucketInv, UNCHANGED itemVars PROVE BucketInv'
  BY DEF itemVars, BucketInv, Bucket!TypeOK, Bucket!Calm, BucketCarried, Bucket!Listed

\* A list that is up for booking has items, and keeps them, unless a removal overlapped
\* its checkout.
THEOREM CheckedOutHasItems == Spec => []PendingHasItems
  <1>1. BucketInv /\ [Next]_vars => BucketInv'
    BY OwnSteps, BucketNext, BucketStays
  <1>2. BucketInv => PendingHasItems
    BY DEF BucketInv, BucketCarried, PendingHasItems, Bucket!PendingHasItems
  <1> QED
    BY <1>1, <1>2, BucketInit, PTL DEF Spec

-----------------------------------------------------------------------------
(* Admins *)

\* Whom a request removes is not the default admin, and once the admins were counted
\* there is another one.
AdminCarried ==
    /\ admins # {}
    /\ \A p \in Procs : adminTask[p].op = "delete" => admins \ {adminTask[p].user} # {}

AdminInv ==
    /\ Admin!TypeOK
    /\ default # Nothing => default \in admins
    /\ \A p \in Procs :
        /\ adminTask[p].op \in {"count", "delete"} => adminTask[p].user # default
        /\ adminTask[p].op # "idle" => adminTask[p].user \in Things
    /\ adminCalm => Admin!Calm /\ AdminCarried

LEMMA AdminIdle == Admin!Idle \in Admin!Task /\ Admin!Idle.op = "idle"
  BY DEF Admin!Idle, Admin!Task

LEMMA AdminInit == Init => AdminInv
  <1> SUFFICES ASSUME Admin!Init PROVE AdminInv
    BY DEF Init
  <1>1. adminTask \in [Procs -> Admin!Task] /\ \A p \in Procs : adminTask[p].op = "idle"
    BY AdminIdle DEF Admin!Init
  <1>2. Admin!TypeOK
    BY <1>1 DEF Admin!TypeOK, Admin!Init
  <1>3. Admin!Calm
    <2>1. {p \in Procs : adminTask[p].op = "delete"} = {}
      BY <1>1
    <2> QED
      BY <2>1, FS_EmptySet, SameCardinality DEF Admin!Calm
  <1>4. AdminCarried /\ (default # Nothing => default \in admins)
    BY <1>1 DEF AdminCarried, Admin!Init
  <1> QED
    BY <1>1, <1>2, <1>3, <1>4 DEF AdminInv

LEMMA AdminMoved ==
    ASSUME Admin!TypeOK, NEW p \in Procs, NEW t \in Admin!Task,
           adminTask' = [adminTask EXCEPT ![p] = t]
    PROVE  /\ adminTask' \in [Procs -> Admin!Task]
           /\ adminTask'[p] = t
           /\ \A q \in Procs \ {p} : adminTask'[q] = adminTask[q]
  BY DEF Admin!TypeOK

\* Of two admins one is left when another goes.
LEMMA AnotherAdmin ==
    ASSUME Cardinality(admins) > 1, NEW u PROVE admins \ {u} # {}
  <1> SUFFICES ASSUME admins \ {u} = {} PROVE FALSE
    OBVIOUS
  <1>1. admins = {} \/ admins = {u}
    OBVIOUS
  <1>2. Cardinality({}) = 0 /\ Cardinality({u}) = 1
    BY FS_EmptySet, FS_Singleton
  <1> QED
    BY <1>1, <1>2

LEMMA AdminRequest ==
    ASSUME AdminInv, NEW p \in Procs, Admin!RequestStep(p)
    PROVE  /\ adminTask' \in [Procs -> Admin!Task]
           /\ admins' \in SUBSET Things /\ cached' \in SUBSET Things /\ default' = default
           /\ default # Nothing => default \in admins'
           /\ \A q \in Procs :
                /\ adminTask'[q].op \in {"count", "delete"} => adminTask'[q].user # default
                /\ adminTask'[q].op # "idle" => adminTask'[q].user \in Things
           /\ Admin!Calm /\ AdminCarried => AdminCarried'
  <1> DEFINE Goal ==
           /\ adminTask' \in [Procs -> Admin!Task]
           /\ admins' \in SUBSET Things /\ cached' \in SUBSET Things /\ default' = default
           /\ default # Nothing => default \in admins'
           /\ \A q \in Procs :
                /\ adminTask'[q].op \in {"count", "delete"} => adminTask'[q].user # default
                /\ adminTask'[q].op # "idle" => adminTask'[q].user \in Things
           /\ Admin!Calm /\ AdminCarried => AdminCarried'
  <1> USE DEF AdminInv
  <1>0. ASSUME NEW t \in Admin!Task, adminTask' = [adminTask EXCEPT ![p] = t],
               t.op # "delete", t.op = "count" => t.user # default,
               t.op # "idle" => t.user \in Things,
               admins \subseteq admins', admins' \in SUBSET Things,
               cached' \in SUBSET Things, default' = default
        PROVE  Goal
    <2>1. /\ adminTask' \in [Procs -> Admin!Task]
          /\ adminTask'[p] = t
          /\ \A q \in Procs \ {p} : adminTask'[q] = adminTask[q]
      BY <1>0, AdminMoved
    <2>2. AdminCarried => AdminCarried'
      BY <2>1, <1>0 DEF AdminCarried
    <2>3. \A q \in Procs :
             /\ adminTask'[q].op \in {"count", "delete"} => adminTask'[q].user # default
             /\ adminTask'[q].op # "idle" => adminTask'[q].user \in Things
      BY <2>1, <1>0
    <2> QED
      BY <2>1, <2>2, <2>3, <1>0
  <1>1. ASSUME NEW a \in Things, NEW u \in Things, Admin!AddRead(p, a, u) \/ Admin!RemoveRead(p, a, u)
        PROVE  Goal
    <2>1. PICK op \in {"add", "assign", "count"} : adminTask' = [adminTask EXCEPT ![p] = [op |-> op, user |-> u]]
      BY <1>1 DEF Admin!AddRead, Admin!RemoveRead, Admin!Begin
    <2>2. UNCHANGED <<default, admins, cached>> /\ u # default
      BY <1>1 DEF Admin!AddRead, Admin!RemoveRead, Admin!MayTouch
    <2>3. [op |-> op, user |-> u] \in Admin!Task
      BY DEF Admin!Task
    <2> QED
      BY <2>1, <2>2, <2>3, <1>0 DEF Admin!TypeOK
  <1>2. \A op \in {"forget", "delete"} :
            /\ [adminTask[p] EXCEPT !.op = op] \in Admin!Task
            /\ [adminTask[p] EXCEPT !.op = op].op = op
            /\ [adminTask[p] EXCEPT !.op = op].user = adminTask[p].user
    BY DEF Admin!TypeOK, Admin!Task
  <1>3. ASSUME Admin!AddWrite(p) PROVE Goal
    <2>1. adminTask[p].user \in Things
      BY <1>3 DEF Admin!AddWrite
    <2> QED
      BY <1>3, <1>0, <1>2, AdminIdle DEF Admin!AddWrite, Admin!Goto, Admin!End, Admin!TypeOK
  <1>4. ASSUME Admin!RemoveCount(p) PROVE Goal
    <2>1. /\ adminTask' = [adminTask EXCEPT ![p] = [adminTask[p] EXCEPT !.op = "delete"]]
          /\ UNCHANGED <<default, admins, cached>>
          /\ Cardinality(admins) > 1 /\ adminTask[p].op = "count"
      BY <1>4, SameCardinality DEF Admin!RemoveCount, Admin!NotTheLast, Admin!Goto
    <2>2. /\ adminTask' \in [Procs -> Admin!Task]
          /\ adminTask'[p].user = adminTask[p].user
          /\ \A q \in Procs \ {p} : adminTask'[q] = adminTask[q]
      BY <2>1, <1>2, AdminMoved
    <2>3. AdminCarried => AdminCarried'
      BY <2>1, <2>2, AnotherAdmin DEF AdminCarried
    <2> QED
      BY <2>1, <2>2, <2>3 DEF Admin!TypeOK
  <1>5. ASSUME Admin!RemoveDelete(p) PROVE Goal
    <2>1. /\ adminTask' = [adminTask EXCEPT ![p] = [adminTask[p] EXCEPT !.op = "forget"]]
          /\ UNCHANGED <<default, cached>> /\ admins' = admins \ {adminTask[p].user}
          /\ adminTask[p].op = "delete"
      BY <1>5 DEF Admin!RemoveDelete, Admin!Goto
    <2>2. /\ adminTask' \in [Procs -> Admin!Task]
          /\ adminTask'[p].op = "forget"
          /\ \A q \in Procs \ {p} : adminTask'[q] = adminTask[q]
      BY <2>1, <1>2, AdminMoved
    <2>3. Admin!Calm => \A q \in Procs \ {p} : adminTask[q].op # "delete"
      <3> DEFINE S == {q \in Procs : adminTask[q].op = "delete"}
      <3>1. S \subseteq Procs /\ p \in S
        BY <2>1
      <3> QED
        BY <3>1, OnlyOne, SameCardinality DEF Admin!Calm
    <2>4. Admin!Calm /\ AdminCarried => AdminCarried'
      BY <2>1, <2>2, <2>3 DEF AdminCarried
    <2> QED
      BY <2>1, <2>2, <2>4 DEF Admin!TypeOK
  <1>6. ASSUME Admin!Forget(p) \/ Admin!Abort(p) PROVE Goal
    <2>1. /\ adminTask' = [adminTask EXCEPT ![p] = Admin!Idle]
          /\ UNCHANGED <<default, admins>> /\ cached' \subseteq cached
      BY <1>6 DEF Admin!Forget, Admin!Abort, Admin!End
    <2> QED
      BY <2>1, <1>0, AdminIdle DEF Admin!TypeOK
  <1> QED
    BY <1>1, <1>3, <1>4, <1>5, <1>6 DEF Admin!RequestStep

LEMMA AdminNext == ASSUME AdminInv, Admin!Next PROVE AdminInv'
  <1>1. adminCalm' \in BOOLEAN
    BY DEF Admin!Next
  <1>2. adminCalm' => adminCalm /\ Admin!Calm'
    BY DEF Admin!Next
  <1>3. ASSUME NEW p \in Procs, Admin!RequestStep(p) PROVE AdminInv'
    <2>1. Admin!TypeOK'
      BY <1>1, <1>3, AdminRequest DEF AdminInv, Admin!TypeOK
    <2>2. adminCalm' => AdminCarried'
      BY <1>2, <1>3, AdminRequest DEF AdminInv
    <2> QED
      BY <1>2, <1>3, <2>1, <2>2, AdminRequest DEF AdminInv
  <1>4. ASSUME NEW u \in Things, Admin!Recognise(u) \/ Admin!CacheLapse(u) PROVE AdminInv'
    <2>1. UNCHANGED <<default, admins, adminTask>> /\ cached' \subseteq cached \union {u}
      BY <1>4 DEF Admin!Recognise, Admin!CacheLapse
    <2>2. Admin!TypeOK'
      BY <1>1, <2>1 DEF AdminInv, Admin!TypeOK
    <2>3. adminCalm' => AdminCarried'
      BY <1>2, <2>1 DEF AdminInv, AdminCarried
    <2> QED
      BY <1>2, <2>1, <2>2, <2>3 DEF AdminInv
  <1> QED
    BY <1>3, <1>4 DEF Admin!Next, Admin!Step

LEMMA AdminStays == ASSUME AdminInv, UNCHANGED adminVars PROVE AdminInv'
  BY DEF adminVars, AdminInv, Admin!TypeOK, Admin!Calm, AdminCarried

LEMMA AdminSafe == Spec => []Admin!AdminRemains
  <1>1. AdminInv /\ [Next]_vars => AdminInv'
    BY OwnSteps, AdminNext, AdminStays
  <1>2. AdminInv => Admin!AdminRemains
    BY DEF AdminInv, AdminCarried, Admin!AdminRemains
  <1> QED
    BY <1>1, <1>2, AdminInit, PTL DEF Spec

-----------------------------------------------------------------------------
(* Partners *)

Extending == {p \in Procs : inviteTask[p].op \in {"extend", "assign"}}

\* A request that completes an invite holds its types, and has read the provider as it
\* is, while it is the only one to write it.
PartnerCarried ==
    \A p \in Procs :
        /\ inviteTask[p].op \in {"complete", "extend"} =>
              /\ invite[inviteTask[p].invite].state # "NONE"
              /\ invite[inviteTask[p].invite].types = inviteTask[p].types
        /\ inviteTask[p].op \in {"revoke", "resend", "complete", "extend"} =>
              inviteTask[p].invite \in Pair
        /\ inviteTask[p].op \in {"extend", "assign"} =>
              (inviteTask[p].fresh \/ provider.status # "NONE")
        /\ inviteCalm /\ inviteTask[p].op \in {"extend", "assign"} =>
              inviteTask[p].known = provider.types

PartnerInv ==
    /\ Partner!TypeOK
    /\ Partner!InvitesHonoured
    /\ PartnerCarried
    /\ inviteCalm => Partner!Calm

LEMMA PartnerIdle == Partner!Idle \in Partner!Task /\ Partner!Idle.op = "idle"
  BY DEF Partner!Idle, Partner!Task

LEMMA PartnerInit == Init => PartnerInv
  <1> SUFFICES ASSUME Partner!Init PROVE PartnerInv
    BY DEF Init
  <1>1. inviteTask \in [Procs -> Partner!Task] /\ \A p \in Procs : inviteTask[p].op = "idle"
    BY PartnerIdle DEF Partner!Init
  <1>2. Partner!TypeOK
    BY <1>1 DEF Partner!TypeOK, Partner!Init, Partner!InviteState, Partner!ProviderStatus
  <1>3. Partner!Calm
    <2>1. {p \in Procs : inviteTask[p].op \in {"extend", "assign"}} = {}
      BY <1>1
    <2> QED
      BY <2>1, FS_EmptySet, SameCardinality DEF Partner!Calm
  <1>4. PartnerCarried /\ Partner!InvitesHonoured
    BY <1>1 DEF PartnerCarried, Partner!InvitesHonoured, Partner!Init
  <1> QED
    BY <1>2, <1>3, <1>4 DEF PartnerInv

LEMMA PartnerMoved ==
    ASSUME Partner!TypeOK, NEW p \in Procs, NEW t \in Partner!Task,
           inviteTask' = [inviteTask EXCEPT ![p] = t]
    PROVE  /\ inviteTask' \in [Procs -> Partner!Task]
           /\ inviteTask'[p] = t
           /\ \A q \in Procs \ {p} : inviteTask'[q] = inviteTask[q]
  BY DEF Partner!TypeOK

\* The tasks a request goes through, and what they hold.
LEMMA PartnerTasks ==
    ASSUME Partner!TypeOK
    PROVE  /\ \A op \in {"invite"} :
                 /\ [Partner!Idle EXCEPT !.op = op] \in Partner!Task
                 /\ [Partner!Idle EXCEPT !.op = op].op = op
           /\ \A i \in Pair, op \in {"revoke", "resend"} :
                 /\ [Partner!Idle EXCEPT !.op = op, !.invite = i] \in Partner!Task
                 /\ [Partner!Idle EXCEPT !.op = op, !.invite = i].op = op
                 /\ [Partner!Idle EXCEPT !.op = op, !.invite = i].invite = i
  BY DEF Partner!Idle, Partner!Task

LEMMA PartnerLook ==
    ASSUME Partner!TypeOK, NEW t \in Partner!Task
    PROVE  /\ Partner!Look(t) \in Partner!Task
           /\ Partner!Look(t).op = t.op
           /\ Partner!Look(t).invite = t.invite
           /\ Partner!Look(t).types = t.types
           /\ Partner!Look(t).known = provider.types
           /\ Partner!Look(t).fresh \/ provider.status # "NONE"
  <1>1. (provider.status = "NONE") \in BOOLEAN
    OBVIOUS
  <1>2. Partner!Look(t) = [t EXCEPT !.fresh = (provider.status = "NONE"), !.known = provider.types]
    BY DEF Partner!Look
  <1>3. provider.types \in SUBSET Pair
    BY DEF Partner!TypeOK
  <1> QED
    BY <1>1, <1>2, <1>3 DEF Partner!Task

\* What Partner!Next says of the history.
LEMMA PartnerCalm ==
    ASSUME PartnerInv, Partner!Next
    PROVE  /\ inviteCalm' \in BOOLEAN
           /\ inviteCalm' => inviteCalm /\ Partner!Calm /\ Partner!Calm'
  BY DEF Partner!Next, PartnerInv

\* A request that reads, or goes away: the rows stay as they are.
LEMMA PartnerReads ==
    ASSUME PartnerInv, Partner!Next, NEW p \in Procs, NEW t \in Partner!Task,
           inviteTask' = [inviteTask EXCEPT ![p] = t],
           UNCHANGED <<invite, provider, roles, removed>>,
           t.op \in {"complete", "extend"} =>
              invite[t.invite].state # "NONE" /\ invite[t.invite].types = t.types,
           t.op \in {"revoke", "resend", "complete", "extend"} => t.invite \in Pair,
           t.op \in {"extend", "assign"} =>
              (t.fresh \/ provider.status # "NONE") /\ t.known = provider.types
    PROVE  PartnerInv'
  <1>1. /\ inviteTask' \in [Procs -> Partner!Task]
        /\ inviteTask'[p] = t
        /\ \A q \in Procs \ {p} : inviteTask'[q] = inviteTask[q]
    BY PartnerMoved DEF PartnerInv
  <1>2. Partner!TypeOK'
    BY <1>1, PartnerCalm DEF PartnerInv, Partner!TypeOK
  <1>3. Partner!InvitesHonoured'
    BY PartnerCalm DEF PartnerInv, Partner!InvitesHonoured
  <1>4. PartnerCarried'
    BY <1>1, PartnerCalm DEF PartnerInv, PartnerCarried
  <1> QED
    BY <1>2, <1>3, <1>4, PartnerCalm DEF PartnerInv

\* The invites change, and nothing becomes DONE that was not.
LEMMA PartnerMarks ==
    ASSUME PartnerInv, Partner!Next, UNCHANGED <<provider, roles, removed>>,
           invite' \in [Pair -> [state : Partner!InviteState, types : SUBSET Pair]],
           inviteTask' \in [Procs -> Partner!Task],
           \A q \in Procs : inviteTask'[q] = inviteTask[q] \/ inviteTask'[q].op = "idle",
           \A i \in Pair :
              /\ invite'[i].state = "DONE" =>
                    invite[i].state = "DONE" /\ invite'[i].types = invite[i].types
              /\ invite[i].state # "NONE" =>
                    invite'[i].state # "NONE" /\ invite'[i].types = invite[i].types
    PROVE  PartnerInv'
  <1>1. Partner!TypeOK'
    BY PartnerCalm DEF PartnerInv, Partner!TypeOK
  <1>2. Partner!InvitesHonoured'
    BY PartnerCalm DEF PartnerInv, Partner!InvitesHonoured
  <1>3. PartnerCarried'
    BY PartnerCalm DEF PartnerInv, PartnerCarried
  <1> QED
    BY <1>1, <1>2, <1>3, PartnerCalm DEF PartnerInv

\* The provider is made, or extended by what a request adds.
LEMMA PartnerExtends ==
    ASSUME PartnerInv, NEW p \in Procs, inviteTask[p].op \in {"extend", "assign"},
           Partner!Extend(inviteTask[p])
    PROVE  /\ provider' \in [status : Partner!ProviderStatus, types : SUBSET Pair]
           /\ provider'.status # "NONE"
           /\ inviteTask[p].types \subseteq provider'.types
           /\ inviteCalm => provider.types \subseteq provider'.types
  <1> DEFINE t == inviteTask[p]
  <1>1. /\ t \in Partner!Task
        /\ t.types \in SUBSET Pair /\ t.known \in SUBSET Pair /\ t.fresh \in BOOLEAN
    BY DEF PartnerInv, Partner!TypeOK, Partner!Task
  <1>2. /\ t.fresh \/ provider.status # "NONE"
        /\ inviteCalm => t.known = provider.types
    BY DEF PartnerInv, PartnerCarried
  <1>3. provider' = [status |-> IF t.fresh THEN "PENDING" ELSE provider.status,
                     types  |-> t.known \union t.types]
    BY DEF Partner!Extend
  <1>4. provider.status \in Partner!ProviderStatus
    BY DEF PartnerInv, Partner!TypeOK
  <1>5. provider'.types = t.known \union t.types
    BY <1>3
  <1>6. provider'.status = IF t.fresh THEN "PENDING" ELSE provider.status
    BY <1>3
  <1>7. provider'.status \in Partner!ProviderStatus \ {"NONE"}
    BY <1>1, <1>2, <1>4, <1>6 DEF Partner!ProviderStatus
  <1>8. provider' \in [status : Partner!ProviderStatus, types : SUBSET Pair]
    BY <1>1, <1>3, <1>5, <1>6, <1>7
  <1> QED
    BY <1>2, <1>5, <1>7, <1>8

\* Roles are given and provider types added, beside marking at most the invite for which
\* they are.
LEMMA PartnerGives ==
    ASSUME PartnerInv, Partner!Next, NEW p \in Procs,
           inviteTask[p].op \in {"extend", "assign"}, Partner!Extend(inviteTask[p]),
           inviteTask' = [inviteTask EXCEPT ![p] = Partner!Idle],
           NEW T \in SUBSET Pair, roles' = roles \union T, removed' = removed \ T,
           invite' \in [Pair -> [state : Partner!InviteState, types : SUBSET Pair]],
           \A i \in Pair :
              /\ invite'[i].types = invite[i].types
              /\ invite[i].state # "NONE" => invite'[i].state # "NONE"
              /\ invite'[i].state = "DONE" =>
                    (invite[i].state = "DONE"
                       \/ (invite[i].types = inviteTask[p].types /\ T = inviteTask[p].types))
    PROVE  PartnerInv'
  <1>1. /\ inviteTask' \in [Procs -> Partner!Task]
        /\ inviteTask'[p].op = "idle"
        /\ \A q \in Procs \ {p} : inviteTask'[q] = inviteTask[q]
    BY PartnerMoved, PartnerIdle DEF PartnerInv
  <1>2. /\ provider' \in [status : Partner!ProviderStatus, types : SUBSET Pair]
        /\ provider'.status # "NONE"
        /\ inviteTask[p].types \subseteq provider'.types
        /\ inviteCalm => provider.types \subseteq provider'.types
    BY PartnerExtends
  <1>3. Partner!TypeOK'
    BY <1>1, <1>2, PartnerCalm DEF PartnerInv, Partner!TypeOK
  <1>4. Partner!InvitesHonoured'
    <2>1. roles \union removed \subseteq roles' \union removed' /\ T \subseteq roles'
      OBVIOUS
    <2>2. SUFFICES ASSUME NEW i \in Pair, invite'[i].state = "DONE"
                   PROVE  /\ invite'[i].types \subseteq roles' \union removed'
                          /\ inviteCalm' => invite'[i].types \subseteq provider'.types
      BY <1>2 DEF Partner!InvitesHonoured
    <2>3. CASE invite[i].state = "DONE"
      BY <1>2, <2>1, <2>3, PartnerCalm DEF PartnerInv, Partner!InvitesHonoured
    <2>4. CASE invite[i].types = inviteTask[p].types /\ T = inviteTask[p].types
      BY <1>2, <2>1, <2>4
    <2> QED
      BY <2>2, <2>3, <2>4
  <1>5. PartnerCarried'
    <2>1. inviteCalm' => \A q \in Procs \ {p} : inviteTask[q].op \notin {"extend", "assign"}
      <3> DEFINE S == {q \in Procs : inviteTask[q].op \in {"extend", "assign"}}
      <3>1. S \subseteq Procs /\ p \in S
        OBVIOUS
      <3> QED
        BY <3>1, PartnerCalm, OnlyOne, SameCardinality DEF Partner!Calm
    <2> QED
      BY <1>1, <1>2, <2>1, PartnerCalm DEF PartnerInv, PartnerCarried
  <1> QED
    BY <1>3, <1>4, <1>5, PartnerCalm DEF PartnerInv

LEMMA PartnerRequest ==
    ASSUME PartnerInv, Partner!Next, NEW p \in Procs, Partner!RequestStep(p)
    PROVE  PartnerInv'
  <1>0. /\ inviteTask[p] \in Partner!Task
        /\ inviteTask[p].types \in SUBSET Pair /\ inviteTask[p].invite \in Pair \union {Nothing}
        /\ Partner!TypeOK /\ PartnerCarried
    BY DEF PartnerInv, Partner!TypeOK, Partner!Task
  <1>1. ASSUME Partner!InviteRead(p) \/ Partner!Abort(p) PROVE PartnerInv'
    <2>1. PICK op \in {"invite", "idle"} :
             inviteTask' = [inviteTask EXCEPT ![p] = [Partner!Idle EXCEPT !.op = op]]
      BY <1>1 DEF Partner!InviteRead, Partner!Abort, Partner!Begin, Partner!End, Partner!Idle
    <2>2. UNCHANGED <<invite, provider, roles, removed>>
      BY <1>1 DEF Partner!InviteRead, Partner!Abort, Partner!Others
    <2>3. /\ [Partner!Idle EXCEPT !.op = op] \in Partner!Task
          /\ [Partner!Idle EXCEPT !.op = op].op = op
      BY DEF Partner!Idle, Partner!Task
    <2> QED
      BY <2>1, <2>2, <2>3, PartnerReads
  <1>2. ASSUME NEW i \in Pair, Partner!ReviseRead(p, i) PROVE PartnerInv'
    <2>1. PICK op \in {"revoke", "resend"} :
             inviteTask' = [inviteTask EXCEPT ![p] = [Partner!Idle EXCEPT !.op = op, !.invite = i]]
      BY <1>2 DEF Partner!ReviseRead, Partner!Begin
    <2>2. UNCHANGED <<invite, provider, roles, removed>>
      BY <1>2 DEF Partner!ReviseRead, Partner!Others
    <2> QED
      BY <1>0, <2>1, <2>2, PartnerTasks, PartnerReads
  <1>3. ASSUME NEW i \in Pair, Partner!CompleteRead(p, i) PROVE PartnerInv'
    <2> DEFINE t == [Partner!Idle EXCEPT !.op = "complete", !.invite = i,
                                          !.types = invite[i].types]
    <2>1. /\ inviteTask' = [inviteTask EXCEPT ![p] = t]
          /\ UNCHANGED <<invite, provider, roles, removed>> /\ invite[i].state = "OPEN"
      BY <1>3 DEF Partner!CompleteRead, Partner!Begin, Partner!Others
    <2>2. invite[i].types \in SUBSET Pair
      BY <1>0 DEF Partner!TypeOK
    <2>3. t \in Partner!Task /\ t.op = "complete" /\ t.invite = i /\ t.types = invite[i].types
      BY <2>2 DEF Partner!Idle, Partner!Task
    <2> HIDE DEF t
    <2> QED
      BY <2>1, <2>3, PartnerReads
  <1>4. ASSUME Partner!ProviderRead(p) PROVE PartnerInv'
    <2> DEFINE l == Partner!Look(inviteTask[p])
               t == [l EXCEPT !.op = "extend"]
    <2>1. /\ inviteTask' = [inviteTask EXCEPT ![p] = t]
          /\ UNCHANGED <<invite, provider, roles, removed>> /\ inviteTask[p].op = "complete"
      BY <1>4 DEF Partner!ProviderRead, Partner!Others
    <2>2. /\ l \in Partner!Task /\ l.invite = inviteTask[p].invite
          /\ l.types = inviteTask[p].types /\ l.known = provider.types
          /\ l.fresh \/ provider.status # "NONE"
      BY <1>0, PartnerLook
    <2> HIDE DEF l
    <2>3. /\ t \in Partner!Task /\ t.op = "extend" /\ t.invite = inviteTask[p].invite
          /\ t.types = inviteTask[p].types /\ t.known = provider.types
          /\ t.fresh \/ provider.status # "NONE"
      BY <2>2 DEF Partner!Task
    <2> HIDE DEF t
    <2> QED
      BY <1>0, <2>1, <2>3, PartnerReads DEF PartnerCarried
  <1>5. ASSUME NEW r \in Pair, Partner!AssignRead(p, r) PROVE PartnerInv'
    <2> DEFINE s == [Partner!Idle EXCEPT !.op = "assign", !.types = {r}, !.had = (r \in roles)]
               t == Partner!Look(s)
    <2>1. inviteTask' = [inviteTask EXCEPT ![p] = t] /\ UNCHANGED <<invite, provider, roles, removed>>
      BY <1>5 DEF Partner!AssignRead, Partner!Begin, Partner!Others
    <2>2. s \in Partner!Task /\ s.op = "assign"
      <3>1. (r \in roles) \in BOOLEAN /\ {r} \in SUBSET Pair
        OBVIOUS
      <3> QED
        BY <3>1 DEF Partner!Idle, Partner!Task
    <2> HIDE DEF s
    <2>3. /\ t \in Partner!Task /\ t.op = "assign" /\ t.known = provider.types
          /\ t.fresh \/ provider.status # "NONE"
      BY <1>0, <2>2, PartnerLook
    <2> HIDE DEF t
    <2> QED
      BY <2>1, <2>3, PartnerReads
  <1>6. ASSUME inviteTask' = [inviteTask EXCEPT ![p] = Partner!Idle]
        PROVE  /\ inviteTask' \in [Procs -> Partner!Task]
               /\ \A q \in Procs : inviteTask'[q] = inviteTask[q] \/ inviteTask'[q].op = "idle"
    BY <1>0, <1>6, PartnerIdle, PartnerMoved
  <1>7. ASSUME Partner!InviteInsert(p) PROVE PartnerInv'
    <2>1. PICK i \in Pair, T \in SUBSET Pair :
            /\ invite[i].state = "NONE"
            /\ invite' = [invite EXCEPT ![i] = [state |-> "OPEN", types |-> T]]
      BY <1>7 DEF Partner!InviteInsert
    <2>2. /\ inviteTask' = [inviteTask EXCEPT ![p] = Partner!Idle]
          /\ UNCHANGED <<provider, roles, removed>>
      BY <1>7 DEF Partner!InviteInsert, Partner!End, Partner!Others
    <2>3. [state |-> "OPEN", types |-> T] \in [state : Partner!InviteState, types : SUBSET Pair]
      BY DEF Partner!InviteState
    <2>4. /\ invite' \in [Pair -> [state : Partner!InviteState, types : SUBSET Pair]]
          /\ invite'[i].state = "OPEN"
          /\ \A j \in Pair \ {i} : invite'[j] = invite[j]
      BY <1>0, <2>1, <2>3 DEF Partner!TypeOK
    <2> QED
      BY <1>6, <2>1, <2>2, <2>4, PartnerMarks
  <1>8. ASSUME NEW i \in Pair, NEW s \in Partner!InviteState, Partner!Mark(i, s)
        PROVE  /\ invite' \in [Pair -> [state : Partner!InviteState, types : SUBSET Pair]]
               /\ invite'[i].state = s /\ invite'[i].types = invite[i].types
               /\ \A j \in Pair \ {i} : invite'[j] = invite[j]
    BY <1>0, <1>8 DEF Partner!Mark, Partner!TypeOK
  <1>9. ASSUME Partner!ReviseWrite(p) PROVE PartnerInv'
    <2> DEFINE i == inviteTask[p].invite
               s == IF invite[i].state = "DONE" THEN "DONE"
                    ELSE IF inviteTask[p].op = "revoke" THEN "LAPSED" ELSE "OPEN"
    <2>1. /\ Partner!Mark(i, s) /\ inviteTask' = [inviteTask EXCEPT ![p] = Partner!Idle]
          /\ UNCHANGED <<provider, roles, removed>> /\ inviteTask[p].op \in {"revoke", "resend"}
      BY <1>9 DEF Partner!ReviseWrite, Partner!End, Partner!Others
    <2>2. i \in Pair
      BY <1>0, <2>1 DEF PartnerCarried
    <2>3. /\ s \in Partner!InviteState /\ s # "NONE"
          /\ s = "DONE" => invite[i].state = "DONE"
      BY DEF Partner!InviteState
    <2> HIDE DEF i, s
    <2> QED
      BY <1>6, <1>8, <2>1, <2>2, <2>3, PartnerMarks
  <1>10. ASSUME Partner!CompleteCommit(p) PROVE PartnerInv'
    <2> DEFINE i == inviteTask[p].invite
    <2>1. /\ Partner!Mark(i, "DONE") /\ inviteTask' = [inviteTask EXCEPT ![p] = Partner!Idle]
          /\ Partner!Extend(inviteTask[p]) /\ inviteTask[p].op = "extend"
          /\ roles' = roles \union inviteTask[p].types
          /\ removed' = removed \ inviteTask[p].types
      BY <1>10 DEF Partner!CompleteCommit, Partner!End, Partner!GiveAll, Partner!Give
    <2>2. i \in Pair /\ invite[i].types = inviteTask[p].types
      BY <1>0, <2>1 DEF PartnerCarried
    <2>3. "DONE" \in Partner!InviteState
      BY DEF Partner!InviteState
    <2> HIDE DEF i
    <2>4. /\ invite' \in [Pair -> [state : Partner!InviteState, types : SUBSET Pair]]
          /\ invite'[i].state = "DONE" /\ invite'[i].types = invite[i].types
          /\ \A j \in Pair \ {i} : invite'[j] = invite[j]
      BY <1>8, <2>1, <2>2, <2>3
    <2>5. \A j \in Pair :
            /\ invite'[j].types = invite[j].types
            /\ invite[j].state # "NONE" => invite'[j].state # "NONE"
            /\ invite'[j].state = "DONE" =>
                  (invite[j].state = "DONE" \/ invite[j].types = inviteTask[p].types)
      BY <2>2, <2>4
    <2>6. inviteTask[p].op \in {"extend", "assign"} /\ inviteTask[p].types \in SUBSET Pair
      BY <1>0, <2>1
    <2> QED
      BY <2>1, <2>4, <2>5, <2>6, PartnerGives
  <1>11. ASSUME Partner!AssignCommit(p) PROVE PartnerInv'
    <2>1. /\ inviteTask' = [inviteTask EXCEPT ![p] = Partner!Idle] /\ UNCHANGED invite
          /\ Partner!Extend(inviteTask[p]) /\ inviteTask[p].op = "assign"
      BY <1>11 DEF Partner!AssignCommit, Partner!End
    <2>2. PICK T \in SUBSET Pair : roles' = roles \union T /\ removed' = removed \ T
      <3>1. CASE inviteTask[p].had
        <4>1. roles' = roles \union {} /\ removed' = removed \ {}
          BY <1>11, <3>1 DEF Partner!AssignCommit
        <4> QED
          BY <4>1
      <3>2. CASE ~ inviteTask[p].had
        BY <1>0, <1>11, <3>2 DEF Partner!AssignCommit, Partner!Give
      <3> QED
        BY <3>1, <3>2
    <2>3. invite' \in [Pair -> [state : Partner!InviteState, types : SUBSET Pair]]
      BY <1>0, <2>1 DEF Partner!TypeOK
    <2> QED
      BY <2>1, <2>2, <2>3, PartnerGives
  <1> QED
    BY <1>1, <1>2, <1>3, <1>4, <1>5, <1>7, <1>9, <1>10, <1>11 DEF Partner!RequestStep

LEMMA PartnerNext == ASSUME PartnerInv, Partner!Next PROVE PartnerInv'
  <1>1. ASSUME NEW i \in Pair, Partner!Lapse(i) PROVE PartnerInv'
    <2>1. /\ invite' = [invite EXCEPT ![i].state = "LAPSED"]
          /\ UNCHANGED <<inviteTask, provider, roles, removed>>
      BY <1>1 DEF Partner!Lapse, Partner!Mark, Partner!Others
    <2>2. /\ invite \in [Pair -> [state : Partner!InviteState, types : SUBSET Pair]]
          /\ inviteTask \in [Procs -> Partner!Task] /\ "LAPSED" \in Partner!InviteState
      BY DEF PartnerInv, Partner!TypeOK, Partner!InviteState
    <2>3. /\ invite' \in [Pair -> [state : Partner!InviteState, types : SUBSET Pair]]
          /\ invite'[i].state = "LAPSED" /\ invite'[i].types = invite[i].types
          /\ \A j \in Pair \ {i} : invite'[j] = invite[j]
      BY <2>1, <2>2
    <2> QED
      BY <2>1, <2>2, <2>3, PartnerMarks
  <1>2. ASSUME NEW r \in Pair, Partner!RemoveRole(r) PROVE PartnerInv'
    <2>1. /\ UNCHANGED <<invite, provider, inviteTask>>
          /\ roles' \union removed' = roles \union removed
          /\ roles' \in SUBSET Pair /\ removed' \in SUBSET Pair
      BY <1>2 DEF Partner!RemoveRole, PartnerInv, Partner!TypeOK
    <2>2. Partner!TypeOK'
      BY <2>1, PartnerCalm DEF PartnerInv, Partner!TypeOK
    <2>3. Partner!InvitesHonoured' /\ PartnerCarried'
      BY <2>1, PartnerCalm DEF PartnerInv, Partner!InvitesHonoured, PartnerCarried
    <2> QED
      BY <2>2, <2>3, PartnerCalm DEF PartnerInv
  <1>3. CASE Partner!Judge
    <2>1. UNCHANGED <<invite, roles, inviteTask, removed>>
      BY <1>3 DEF Partner!Judge
    <2>2. /\ provider' \in [status : Partner!ProviderStatus, types : SUBSET Pair]
          /\ provider'.status # "NONE" /\ provider'.types = provider.types
      <3>1. PICK s \in {"ACTIVE", "SUSPENDED"} : provider' = [provider EXCEPT !.status = s]
        BY <1>3 DEF Partner!Judge
      <3>2. provider \in [status : Partner!ProviderStatus, types : SUBSET Pair]
        BY DEF PartnerInv, Partner!TypeOK
      <3> QED
        BY <3>1, <3>2 DEF Partner!ProviderStatus
    <2>3. Partner!TypeOK'
      BY <2>1, <2>2, PartnerCalm DEF PartnerInv, Partner!TypeOK
    <2>4. Partner!InvitesHonoured' /\ PartnerCarried'
      BY <2>1, <2>2, PartnerCalm DEF PartnerInv, Partner!InvitesHonoured, PartnerCarried
    <2> QED
      BY <2>3, <2>4, PartnerCalm DEF PartnerInv
  <1> QED
    BY <1>1, <1>2, <1>3, PartnerRequest DEF Partner!Next, Partner!Step

LEMMA PartnerStays == ASSUME PartnerInv, UNCHANGED inviteVars PROVE PartnerInv'
  BY DEF inviteVars, PartnerInv, Partner!TypeOK, Partner!InvitesHonoured, Partner!Calm,
              PartnerCarried

\* A completed invite made its user a partner with the invited roles, and there is an
\* admin left, the default admin if there is one.
THEOREM RolesAreSound == Spec => []RolesSound
  <1>1. PartnerInv /\ [Next]_vars => PartnerInv'
    BY OwnSteps, PartnerNext, PartnerStays
  <1>2. PartnerInv /\ Admin!AdminRemains => RolesSound
    BY DEF PartnerInv, RolesSound
  <1> QED
    BY <1>1, <1>2, PartnerInit, AdminSafe, PTL DEF Spec

-----------------------------------------------------------------------------
(* Ratings *)

RatingPending == \E p \in Procs : starTask[p].op = "aggregate"

\* What is about to be stored is the true rating, or another computation is to follow,
\* and one request stores at a time.
RatingCarried ==
    /\ \A p \in Procs : starTask[p].op = "store" =>
          (starTask[p].figure = Rating!Aggregate \/ RatingPending)
    /\ \A p, q \in Procs : starTask[p].op = "store" /\ starTask[q].op = "store" => p = q
    /\ \/ stored = Rating!Aggregate
       \/ \E p \in Procs : starTask[p].op \in {"aggregate", "store"}

RatingInv == Rating!TypeOK /\ (~ torn => RatingCarried)

\* A rating is within its bounds.
LEMMA AggregateType ==
    ASSUME stars \in [Things -> 0..MaxStars] PROVE Rating!Aggregate \in Rating!Figure
  <1> DEFINE S == {s \in Things \X (1..MaxStars) : s[2] <= stars[s[1]]}
  <1>1. IsFiniteSet(Things) /\ MaxStars \in Nat
    BY DeskAssumption, SameFinite DEF Rating!RatingsAssumption
  <1>2. IsFiniteSet(1..MaxStars) /\ Cardinality(1..MaxStars) = MaxStars
    <2>1. Cardinality(1..MaxStars) = IF 1 > MaxStars THEN 0 ELSE MaxStars - 1 + 1
      BY <1>1, FS_Interval
    <2> QED
      BY <1>1, <2>1, FS_Interval
  <1>3. /\ IsFiniteSet(Things \X (1..MaxStars))
        /\ Cardinality(Things \X (1..MaxStars)) = Cardinality(Things) * MaxStars
    BY <1>1, <1>2, FS_Product
  <1>4. IsFiniteSet(S) /\ Cardinality(S) <= Cardinality(Things \X (1..MaxStars))
    BY <1>3, FS_Subset
  <1>5. IsFiniteSet(Rating!Reviewers) /\ Cardinality(Rating!Reviewers) <= Cardinality(Things)
    BY <1>1, FS_Subset DEF Rating!Reviewers
  <1>6. Cardinality(S) \in Nat /\ Cardinality(Rating!Reviewers) \in Nat /\ Cardinality(Things) \in Nat
    BY <1>1, <1>4, <1>5, FS_CardinalityType
  <1>7. Rating!Aggregate = [sum |-> Cardinality(S), count |-> Cardinality(Rating!Reviewers)]
    BY SameCardinality DEF Rating!Aggregate
  <1>8. Rating!Figure = [sum : 0..MaxStars * Cardinality(Things), count : 0..Cardinality(Things)]
    BY SameCardinality DEF Rating!Figure
  <1> HIDE DEF S
  <1>9. MaxStars * Cardinality(Things) = Cardinality(Things) * MaxStars
    BY <1>1, <1>6
  <1>10. /\ Cardinality(S) \in 0..MaxStars * Cardinality(Things)
         /\ Cardinality(Rating!Reviewers) \in 0..Cardinality(Things)
    BY <1>3, <1>4, <1>5, <1>6, <1>9
  <1> QED
    BY <1>7, <1>8, <1>10

LEMMA RatingBlank == Rating!None \in Rating!Figure /\ Rating!Idle \in Rating!Task /\ Rating!Idle.op = "idle"
  <1>1. IsFiniteSet(Things) /\ MaxStars \in Nat
    BY DeskAssumption, SameFinite DEF Rating!RatingsAssumption
  <1>2. Cardinality(Things) \in Nat /\ MaxStars * Cardinality(Things) \in Nat
    BY <1>1, FS_CardinalityType
  <1>3. Rating!None \in Rating!Figure
    BY <1>2, SameCardinality DEF Rating!None, Rating!Figure
  <1> QED
    BY <1>3 DEF Rating!Idle, Rating!Task

LEMMA RatingInit == Init => RatingInv
  <1> SUFFICES ASSUME Rating!Init PROVE RatingInv
    BY DEF Init
  <1>1. starTask \in [Procs -> Rating!Task] /\ \A p \in Procs : starTask[p].op = "idle"
    BY RatingBlank DEF Rating!Init
  <1>2. Rating!TypeOK
    <2>1. 0 \in 0..MaxStars
      BY DeskAssumption DEF Rating!RatingsAssumption
    <2> QED
      BY <1>1, <2>1, RatingBlank DEF Rating!TypeOK, Rating!Init
  <1>3. stored = Rating!Aggregate
    <2>1. MaxStars \in Nat
      BY DeskAssumption DEF Rating!RatingsAssumption
    <2>2. Rating!Reviewers = {} /\ {s \in Things \X (1..MaxStars) : s[2] <= stars[s[1]]} = {}
      BY <2>1 DEF Rating!Reviewers, Rating!Init
    <2>3. Rating!Aggregate = [sum |-> 0, count |-> 0]
      BY <2>2, FS_EmptySet, SameCardinality DEF Rating!Aggregate
    <2> QED
      BY <2>3 DEF Rating!Init, Rating!None
  <1>4. RatingCarried
    BY <1>1, <1>3 DEF RatingCarried
  <1> QED
    BY <1>2, <1>4 DEF RatingInv

LEMMA RatingMoved ==
    ASSUME Rating!TypeOK, NEW p \in Procs, NEW t \in Rating!Task,
           starTask' = [starTask EXCEPT ![p] = t]
    PROVE  /\ starTask' \in [Procs -> Rating!Task]
           /\ starTask'[p] = t
           /\ \A q \in Procs \ {p} : starTask'[q] = starTask[q]
  BY DEF Rating!TypeOK

LEMMA RatingNext == ASSUME RatingInv, Rating!Next PROVE RatingInv'
  <1> USE DEF RatingInv
  <1>0. PICK p \in Procs : Rating!RequestStep(p)
    BY DEF Rating!Next
  <1>1. Rating!TypeOK /\ starTask[p] \in Rating!Task
    BY DEF Rating!TypeOK
  <1>2. ASSUME NEW op \in {"aggregate"}
        PROVE  /\ [starTask[p] EXCEPT !.op = op] \in Rating!Task
               /\ [starTask[p] EXCEPT !.op = op].op = op
    BY <1>1 DEF Rating!Task
  <1>3. ASSUME UNCHANGED stars PROVE Rating!Aggregate' = Rating!Aggregate
    BY <1>3 DEF Rating!Aggregate, Rating!Reviewers
  <1>4. ASSUME NEW u \in Things, Rating!PostRead(p, u) \/ Rating!ChangeRead(p, u) PROVE RatingInv'
    <2>1. PICK op \in {"post", "edit", "erase"} :
             starTask' = [starTask EXCEPT ![p] = [Rating!Idle EXCEPT !.op = op, !.user = u]]
      BY <1>4 DEF Rating!PostRead, Rating!ChangeRead, Rating!Begin
    <2>2. UNCHANGED <<stars, stored, torn>> /\ starTask[p].op = "idle"
      BY <1>4 DEF Rating!PostRead, Rating!ChangeRead, Rating!Begin
    <2>3. /\ [Rating!Idle EXCEPT !.op = op, !.user = u] \in Rating!Task
          /\ [Rating!Idle EXCEPT !.op = op, !.user = u].op = op
      BY RatingBlank DEF Rating!Idle, Rating!Task
    <2>4. /\ starTask' \in [Procs -> Rating!Task] /\ starTask'[p].op = op
          /\ \A q \in Procs \ {p} : starTask'[q] = starTask[q]
      BY <1>1, <2>1, <2>3, RatingMoved
    <2>5. Rating!TypeOK'
      BY <1>1, <2>2, <2>4 DEF Rating!TypeOK
    <2>6. RatingPending => RatingPending'
      BY <2>2, <2>4 DEF RatingPending
    <2>7. RatingCarried => RatingCarried'
      BY <1>3, <2>2, <2>4, <2>6 DEF RatingCarried
    <2> QED
      BY <2>2, <2>5, <2>7
  <1>5. ASSUME Rating!PostWrite(p) \/ Rating!EditWrite(p) \/ Rating!EraseWrite(p) PROVE RatingInv'
    <2>1. /\ starTask' = [starTask EXCEPT ![p] = [starTask[p] EXCEPT !.op = "aggregate"]]
          /\ UNCHANGED <<stored, torn>> /\ starTask[p].op \notin {"aggregate", "store"}
      BY <1>5 DEF Rating!PostWrite, Rating!EditWrite, Rating!EraseWrite, Rating!Goto,
                  Rating!Following
    <2>2. /\ starTask' \in [Procs -> Rating!Task] /\ starTask'[p].op = "aggregate"
          /\ \A q \in Procs \ {p} : starTask'[q] = starTask[q]
      BY <1>1, <1>2, <2>1, RatingMoved
    <2>3. stars' \in [Things -> 0..MaxStars]
      <3>1. MaxStars \in Nat /\ 0 \in 0..MaxStars /\ \A n \in 1..MaxStars : n \in 0..MaxStars
        BY DeskAssumption DEF Rating!RatingsAssumption
      <3>2. PICK n \in 0..MaxStars : stars' = [stars EXCEPT ![starTask[p].user] = n]
        BY <1>5, <3>1 DEF Rating!PostWrite, Rating!EditWrite, Rating!EraseWrite
      <3> QED
        BY <1>1, <3>2 DEF Rating!TypeOK
    <2>4. Rating!TypeOK'
      BY <1>1, <2>1, <2>2, <2>3 DEF Rating!TypeOK
    <2>5. RatingPending'
      BY <2>2 DEF RatingPending
    <2>6. RatingCarried => RatingCarried'
      BY <2>2, <2>5 DEF RatingCarried
    <2> QED
      BY <2>1, <2>4, <2>6
  <1>6. ASSUME Rating!AggregateRead(p) PROVE RatingInv'
    <2> DEFINE t == [starTask[p] EXCEPT !.op = "store", !.figure = Rating!Aggregate]
    <2>1. starTask' = [starTask EXCEPT ![p] = t] /\ UNCHANGED <<stars, stored>>
      BY <1>6 DEF Rating!AggregateRead
    <2>2. Rating!Aggregate \in Rating!Figure
      BY <1>1, AggregateType DEF Rating!TypeOK
    <2>3. t \in Rating!Task /\ t.op = "store" /\ t.figure = Rating!Aggregate
      BY <1>1, <2>2 DEF Rating!Task
    <2> HIDE DEF t
    <2>4. /\ starTask' \in [Procs -> Rating!Task] /\ starTask'[p] = t
          /\ \A q \in Procs \ {p} : starTask'[q] = starTask[q]
      BY <1>1, <2>1, <2>3, RatingMoved
    <2>5. /\ torn' \in BOOLEAN
          /\ ~ torn' => \A q \in Procs \ {p} : starTask[q].op # "store"
      BY <1>6 DEF Rating!AggregateRead
    <2>6. Rating!TypeOK'
      BY <1>1, <2>1, <2>4, <2>5 DEF Rating!TypeOK
    <2>7. ~ torn' => RatingCarried'
      BY <1>3, <2>1, <2>3, <2>4, <2>5 DEF RatingCarried
    <2> QED
      BY <2>6, <2>7
  <1>7. ASSUME starTask' = [starTask EXCEPT ![p] = Rating!Idle]
        PROVE  /\ starTask' \in [Procs -> Rating!Task] /\ starTask'[p].op = "idle"
               /\ \A q \in Procs \ {p} : starTask'[q] = starTask[q]
    BY <1>1, <1>7, RatingBlank, RatingMoved
  <1>8. ASSUME Rating!Store(p) PROVE RatingInv'
    <2>1. /\ starTask' = [starTask EXCEPT ![p] = Rating!Idle] /\ UNCHANGED <<stars, torn>>
          /\ stored' = starTask[p].figure /\ starTask[p].op = "store"
      BY <1>8 DEF Rating!Store, Rating!End
    <2>2. starTask[p].figure \in Rating!Figure
      BY <1>1 DEF Rating!Task
    <2>3. Rating!TypeOK'
      BY <1>1, <1>7, <2>1, <2>2 DEF Rating!TypeOK
    <2>4. RatingPending => RatingPending'
      BY <1>7, <2>1 DEF RatingPending
    <2>5. RatingPending' => \E q \in Procs : starTask'[q].op \in {"aggregate", "store"}
      BY DEF RatingPending
    <2>6. RatingCarried => RatingCarried'
      BY <1>3, <1>7, <2>1, <2>4, <2>5 DEF RatingCarried
    <2> QED
      BY <2>1, <2>3, <2>6
  <1>9. ASSUME Rating!Abort(p) PROVE RatingInv'
    <2>1. starTask' = [starTask EXCEPT ![p] = Rating!Idle] /\ UNCHANGED <<stars, stored>>
      BY <1>9 DEF Rating!Abort, Rating!End
    <2>2. /\ torn' \in BOOLEAN
          /\ ~ torn' => ~ torn /\ starTask[p].op \notin {"aggregate", "store"}
      BY <1>9 DEF Rating!Abort
    <2>3. Rating!TypeOK'
      BY <1>1, <1>7, <2>1, <2>2 DEF Rating!TypeOK
    <2>4. ~ torn' => (RatingPending => RatingPending')
      BY <1>7, <2>1, <2>2 DEF RatingPending
    <2>5. ~ torn' => RatingCarried'
      BY <1>3, <1>7, <2>1, <2>2, <2>4 DEF RatingCarried
    <2> QED
      BY <2>3, <2>5
  <1> QED
    BY <1>0, <1>4, <1>5, <1>6, <1>8, <1>9 DEF Rating!RequestStep

LEMMA RatingStays == ASSUME RatingInv, UNCHANGED starVars PROVE RatingInv'
  BY DEF starVars, RatingInv, Rating!TypeOK, RatingCarried, RatingPending,
              Rating!Aggregate, Rating!Reviewers

\* When nothing is left to compute, the rating of a product is that of its reviews, but
\* for a request that failed half way or two that stored side by side.
THEOREM RatingsAreTrue == Spec => []RatingIsTrue
  <1>1. RatingInv /\ [Next]_vars => RatingInv'
    BY OwnSteps, RatingNext, RatingStays
  <1>2. RatingInv => RatingIsTrue
    BY DEF RatingInv, RatingCarried, RatingIsTrue, Rating!RatingIsTrue
  <1> QED
    BY <1>1, <1>2, RatingInit, PTL DEF Spec

-----------------------------------------------------------------------------
(* The room and its homestay *)

Held == {b \in Pair : held[b] = "HOLDING"}

\* What is known while edits keep apart, and bookings keep apart from deletions.
ListingCarried ==
    /\ room.exists => room.final = Listing!FinalPrice(room.base, room.discount)
    /\ retired => Held \subseteq revived
    /\ \A p \in Procs :
        /\ listTask[p].op = "edit" =>
              listTask[p].base = room.base /\ listTask[p].discount = room.discount
        /\ listTask[p].op \in {"drop", "close"} => Held \subseteq revived
        /\ listTask[p].op = "book" => ~ retired

\* What is deleted cannot be booked, and rows are there that were read.
ListingRows ==
    /\ retired => ~ (room.active /\ open)
    /\ retired /\ ~ room.exists => ~ open
    /\ \A p \in Procs : listTask[p].op \in {"edit", "drop"} => room.exists

ListingInv ==
    /\ Listing!TypeOK
    /\ ListingRows
    /\ listCalm => Listing!Calm /\ ListingCarried

LEMMA PriceType ==
    ASSUME NEW b \in 0..MaxPrice, NEW d \in Listing!Discounts
    PROVE  Listing!FinalPrice(b, d) \in 0..MaxPrice
  BY DeskAssumption DEF Listing!ListingsAssumption, Listing!Discounts, Listing!FinalPrice

LEMMA ListingBlank ==
    /\ Listing!Idle \in Listing!Task /\ Listing!Idle.op = "idle"
    /\ Listing!NoRoom \in [exists : BOOLEAN, active : BOOLEAN, base : Listing!Prices,
                           discount : Listing!Discounts, final : 0..MaxPrice]
    /\ Listing!NoRoom.exists = FALSE /\ Listing!NoRoom.active = FALSE
  <1>1. /\ 0 \in 0..MaxPrice /\ 1 \in 0..MaxPrice /\ 1 \in Listing!Prices
        /\ 0 \in Listing!Discounts
    BY DeskAssumption DEF Listing!ListingsAssumption, Listing!Prices, Listing!Discounts
  <1>2. Listing!Idle \in Listing!Task /\ Listing!Idle.op = "idle"
    BY <1>1 DEF Listing!Idle, Listing!Task
  <1>3. FALSE \in BOOLEAN
    OBVIOUS
  <1> QED
    BY <1>1, <1>2, <1>3 DEF Listing!NoRoom

LEMMA ListingInit == Init => ListingInv
  <1> SUFFICES ASSUME Listing!Init PROVE ListingInv
    BY DEF Init
  <1>1. listTask \in [Procs -> Listing!Task] /\ \A p \in Procs : listTask[p].op = "idle"
    BY ListingBlank DEF Listing!Init
  <1>2. Listing!TypeOK
    BY <1>1, ListingBlank DEF Listing!TypeOK, Listing!Init
  <1>3. Listing!Calm
    <2>1. /\ {p \in Procs : listTask[p].op \in {"edit"}} = {}
          /\ {p \in Procs : listTask[p].op \in {"book"}} = {}
      BY <1>1
    <2> QED
      BY <2>1, FS_EmptySet, SameCardinality DEF Listing!Calm, Listing!Doing
  <1>4. ~ retired /\ ~ room.exists
    BY ListingBlank DEF Listing!Init
  <1>5. ListingRows /\ ListingCarried
    BY <1>1, <1>4 DEF ListingRows, ListingCarried
  <1> QED
    BY <1>2, <1>3, <1>5 DEF ListingInv

LEMMA ListingMoved ==
    ASSUME Listing!TypeOK, NEW p \in Procs, NEW t \in Listing!Task,
           listTask' = [listTask EXCEPT ![p] = t]
    PROVE  /\ listTask' \in [Procs -> Listing!Task]
           /\ listTask'[p] = t
           /\ \A q \in Procs \ {p} : listTask'[q] = listTask[q]
  BY DEF Listing!TypeOK

\* What Listing!Next says of the history.
LEMMA ListingCalm ==
    ASSUME ListingInv, Listing!Next
    PROVE  /\ listCalm' \in BOOLEAN
           /\ listCalm' => listCalm /\ Listing!Calm /\ ListingCarried
  BY DEF Listing!Next, ListingInv

\* A request that reads, or goes away.
LEMMA ListingReads ==
    ASSUME ListingInv, Listing!Next, NEW p \in Procs, NEW t \in Listing!Task,
           listTask' = [listTask EXCEPT ![p] = t],
           UNCHANGED <<open, room, held, retired, revived>>,
           t.op \in {"edit", "drop"} => room.exists,
           t.op = "edit" => t.base = room.base /\ t.discount = room.discount,
           t.op \in {"drop", "close"} => Held = {},
           t.op = "book" => room.active /\ open
    PROVE  ListingInv'
  <1>1. /\ listTask' \in [Procs -> Listing!Task]
        /\ listTask'[p] = t
        /\ \A q \in Procs \ {p} : listTask'[q] = listTask[q]
    BY ListingMoved DEF ListingInv
  <1>2. Listing!TypeOK'
    BY <1>1, ListingCalm DEF ListingInv, Listing!TypeOK
  <1>3. ListingRows'
    BY <1>1 DEF ListingInv, ListingRows
  <1>4. Held' = Held
    BY DEF Held
  <1>5. ListingCarried => ListingCarried'
    BY <1>1, <1>4 DEF ListingInv, ListingRows, ListingCarried
  <1>6. listCalm' => Listing!Calm'
    BY DEF Listing!Next
  <1> QED
    BY <1>2, <1>3, <1>5, <1>6, ListingCalm DEF ListingInv

LEMMA ListingRequest ==
    ASSUME ListingInv, Listing!Next, NEW p \in Procs, Listing!RequestStep(p)
    PROVE  ListingInv'
  <1>0. Listing!TypeOK /\ ListingRows /\ listTask[p] \in Listing!Task
    BY DEF ListingInv, Listing!TypeOK
  <1>a. listCalm' => Listing!Calm'
    BY DEF Listing!Next
  <1>b. ASSUME listTask' = [listTask EXCEPT ![p] = Listing!Idle]
        PROVE  /\ listTask' \in [Procs -> Listing!Task] /\ listTask'[p].op = "idle"
               /\ \A q \in Procs \ {p} : listTask'[q] = listTask[q]
    BY <1>0, <1>b, ListingBlank, ListingMoved
  <1>1. ASSUME Listing!CreateRead(p) \/ Listing!BookRead(p) \/ Listing!DeleteCheck(p)
        PROVE  ListingInv'
    <2>1. PICK op \in {"create", "book", "drop", "close"} :
            /\ listTask' = [listTask EXCEPT ![p] = [Listing!Idle EXCEPT !.op = op]]
            /\ op = "drop" => room.exists
            /\ op \in {"drop", "close"} => Held = {}
            /\ op = "book" => room.active /\ open
      BY <1>1 DEF Listing!CreateRead, Listing!BookRead, Listing!DeleteCheck, Listing!Begin,
                  Listing!Holds, Held
    <2>2. UNCHANGED <<open, room, held, retired, revived>>
      BY <1>1 DEF Listing!CreateRead, Listing!BookRead, Listing!DeleteCheck
    <2>3. /\ [Listing!Idle EXCEPT !.op = op] \in Listing!Task
          /\ [Listing!Idle EXCEPT !.op = op].op = op
      BY ListingBlank DEF Listing!Idle, Listing!Task
    <2> QED
      BY <2>1, <2>2, <2>3, ListingReads
  <1>2. ASSUME Listing!EditRead(p) PROVE ListingInv'
    <2> DEFINE t == [op |-> "edit", base |-> room.base, discount |-> room.discount]
    <2>1. /\ listTask' = [listTask EXCEPT ![p] = t] /\ room.exists
          /\ UNCHANGED <<open, room, held, retired, revived>>
      BY <1>2 DEF Listing!EditRead, Listing!Begin
    <2>2. room.base \in 0..MaxPrice /\ room.discount \in Listing!Discounts
      BY <1>0 DEF Listing!TypeOK, Listing!Prices
    <2>3. t \in Listing!Task /\ t.op = "edit" /\ t.base = room.base /\ t.discount = room.discount
      BY <2>2 DEF Listing!Task
    <2> HIDE DEF t
    <2> QED
      BY <2>1, <2>3, ListingReads
  <1>3. ASSUME Listing!Abort(p) PROVE ListingInv'
    BY <1>3, ListingBlank, ListingReads DEF Listing!Abort, Listing!End
  <1>4. ASSUME Listing!CreateWrite(p) PROVE ListingInv'
    <2>1. PICK b \in Listing!Prices, d \in Listing!Discounts, a \in BOOLEAN :
             room' = [exists |-> TRUE, active |-> a, base |-> b, discount |-> d,
                      final |-> Listing!FinalPrice(b, d)]
      BY <1>4 DEF Listing!CreateWrite
    <2>2. /\ listTask' = [listTask EXCEPT ![p] = Listing!Idle] /\ ~ room.exists
          /\ UNCHANGED <<open, held, retired, revived>>
      BY <1>4 DEF Listing!CreateWrite, Listing!End
    <2>3. Listing!FinalPrice(b, d) \in 0..MaxPrice
      BY PriceType DEF Listing!Prices
    <2>4. /\ room' \in [exists : BOOLEAN, active : BOOLEAN, base : Listing!Prices,
                        discount : Listing!Discounts, final : 0..MaxPrice]
          /\ room'.exists /\ room'.base = b /\ room'.discount = d
          /\ room'.final = Listing!FinalPrice(b, d)
      BY <2>1, <2>3
    <2>5. Listing!TypeOK'
      BY <1>0, <1>b, <2>2, <2>4, ListingCalm DEF Listing!TypeOK
    <2>6. ListingRows'
      BY <1>0, <1>b, <2>2, <2>4 DEF ListingRows
    <2>7. ListingCarried => ListingCarried'
      BY <1>0, <1>b, <2>2, <2>4 DEF ListingCarried, ListingRows, Held, Listing!FinalPrice
    <2> QED
      BY <1>a, <2>5, <2>6, <2>7, ListingCalm DEF ListingInv
  <1>5. ASSUME Listing!EditWrite(p) PROVE ListingInv'
    <2>1. PICK b \in Listing!Prices \union {0}, d \in Listing!Discounts \union {-1}, a \in BOOLEAN :
            /\ room' = [room EXCEPT
                 !.base     = IF b = 0 THEN @ ELSE b,
                 !.discount = IF d = -1 THEN @ ELSE d,
                 !.active   = a,
                 !.final    = Listing!FinalPrice(IF b = 0 THEN listTask[p].base ELSE b,
                                                 IF d = -1 THEN listTask[p].discount ELSE d)]
            /\ retired' = (retired /\ (a => room.active))
      BY <1>5 DEF Listing!EditWrite
    <2> DEFINE base == IF b = 0 THEN listTask[p].base ELSE b
               discount == IF d = -1 THEN listTask[p].discount ELSE d
    <2>2. /\ listTask' = [listTask EXCEPT ![p] = Listing!Idle] /\ listTask[p].op = "edit"
          /\ UNCHANGED <<open, held, revived>>
      BY <1>5 DEF Listing!EditWrite, Listing!End
    <2>3. base \in 0..MaxPrice /\ discount \in Listing!Discounts
      BY <1>0 DEF Listing!Task, Listing!Prices
    <2>4. Listing!FinalPrice(base, discount) \in 0..MaxPrice
      BY <2>3, PriceType
    <2>5. /\ room'.exists = room.exists /\ room'.active = a
          /\ room'.base = (IF b = 0 THEN room.base ELSE b)
          /\ room'.discount = (IF d = -1 THEN room.discount ELSE d)
          /\ room'.final = Listing!FinalPrice(base, discount)
      BY <1>0, <2>1 DEF Listing!TypeOK
    <2>6. /\ (IF b = 0 THEN room.base ELSE b) \in Listing!Prices
          /\ (IF d = -1 THEN room.discount ELSE d) \in Listing!Discounts
      BY <1>0 DEF Listing!TypeOK
    <2>7. room' \in [exists : BOOLEAN, active : BOOLEAN, base : Listing!Prices,
                     discount : Listing!Discounts, final : 0..MaxPrice]
      BY <1>0, <2>1, <2>4, <2>6 DEF Listing!TypeOK
    <2>8. /\ retired' \in BOOLEAN
          /\ retired' => retired
          /\ retired' /\ room'.active => room.active
      BY <2>1, <2>5
    <2>9. Listing!TypeOK'
      BY <1>0, <1>b, <2>2, <2>7, <2>8, ListingCalm DEF Listing!TypeOK
    <2>10. ListingRows'
      BY <1>0, <1>b, <2>2, <2>5, <2>8 DEF ListingRows
    <2>11. listCalm' => ListingCarried'
      <3> SUFFICES ASSUME listCalm' PROVE ListingCarried'
        OBVIOUS
      <3>1. Listing!Calm /\ ListingCarried
        BY ListingCalm
      <3>2. \A q \in Procs \ {p} : listTask[q].op # "edit"
        <4> DEFINE S == {q \in Procs : listTask[q].op \in {"edit"}}
        <4>1. S \subseteq Procs /\ p \in S /\ Cardinality(S) <= 1
          BY <2>2, <3>1, SameCardinality DEF Listing!Calm, Listing!Doing
        <4> QED
          BY <4>1, OnlyOne
      <3>3. base = room'.base /\ discount = room'.discount
        BY <2>2, <2>5, <3>1 DEF ListingCarried
      <3>4. room'.final = Listing!FinalPrice(room'.base, room'.discount)
        BY <2>5, <3>3
      <3>5. Held' = Held
        BY <2>2 DEF Held
      <3>6. Listing!FinalPrice(room.base, room.discount)' = Listing!FinalPrice(room'.base, room'.discount)
        BY DEF Listing!FinalPrice
      <3> HIDE DEF base, discount
      <3> QED
        BY <1>b, <2>2, <2>8, <3>1, <3>2, <3>4, <3>5, <3>6 DEF ListingCarried
    <2> QED
      BY <1>a, <2>9, <2>10, <2>11 DEF ListingInv
  <1>6. ASSUME Listing!BookInsert(p) PROVE ListingInv'
    <2>1. PICK b \in Pair : held[b] = "NONE" /\ held' = [held EXCEPT ![b] = "HOLDING"]
      BY <1>6 DEF Listing!BookInsert
    <2>2. /\ listTask' = [listTask EXCEPT ![p] = Listing!Idle] /\ listTask[p].op = "book"
          /\ UNCHANGED <<open, room, retired, revived>>
      BY <1>6 DEF Listing!BookInsert, Listing!End
    <2>3. Listing!TypeOK'
      BY <1>0, <1>b, <2>1, <2>2, ListingCalm DEF Listing!TypeOK
    <2>4. ListingRows'
      BY <1>0, <1>b, <2>2 DEF ListingRows
    <2>5. Listing!Calm => \A q \in Procs : listTask[q].op \notin {"drop", "close"}
      BY <2>2 DEF Listing!Calm, Listing!Doing
    <2>6. Listing!Calm /\ ListingCarried => ListingCarried'
      BY <1>b, <2>2, <2>5 DEF ListingCarried, Listing!FinalPrice
    <2> QED
      BY <1>a, <2>3, <2>4, <2>6, ListingCalm DEF ListingInv
  <1>7. ASSUME Listing!DeleteWrite(p) PROVE ListingInv'
    <2>1. /\ listTask' = [listTask EXCEPT ![p] = Listing!Idle]
          /\ listTask[p].op \in {"drop", "close"}
          /\ UNCHANGED <<held, revived>> /\ retired' = TRUE
      BY <1>7 DEF Listing!DeleteWrite, Listing!End
    <2>2. \/ /\ listTask[p].op = "drop" /\ UNCHANGED open
             /\ room' = [room EXCEPT !.active = FALSE]
          \/ open' = FALSE /\ UNCHANGED room
      BY <1>7 DEF Listing!DeleteWrite
    <2>3. /\ open' \in BOOLEAN
          /\ room' \in [exists : BOOLEAN, active : BOOLEAN, base : Listing!Prices,
                        discount : Listing!Discounts, final : 0..MaxPrice]
          /\ room'.exists = room.exists /\ room'.base = room.base
          /\ room'.discount = room.discount /\ room'.final = room.final
      BY <1>0, <2>2 DEF Listing!TypeOK
    <2>4. ~ (room'.active /\ open') /\ (~ room'.exists => ~ open')
      BY <1>0, <2>2, <2>3 DEF Listing!TypeOK, ListingRows
    <2>5. Listing!TypeOK'
      BY <1>0, <1>b, <2>1, <2>3, ListingCalm DEF Listing!TypeOK
    <2>6. ListingRows'
      BY <1>0, <1>b, <2>1, <2>3, <2>4 DEF ListingRows
    <2>7. Listing!Calm => \A q \in Procs : listTask[q].op # "book"
      BY <2>1 DEF Listing!Calm, Listing!Doing
    <2>8. Held' = Held
      BY <2>1 DEF Held
    <2>9. Listing!Calm /\ ListingCarried => ListingCarried'
      BY <1>b, <2>1, <2>3, <2>7, <2>8 DEF ListingCarried, Listing!FinalPrice
    <2> QED
      BY <1>a, <2>5, <2>6, <2>9, ListingCalm DEF ListingInv
  <1> QED
    BY <1>1, <1>2, <1>3, <1>4, <1>5, <1>6, <1>7 DEF Listing!RequestStep

LEMMA ListingNext == ASSUME ListingInv, Listing!Next PROVE ListingInv'
  <1>0. Listing!TypeOK /\ ListingRows
    BY DEF ListingInv
  <1>a. listCalm' => Listing!Calm'
    BY DEF Listing!Next
  <1>1. CASE Listing!EditHomestay
    <2>1. UNCHANGED <<room, held, listTask, revived>> /\ open' \in BOOLEAN
      BY <1>1 DEF Listing!EditHomestay
    <2>2. retired' \in BOOLEAN /\ (retired' => retired /\ ~ open')
      BY <1>1 DEF Listing!EditHomestay
    <2>3. Listing!TypeOK'
      BY <1>0, <2>1, <2>2, ListingCalm DEF Listing!TypeOK
    <2>4. ListingRows'
      BY <1>0, <2>1, <2>2 DEF ListingRows
    <2>5. ListingCarried => ListingCarried'
      BY <2>1, <2>2 DEF ListingCarried, Held, Listing!FinalPrice
    <2> QED
      BY <1>a, <2>3, <2>4, <2>5, ListingCalm DEF ListingInv
  <1>2. ASSUME NEW b \in Pair, Listing!Settle(b) PROVE ListingInv'
    <2>1. UNCHANGED <<open, room, listTask, retired>>
      BY <1>2 DEF Listing!Settle
    <2>2. /\ held' \in [Pair -> {"NONE", "HOLDING", "OVER"}] /\ revived' \in SUBSET Pair
          /\ revived \subseteq revived' /\ Held' \subseteq Held \union revived'
      BY <1>0, <1>2 DEF Listing!Settle, Listing!TypeOK, Held
    <2>3. Listing!TypeOK'
      BY <1>0, <2>1, <2>2, ListingCalm DEF Listing!TypeOK
    <2>4. ListingRows'
      BY <1>0, <2>1 DEF ListingRows
    <2>5. ListingCarried => ListingCarried'
      BY <2>1, <2>2 DEF ListingCarried, Listing!FinalPrice
    <2> QED
      BY <1>a, <2>3, <2>4, <2>5, ListingCalm DEF ListingInv
  <1> QED
    BY <1>1, <1>2, ListingRequest DEF Listing!Next, Listing!Step

LEMMA ListingSafe == Spec => [](Listing!TypeOK /\ Listing!PriceIsDerived /\ Listing!RetiredIsFree)
  <1>1. ASSUME ListingInv, UNCHANGED listVars PROVE ListingInv'
    BY <1>1 DEF listVars, ListingInv, Listing!TypeOK, ListingRows, ListingCarried, Listing!Calm,
                Listing!Doing, Listing!FinalPrice, Held
  <1>2. ListingInv /\ [Next]_vars => ListingInv'
    BY <1>1, OwnSteps, ListingNext
  <1>3. ListingInv => Listing!TypeOK /\ Listing!PriceIsDerived /\ Listing!RetiredIsFree
    BY DEF ListingInv, ListingCarried, Held, Listing!PriceIsDerived, Listing!RetiredIsFree
  <1> QED
    BY <1>2, <1>3, ListingInit, PTL DEF Spec

-----------------------------------------------------------------------------
(* Tags *)

Labels == Things \union Pair

Slots == Procs \X (1..MaxTags)

\* Each tag sits in a slot of the request that set it: no two tags in one, and no tag
\* that a request has still to make room for in its own.
Seated(o) ==
    /\ o \in [Labels -> Slots]
    /\ \A s, t \in tagged : o[s] = o[t] => s = t
    /\ \A p \in Procs : tagTask[p].op = "insert" =>
          \A t \in tagged \ tagTask[p].doomed : o[t][1] # p

LabelInv ==
    /\ Label!TypeOK
    /\ \A p \in Procs : tagTask[p].op \in {"replace", "insert"} =>
                            tagTask[p].tags \in Label!Request
    /\ \E o : Seated(o)

LEMMA LabelFacts ==
    /\ IsFiniteSet(Labels) /\ MaxTags \in Nat \ {0} /\ Procs # {}
    /\ IsFiniteSet(1..MaxTags) /\ Cardinality(1..MaxTags) = MaxTags
  <1>1. IsFiniteSet(Labels) /\ MaxTags \in Nat \ {0} /\ Procs # {}
    BY DeskAssumption, SameFinite DEF Label!LabelsAssumption, Labels
  <1>2. Cardinality(1..MaxTags) = IF 1 > MaxTags THEN 0 ELSE MaxTags - 1 + 1
    BY <1>1, FS_Interval
  <1> QED
    BY <1>1, <1>2, FS_Interval

\* The tags of a request can be numbered.
LEMMA Numbered ==
    ASSUME NEW T \in Label!Request
    PROVE  \E f \in [T -> 1..MaxTags] : \A s, t \in T : f[s] = f[t] => s = t
  <1>1. T \subseteq Labels /\ IsFiniteSet(T) /\ Cardinality(T) <= MaxTags
    BY LabelFacts, FS_Subset, SameCardinality DEF Label!Request, Labels
  <1>2. Cardinality(T) \in Nat /\ ExistsBijection(1..Cardinality(T), T)
    BY <1>1, FS_CardinalityType
  <1>3. PICK g \in [1..Cardinality(T) -> T] : \A t \in T : \E i \in 1..Cardinality(T) : g[i] = t
    BY <1>2 DEF ExistsBijection, Bijection, Surjection
  <1> DEFINE f == [t \in T |-> CHOOSE i \in 1..Cardinality(T) : g[i] = t]
  <1>4. \A t \in T : f[t] \in 1..Cardinality(T) /\ g[f[t]] = t
    BY <1>3
  <1>5. 1..Cardinality(T) \subseteq 1..MaxTags
    BY <1>1, <1>2, LabelFacts
  <1>6. f \in [T -> 1..MaxTags]
    BY <1>4, <1>5
  <1> HIDE DEF f
  <1> QED
    BY <1>4, <1>6

LEMMA LabelIdle == Label!Idle \in Label!Task /\ Label!Idle.op = "idle"
  BY DEF Label!Idle, Label!Task

LEMMA LabelInit == Init => LabelInv
  <1> SUFFICES ASSUME Label!Init PROVE LabelInv
    BY DEF Init
  <1>1. tagTask \in [Procs -> Label!Task] /\ \A p \in Procs : tagTask[p].op = "idle"
    BY LabelIdle DEF Label!Init
  <1>2. Label!TypeOK /\ tagged = {}
    BY <1>1 DEF Label!TypeOK, Label!Init
  <1>3. PICK p \in Procs : TRUE
    BY LabelFacts
  <1>4. <<p, 1>> \in Slots
    BY LabelFacts DEF Slots
  <1>5. Seated([t \in Labels |-> <<p, 1>>])
    BY <1>1, <1>2, <1>4 DEF Seated
  <1> QED
    BY <1>1, <1>2, <1>5 DEF LabelInv

LEMMA LabelMoved ==
    ASSUME Label!TypeOK, NEW p \in Procs, NEW t \in Label!Task,
           tagTask' = [tagTask EXCEPT ![p] = t]
    PROVE  /\ tagTask' \in [Procs -> Label!Task]
           /\ tagTask'[p] = t
           /\ \A q \in Procs \ {p} : tagTask'[q] = tagTask[q]
  BY DEF Label!TypeOK

\* A request ends that has deleted the rows R.
LEMMA LabelEnds ==
    ASSUME Label!TypeOK, NEW p \in Procs, NEW R, Label!EndDeleting(p, R)
    PROVE  /\ tagTask' \in [Procs -> Label!Task] /\ tagTask'[p].op = "idle"
           /\ \A q \in Procs \ {p} :
                /\ tagTask'[q].op = tagTask[q].op /\ tagTask'[q].tags = tagTask[q].tags
                /\ tagTask'[q].doomed = tagTask[q].doomed \ R
  <1>1. ASSUME NEW q \in Procs
        PROVE  /\ [tagTask[q] EXCEPT !.doomed = @ \ R] \in Label!Task
               /\ [tagTask[q] EXCEPT !.doomed = @ \ R].op = tagTask[q].op
               /\ [tagTask[q] EXCEPT !.doomed = @ \ R].tags = tagTask[q].tags
               /\ [tagTask[q] EXCEPT !.doomed = @ \ R].doomed = tagTask[q].doomed \ R
    BY DEF Label!TypeOK, Label!Task
  <1>2. tagTask' = [q \in Procs |-> IF q = p THEN Label!Idle
                                    ELSE [tagTask[q] EXCEPT !.doomed = @ \ R]]
    BY DEF Label!EndDeleting
  <1> QED
    BY <1>1, <1>2, LabelIdle

\* A request goes on, and no tag is added.
LEMMA LabelShrinks ==
    ASSUME LabelInv, NEW p \in Procs, NEW t \in Label!Task,
           tagTask' = [tagTask EXCEPT ![p] = t], tagged' \subseteq tagged,
           t.op \in {"replace", "insert"} => t.tags \in Label!Request,
           t.op = "insert" => tagged \subseteq t.doomed
    PROVE  LabelInv'
  <1>1. /\ tagTask' \in [Procs -> Label!Task]
        /\ tagTask'[p] = t
        /\ \A q \in Procs \ {p} : tagTask'[q] = tagTask[q]
    BY LabelMoved DEF LabelInv
  <1>2. Label!TypeOK'
    BY <1>1 DEF LabelInv, Label!TypeOK
  <1>3. PICK o : Seated(o)
    BY DEF LabelInv
  <1>4. /\ o \in [Labels -> Slots]
        /\ \A a, b \in tagged' : o[a] = o[b] => a = b
        /\ \A q \in Procs : tagTask'[q].op = "insert" =>
              \A a \in tagged' \ tagTask'[q].doomed : o[a][1] # q
    BY <1>1, <1>3 DEF Seated
  <1>5. \E o2 : Seated(o2)'
    BY <1>4 DEF Seated
  <1> QED
    BY <1>1, <1>2, <1>5 DEF LabelInv, Label!Request

LEMMA LabelNext == ASSUME LabelInv, Label!Next PROVE LabelInv'
  <1>0. PICK p \in Procs : Label!RequestStep(p)
    BY DEF Label!Next
  <1>1. Label!TypeOK /\ tagTask[p] \in Label!Task
    BY DEF LabelInv, Label!TypeOK
  <1>2. ASSUME NEW T \in Label!Request, Label!ReplaceRead(p, T) PROVE LabelInv'
    <2> DEFINE t == [Label!Idle EXCEPT !.op = "replace", !.tags = T]
    <2>1. tagTask' = [tagTask EXCEPT ![p] = t] /\ UNCHANGED tagged
      BY <1>2 DEF Label!ReplaceRead, Label!Begin
    <2>2. t \in Label!Task /\ t.op = "replace" /\ t.tags = T
      BY DEF Label!Idle, Label!Task, Label!Request
    <2> HIDE DEF t
    <2> QED
      BY <2>1, <2>2, LabelShrinks
  <1>3. ASSUME Label!DeleteAll(p) PROVE LabelInv'
    <2> DEFINE t == [tagTask[p] EXCEPT !.op = "insert", !.doomed = tagged]
    <2>1. tagTask' = [tagTask EXCEPT ![p] = t] /\ UNCHANGED tagged /\ tagTask[p].op = "replace"
      BY <1>3 DEF Label!DeleteAll
    <2>2. t \in Label!Task /\ t.tags = tagTask[p].tags /\ t.doomed = tagged
      BY <1>1 DEF Label!TypeOK, Label!Task
    <2> HIDE DEF t
    <2> QED
      BY <2>1, <2>2, LabelShrinks DEF LabelInv
  <1>4. ASSUME NEW r \in Labels, Label!RemoveRead(p, r) PROVE LabelInv'
    <2> DEFINE t == [Label!Idle EXCEPT !.op = "remove", !.tags = {r}]
    <2>1. tagTask' = [tagTask EXCEPT ![p] = t] /\ UNCHANGED tagged
      BY <1>4 DEF Label!RemoveRead, Label!Begin
    <2>2. t \in Label!Task /\ t.op = "remove"
      BY DEF Label!Idle, Label!Task, Labels
    <2> HIDE DEF t
    <2> QED
      BY <2>1, <2>2, LabelShrinks
  <1>5. ASSUME Label!Abort(p) PROVE LabelInv'
    <2>1. tagTask' = [tagTask EXCEPT ![p] = Label!Idle] /\ tagged' \subseteq tagged
      BY <1>5 DEF Label!Abort, Label!End
    <2> QED
      BY <2>1, LabelIdle, LabelShrinks
  <1>7. ASSUME Label!Remove(p) PROVE LabelInv'
    <2> DEFINE R == tagTask[p].tags
    <2>1. Label!EndDeleting(p, R) /\ tagged' = tagged \ R
      BY <1>7 DEF Label!Remove
    <2> HIDE DEF R
    <2>2. /\ tagTask' \in [Procs -> Label!Task] /\ tagTask'[p].op = "idle"
          /\ \A q \in Procs \ {p} :
                /\ tagTask'[q].op = tagTask[q].op /\ tagTask'[q].tags = tagTask[q].tags
                /\ tagTask'[q].doomed = tagTask[q].doomed \ R
      BY <1>1, <2>1, LabelEnds
    <2>3. Label!TypeOK'
      BY <1>1, <2>1, <2>2 DEF Label!TypeOK
    <2>4. PICK o : Seated(o)
      BY DEF LabelInv
    <2>5. /\ o \in [Labels -> Slots]
          /\ \A a, b \in tagged' : o[a] = o[b] => a = b
      BY <2>1, <2>4 DEF Seated
    <2>6. ASSUME NEW q \in Procs, tagTask'[q].op = "insert", NEW a \in tagged' \ tagTask'[q].doomed
          PROVE  o[a][1] # q
      <3>1. q # p /\ tagTask[q].op = "insert" /\ a \in tagged \ tagTask[q].doomed
        BY <2>1, <2>2, <2>6
      <3> QED
        BY <2>4, <3>1 DEF Seated
    <2>7. \E o2 : Seated(o2)'
      BY <2>5, <2>6 DEF Seated
    <2> QED
      BY <2>2, <2>3, <2>7 DEF LabelInv, Label!Request
  <1>6. ASSUME Label!Commit(p) PROVE LabelInv'
    <2> DEFINE left == tagged \ tagTask[p].doomed
               T == tagTask[p].tags
    <2>1. /\ tagTask[p].op = "insert" /\ left \intersect T = {}
          /\ tagged' = left \union T /\ Label!EndDeleting(p, tagTask[p].doomed)
      BY <1>6 DEF Label!Commit
    <2>2. T \in Label!Request /\ T \in SUBSET Labels /\ tagged \in SUBSET Labels
      BY <1>1, <2>1 DEF LabelInv, Label!TypeOK, Label!Task, Labels
    <2>3. /\ tagTask' \in [Procs -> Label!Task] /\ tagTask'[p].op = "idle"
          /\ \A q \in Procs \ {p} :
                /\ tagTask'[q].op = tagTask[q].op /\ tagTask'[q].tags = tagTask[q].tags
                /\ tagTask'[q].doomed = tagTask[q].doomed \ tagTask[p].doomed
      BY <1>1, <2>1, LabelEnds
    <2>4. Label!TypeOK'
      BY <2>1, <2>2, <2>3 DEF Label!TypeOK, Labels
    <2>5. PICK o : Seated(o)
      BY DEF LabelInv
    <2>6. PICK f \in [T -> 1..MaxTags] : \A s, t \in T : f[s] = f[t] => s = t
      BY <2>2, Numbered
    <2> HIDE DEF T, left
    <2> DEFINE o2 == [t \in Labels |-> IF t \in T THEN <<p, f[t]>> ELSE o[t]]
    <2>7. o2 \in [Labels -> Slots]
      BY <2>5, <2>6 DEF Seated, Slots
    <2>8. /\ \A t \in T : o2[t] = <<p, f[t]>>
          /\ \A t \in left : o2[t] = o[t] /\ t \in tagged /\ t \in Labels /\ o[t][1] # p
      BY <2>1, <2>2, <2>5 DEF Seated, left
    <2> HIDE DEF o2
    <2>a. \A t \in T : o2[t][1] = p /\ o2[t][2] = f[t]
      BY <2>8
    <2>9. ASSUME NEW s \in tagged', NEW t \in tagged', o2[s] = o2[t] PROVE s = t
      <3>1. CASE s \in T /\ t \in T
        <4>1. f[s] = f[t]
          BY <2>a, <2>9, <3>1
        <4> QED
          BY <2>6, <3>1, <4>1
      <3>2. CASE s \in left /\ t \in left
        BY <2>5, <2>8, <2>9, <3>2 DEF Seated
      <3>3. CASE (s \in T /\ t \in left) \/ (s \in left /\ t \in T)
        BY <2>8, <2>a, <2>9, <3>3
      <3> QED
        BY <2>1, <3>1, <3>2, <3>3
    <2>10. ASSUME NEW q \in Procs, tagTask'[q].op = "insert",
                  NEW t \in tagged' \ tagTask'[q].doomed
           PROVE  o2[t][1] # q
      <3>1. q # p /\ tagTask[q].op = "insert"
        BY <2>3, <2>10
      <3>2. CASE t \in T
        BY <2>a, <3>1, <3>2
      <3>3. CASE t \in left
        <4>1. t \in tagged \ tagTask[q].doomed
          BY <2>3, <2>8, <2>10, <3>1, <3>3 DEF left
        <4> QED
          BY <2>5, <2>8, <3>1, <3>3, <4>1 DEF Seated
      <3> QED
        BY <2>1, <2>10, <3>2, <3>3
    <2>11. \E o3 : Seated(o3)'
      BY <2>7, <2>9, <2>10 DEF Seated
    <2> QED
      BY <2>3, <2>4, <2>11 DEF LabelInv, Label!Request
  <1> QED
    BY <1>0, <1>2, <1>3, <1>4, <1>5, <1>6, <1>7 DEF Label!RequestStep, Labels

LEMMA LabelSafe == Spec => [](Label!TypeOK /\ Label!FewRequestsRemain)
  <1>1. ASSUME LabelInv, UNCHANGED tagVars PROVE LabelInv'
    <2>1. PICK o : Seated(o)
      BY <1>1 DEF LabelInv
    <2>2. \E o2 : Seated(o2)'
      BY <1>1, <2>1 DEF Seated, tagVars
    <2> QED
      BY <1>1, <2>2 DEF tagVars, LabelInv, Label!TypeOK, Label!Request
  <1>2. LabelInv /\ [Next]_vars => LabelInv'
    BY <1>1, OwnSteps, LabelNext
  <1>3. LabelInv => Label!TypeOK /\ Label!FewRequestsRemain
    <2> SUFFICES ASSUME LabelInv PROVE Label!TypeOK /\ Label!FewRequestsRemain
      OBVIOUS
    <2>1. PICK o : Seated(o)
      BY DEF LabelInv
    <2>2. Label!TypeOK /\ tagged \in SUBSET Labels
      BY DEF LabelInv, Label!TypeOK, Labels
    <2> DEFINE f == [t \in tagged |-> o[t]]
    <2>3. f \in Injection(tagged, Slots)
      <3>1. /\ o \in [Labels -> Slots]
            /\ \A s, t \in tagged : o[s] = o[t] => s = t
        BY <2>1 DEF Seated
      <3>2. f \in [tagged -> Slots] /\ \A t \in tagged : f[t] = o[t]
        BY <2>2, <3>1
      <3>3. \A s, t \in tagged : f[s] = f[t] => s = t
        BY <3>1, <3>2
      <3> HIDE DEF f
      <3> QED
        BY <3>2, <3>3 DEF Injection, IsInjective
    <2>4. IsFiniteSet(Slots) /\ Cardinality(Slots) = Cardinality(Procs) * MaxTags
      BY FiniteProcs, LabelFacts, FS_Product DEF Slots
    <2> HIDE DEF f
    <2>5. Cardinality(tagged) <= Cardinality(Procs) * MaxTags
      BY <2>3, <2>4, FS_Injection
    <2>6. Cardinality(Procs) \in Nat /\ MaxTags \in Nat
      BY FiniteProcs, LabelFacts, FS_CardinalityType
    <2>7. Cardinality(Procs) * MaxTags = MaxTags * Cardinality(Procs)
      BY <2>6
    <2> QED
      BY <2>2, <2>5, <2>7, SameCardinality DEF Label!FewRequestsRemain
  <1> QED
    BY <1>2, <1>3, LabelInit, PTL DEF Spec

-----------------------------------------------------------------------------
\* As long as edits keep apart and bookings keep apart from deletions, the price charged
\* is the price on display and nobody holds a room that was deleted; and the tags of a
\* homestay are always those of few requests.
THEOREM CatalogueIsSound == Spec => []CatalogueSound
  <1>1. /\ Listing!TypeOK /\ Listing!PriceIsDerived /\ Listing!RetiredIsFree
        /\ Label!TypeOK /\ Label!FewRequestsRemain
        => CatalogueSound
    BY DEF CatalogueSound
  <1> QED
    BY <1>1, ListingSafe, LabelSafe, PTL

-----------------------------------------------------------------------------
(* Types of the telephone bookings *)

LEMMA OfflineIdle == Offline!Vacant \in Offline!Stay /\ Offline!Idle \in Offline!Task
  <1>1. LastDay \in Nat \ {0} /\ MaxRooms \in Nat \ {0}
    BY DeskAssumption DEF Offline!OfflineRoomsAssumption
  <1>2. 1 \in 1..LastDay /\ 2 \in 1..LastDay + 1 /\ 0 \in 0..MaxRooms
    BY <1>1
  <1>3. Offline!Vacant \in Offline!Stay
    BY <1>2 DEF Offline!Vacant, Offline!Stay
  <1> QED
    BY <1>2, <1>3 DEF Offline!Idle, Offline!Task

LEMMA OfflineTypes == ASSUME Offline!TypeOK, Offline!Next PROVE Offline!TypeOK'
  <1> USE DEF Offline!TypeOK
  <1>1. CASE Offline!EditTotal
    BY <1>1 DEF Offline!EditTotal
  <1>2. ASSUME NEW p \in Procs, NEW t \in Offline!Task,
               roomTask' = [roomTask EXCEPT ![p] = t], UNCHANGED <<total, row>>
        PROVE  Offline!TypeOK'
    BY <1>2
  <1>3. ASSUME NEW p \in Procs, roomTask' = [roomTask EXCEPT ![p] = Offline!Idle],
               UNCHANGED total, row' \in [Things -> Offline!Stay]
        PROVE  Offline!TypeOK'
    BY <1>3, OfflineIdle
  <1>4. \A p \in Procs : /\ roomTask[p] \in Offline!Task
                         /\ roomTask[p].stay \in Offline!Stay
    BY DEF Offline!Task
  <1>5. ASSUME NEW p \in Procs, Offline!CreateStart(p) PROVE Offline!TypeOK'
    <2>1. [Offline!Idle EXCEPT !.op = "start"] \in Offline!Task
      BY OfflineIdle DEF Offline!Idle, Offline!Task
    <2> QED
      BY <1>2, <1>5, <2>1 DEF Offline!CreateStart, Offline!Begin
  <1>6. ASSUME NEW p \in Procs, NEW b \in Things, Offline!UpdateRead(p, b) \/ Offline!DeleteRead(p, b)
        PROVE  Offline!TypeOK'
    <2>1. row[b] \in Offline!Stay
      OBVIOUS
    <2>2. /\ [Offline!Idle EXCEPT !.op = "start", !.booking = b] \in Offline!Task
          /\ [Offline!Idle EXCEPT !.op = "rename", !.booking = b, !.stay = row[b]] \in Offline!Task
          /\ [Offline!Idle EXCEPT !.op = "cancel", !.booking = b] \in Offline!Task
      BY <2>1, OfflineIdle DEF Offline!Idle, Offline!Task
    <2> QED
      BY <1>2, <1>6, <2>2 DEF Offline!UpdateRead, Offline!DeleteRead, Offline!Begin
  <1>7. ASSUME NEW p \in Procs, Offline!CapacityRead(p) PROVE Offline!TypeOK'
    <2>1. total \in 0..MaxRooms
      BY DeskAssumption DEF Offline!OfflineRoomsAssumption
    <2>2. [roomTask[p] EXCEPT !.op = "check", !.total = total] \in Offline!Task
      BY <1>4, <2>1 DEF Offline!Task
    <2> QED
      BY <1>2, <1>7, <2>2 DEF Offline!CapacityRead
  <1>8. ASSUME NEW p \in Procs, Offline!CapacityCheck(p) PROVE Offline!TypeOK'
    <2>1. PICK s \in Offline!Stay :
             roomTask' = [roomTask EXCEPT ![p] = [roomTask[p] EXCEPT !.op = "write", !.stay = s]]
      BY <1>8 DEF Offline!CapacityCheck
    <2>2. [roomTask[p] EXCEPT !.op = "write", !.stay = s] \in Offline!Task
      BY <1>4 DEF Offline!Task
    <2> QED
      BY <1>2, <1>8, <2>1, <2>2 DEF Offline!CapacityCheck
  <1>9. ASSUME NEW p \in Procs, Offline!Insert(p) PROVE Offline!TypeOK'
    <2>1. row' \in [Things -> Offline!Stay]
      BY <1>4, <1>9 DEF Offline!Insert
    <2> QED
      BY <1>3, <1>9, <2>1 DEF Offline!Insert, Offline!End
  <1>10. ASSUME NEW p \in Procs, Offline!Update(p) \/ Offline!Delete(p) PROVE Offline!TypeOK'
    <2>1. row' \in [Things -> Offline!Stay]
      BY <1>4, <1>10, OfflineIdle DEF Offline!Update, Offline!Delete
    <2> QED
      BY <1>3, <1>10, <2>1 DEF Offline!Update, Offline!Delete, Offline!End
  <1>11. ASSUME NEW p \in Procs, Offline!Abort(p) PROVE Offline!TypeOK'
    BY <1>3, <1>11 DEF Offline!Abort, Offline!End
  <1> QED
    BY <1>1, <1>5, <1>6, <1>7, <1>8, <1>9, <1>10, <1>11 DEF Offline!Next, Offline!RequestStep

-----------------------------------------------------------------------------
(* Telephone bookings *)

\* The rooms that a stay takes on a night.
Use(r, d) == IF r.from <= d /\ d < r.to THEN r.rooms ELSE 0

\* A request that will write a stay to the row of a booking, or to a new one.
Writes(p, b) == roomTask[p].op \in {"write", "rename"} /\ roomTask[p].booking = b

Universe == {"row", "new"} \X (Things \union Procs) \X (1..MaxRooms)

\* The keys of a night: of each row the most that it has or is about to have, and what
\* new rows will have.
Keys(d) ==
    {x \in Universe :
        \/ /\ x[1] = "row" /\ x[2] \in Things
           /\ \/ x[3] <= Use(row[x[2]], d)
              \/ \E p \in Procs : Writes(p, x[2]) /\ x[3] <= Use(roomTask[p].stay, d)
        \/ /\ x[1] = "new" /\ x[2] \in Procs
           /\ Writes(x[2], Nothing) /\ x[3] <= Use(roomTask[x[2]].stay, d)}

OfflineInv ==
    /\ Offline!TypeOK
    /\ \A d \in 1..LastDay : Cardinality(Keys(d)) <= MaxRooms * Cardinality(Procs)

LEMMA OfflineFacts ==
    /\ MaxRooms \in Nat \ {0} /\ LastDay \in Nat \ {0} /\ Nothing \notin Things
    /\ IsFiniteSet(Universe)
    /\ IsFiniteSet(1..MaxRooms) /\ Cardinality(1..MaxRooms) = MaxRooms
    /\ Cardinality(Procs) \in Nat
  <1>1. /\ MaxRooms \in Nat \ {0} /\ LastDay \in Nat \ {0} /\ Nothing \notin Things
        /\ IsFiniteSet(Things)
    BY DeskAssumption, SameFinite DEF Offline!OfflineRoomsAssumption, Rating!RatingsAssumption
  <1>2. Cardinality(1..MaxRooms) = IF 1 > MaxRooms THEN 0 ELSE MaxRooms - 1 + 1
    BY <1>1, FS_Interval
  <1>3. IsFiniteSet(1..MaxRooms) /\ Cardinality(1..MaxRooms) = MaxRooms
    BY <1>1, <1>2, FS_Interval
  <1>4. IsFiniteSet(Things \union Procs)
    BY <1>1, FiniteProcs, FS_Union
  <1>5. IsFiniteSet({"row", "new"})
    <2>1. IsFiniteSet({}) /\ IsFiniteSet({"row"})
      BY FS_EmptySet, FS_Singleton
    <2>2. {"row", "new"} = {"row"} \union {"new"} /\ IsFiniteSet({"new"})
      BY FS_Singleton
    <2> QED
      BY <2>1, <2>2, FS_Union
  <1>6. IsFiniteSet({"row", "new"} \X ((Things \union Procs) \X (1..MaxRooms)))
    BY <1>3, <1>4, <1>5, FS_Product
  <1>7. IsFiniteSet(Universe)
    <2> DEFINE f == [x \in Universe |-> <<x[1], <<x[2], x[3]>>>>]
    <2>1. f \in [Universe -> {"row", "new"} \X ((Things \union Procs) \X (1..MaxRooms))]
      BY DEF Universe
    <2>2. ASSUME NEW x \in Universe, NEW y \in Universe, f[x] = f[y] PROVE x = y
      <3>1. f[x] = <<x[1], <<x[2], x[3]>>>> /\ f[y] = <<y[1], <<y[2], y[3]>>>>
        OBVIOUS
      <3>2. x[1] = y[1] /\ x[2] = y[2] /\ x[3] = y[3]
        BY <2>2, <3>1
      <3> QED
        BY <3>2 DEF Universe
    <2> HIDE DEF f
    <2>3. f \in Injection(Universe, {"row", "new"} \X ((Things \union Procs) \X (1..MaxRooms)))
      BY <2>1, <2>2 DEF Injection, IsInjective
    <2> QED
      BY <1>6, <2>3, FS_Injection
  <1> QED
    BY <1>1, <1>3, <1>7, FiniteProcs, FS_CardinalityType

LEMMA KeysFinite ==
    ASSUME NEW d PROVE IsFiniteSet(Keys(d)) /\ Cardinality(Keys(d)) \in Nat
  <1>1. Keys(d) \subseteq Universe
    BY DEF Keys
  <1> QED
    BY <1>1, OfflineFacts, FS_Subset, FS_CardinalityType

LEMMA OfflineInit == Init => OfflineInv
  <1> SUFFICES ASSUME Offline!Init PROVE OfflineInv
    BY DEF Init
  <1>1. MaxRooms \in 1..MaxRooms
    BY OfflineFacts
  <1>2. Offline!TypeOK
    BY <1>1, OfflineIdle DEF Offline!Init, Offline!TypeOK
  <1>3. \A p \in Procs : roomTask[p].op = "idle"
    BY DEF Offline!Init, Offline!Idle
  <1>4. \A b \in Things : row[b].rooms = 0
    BY DEF Offline!Init, Offline!Vacant
  <1>5. ASSUME NEW d \in 1..LastDay PROVE Cardinality(Keys(d)) <= MaxRooms * Cardinality(Procs)
    <2>1. \A b \in Things : Use(row[b], d) = 0
      BY <1>4 DEF Use
    <2>2. \A k \in 1..MaxRooms : ~ (k <= 0)
      BY OfflineFacts
    <2>3. Keys(d) = {}
      BY <1>3, <2>1, <2>2 DEF Keys, Writes, Universe
    <2>4. MaxRooms * Cardinality(Procs) \in Nat
      BY OfflineFacts
    <2> QED
      BY <2>3, <2>4, FS_EmptySet
  <1> QED
    BY <1>2, <1>5 DEF OfflineInv

\* A step that adds no key.
LEMMA NoKeyAdded ==
    ASSUME OfflineInv, Offline!TypeOK', \A d \in 1..LastDay : Keys(d)' \subseteq Keys(d)
    PROVE  OfflineInv'
  <1>1. ASSUME NEW d \in 1..LastDay
        PROVE  Cardinality(Keys(d))' <= MaxRooms * Cardinality(Procs)
    <2>1. /\ Cardinality(Keys(d)') <= Cardinality(Keys(d))
          /\ IsFiniteSet(Keys(d)')
      BY KeysFinite, FS_Subset
    <2>2. /\ Cardinality(Keys(d)) <= MaxRooms * Cardinality(Procs)
          /\ MaxRooms * Cardinality(Procs) \in Nat
      BY OfflineFacts DEF OfflineInv
    <2>3. Cardinality(Keys(d)) \in Nat /\ Cardinality(Keys(d)') \in Nat
      BY <2>1, KeysFinite, FS_CardinalityType
    <2> QED
      BY <2>1, <2>2, <2>3
  <1> QED
    BY <1>1 DEF OfflineInv

LEMMA OfflineMoved ==
    ASSUME Offline!TypeOK, NEW p \in Procs, NEW t \in Offline!Task,
           roomTask' = [roomTask EXCEPT ![p] = t]
    PROVE  /\ roomTask'[p] = t
           /\ \A q \in Procs \ {p} : roomTask'[q] = roomTask[q]
  BY DEF Offline!TypeOK

\* A request that reads, or goes away.
LEMMA OfflineReads ==
    ASSUME OfflineInv, Offline!TypeOK', NEW p \in Procs, NEW t \in Offline!Task,
           roomTask' = [roomTask EXCEPT ![p] = t], UNCHANGED row,
           t.op \in {"write", "rename"} => t.booking \in Things /\ t.stay = row[t.booking]
    PROVE  OfflineInv'
  <1>1. /\ roomTask'[p] = t
        /\ \A q \in Procs \ {p} : roomTask'[q] = roomTask[q]
    BY OfflineMoved DEF OfflineInv
  <1>2. ASSUME NEW d \in 1..LastDay, NEW x \in Universe, x \in Keys(d)' PROVE x \in Keys(d)
    <2>1. CASE x[1] = "row"
      <3>1. /\ x[2] \in Things
            /\ \/ x[3] <= Use(row[x[2]], d)
               \/ \E q \in Procs : /\ roomTask'[q].op \in {"write", "rename"}
                                   /\ roomTask'[q].booking = x[2]
                                   /\ x[3] <= Use(roomTask'[q].stay, d)
        BY <1>2, <2>1 DEF Keys, Writes, Use
      <3>2. \/ x[3] <= Use(row[x[2]], d)
            \/ \E q \in Procs : Writes(q, x[2]) /\ x[3] <= Use(roomTask[q].stay, d)
        BY <1>1, <3>1 DEF Writes
      <3> QED
        BY <2>1, <3>1, <3>2 DEF Keys
    <2>2. CASE x[1] = "new"
      <3>1. /\ x[2] \in Procs
            /\ roomTask'[x[2]].op \in {"write", "rename"} /\ roomTask'[x[2]].booking = Nothing
            /\ x[3] <= Use(roomTask'[x[2]].stay, d)
        BY <1>2, <2>2 DEF Keys, Writes, Use
      <3>2. x[2] # p
        BY <1>1, <3>1, OfflineFacts
      <3> QED
        BY <1>1, <2>2, <3>1, <3>2 DEF Keys, Writes
    <2> QED
      BY <2>1, <2>2 DEF Universe
  <1>3. \A d \in 1..LastDay : Keys(d)' \subseteq Keys(d)
    BY <1>2 DEF Keys, Universe
  <1> QED
    BY <1>3, NoKeyAdded


LEMMA OfflineAsks ==
    ASSUME OfflineInv, Offline!TypeOK', NEW p \in Procs,
           \/ Offline!CreateStart(p) \/ Offline!CapacityRead(p) \/ Offline!Abort(p)
           \/ \E b \in Things : Offline!UpdateRead(p, b) \/ Offline!DeleteRead(p, b)
    PROVE  OfflineInv'
  <1>1. /\ roomTask[p] \in Offline!Task /\ \A b \in Things : row[b] \in Offline!Stay
        /\ total \in 0..MaxRooms
    BY OfflineFacts DEF OfflineInv, Offline!TypeOK
  <1>2. CASE Offline!CreateStart(p)
    <2> DEFINE t == [Offline!Idle EXCEPT !.op = "start"]
    <2>1. t \in Offline!Task /\ t.op = "start"
      BY OfflineIdle DEF Offline!Idle, Offline!Task
    <2>2. roomTask' = [roomTask EXCEPT ![p] = t] /\ UNCHANGED row
      BY <1>2 DEF Offline!CreateStart, Offline!Begin
    <2> HIDE DEF t
    <2> QED
      BY <2>1, <2>2, OfflineReads
  <1>3. ASSUME NEW b \in Things, Offline!UpdateRead(p, b) PROVE OfflineInv'
    <2> DEFINE t == [Offline!Idle EXCEPT !.op = "start", !.booking = b]
               u == [Offline!Idle EXCEPT !.op = "rename", !.booking = b, !.stay = row[b]]
    <2>1. t \in Offline!Task /\ t.op = "start"
      BY OfflineIdle DEF Offline!Idle, Offline!Task
    <2>2. u \in Offline!Task /\ u.booking = b /\ u.stay = row[b]
      BY <1>1, OfflineIdle DEF Offline!Idle, Offline!Task
    <2>3. /\ roomTask' = [roomTask EXCEPT ![p] = t] \/ roomTask' = [roomTask EXCEPT ![p] = u]
          /\ UNCHANGED row
      BY <1>3 DEF Offline!UpdateRead, Offline!Begin
    <2> HIDE DEF t, u
    <2>4. CASE roomTask' = [roomTask EXCEPT ![p] = t]
      BY <2>1, <2>3, <2>4, OfflineReads
    <2>5. CASE roomTask' = [roomTask EXCEPT ![p] = u]
      BY <2>2, <2>3, <2>5, OfflineReads
    <2> QED
      BY <2>3, <2>4, <2>5
  <1>4. ASSUME NEW b \in Things, Offline!DeleteRead(p, b) PROVE OfflineInv'
    <2> DEFINE t == [Offline!Idle EXCEPT !.op = "cancel", !.booking = b]
    <2>1. t \in Offline!Task /\ t.op = "cancel"
      BY OfflineIdle DEF Offline!Idle, Offline!Task
    <2>2. roomTask' = [roomTask EXCEPT ![p] = t] /\ UNCHANGED row
      BY <1>4 DEF Offline!DeleteRead, Offline!Begin
    <2> HIDE DEF t
    <2> QED
      BY <2>1, <2>2, OfflineReads
  <1>5. CASE Offline!CapacityRead(p)
    <2> DEFINE t == [roomTask[p] EXCEPT !.op = "check", !.total = total]
    <2>1. t \in Offline!Task /\ t.op = "check"
      BY <1>1 DEF Offline!Task
    <2>2. roomTask' = [roomTask EXCEPT ![p] = t] /\ UNCHANGED row
      BY <1>5 DEF Offline!CapacityRead
    <2> HIDE DEF t
    <2> QED
      BY <2>1, <2>2, OfflineReads
  <1>6. CASE Offline!Abort(p)
    <2>1. roomTask' = [roomTask EXCEPT ![p] = Offline!Idle] /\ UNCHANGED row
      BY <1>6 DEF Offline!Abort, Offline!End
    <2>2. Offline!Idle.op = "idle"
      BY DEF Offline!Idle
    <2> QED
      BY <2>1, <2>2, OfflineIdle, OfflineReads
  <1> QED
    BY <1>2, <1>3, <1>4, <1>5, <1>6

LEMMA TotalEdited ==
    ASSUME OfflineInv, Offline!TypeOK', UNCHANGED <<row, roomTask>> PROVE OfflineInv'
  <1>1. \A d \in 1..LastDay : Keys(d)' = Keys(d)
    BY DEF Keys, Writes, Use, Universe
  <1> QED
    BY <1>1, NoKeyAdded

\* A claim that is written, or a row that goes, leaves the keys of the others.
LEMMA OfflineWrites ==
    ASSUME OfflineInv, Offline!TypeOK', NEW p \in Procs, Offline!Update(p) \/ Offline!Delete(p)
    PROVE  OfflineInv'
  <1> DEFINE c == roomTask[p].booking
  <1>1. /\ roomTask'[p] = Offline!Idle
        /\ \A q \in Procs \ {p} : roomTask'[q] = roomTask[q]
    BY OfflineMoved, OfflineIdle DEF OfflineInv, Offline!Update, Offline!Delete, Offline!End
  <1>2. c \in Things
    BY DEF Offline!Update, Offline!Delete, Offline!Present
  <1>3. \A b \in Things \ {c} : row'[b] = row[b]
    BY <1>2 DEF OfflineInv, Offline!TypeOK, Offline!Update, Offline!Delete
  <1>4. (Writes(p, c) /\ row'[c] = roomTask[p].stay) \/ row'[c] = Offline!Vacant
    BY <1>2 DEF OfflineInv, Offline!TypeOK, Offline!Update, Offline!Delete, Writes
  <1>5. \A d \in 1..LastDay, k \in 1..MaxRooms : ~ (k <= Use(Offline!Vacant, d))
    BY OfflineFacts DEF Use, Offline!Vacant
  <1> HIDE DEF c
  <1>6. ASSUME NEW d \in 1..LastDay, NEW x \in Universe, x \in Keys(d)' PROVE x \in Keys(d)
    <2>0. x[3] \in 1..MaxRooms /\ roomTask'[p].op = "idle"
      BY <1>1 DEF Universe, Offline!Idle
    <2>1. CASE x[1] = "row"
      <3>1. /\ x[2] \in Things
            /\ \/ x[3] <= Use(row'[x[2]], d)
               \/ \E q \in Procs : /\ roomTask'[q].op \in {"write", "rename"}
                                   /\ roomTask'[q].booking = x[2]
                                   /\ x[3] <= Use(roomTask'[q].stay, d)
        BY <1>6, <2>1 DEF Keys, Writes, Use
      <3>2. CASE x[3] <= Use(row'[x[2]], d)
        <4>1. CASE x[2] = c
          <5>1. Writes(p, c) /\ x[3] <= Use(roomTask[p].stay, d)
            BY <1>4, <1>5, <2>0, <3>2, <4>1
          <5> QED
            BY <2>1, <3>1, <4>1, <5>1 DEF Keys
        <4>2. CASE x[2] # c
          <5>1. x[3] <= Use(row[x[2]], d)
            BY <1>3, <3>1, <3>2, <4>2
          <5> QED
            BY <2>1, <3>1, <5>1 DEF Keys
        <4> QED
          BY <4>1, <4>2
      <3>3. CASE \E q \in Procs : /\ roomTask'[q].op \in {"write", "rename"}
                                  /\ roomTask'[q].booking = x[2]
                                  /\ x[3] <= Use(roomTask'[q].stay, d)
        <4>1. \E q \in Procs : Writes(q, x[2]) /\ x[3] <= Use(roomTask[q].stay, d)
          BY <1>1, <2>0, <3>3 DEF Writes
        <4> QED
          BY <2>1, <3>1, <4>1 DEF Keys
      <3> QED
        BY <3>1, <3>2, <3>3
    <2>2. CASE x[1] = "new"
      <3>1. /\ x[2] \in Procs
            /\ roomTask'[x[2]].op \in {"write", "rename"} /\ roomTask'[x[2]].booking = Nothing
            /\ x[3] <= Use(roomTask'[x[2]].stay, d)
        BY <1>6, <2>2 DEF Keys, Writes, Use
      <3>2. x[2] # p
        BY <2>0, <3>1
      <3> QED
        BY <1>1, <2>2, <3>1, <3>2 DEF Keys, Writes
    <2> QED
      BY <2>1, <2>2 DEF Universe
  <1>7. \A d \in 1..LastDay : Keys(d)' \subseteq Keys(d)
    BY <1>6 DEF Keys, Universe
  <1> QED
    BY <1>7, NoKeyAdded


\* A new row takes over the keys that its request held.
LEMMA OfflineInserts ==
    ASSUME OfflineInv, Offline!TypeOK', NEW p \in Procs, Offline!Insert(p) PROVE OfflineInv'
  <1>1. PICK b \in Things : /\ b \notin Offline!Present
                            /\ row' = [row EXCEPT ![b] = roomTask[p].stay]
    BY DEF Offline!Insert
  <1>2. /\ roomTask'[p] = Offline!Idle
        /\ \A q \in Procs \ {p} : roomTask'[q] = roomTask[q]
    BY OfflineMoved, OfflineIdle DEF OfflineInv, Offline!Insert, Offline!End
  <1>3. Writes(p, Nothing)
    BY DEF Offline!Insert, Writes
  <1>4. row'[b] = roomTask[p].stay /\ \A c \in Things \ {b} : row'[c] = row[c]
    BY <1>1 DEF OfflineInv, Offline!TypeOK
  <1>5. ASSUME NEW d \in 1..LastDay PROVE Cardinality(Keys(d))' <= MaxRooms * Cardinality(Procs)
    <2> DEFINE g == [x \in Keys(d)' |-> IF x \in Keys(d) THEN x ELSE <<"new", p, x[3]>>]
    <2>1. \A x \in Keys(d)' : x \in Universe /\ x[3] \in 1..MaxRooms
      BY DEF Keys, Universe
    <2>2. ASSUME NEW x \in Keys(d)', x \notin Keys(d)
          PROVE  x[1] = "row" /\ x[2] = b /\ <<"new", p, x[3]>> \in Keys(d)
      <3>0. x \in Universe /\ x[3] \in 1..MaxRooms /\ roomTask'[p].op = "idle"
        BY <1>2, <2>1 DEF Offline!Idle
      <3>1. CASE x[1] = "new"
        <4>1. /\ x[2] \in Procs
              /\ roomTask'[x[2]].op \in {"write", "rename"} /\ roomTask'[x[2]].booking = Nothing
              /\ x[3] <= Use(roomTask'[x[2]].stay, d)
          BY <2>2, <3>1 DEF Keys, Writes, Use
        <4>2. x[2] # p
          BY <3>0, <4>1
        <4>3. x \in Keys(d)
          BY <1>2, <3>0, <3>1, <4>1, <4>2 DEF Keys, Writes
        <4> QED
          BY <2>2, <4>3
      <3>2. CASE x[1] = "row"
        <4>1. /\ x[2] \in Things
              /\ \/ x[3] <= Use(row'[x[2]], d)
                 \/ \E q \in Procs : /\ roomTask'[q].op \in {"write", "rename"}
                                     /\ roomTask'[q].booking = x[2]
                                     /\ x[3] <= Use(roomTask'[q].stay, d)
          BY <2>2, <3>2 DEF Keys, Writes, Use
        <4>2. ASSUME \E q \in Procs : /\ roomTask'[q].op \in {"write", "rename"}
                                      /\ roomTask'[q].booking = x[2]
                                      /\ x[3] <= Use(roomTask'[q].stay, d)
              PROVE  FALSE
          <5>1. \E q \in Procs : Writes(q, x[2]) /\ x[3] <= Use(roomTask[q].stay, d)
            BY <1>2, <3>0, <4>2 DEF Writes
          <5>2. x \in Keys(d)
            BY <3>0, <3>2, <4>1, <5>1 DEF Keys
          <5> QED
            BY <2>2, <5>2
        <4>3. x[3] <= Use(row'[x[2]], d)
          BY <4>1, <4>2
        <4>4. x[2] = b
          <5>1. SUFFICES ASSUME x[2] # b PROVE FALSE
            OBVIOUS
          <5>2. x[3] <= Use(row[x[2]], d)
            BY <1>4, <4>1, <4>3, <5>1
          <5>3. x \in Keys(d)
            BY <3>0, <3>2, <4>1, <5>2 DEF Keys
          <5> QED
            BY <2>2, <5>3
        <4>5. x[3] <= Use(roomTask[p].stay, d)
          BY <1>4, <4>3, <4>4
        <4>6. <<"new", p, x[3]>> \in Universe
          BY <3>0 DEF Universe
        <4>7. <<"new", p, x[3]>> \in Keys(d)
          BY <1>3, <4>5, <4>6 DEF Keys
        <4> QED
          BY <3>2, <4>4, <4>7
      <3> QED
        BY <3>0, <3>1, <3>2 DEF Universe
    <2>3. ASSUME NEW k PROVE <<"new", p, k>> \notin Keys(d)'
      <3>1. roomTask'[p].op = "idle"
        BY <1>2 DEF Offline!Idle
      <3> QED
        BY <3>1 DEF Keys, Writes
    <2>4. \A x \in Keys(d)' : g[x] = IF x \in Keys(d) THEN x ELSE <<"new", p, x[3]>>
      OBVIOUS
    <2>5. g \in [Keys(d)' -> Keys(d)]
      BY <2>2
    <2> HIDE DEF g
    <2>6. ASSUME NEW x \in Keys(d)', NEW y \in Keys(d)', g[x] = g[y] PROVE x = y
      <3>1. CASE x \in Keys(d) /\ y \in Keys(d)
        BY <2>4, <2>6, <3>1
      <3>2. CASE x \in Keys(d) /\ y \notin Keys(d)
        <4>1. x = <<"new", p, y[3]>>
          BY <2>4, <2>6, <3>2
        <4> QED
          BY <2>3, <4>1
      <3>3. CASE x \notin Keys(d) /\ y \in Keys(d)
        <4>1. y = <<"new", p, x[3]>>
          BY <2>4, <2>6, <3>3
        <4> QED
          BY <2>3, <4>1
      <3>4. CASE x \notin Keys(d) /\ y \notin Keys(d)
        <4>1. <<"new", p, x[3]>> = <<"new", p, y[3]>>
          BY <2>4, <2>6, <3>4
        <4>2. x[3] = y[3]
          BY <4>1
        <4>3. /\ x[1] = "row" /\ x[2] = b
              /\ y[1] = "row" /\ y[2] = b
          BY <2>2, <3>4
        <4> QED
          BY <2>1, <4>2, <4>3 DEF Universe
      <3> QED
        BY <3>1, <3>2, <3>3, <3>4
    <2>7. g \in Injection(Keys(d)', Keys(d))
      BY <2>5, <2>6 DEF Injection, IsInjective
    <2>8. IsFiniteSet(Keys(d)') /\ Cardinality(Keys(d)') <= Cardinality(Keys(d))
      BY <2>7, KeysFinite, FS_Injection
    <2>9. /\ Cardinality(Keys(d)) <= MaxRooms * Cardinality(Procs)
          /\ MaxRooms * Cardinality(Procs) \in Nat
      BY OfflineFacts DEF OfflineInv
    <2>10. Cardinality(Keys(d)) \in Nat /\ Cardinality(Keys(d)') \in Nat
      BY <2>8, KeysFinite, FS_CardinalityType
    <2> QED
      BY <2>8, <2>9, <2>10
  <1> QED
    BY <1>5 DEF OfflineInv


LEMMA SameRooms == \A S : Offline!Cardinality(S) = Cardinality(S)
  BY DEF Cardinality, Offline!Cardinality

\* The keys of the rows other than one, on a night of a stay, are among those that
\* measuring the stay counts.
LEMMA TakenCovers ==
    ASSUME Offline!TypeOK, NEW s \in Offline!Stay, NEW b, NEW d \in s.from..(s.to - 1)
    PROVE  LET R == {x \in Universe : /\ x[1] = "row" /\ x[2] \in Things \ {b}
                                      /\ x[3] <= Use(row[x[2]], d)}
           IN  /\ IsFiniteSet(R) /\ Cardinality(R) \in Nat
               /\ Offline!Taken(s, b) \in Nat
               /\ Cardinality(R) <= Offline!Taken(s, b)
  <1> DEFINE R == {x \in Universe : /\ x[1] = "row" /\ x[2] \in Things \ {b}
                                    /\ x[3] <= Use(row[x[2]], d)}
             C == {c \in Offline!Present \ {b} : Offline!Overlaps(row[c], s)}
             K == {k \in C \X (1..MaxRooms) : k[2] <= row[k[1]].rooms}
             f == [x \in R |-> <<x[2], x[3]>>]
  <1>1. /\ IsFiniteSet(Things) /\ IsFiniteSet(1..MaxRooms)
        /\ IsFiniteSet(Universe)
    BY OfflineFacts, DeskAssumption, SameFinite DEF Rating!RatingsAssumption
  <1>2. C \subseteq Things
    BY DEF Offline!Present
  <1>3. IsFiniteSet(C \X (1..MaxRooms))
    BY <1>1, <1>2, FS_Subset, FS_Product
  <1>4. IsFiniteSet(K) /\ Cardinality(K) \in Nat
    BY <1>3, FS_Subset, FS_CardinalityType
  <1>5. Offline!Taken(s, b) = Cardinality(K)
    BY SameRooms DEF Offline!Taken, Offline!Rooms
  <1>6. ASSUME NEW x \in R PROVE <<x[2], x[3]>> \in K
    <2>1. /\ x[2] \in Things \ {b} /\ x[3] \in 1..MaxRooms
          /\ x[3] <= Use(row[x[2]], d)
      BY DEF Universe
    <2>2. row[x[2]] \in Offline!Stay
      BY <2>1 DEF Offline!TypeOK
    <2> DEFINE r == row[x[2]]
    <2>3. /\ r.from \in Int /\ r.to \in Int /\ r.rooms \in Int
          /\ s.from \in Int /\ s.to \in Int
      BY <2>2, OfflineFacts DEF Offline!Stay
    <2> HIDE DEF r
    <2>4. r.from <= d /\ d < r.to /\ x[3] <= r.rooms
      BY <2>1, <2>3, OfflineFacts DEF Use, r
    <2>5. r.rooms > 0 /\ Offline!Overlaps(r, s)
      BY <2>1, <2>3, <2>4, OfflineFacts DEF Offline!Overlaps
    <2>6. x[2] \in C
      BY <2>1, <2>5 DEF Offline!Present, r
    <2> HIDE DEF C
    <2> QED
      BY <2>1, <2>4, <2>6 DEF r
  <1> HIDE DEF K
  <1>7. \A x \in R : f[x] = <<x[2], x[3]>>
    OBVIOUS
  <1>8. f \in [R -> K]
    BY <1>6
  <1> HIDE DEF f
  <1>9. ASSUME NEW x \in R, NEW y \in R, f[x] = f[y] PROVE x = y
    <2>1. <<x[2], x[3]>> = <<y[2], y[3]>>
      BY <1>7, <1>9
    <2>2. x[2] = y[2] /\ x[3] = y[3]
      BY <2>1
    <2>3. x[1] = "row" /\ y[1] = "row" /\ x \in Universe /\ y \in Universe
      OBVIOUS
    <2> HIDE DEF R
    <2> QED
      BY <2>2, <2>3 DEF Universe
  <1>10. f \in Injection(R, K)
    BY <1>8, <1>9 DEF Injection, IsInjective
  <1>11. Cardinality(R) <= Cardinality(K) /\ IsFiniteSet(R)
    BY <1>4, <1>10, FS_Injection
  <1> QED
    BY <1>4, <1>5, <1>11, FS_CardinalityType

\* The key of a claim.
KeyOf(q, k) == IF roomTask[q].booking = Nothing THEN <<"new", q, k>>
               ELSE <<"row", roomTask[q].booking, k>>

\* All the requests but one claim no more than MaxRooms keys each.
LEMMA OthersClaim ==
    ASSUME NEW p \in Procs, NEW S \in SUBSET Universe,
           \A x \in S : \E q \in Procs \ {p} : x = KeyOf(q, x[3])
    PROVE  IsFiniteSet(S) /\ Cardinality(S) \in Nat
           /\ Cardinality(S) <= MaxRooms * (Cardinality(Procs) - 1)
  <1> DEFINE owner(x) == CHOOSE q \in Procs \ {p} : x = KeyOf(q, x[3])
             T == (Procs \ {p}) \X (1..MaxRooms)
             f == [x \in S |-> <<owner(x), x[3]>>]
  <1>1. ASSUME NEW x \in S
        PROVE  owner(x) \in Procs \ {p} /\ x = KeyOf(owner(x), x[3]) /\ x[3] \in 1..MaxRooms
    BY DEF Universe
  <1> HIDE DEF owner
  <1>2. \A x \in S : f[x] = <<owner(x), x[3]>>
    OBVIOUS
  <1>3. f \in [S -> T]
    BY <1>1
  <1>4. IsFiniteSet(Procs \ {p}) /\ Cardinality(Procs \ {p}) = Cardinality(Procs) - 1
    BY FiniteProcs, FS_RemoveElement
  <1>5. IsFiniteSet(T) /\ Cardinality(T) = (Cardinality(Procs) - 1) * MaxRooms
    BY <1>4, OfflineFacts, FS_Product
  <1> HIDE DEF f, T
  <1>6. ASSUME NEW x \in S, NEW y \in S, f[x] = f[y] PROVE x = y
    <2>1. <<owner(x), x[3]>> = <<owner(y), y[3]>>
      BY <1>2, <1>6
    <2>2. owner(x) = owner(y) /\ x[3] = y[3]
      BY <2>1
    <2> QED
      BY <1>1, <2>2
  <1>7. f \in Injection(S, T)
    BY <1>3, <1>6 DEF Injection, IsInjective
  <1>8. IsFiniteSet(S) /\ Cardinality(S) <= Cardinality(T) /\ Cardinality(S) \in Nat
    BY <1>5, <1>7, FS_Injection, FS_CardinalityType
  <1> QED
    BY <1>5, <1>8, OfflineFacts


\* Who has room for a stay on top of what is taken may claim it.
LEMMA OfflineChecks ==
    ASSUME OfflineInv, Offline!TypeOK', NEW p \in Procs, Offline!CapacityCheck(p)
    PROVE  OfflineInv'
  <1> DEFINE b == roomTask[p].booking
             N == Cardinality(Procs)
  <1>1. PICK s \in Offline!Stay :
           /\ s.rooms > 0 /\ Offline!Taken(s, b) + s.rooms <= roomTask[p].total
           /\ roomTask' = [roomTask EXCEPT ![p] = [roomTask[p] EXCEPT !.op = "write", !.stay = s]]
    BY DEF Offline!CapacityCheck
  <1> DEFINE t == [roomTask[p] EXCEPT !.op = "write", !.stay = s]
  <1>2. roomTask[p] \in Offline!Task
    BY DEF OfflineInv, Offline!TypeOK
  <1>3. /\ t \in Offline!Task /\ t.op = "write" /\ t.stay = s /\ t.booking = b
        /\ b \in Things \union {Nothing} /\ roomTask[p].total \in 0..MaxRooms
    BY <1>2 DEF Offline!Task
  <1> HIDE DEF t, b
  <1>4. roomTask'[p] = t /\ \A q \in Procs \ {p} : roomTask'[q] = roomTask[q]
    BY <1>1, <1>3, OfflineMoved DEF OfflineInv, t, b
  <1>5. UNCHANGED row
    BY DEF Offline!CapacityCheck
  <1>6. /\ s.rooms \in 0..MaxRooms /\ s.from \in Int /\ s.to \in Int
        /\ N \in Nat /\ MaxRooms \in Nat
    BY OfflineFacts DEF Offline!Stay
  <1>7. ASSUME NEW d \in 1..LastDay PROVE Cardinality(Keys(d))' <= MaxRooms * N
    <2> DEFINE R == {x \in Universe : /\ x[1] = "row" /\ x[2] \in Things \ {b}
                                      /\ x[3] <= Use(row[x[2]], d)}
               own(k) == IF b = Nothing THEN <<"new", p, k>> ELSE <<"row", b, k>>
               P == {x \in Universe : x = own(x[3]) /\ x[3] <= Use(s, d)}
               S == {x \in Universe : \E q \in Procs \ {p} : x = KeyOf(q, x[3])}
    <2>0. d \in Int
      OBVIOUS
    <2>1. ASSUME NEW x \in Universe, x \in Keys(d)'
          PROVE  \/ x[1] = "row" /\ x[2] \in Things /\ x[3] <= Use(row[x[2]], d)
                 \/ x \in P
                 \/ x \in Keys(d) /\ x \in S
      <3>1. CASE x[1] = "row"
        <4>1. /\ x[2] \in Things
              /\ \/ x[3] <= Use(row[x[2]], d)
                 \/ \E q \in Procs : /\ roomTask'[q].op \in {"write", "rename"}
                                     /\ roomTask'[q].booking = x[2]
                                     /\ x[3] <= Use(roomTask'[q].stay, d)
          BY <1>5, <2>1, <3>1 DEF Keys, Writes, Use
        <4>2. ASSUME NEW q \in Procs, roomTask'[q].op \in {"write", "rename"},
                     roomTask'[q].booking = x[2], x[3] <= Use(roomTask'[q].stay, d)
              PROVE  x \in P \/ (x \in Keys(d) /\ x \in S)
          <5>1. CASE q = p
            <6>1. b = x[2] /\ x[3] <= Use(s, d)
              BY <1>3, <1>4, <4>2, <5>1
            <6>2. x = own(x[3])
              BY <3>1, <4>1, <6>1, OfflineFacts DEF Universe
            <6> QED
              BY <6>1, <6>2
          <5>2. CASE q # p
            <6>1. Writes(q, x[2]) /\ x[3] <= Use(roomTask[q].stay, d)
              BY <1>4, <4>2, <5>2 DEF Writes
            <6>2. x \in Keys(d)
              BY <3>1, <4>1, <6>1 DEF Keys
            <6>3. x = KeyOf(q, x[3])
              BY <3>1, <4>1, <6>1, OfflineFacts DEF KeyOf, Writes, Universe
            <6> QED
              BY <5>2, <6>2, <6>3
          <5> QED
            BY <5>1, <5>2
        <4> QED
          BY <3>1, <4>1, <4>2
      <3>2. CASE x[1] = "new"
        <4>1. /\ x[2] \in Procs
              /\ roomTask'[x[2]].op \in {"write", "rename"} /\ roomTask'[x[2]].booking = Nothing
              /\ x[3] <= Use(roomTask'[x[2]].stay, d)
          BY <2>1, <3>2 DEF Keys, Writes, Use
        <4>2. CASE x[2] = p
          <5>1. b = Nothing /\ x[3] <= Use(s, d)
            BY <1>3, <1>4, <4>1, <4>2
          <5>2. x = own(x[3])
            BY <3>2, <4>2, <5>1 DEF Universe
          <5> QED
            BY <5>1, <5>2
        <4>3. CASE x[2] # p
          <5>1. Writes(x[2], Nothing) /\ x[3] <= Use(roomTask[x[2]].stay, d)
            BY <1>4, <4>1, <4>3 DEF Writes
          <5>2. x \in Keys(d)
            BY <3>2, <4>1, <5>1 DEF Keys
          <5>3. x = KeyOf(x[2], x[3])
            BY <3>2, <4>1, <5>1 DEF KeyOf, Writes, Universe
          <5> QED
            BY <4>1, <4>3, <5>2, <5>3
        <4> QED
          BY <4>2, <4>3
      <3> QED
        BY <3>1, <3>2 DEF Universe
    <2>2. \A x \in Universe : x[1] = "row" /\ x[2] \in Things /\ x[3] <= Use(row[x[2]], d)
                              => x \in Keys(d)
      BY DEF Keys
    <2>3. Keys(d)' \subseteq Universe
      BY DEF Keys, Universe
    <2>4. /\ Cardinality(Keys(d)) <= MaxRooms * N /\ MaxRooms * N \in Nat
          /\ IsFiniteSet(Keys(d)) /\ Cardinality(Keys(d)) \in Nat
      BY <1>6, KeysFinite DEF OfflineInv
    \* A night that the stay leaves as it was.
    <2>5. ASSUME P \subseteq Keys(d) PROVE Cardinality(Keys(d)') <= MaxRooms * N
      <3>1. Keys(d)' \subseteq Keys(d)
        BY <2>1, <2>2, <2>3, <2>5
      <3>2. Cardinality(Keys(d)') <= Cardinality(Keys(d)) /\ Cardinality(Keys(d)') \in Nat
        BY <2>4, <3>1, FS_Subset, FS_CardinalityType
      <3> QED
        BY <2>4, <3>2
    \* A night on which it takes more.
    <2>6. ASSUME d \in s.from..(s.to - 1),
                 \A x \in Universe : /\ x[1] = "row" /\ b \in Things /\ x[2] = b
                                     /\ x[3] <= Use(row[b], d)
                                     => x \in P
          PROVE  Cardinality(Keys(d)') <= MaxRooms * N
      <3>1. /\ IsFiniteSet(R) /\ Cardinality(R) \in Nat
            /\ Offline!Taken(s, b) \in Nat /\ Cardinality(R) <= Offline!Taken(s, b)
        BY <2>6, TakenCovers DEF OfflineInv
      <3>2. IsFiniteSet(P) /\ Cardinality(P) \in Nat /\ Cardinality(P) <= s.rooms
        <4> DEFINE g == [x \in P |-> x[3]]
        <4>1. \A x \in P : x[3] \in 1..s.rooms
          BY <1>6 DEF Use, Universe
        <4>2. g \in [P -> 1..s.rooms]
          BY <4>1
        <4>3. ASSUME NEW x \in P, NEW y \in P, g[x] = g[y] PROVE x = y
          <5>1. x[3] = y[3] /\ x = own(x[3]) /\ y = own(y[3])
            BY <4>3
          <5> HIDE DEF P, own
          <5> QED
            BY <5>1
        <4> HIDE DEF g
        <4>4. g \in Injection(P, 1..s.rooms)
          BY <4>2, <4>3 DEF Injection, IsInjective
        <4>5. s.rooms \in Int /\ s.rooms >= 1 /\ 1 \in Int
          BY <1>1, <1>6
        <4>6. /\ IsFiniteSet(1..s.rooms)
              /\ Cardinality(1..s.rooms) = IF 1 > s.rooms THEN 0 ELSE s.rooms - 1 + 1
          BY <4>5, FS_Interval
        <4>7. Cardinality(1..s.rooms) = s.rooms
          BY <4>5, <4>6
        <4> QED
          BY <4>4, <4>6, <4>7, FS_Injection, FS_CardinalityType
      <3>3. /\ IsFiniteSet(S) /\ Cardinality(S) \in Nat
            /\ Cardinality(S) <= MaxRooms * (N - 1)
        BY OthersClaim
      <3>4. ASSUME NEW x \in Keys(d)' PROVE x \in (R \union P) \union S
        <4>0. x \in Universe
          BY <2>3
        <4>1. CASE x[1] = "row" /\ x[2] \in Things /\ x[3] <= Use(row[x[2]], d)
          <5>1. CASE x[2] = b
            BY <2>6, <4>0, <4>1, <5>1
          <5>2. CASE x[2] # b
            BY <4>0, <4>1, <5>2
          <5> QED
            BY <5>1, <5>2
        <4> QED
          BY <2>1, <4>0, <4>1
      <3> HIDE DEF R, P, S
      <3>5. /\ IsFiniteSet(R \union P)
            /\ Cardinality(R \union P) = Cardinality(R) + Cardinality(P) - Cardinality(R \cap P)
            /\ Cardinality(R \cap P) \in Nat
        BY <3>1, <3>2, FS_Union, FS_Intersection, FS_CardinalityType
      <3>6. /\ IsFiniteSet((R \union P) \union S)
            /\ Cardinality((R \union P) \union S)
                 = Cardinality(R \union P) + Cardinality(S) - Cardinality((R \union P) \cap S)
            /\ Cardinality((R \union P) \cap S) \in Nat
            /\ Cardinality(R \union P) \in Nat
        BY <3>3, <3>5, FS_Union, FS_Intersection, FS_CardinalityType
      <3>7. /\ Cardinality(Keys(d)') <= Cardinality((R \union P) \union S)
            /\ Cardinality(Keys(d)') \in Nat /\ Cardinality((R \union P) \union S) \in Nat
        BY <3>4, <3>6, FS_Subset, FS_CardinalityType
      <3>8. Cardinality(R) + s.rooms <= MaxRooms
        BY <1>1, <1>3, <1>6, <3>1 DEF b
      <3>9. MaxRooms * (N - 1) + MaxRooms = MaxRooms * N
        BY <1>6
      <3> QED
        BY <1>6, <3>1, <3>2, <3>3, <3>5, <3>6, <3>7, <3>8, <3>9
    <2>7. CASE Use(s, d) <= 0
      <3>1. P = {}
        BY <1>6, <2>7 DEF Universe, Use
      <3> QED
        BY <2>5, <3>1
    <2>8. CASE b \in Things /\ Use(s, d) <= Use(row[b], d)
      <3>1. /\ Use(row[b], d) \in Int /\ Use(s, d) \in Int
        BY <1>6, <2>8, OfflineFacts DEF OfflineInv, Offline!TypeOK, Offline!Stay, Use
      <3>2. ASSUME NEW x \in P PROVE x \in Keys(d)
        <4>1. x \in Universe /\ x = own(x[3]) /\ x[3] <= Use(s, d) /\ x[3] \in Int
          BY DEF Universe
        <4>2. x = <<"row", b, x[3]>>
          BY <2>8, <4>1, OfflineFacts
        <4>3. x[3] <= Use(row[b], d)
          BY <2>8, <3>1, <4>1
        <4>4. x[1] = "row" /\ x[2] = b
          BY <4>2
        <4> QED
          BY <2>2, <2>8, <4>1, <4>3, <4>4
      <3> HIDE DEF P
      <3> QED
        BY <2>5, <3>2
    <2>9. CASE ~ (Use(s, d) <= 0) /\ ~ (b \in Things /\ Use(s, d) <= Use(row[b], d))
      <3>1. d \in s.from..(s.to - 1)
        BY <1>6, <2>9 DEF Use
      <3>2. ASSUME NEW x \in Universe, x[1] = "row", b \in Things, x[2] = b,
                   x[3] <= Use(row[b], d)
            PROVE  x \in P
        <4>1. x[3] \in 1..MaxRooms /\ x = <<x[1], x[2], x[3]>>
          BY DEF Universe
        <4>3. b \in Things
          BY <3>2
        <4>4. Use(row[b], d) \in Int /\ Use(s, d) \in Int
          BY <1>6, <4>3, OfflineFacts DEF OfflineInv, Offline!TypeOK, Offline!Stay, Use
        <4>5. x[3] <= Use(s, d)
          BY <2>9, <3>2, <4>1, <4>3, <4>4
        <4> QED
          BY <3>2, <4>1, <4>3, <4>5, OfflineFacts
      <3> QED
        BY <2>6, <3>1, <3>2
    <2> QED
      BY <2>7, <2>8, <2>9
  <1> QED
    BY <1>7 DEF OfflineInv


LEMMA OfflineNext == ASSUME OfflineInv, Offline!Next PROVE OfflineInv'
  <1>1. Offline!TypeOK'
    BY OfflineTypes DEF OfflineInv
  <1>2. CASE Offline!EditTotal
    BY <1>1, <1>2, TotalEdited DEF Offline!EditTotal
  <1>3. ASSUME NEW p \in Procs, Offline!RequestStep(p) PROVE OfflineInv'
    BY <1>1, <1>3, OfflineAsks, OfflineChecks, OfflineInserts, OfflineWrites
    DEF Offline!RequestStep
  <1> QED
    BY <1>2, <1>3 DEF Offline!Next

LEMMA OfflineStays == ASSUME OfflineInv, UNCHANGED roomVars PROVE OfflineInv'
  <1>1. Offline!TypeOK'
    BY DEF OfflineInv, Offline!TypeOK, roomVars
  <1> QED
    BY <1>1, TotalEdited DEF roomVars

LEMMA KeysSuffice == OfflineInv => Offline!NightsCovered
  <1> SUFFICES ASSUME OfflineInv, NEW d \in 1..LastDay
               PROVE  Offline!Rooms({b \in Offline!Present : row[b].from <= d /\ d < row[b].to})
                        <= MaxRooms * Cardinality(Procs)
    BY SameRooms DEF Offline!NightsCovered
  <1> DEFINE B == {b \in Offline!Present : row[b].from <= d /\ d < row[b].to}
             K == {k \in B \X (1..MaxRooms) : k[2] <= row[k[1]].rooms}
             f == [k \in K |-> <<"row", k[1], k[2]>>]
  <1>1. ASSUME NEW k \in K PROVE <<"row", k[1], k[2]>> \in Keys(d)
    <2>1. k[1] \in Things /\ k[2] \in 1..MaxRooms /\ k[2] <= Use(row[k[1]], d)
      BY DEF Offline!Present, Use
    <2>2. <<"row", k[1], k[2]>> \in Universe
      BY <2>1 DEF Universe
    <2> QED
      BY <2>1, <2>2 DEF Keys
  <1>2. \A k \in K : k = <<k[1], k[2]>>
    OBVIOUS
  <1> HIDE DEF K
  <1>3. f \in [K -> Keys(d)] /\ \A k \in K : f[k] = <<"row", k[1], k[2]>>
    BY <1>1
  <1> HIDE DEF f
  <1>4. ASSUME NEW k \in K, NEW l \in K, f[k] = f[l] PROVE k = l
    <2>1. <<"row", k[1], k[2]>> = <<"row", l[1], l[2]>>
      BY <1>3, <1>4
    <2>2. k[1] = l[1] /\ k[2] = l[2]
      BY <2>1
    <2>3. k = <<k[1], k[2]>> /\ l = <<l[1], l[2]>>
      BY <1>2
    <2> QED
      BY <2>2, <2>3
  <1>5. f \in Injection(K, Keys(d))
    BY <1>3, <1>4 DEF Injection, IsInjective
  <1>6. /\ Cardinality(K) <= Cardinality(Keys(d))
        /\ Cardinality(K) \in Nat /\ Cardinality(Keys(d)) \in Nat
    BY <1>5, KeysFinite, FS_Injection, FS_CardinalityType
  <1>7. Cardinality(Keys(d)) <= MaxRooms * Cardinality(Procs) /\ MaxRooms * Cardinality(Procs) \in Nat
    BY OfflineFacts DEF OfflineInv
  <1>8. Offline!Rooms(B) = Cardinality(K)
    BY SameRooms DEF Offline!Rooms, K
  <1> QED
    BY <1>6, <1>7, <1>8

\* However its requests interleave, and whatever totalRooms becomes meanwhile, a
\* provider books on no night more rooms by telephone than the largest total for each
\* request handled at a time; handled one at a time, never more than that total.
THEOREM NightsAreCovered == Spec => []NightsCovered
  <1>1. OfflineInv /\ [Next]_vars => OfflineInv'
    BY OwnSteps, OfflineNext, OfflineStays
  <1>2. OfflineInv => NightsCovered
    BY KeysSuffice DEF NightsCovered
  <1> QED
    BY <1>1, <1>2, OfflineInit, PTL DEF Spec

-----------------------------------------------------------------------------
(* Password resets *)

\* A request's token is its own until it is mailed, and a reset carries one that was
\* mailed: what passwords were set with was mailed before.
ResetKnown ==
    /\ \A p \in Procs :
        /\ resetTask[p].op = "reset" => resetTask[p].token \in mailed
        /\ resetTask[p].op \in {"request", "mail"} => resetTask[p].token \in Things
        /\ resetTask[p].op = "request" =>
            /\ resetTask[p].token \notin mailed
            /\ \A q \in Procs \ {p} : resetTask[q].token # resetTask[p].token
    /\ spent \subseteq mailed \X Procs

\* While requests keep apart, a reset carries a token no password was set with, the newest
\* one unless an admin has cleared it.
ResetCarried ==
    /\ Reset!NewestWorks /\ Reset!SpentOnce
    /\ \A p \in Procs : resetTask[p].op = "reset" =>
        /\ newest \in {resetTask[p].token, Nothing}
        /\ ~Reset!Spent(resetTask[p].token)

ResetInv ==
    /\ Reset!TypeOK /\ Reset!TokenIsUnspent /\ ResetKnown
    /\ resetCalm => Reset!Calm /\ ResetCarried

LEMMA ResetIdle == Reset!Idle \in Reset!Task /\ Reset!Idle = [op |-> "idle", token |-> Nothing]
  BY DEF Reset!Idle, Reset!Task

LEMMA ResetInit == Init => ResetInv
  <1> SUFFICES ASSUME Reset!Init PROVE ResetInv
    BY DEF Init
  <1>1. /\ resetTask \in [Procs -> Reset!Task]
        /\ \A p \in Procs : resetTask[p].op = "idle"
    BY ResetIdle DEF Reset!Init
  <1>2. Reset!TypeOK
    BY <1>1 DEF Reset!TypeOK, Reset!Init
  <1>3. Reset!TokenIsUnspent /\ ResetKnown
    BY <1>1 DEF Reset!TokenIsUnspent, ResetKnown, Reset!Init
  <1>4. Reset!Calm /\ ResetCarried
    BY <1>1 DEF Reset!Calm, ResetCarried, Reset!NewestWorks, Reset!SpentOnce, Reset!Init
  <1> QED
    BY <1>2, <1>3, <1>4 DEF ResetInv

\* The requests as a step leaves them.
LEMMA ResetMoved ==
    ASSUME Reset!TypeOK, NEW p \in Procs, NEW t \in Reset!Task,
           resetTask' = [resetTask EXCEPT ![p] = t]
    PROVE  /\ resetTask' \in [Procs -> Reset!Task]
           /\ resetTask'[p] = t
           /\ \A q \in Procs \ {p} : resetTask'[q] = resetTask[q]
  BY DEF Reset!TypeOK

\* The part of the invariant that holds however requests overlap.
LEMMA ResetRequest ==
    ASSUME Reset!TypeOK, Reset!TokenIsUnspent, ResetKnown, resetCalm' \in BOOLEAN,
           NEW p \in Procs, Reset!RequestStep(p)
    PROVE  Reset!TypeOK' /\ Reset!TokenIsUnspent' /\ ResetKnown'
  <1> USE DEF Reset!TypeOK
  <1> DEFINE Goal == Reset!TypeOK' /\ Reset!TokenIsUnspent' /\ ResetKnown'
  <1>0. Nothing \notin Things
    BY DeskAssumption DEF Reset!ResetsAssumption
  <1>1. ASSUME NEW t \in Things, Reset!RequestRead(p, t) PROVE Goal
    <2>1. /\ resetTask' = [resetTask EXCEPT ![p] = [op |-> "request", token |-> t]]
          /\ UNCHANGED <<token, ahead, mailed, newest, spent>>
          /\ t \notin mailed /\ \A q \in Procs : resetTask[q].token # t
      BY <1>1 DEF Reset!RequestRead, Reset!Begin, Reset!Unused
    <2>2. [op |-> "request", token |-> t] \in Reset!Task
      BY DEF Reset!Task
    <2>3. Reset!TypeOK' /\ Reset!TokenIsUnspent'
      BY <2>1, <2>2, ResetMoved DEF Reset!TokenIsUnspent, Reset!Spent
    <2>4. ResetKnown'
      BY <2>1, <2>2, ResetMoved DEF ResetKnown
    <2> QED
      BY <2>3, <2>4
  <1>2. ASSUME NEW t \in Things, Reset!ResetRead(p, t) PROVE Goal
    <2>1. /\ resetTask' = [resetTask EXCEPT ![p] = [op |-> "reset", token |-> t]]
          /\ UNCHANGED <<token, ahead, mailed, newest, spent>>
          /\ t \in mailed
      BY <1>2 DEF Reset!ResetRead, Reset!Begin
    <2>2. [op |-> "reset", token |-> t] \in Reset!Task
      BY DEF Reset!Task
    <2>3. Reset!TypeOK' /\ Reset!TokenIsUnspent'
      BY <2>1, <2>2, ResetMoved DEF Reset!TokenIsUnspent, Reset!Spent
    <2>4. ResetKnown'
      BY <2>1, <2>2, ResetMoved DEF ResetKnown
    <2> QED
      BY <2>3, <2>4
  <1>3. CASE Reset!RequestWrite(p)
    <2> DEFINE t == [resetTask[p] EXCEPT !.op = "mail"]
    <2>1. /\ resetTask' = [resetTask EXCEPT ![p] = t]
          /\ resetTask[p].op = "request" /\ ahead' = TRUE
          /\ token' = resetTask[p].token /\ newest' = resetTask[p].token
          /\ UNCHANGED <<mailed, spent>>
      BY <1>3 DEF Reset!RequestWrite, Reset!TypeOK, Reset!Task
    <2>2. t \in Reset!Task /\ t.op = "mail" /\ t.token = resetTask[p].token
      BY DEF Reset!Task
    <2> HIDE DEF t
    <2>3. resetTask[p].token \in Things \ mailed /\ ~Reset!Spent(resetTask[p].token)
      BY <2>1 DEF ResetKnown, Reset!Spent
    <2>4. Reset!TypeOK'
      BY <2>1, <2>2, <2>3, ResetMoved
    <2>5. Reset!TokenIsUnspent'
      BY <2>1, <2>3 DEF Reset!TokenIsUnspent, Reset!Spent
    <2>6. ResetKnown'
      BY <2>1, <2>2, <2>3, ResetMoved DEF ResetKnown
    <2> QED
      BY <2>4, <2>5, <2>6
  <1>4. CASE Reset!RequestMail(p)
    <2>1. /\ resetTask' = [resetTask EXCEPT ![p] = Reset!Idle]
          /\ resetTask[p].op = "mail"
          /\ mailed' = mailed \union {resetTask[p].token}
          /\ UNCHANGED <<token, ahead, newest, spent>>
      BY <1>4 DEF Reset!RequestMail, Reset!End
    <2>2. resetTask[p].token \in Things
      BY <2>1 DEF ResetKnown
    <2>3. Reset!TypeOK' /\ Reset!TokenIsUnspent'
      BY <2>1, <2>2, ResetIdle, ResetMoved DEF Reset!TokenIsUnspent, Reset!Spent
    <2>4. ResetKnown'
      BY <1>0, <2>1, <2>2, ResetIdle, ResetMoved DEF ResetKnown
    <2> QED
      BY <2>3, <2>4
  <1>5. CASE Reset!ResetWrite(p)
    <2>1. /\ resetTask' = [resetTask EXCEPT ![p] = Reset!Idle]
          /\ resetTask[p].op = "reset" /\ token' = Nothing /\ ahead' = FALSE
          /\ spent' = spent \union {<<resetTask[p].token, p>>}
          /\ UNCHANGED <<mailed, newest>>
      BY <1>5 DEF Reset!ResetWrite, Reset!End, Reset!Cleared
    <2>2. resetTask[p].token \in mailed /\ <<resetTask[p].token, p>> \in Things \X Procs
      BY <2>1 DEF ResetKnown
    <2>3. spent' \in SUBSET (Things \X Procs)
      BY <2>1, <2>2
    <2>4. Reset!TypeOK' /\ Reset!TokenIsUnspent'
      BY <2>1, <2>3, ResetIdle, ResetMoved DEF Reset!TokenIsUnspent
    <2>5. ResetKnown'
      BY <1>0, <2>1, <2>2, ResetIdle, ResetMoved DEF ResetKnown
    <2> QED
      BY <2>4, <2>5
  <1>6. CASE Reset!Abort(p)
    <2>1. /\ resetTask' = [resetTask EXCEPT ![p] = Reset!Idle]
          /\ UNCHANGED <<token, ahead, mailed, newest, spent>>
      BY <1>6 DEF Reset!Abort, Reset!End
    <2>2. Reset!TypeOK' /\ Reset!TokenIsUnspent'
      BY <2>1, ResetIdle, ResetMoved DEF Reset!TokenIsUnspent, Reset!Spent
    <2>3. ResetKnown'
      BY <1>0, <2>1, ResetIdle, ResetMoved DEF ResetKnown
    <2> QED
      BY <2>2, <2>3
  <1> QED
    BY <1>1, <1>2, <1>3, <1>4, <1>5, <1>6 DEF Reset!RequestStep

\* The part that holds while they do not.
LEMMA ResetApart ==
    ASSUME ResetInv, resetCalm, Reset!Calm, Reset!Calm', ResetCarried,
           NEW p \in Procs, Reset!RequestStep(p)
    PROVE  ResetCarried'
  <1> USE DEF Reset!TypeOK
  <1>t. Reset!TypeOK /\ Reset!TokenIsUnspent /\ ResetKnown /\ Nothing \notin Things
    BY DeskAssumption DEF Reset!ResetsAssumption, ResetInv
  <1> USE <1>t
  <1>a. ASSUME NEW t \in Reset!Task, resetTask' = [resetTask EXCEPT ![p] = t],
               UNCHANGED <<token, newest, spent>>,
               t.op = "reset" => newest \in {t.token, Nothing} /\ ~Reset!Spent(t.token)
        PROVE  ResetCarried'
    <2>1. Reset!NewestWorks' /\ Reset!SpentOnce'
      BY <1>a DEF ResetCarried, Reset!NewestWorks, Reset!SpentOnce, Reset!Spent
    <2>2. ASSUME NEW q \in Procs, resetTask'[q].op = "reset"
          PROVE  /\ newest' \in {resetTask'[q].token, Nothing}
                 /\ \A r \in Procs : <<resetTask'[q].token, r>> \notin spent'
      BY <1>a, <2>2, ResetMoved DEF ResetCarried, Reset!Spent
    <2> QED
      BY <2>1, <2>2 DEF ResetCarried, Reset!Spent
  <1>1. ASSUME NEW t \in Things, Reset!RequestRead(p, t) PROVE ResetCarried'
    <2>1. [op |-> "request", token |-> t] \in Reset!Task
      BY DEF Reset!Task
    <2> QED
      BY <1>1, <2>1, <1>a DEF Reset!RequestRead, Reset!Begin
  <1>2. ASSUME NEW t \in Things, Reset!ResetRead(p, t) PROVE ResetCarried'
    <2>1. [op |-> "reset", token |-> t] \in Reset!Task
      BY DEF Reset!Task
    <2>2. t = newest /\ ~Reset!Spent(t)
      BY <1>2 DEF Reset!ResetRead, Reset!Valid, Reset!TokenIsUnspent
    <2> QED
      BY <1>2, <2>1, <2>2, <1>a DEF Reset!ResetRead, Reset!Begin
  <1>3. CASE Reset!RequestWrite(p)
    <2>1. /\ resetTask[p].op = "request" /\ token' = newest' /\ UNCHANGED spent
          /\ resetTask' = [resetTask EXCEPT ![p].op = "mail"]
      BY <1>3 DEF Reset!RequestWrite
    <2>2. \A q \in Procs : resetTask'[q].op # "reset"
      BY <2>1 DEF Reset!Calm, Reset!Task
    <2>3. Reset!NewestWorks' /\ Reset!SpentOnce'
      BY <2>1 DEF ResetCarried, Reset!NewestWorks, Reset!SpentOnce
    <2> QED
      BY <2>2, <2>3 DEF ResetCarried
  <1>4. CASE Reset!RequestMail(p) \/ Reset!Abort(p)
    BY <1>4, <1>a, ResetIdle DEF Reset!RequestMail, Reset!Abort, Reset!End
  <1>5. CASE Reset!ResetWrite(p)
    <2>1. /\ resetTask' = [resetTask EXCEPT ![p] = Reset!Idle]
          /\ resetTask[p].op = "reset"
          /\ spent' = spent \union {<<resetTask[p].token, p>>}
          /\ newest' = newest
      BY <1>5 DEF Reset!ResetWrite, Reset!End
    <2>2. newest \in {resetTask[p].token, Nothing} /\ ~Reset!Spent(resetTask[p].token)
      BY <2>1 DEF ResetCarried
    <2>3. \A q \in Procs : resetTask'[q].op # "reset"
      BY <2>1, ResetIdle, ResetMoved DEF Reset!Calm
    <2>4. newest' # Nothing => Reset!Spent(newest)'
      BY <2>1, <2>2 DEF Reset!Spent
    <2>5. Reset!SpentOnce'
      BY <2>1, <2>2 DEF ResetCarried, Reset!SpentOnce, Reset!Spent
    <2> QED
      BY <2>3, <2>4, <2>5 DEF ResetCarried, Reset!NewestWorks
  <1> QED
    BY <1>1, <1>2, <1>3, <1>4, <1>5 DEF Reset!RequestStep

LEMMA ResetNext == ASSUME ResetInv, Reset!Next PROVE ResetInv'
  <1>a. resetCalm' \in BOOLEAN
    BY DEF Reset!Next
  <1>b. resetCalm' => resetCalm /\ Reset!Calm'
    BY Zenon DEF Reset!Next
  <1>0. resetCalm' \in BOOLEAN /\ (resetCalm' => resetCalm /\ Reset!Calm')
    BY <1>a, <1>b
  <1>1. CASE Reset!Lapse
    <2>1. UNCHANGED <<token, mailed, resetTask, newest, spent>> /\ ahead' \in BOOLEAN
      BY <1>1 DEF Reset!Lapse
    <2>2. Reset!TypeOK' /\ Reset!TokenIsUnspent' /\ ResetKnown'
      BY <1>0, <2>1 DEF ResetInv, Reset!TypeOK, Reset!TokenIsUnspent, Reset!Spent, ResetKnown
    <2>3. resetCalm' => ResetCarried'
      BY <1>0, <2>1 DEF ResetInv, ResetCarried, Reset!NewestWorks, Reset!SpentOnce, Reset!Spent
    <2> QED
      BY <1>0, <2>2, <2>3 DEF ResetInv
  <1>2. CASE Reset!SetUserPassword
    <2>1. /\ token' = Nothing /\ newest' = Nothing /\ ahead' = FALSE
          /\ UNCHANGED <<mailed, resetTask, spent>>
      BY <1>2 DEF Reset!SetUserPassword, Reset!Cleared
    <2>2. Reset!TypeOK' /\ Reset!TokenIsUnspent' /\ ResetKnown'
      BY <1>0, <2>1 DEF ResetInv, Reset!TypeOK, Reset!TokenIsUnspent, ResetKnown
    <2>3. resetCalm' => ResetCarried'
      BY <1>0, <2>1 DEF ResetInv, ResetCarried, Reset!NewestWorks, Reset!SpentOnce, Reset!Spent
    <2> QED
      BY <1>0, <2>2, <2>3 DEF ResetInv
  <1>3. ASSUME NEW p \in Procs, Reset!RequestStep(p) PROVE ResetInv'
    <2>1. Reset!TypeOK' /\ Reset!TokenIsUnspent' /\ ResetKnown'
      BY <1>0, <1>3, ResetRequest DEF ResetInv
    <2>2. resetCalm' => ResetCarried'
      BY <1>0, <1>3, ResetApart DEF ResetInv
    <2> QED
      BY <1>0, <2>1, <2>2 DEF ResetInv
  <1> QED
    BY <1>1, <1>2, <1>3 DEF Reset!Next, Reset!Step

LEMMA ResetStays == ASSUME ResetInv, UNCHANGED resetVars PROVE ResetInv'
  <1> USE DEF resetVars
  <1>1. Reset!TypeOK' /\ Reset!TokenIsUnspent' /\ ResetKnown'
    BY DEF ResetInv, Reset!TypeOK, Reset!TokenIsUnspent, Reset!Spent, ResetKnown
  <1>2. resetCalm' => Reset!Calm' /\ ResetCarried'
    BY DEF ResetInv, Reset!Calm, ResetCarried, Reset!NewestWorks, Reset!SpentOnce, Reset!Spent
  <1> QED
    BY <1>1, <1>2 DEF ResetInv

\* However requests for a link and resets overlap, a link a password was set with never
\* comes back; kept apart, the newest link works until it is used, lapses or is cleared
\* with a password an admin set, and once.
THEOREM LinksAreSpentOnce == Spec => []ResetsSound
  <1>1. ResetInv /\ [Next]_vars => ResetInv'
    BY OwnSteps, ResetNext, ResetStays
  <1>2. ResetInv => ResetsSound
    BY DEF ResetInv, ResetCarried, ResetsSound, Reset!NewestWorks, Reset!SpentOnce
  <1> QED
    BY <1>1, <1>2, ResetInit, PTL DEF Spec

-----------------------------------------------------------------------------
(* Coupons and the bookings made with them *)

LEMMA OfferFacts ==
    /\ \A t \in Terms :
        /\ t.percent \in BOOLEAN /\ t.each \in BOOLEAN /\ t.value \in Int
        /\ t.cap = Nothing \/ (t.cap \in Int /\ t.cap > 0)
        /\ t # Nothing
    /\ \A o \in Orders :
        /\ o.unit \in Int /\ o.unit >= 0 /\ o.heads \in Int /\ o.heads >= 1
        /\ o # Nothing
    /\ \A i \in Int : i # Nothing
    /\ \A s \in Offer!Sale : s # Nothing
    /\ Nothing \notin Pair
  BY DeskAssumption DEF Offer!OffersAssumption, Offer!Term, Offer!Order

LEMMA Products ==
    ASSUME NEW a \in Int, NEW b \in Int, a >= 0, b >= 0
    PROVE  a * b \in Int /\ a * b >= 0
  OBVIOUS

\* Rounding down for each person gives no more than the share of the whole.
LEMMA SharesAddUp ==
    ASSUME NEW u \in Int, NEW v \in Int, NEW h \in Int, NEW q \in Int,
           h >= 1, 100 * q <= u * v
    PROVE  100 * (q * h) <= (u * h) * v
  <1> DEFINE d == u * v - 100 * q
  <1>1. d \in Int /\ d >= 0
    OBVIOUS
  <1>2. d * h >= 0
    BY <1>1, Products
  <1>3. d * h = (u * h) * v - 100 * (q * h)
    OBVIOUS
  <1>4. (u * h) * v \in Int /\ 100 * (q * h) \in Int
    OBVIOUS
  <1> QED
    BY <1>2, <1>3, <1>4

LEMMA HundredthRoundsDown ==
    ASSUME NEW x \in Int
    PROVE  x \div 100 \in Int /\ 100 * (x \div 100) <= x
  OBVIOUS

\* What computeDiscount returns, whatever an admin entered.
LEMMA DiscountBounds ==
    ASSUME NEW t \in Terms, NEW o \in Orders
    PROVE  /\ Offer!Discount(t, o) \in Int
           /\ 0 <= Offer!Discount(t, o) /\ Offer!Discount(t, o) <= Offer!Total(o)
           /\ t.cap # Nothing => Offer!Discount(t, o) <= t.cap
           /\ t.percent /\ t.value >= 0
                => 100 * Offer!Discount(t, o) <= Offer!Total(o) * t.value
  <1> DEFINE price == Offer!Total(o)
             raw == Offer!Raw(t, o)
             capped == Offer!Capped(t, o)
             d == Offer!Discount(t, o)
  <1>1. /\ t.percent \in BOOLEAN /\ t.each \in BOOLEAN /\ t.value \in Int
        /\ t.cap = Nothing \/ (t.cap \in Int /\ t.cap > 0)
        /\ o.unit \in Int /\ o.unit >= 0 /\ o.heads \in Int /\ o.heads >= 1
    BY OfferFacts
  <1>2. price = o.unit * o.heads /\ price \in Int /\ price >= 0
    BY <1>1, Products DEF Offer!Total
  <1>3. raw \in Int /\ (t.percent => 100 * raw <= price * t.value)
    <2>1. CASE t.percent /\ t.each
      <3> DEFINE q == (o.unit * t.value) \div 100
      <3>1. raw = q * o.heads
        BY <2>1 DEF Offer!Raw
      <3>2. o.unit * t.value \in Int
        BY <1>1
      <3>3. q \in Int /\ 100 * q <= o.unit * t.value
        BY <3>2, HundredthRoundsDown
      <3> HIDE DEF q
      <3>4. 100 * (q * o.heads) <= (o.unit * o.heads) * t.value
        BY <1>1, <3>3, SharesAddUp
      <3>5. q * o.heads \in Int
        BY <1>1, <3>3
      <3> QED
        BY <1>2, <3>1, <3>4, <3>5
    <2>2. CASE t.percent /\ ~t.each
      <3>1. raw = (price * t.value) \div 100
        BY <2>2 DEF Offer!Raw
      <3>2. price * t.value \in Int
        BY <1>1, <1>2
      <3> HIDE DEF raw, price
      <3> QED
        BY <3>1, <3>2, HundredthRoundsDown
    <2>3. CASE ~t.percent
      BY <1>1, <2>3 DEF Offer!Raw
    <2> QED
      BY <1>1, <2>1, <2>2, <2>3
  <1>4. capped \in Int /\ capped <= raw /\ (t.cap # Nothing => capped <= t.cap)
    BY <1>1, <1>3 DEF Offer!Capped, Offer!Least
  <1>5. /\ d \in Int /\ 0 <= d /\ d <= price
        /\ d = 0 \/ d <= capped
    BY <1>2, <1>4 DEF Offer!Discount, Offer!Least
  <1>6. t.value >= 0 => price * t.value \in Int /\ 0 <= price * t.value
    BY <1>1, <1>2, Products
  <1> HIDE DEF price, raw, capped, d
  <1>7. t.cap # Nothing => d <= t.cap
    BY <1>1, <1>4, <1>5
  <1>8. t.percent /\ t.value >= 0 => 100 * d <= price * t.value
    BY <1>1, <1>2, <1>3, <1>4, <1>5, <1>6
  <1> QED
    BY <1>5, <1>7, <1>8 DEF price, d

\* The discount of a booking is the one its deal gives, and a request that is still to
\* record its redemption has made its booking; only what was deleted or cut off is lost.
OfferCarried ==
    /\ \A b \in Offer!Made :
        booking[b].discount = Offer!Discount(booking[b].deal, booking[b].order)
    /\ \A p \in Procs :
        /\ saleTask[p].op # "idle" =>
            /\ saleTask[p].order \in Orders /\ saleTask[p].deal \in Terms
            /\ ~saleTask[p].lost => offer # Nothing
        /\ saleTask[p].op = "record" =>
            /\ saleTask[p].bk \in Offer!Made
            /\ booking[saleTask[p].bk].deal = saleTask[p].deal
            /\ booking[saleTask[p].bk].order = saleTask[p].order
            /\ ~saleTask[p].lost => booking[saleTask[p].bk].linked
            /\ saleCalm => ~saleTask[p].lost

OfferInv == Offer!TypeOK /\ Offer!LedgerIsTrue /\ Offer!LedgerIsComplete /\ OfferCarried

LEMMA OfferIdle ==
    /\ Offer!Idle \in Offer!Task
    /\ Offer!Idle = [op |-> "idle", order |-> Nothing, deal |-> Nothing, bk |-> Nothing,
                     lost |-> FALSE]
  BY DEF Offer!Idle, Offer!Task

LEMMA OfferInit == Init => OfferInv
  <1> SUFFICES ASSUME Offer!Init PROVE OfferInv
    BY DEF Init
  <1>1. saleTask \in [Procs -> Offer!Task] /\ \A p \in Procs : saleTask[p].op = "idle"
    BY OfferIdle DEF Offer!Init
  <1>2. Offer!TypeOK
    BY <1>1 DEF Offer!TypeOK, Offer!Init
  <1>3. Offer!Made = {}
    BY DEF Offer!Made, Offer!Init
  <1>4. Offer!LedgerIsTrue /\ Offer!LedgerIsComplete
    BY <1>3 DEF Offer!LedgerIsTrue, Offer!LedgerIsComplete, Offer!Init
  <1>5. OfferCarried
    BY <1>1, <1>3 DEF OfferCarried
  <1> QED
    BY <1>2, <1>4, <1>5 DEF OfferInv

\* The requests as a step leaves them.
LEMMA OfferMoved ==
    ASSUME Offer!TypeOK, NEW p \in Procs, NEW t \in Offer!Task,
           saleTask' = [saleTask EXCEPT ![p] = t]
    PROVE  /\ saleTask' \in [Procs -> Offer!Task]
           /\ saleTask'[p] = t
           /\ \A q \in Procs \ {p} : saleTask'[q] = saleTask[q]
  BY DEF Offer!TypeOK

\* The admin's steps but the deletion, and the passing of time.
LEMMA OfferEdits ==
    ASSUME OfferInv, UNCHANGED <<booking, ledger, saleTask, saleCalm>>,
           offer' \in Terms \union {Nothing}, offered' \in BOOLEAN, assigned' \in SUBSET Pair,
           offer # Nothing => offer' # Nothing
    PROVE  OfferInv'
  <1>1. Offer!TypeOK'
    BY DEF OfferInv, Offer!TypeOK
  <1>2. Offer!Made' = Offer!Made
    BY DEF Offer!Made
  <1>3. Offer!LedgerIsTrue' /\ Offer!LedgerIsComplete'
    BY <1>2 DEF OfferInv, Offer!LedgerIsTrue, Offer!LedgerIsComplete
  <1>4. OfferCarried'
    BY <1>2 DEF OfferInv, OfferCarried
  <1> QED
    BY <1>1, <1>3, <1>4 DEF OfferInv

LEMMA OfferDeletes == ASSUME OfferInv, Offer!DeleteCoupon PROVE OfferInv'
  <1>1. /\ \A b \in Pair : ledger[b] = Nothing
        /\ offer' = Nothing /\ offered' = FALSE /\ assigned' = {}
        /\ booking' = [b \in Pair |-> IF booking[b] = Nothing THEN Nothing
                                      ELSE [booking[b] EXCEPT !.linked = FALSE]]
        /\ saleTask' = [p \in Procs |-> IF saleTask[p].op = "idle" THEN Offer!Idle
                                        ELSE [saleTask[p] EXCEPT !.lost = TRUE]]
        /\ saleCalm' = (saleCalm /\ \A p \in Procs : saleTask[p].op # "record")
        /\ UNCHANGED ledger
    BY DEF Offer!DeleteCoupon
  <1>t. /\ \A p \in Procs : saleTask[p] \in Offer!Task
        /\ \A b \in Pair : booking[b] = Nothing \/ booking[b] \in Offer!Sale
        /\ \A b \in Offer!Made : b \in Pair /\ booking[b] \in Offer!Sale
    BY DEF OfferInv, Offer!TypeOK, Offer!Made
  <1>2. ASSUME NEW p \in Procs
        PROVE  /\ saleTask'[p] \in Offer!Task
               /\ saleTask'[p].op = saleTask[p].op
               /\ saleTask[p].op # "idle" =>
                    /\ saleTask'[p].order = saleTask[p].order
                    /\ saleTask'[p].deal = saleTask[p].deal
                    /\ saleTask'[p].bk = saleTask[p].bk
                    /\ saleTask'[p].lost = TRUE
    BY <1>1, <1>t, OfferIdle DEF Offer!Task
  <1>3. ASSUME NEW b \in Offer!Made
        PROVE  /\ booking'[b] \in Offer!Sale
               /\ booking'[b].order = booking[b].order
               /\ booking'[b].deal = booking[b].deal
               /\ booking'[b].discount = booking[b].discount
    BY <1>1, <1>t DEF Offer!Made, Offer!Sale
  <1>4. \A s \in Offer!Sale : s # Nothing
    BY OfferFacts
  <1>5. Offer!Made' = Offer!Made
    BY <1>1, <1>3, <1>4 DEF Offer!Made
  <1>6. Offer!TypeOK'
    <2>1. booking' \in [Pair -> Offer!Sale \union {Nothing}]
      BY <1>1, <1>t, <1>3 DEF Offer!Made
    <2>2. saleTask' \in [Procs -> Offer!Task]
      BY <1>1, <1>2
    <2> QED
      BY <1>1, <2>1, <2>2 DEF OfferInv, Offer!TypeOK
  <1>7. Offer!LedgerIsTrue'
    BY <1>1 DEF Offer!LedgerIsTrue
  <1>8. Offer!LedgerIsComplete'
    BY <1>1, <1>5 DEF OfferInv, Offer!LedgerIsComplete
  <1>9. OfferCarried'
    <2>1. \A b \in Offer!Made' :
            booking'[b].discount = Offer!Discount(booking'[b].deal, booking'[b].order)
      BY <1>3, <1>5 DEF OfferInv, OfferCarried
    <2>2. ASSUME NEW p \in Procs, saleTask'[p].op # "idle"
          PROVE  /\ saleTask'[p].order \in Orders /\ saleTask'[p].deal \in Terms
                 /\ saleTask'[p].lost
      BY <1>2, <2>2 DEF OfferInv, OfferCarried
    <2>3. ASSUME NEW p \in Procs, saleTask'[p].op = "record"
          PROVE  /\ saleTask'[p].bk \in Offer!Made'
                 /\ booking'[saleTask'[p].bk].deal = saleTask'[p].deal
                 /\ booking'[saleTask'[p].bk].order = saleTask'[p].order
                 /\ ~saleCalm'
      <3>1. saleTask[p].op = "record" /\ saleTask'[p].bk = saleTask[p].bk
            /\ saleTask'[p].deal = saleTask[p].deal /\ saleTask'[p].order = saleTask[p].order
        BY <1>2, <2>3
      <3>2. /\ saleTask[p].bk \in Offer!Made
            /\ booking[saleTask[p].bk].deal = saleTask[p].deal
            /\ booking[saleTask[p].bk].order = saleTask[p].order
        BY <3>1 DEF OfferInv, OfferCarried
      <3>3. ~saleCalm'
        BY <1>1, <3>1
      <3> QED
        BY <1>3, <1>5, <3>1, <3>2, <3>3
    <2>4. OfferCarried' <=>
            /\ \A b \in Offer!Made' :
                booking'[b].discount = Offer!Discount(booking'[b].deal, booking'[b].order)
            /\ \A p \in Procs :
                /\ saleTask'[p].op # "idle" =>
                    /\ saleTask'[p].order \in Orders /\ saleTask'[p].deal \in Terms
                    /\ ~saleTask'[p].lost => offer' # Nothing
                /\ saleTask'[p].op = "record" =>
                    /\ saleTask'[p].bk \in Offer!Made'
                    /\ booking'[saleTask'[p].bk].deal = saleTask'[p].deal
                    /\ booking'[saleTask'[p].bk].order = saleTask'[p].order
                    /\ ~saleTask'[p].lost => booking'[saleTask'[p].bk].linked
                    /\ saleCalm' => ~saleTask'[p].lost
      BY DEF OfferCarried, Offer!Discount, Offer!Capped, Offer!Raw, Offer!Total, Offer!Least
    <2> QED
      BY <2>1, <2>2, <2>3, <2>4
  <1> QED
    BY <1>6, <1>7, <1>8, <1>9 DEF OfferInv

LEMMA OfferNext == ASSUME OfferInv, Offer!Next PROVE OfferInv'
  <1>t. Offer!TypeOK /\ OfferCarried /\ Offer!LedgerIsTrue /\ Offer!LedgerIsComplete
    BY DEF OfferInv
  <1>1. CASE Offer!AdminStep
    <2>1. ASSUME NEW t \in Terms, Offer!CreateCoupon(t) \/ Offer!UpdateCoupon(t)
          PROVE  OfferInv'
      BY <1>t, <2>1, OfferEdits, OfferFacts DEF Offer!CreateCoupon, Offer!UpdateCoupon, Offer!TypeOK
    <2>2. CASE Offer!DatePasses
      BY <1>t, <2>2, OfferEdits DEF Offer!DatePasses, Offer!TypeOK
    <2>3. ASSUME NEW u \in Pair, Offer!AssignToUsers(u) \/ Offer!RevokeFromUser(u)
          PROVE  OfferInv'
      BY <1>t, <2>3, OfferEdits DEF Offer!AssignToUsers, Offer!RevokeFromUser, Offer!TypeOK
    <2> QED
      BY <1>1, <2>1, <2>2, <2>3, OfferDeletes DEF Offer!AdminStep
  <1>2. ASSUME NEW p \in Procs, NEW u \in Pair, NEW o \in Orders, Offer!Validate(p, u, o)
        PROVE  OfferInv'
    <2> DEFINE t == [op |-> "create", order |-> o, deal |-> offer, bk |-> Nothing, lost |-> FALSE]
    <2>1. /\ saleTask[p].op = "idle" /\ offer # Nothing
          /\ saleTask' = [saleTask EXCEPT ![p] = t]
          /\ UNCHANGED <<offer, offered, assigned, booking, ledger, saleCalm>>
      BY <1>2 DEF Offer!Validate
    <2>2. offer \in Terms
      BY <2>1, <1>t DEF Offer!TypeOK
    <2>3. /\ t \in Offer!Task /\ t.op = "create" /\ t.order \in Orders /\ t.deal \in Terms
      BY <2>2 DEF Offer!Task
    <2> HIDE DEF t
    <2>4. /\ saleTask' \in [Procs -> Offer!Task] /\ saleTask'[p] = t
          /\ \A q \in Procs \ {p} : saleTask'[q] = saleTask[q]
      BY <1>t, <2>1, <2>3, OfferMoved
    <2>5. Offer!TypeOK' /\ Offer!Made' = Offer!Made
      BY <1>t, <2>1, <2>4 DEF Offer!TypeOK, Offer!Made
    <2>6. Offer!LedgerIsTrue'
      BY <1>t, <2>1, <2>5 DEF Offer!LedgerIsTrue
    <2>7. Offer!LedgerIsComplete'
      BY <1>t, <2>1, <2>4, <2>5 DEF Offer!LedgerIsComplete
    <2>8. OfferCarried'
      BY <1>t, <2>1, <2>3, <2>4, <2>5 DEF OfferCarried
    <2> QED
      BY <2>5, <2>6, <2>7, <2>8 DEF OfferInv
  <1>3. ASSUME NEW p \in Procs, NEW b \in Pair, Offer!CreateBooking(p, b) PROVE OfferInv'
    <2> DEFINE o == saleTask[p].order
               deal == saleTask[p].deal
               s == [order |-> o, deal |-> deal, discount |-> Offer!Discount(deal, o),
                     linked |-> TRUE]
               t == [saleTask[p] EXCEPT !.op = "record", !.bk = b]
    <2>1. /\ saleTask[p].op = "create" /\ ~saleTask[p].lost /\ booking[b] = Nothing
          /\ booking' = [booking EXCEPT ![b] = s]
          /\ saleTask' = [saleTask EXCEPT ![p] = t]
          /\ UNCHANGED <<offer, offered, assigned, ledger, saleCalm>>
      BY <1>3 DEF Offer!CreateBooking
    <2>2. o \in Orders /\ deal \in Terms /\ offer # Nothing
      BY <1>t, <2>1 DEF OfferCarried
    <2>3. Offer!Discount(deal, o) \in Int
      BY <2>2, DiscountBounds
    <2>4. /\ s \in Offer!Sale /\ s.order = o /\ s.deal = deal /\ s.linked
          /\ s.discount = Offer!Discount(deal, o)
      BY <2>2, <2>3 DEF Offer!Sale
    <2>5. s # Nothing
      BY <2>4, OfferFacts
    <2>6. saleTask[p] \in Offer!Task
      BY <1>t DEF Offer!TypeOK
    <2>7. /\ t \in Offer!Task /\ t.op = "record" /\ t.bk = b /\ t.order = o /\ t.deal = deal
          /\ t.lost = saleTask[p].lost
      BY <2>6 DEF Offer!Task
    <2> HIDE DEF s, t, o, deal
    <2>8. /\ saleTask' \in [Procs -> Offer!Task] /\ saleTask'[p] = t
          /\ \A q \in Procs \ {p} : saleTask'[q] = saleTask[q]
      BY <1>t, <2>1, <2>7, OfferMoved
    <2>9. /\ booking' \in [Pair -> Offer!Sale \union {Nothing}]
          /\ booking'[b] = s /\ \A c \in Pair \ {b} : booking'[c] = booking[c]
      BY <1>t, <2>1, <2>4 DEF Offer!TypeOK
    <2>10. Offer!Made' = Offer!Made \union {b} /\ b \notin Offer!Made /\ Offer!Made \subseteq Pair
      BY <2>1, <2>5, <2>9 DEF Offer!Made
    <2>11. Offer!TypeOK'
      BY <1>t, <2>1, <2>8, <2>9 DEF Offer!TypeOK
    <2>12. Offer!LedgerIsTrue'
      BY <1>t, <2>1, <2>9, <2>10 DEF Offer!LedgerIsTrue
    <2>13. Offer!LedgerIsComplete'
      BY <1>t, <2>1, <2>7, <2>8, <2>10 DEF Offer!LedgerIsComplete
    <2>14. OfferCarried'
      <3>1. \A c \in Offer!Made' :
              booking'[c].discount = Offer!Discount(booking'[c].deal, booking'[c].order)
        BY <1>t, <2>4, <2>9, <2>10 DEF OfferCarried
      <3>2. ASSUME NEW q \in Procs
            PROVE  /\ saleTask'[q].op # "idle" =>
                        /\ saleTask'[q].order \in Orders /\ saleTask'[q].deal \in Terms
                        /\ ~saleTask'[q].lost => offer' # Nothing
                   /\ saleTask'[q].op = "record" =>
                        /\ saleTask'[q].bk \in Offer!Made'
                        /\ booking'[saleTask'[q].bk].deal = saleTask'[q].deal
                        /\ booking'[saleTask'[q].bk].order = saleTask'[q].order
                        /\ ~saleTask'[q].lost => booking'[saleTask'[q].bk].linked
                        /\ saleCalm' => ~saleTask'[q].lost
        <4>1. CASE q = p
          BY <2>1, <2>2, <2>4, <2>7, <2>8, <2>9, <2>10, <4>1
        <4>2. CASE q # p
          BY <1>t, <2>1, <2>8, <2>9, <2>10, <4>2 DEF OfferCarried
        <4> QED
          BY <4>1, <4>2
      <3> QED
        BY <3>1, <3>2 DEF OfferCarried, Offer!Discount, Offer!Capped, Offer!Raw, Offer!Total,
                          Offer!Least
    <2> QED
      BY <2>11, <2>12, <2>13, <2>14 DEF OfferInv
  <1>4. ASSUME NEW p \in Procs, Offer!RecordUsage(p) PROVE OfferInv'
    <2> DEFINE b == saleTask[p].bk
               d == Offer!Discount(saleTask[p].deal, saleTask[p].order)
    <2>1. /\ saleTask[p].op = "record"
          /\ ledger' = IF saleTask[p].lost THEN ledger ELSE [ledger EXCEPT ![b] = d]
          /\ saleTask' = [saleTask EXCEPT ![p] = Offer!Idle]
          /\ UNCHANGED <<offer, offered, assigned, booking, saleCalm>>
      BY <1>4 DEF Offer!RecordUsage
    <2>2. /\ b \in Offer!Made /\ b \in Pair /\ booking[b].discount = d /\ d \in Int
          /\ ~saleTask[p].lost => booking[b].linked /\ offer # Nothing
          /\ saleCalm => ~saleTask[p].lost
      BY <1>t, <2>1, DiscountBounds DEF OfferCarried, Offer!Made
    <2> HIDE DEF b, d
    <2>3. /\ saleTask' \in [Procs -> Offer!Task] /\ saleTask'[p].op = "idle"
          /\ \A q \in Procs \ {p} : saleTask'[q] = saleTask[q]
      BY <1>t, <2>1, OfferIdle, OfferMoved
    <2>4. /\ ledger' \in [Pair -> Int \union {Nothing}]
          /\ \A c \in Pair \ {b} : ledger'[c] = ledger[c]
          /\ ledger'[b] = IF saleTask[p].lost THEN ledger[b] ELSE d
      BY <1>t, <2>1, <2>2 DEF Offer!TypeOK
    <2>5. Offer!TypeOK' /\ Offer!Made' = Offer!Made
      BY <1>t, <2>1, <2>3, <2>4 DEF Offer!TypeOK, Offer!Made
    <2>6. Offer!LedgerIsTrue'
      BY <1>t, <2>1, <2>2, <2>4, <2>5 DEF Offer!LedgerIsTrue
    <2>7. ASSUME saleCalm', NEW c \in Offer!Made
          PROVE  ledger'[c] # Nothing \/ \E q \in Procs : saleTask'[q].op = "record" /\ saleTask'[q].bk = c
      <3>1. CASE c = b
        BY <2>1, <2>2, <2>4, <2>7, <3>1, OfferFacts
      <3>2. CASE c # b
        <4>1. c \in Pair /\ ledger'[c] = ledger[c]
          BY <2>4, <3>2 DEF Offer!Made
        <4>2. \/ ledger[c] # Nothing
              \/ \E q \in Procs : saleTask[q].op = "record" /\ saleTask[q].bk = c
          BY <1>t, <2>1, <2>7 DEF Offer!LedgerIsComplete
        <4> QED
          BY <2>3, <3>2, <4>1, <4>2 DEF b
      <3> QED
        BY <3>1, <3>2
    <2>8. Offer!LedgerIsComplete'
      BY <2>5, <2>7 DEF Offer!LedgerIsComplete
    <2>9. OfferCarried'
      BY <1>t, <2>1, <2>3, <2>5 DEF OfferCarried
    <2> QED
      BY <2>5, <2>6, <2>8, <2>9 DEF OfferInv
  <1>5. ASSUME NEW p \in Procs, Offer!Abort(p) PROVE OfferInv'
    <2>1. /\ saleTask' = [saleTask EXCEPT ![p] = Offer!Idle]
          /\ saleCalm' = (saleCalm /\ saleTask[p].op # "record")
          /\ UNCHANGED <<offer, offered, assigned, booking, ledger>>
      BY <1>5 DEF Offer!Abort
    <2>2. /\ saleTask' \in [Procs -> Offer!Task] /\ saleTask'[p].op = "idle"
          /\ \A q \in Procs \ {p} : saleTask'[q] = saleTask[q]
      BY <1>t, <2>1, OfferIdle, OfferMoved
    <2>3. Offer!TypeOK' /\ Offer!Made' = Offer!Made
      BY <1>t, <2>1, <2>2 DEF Offer!TypeOK, Offer!Made
    <2>4. Offer!LedgerIsTrue'
      BY <1>t, <2>1, <2>3 DEF Offer!LedgerIsTrue
    <2>5. Offer!LedgerIsComplete'
      BY <1>t, <2>1, <2>2, <2>3 DEF Offer!LedgerIsComplete
    <2>6. OfferCarried'
      BY <1>t, <2>1, <2>2, <2>3 DEF OfferCarried
    <2> QED
      BY <2>3, <2>4, <2>5, <2>6 DEF OfferInv
  <1> QED
    BY <1>1, <1>2, <1>3, <1>4, <1>5 DEF Offer!Next, Offer!RequestStep

LEMMA OfferStays == ASSUME OfferInv, UNCHANGED offerVars PROVE OfferInv'
  <1> USE DEF offerVars
  <1>1. saleCalm' = saleCalm
    OBVIOUS
  <1>2. Offer!Made' = Offer!Made
    BY DEF Offer!Made
  <1>3. Offer!TypeOK' /\ Offer!LedgerIsTrue' /\ Offer!LedgerIsComplete'
    BY <1>2 DEF OfferInv, Offer!TypeOK, Offer!LedgerIsTrue, Offer!LedgerIsComplete
  <1>4. OfferCarried'
    BY <1>2 DEF OfferInv, OfferCarried
  <1> QED
    BY <1>3, <1>4 DEF OfferInv

\* Whatever an admin enters, changes or deletes while bookings are made with a coupon: a
\* discount stays within the price and the terms that were promised, and the ledger says
\* what was given, and misses nothing unless a recording was cut off.
THEOREM DiscountsAreSound == Spec => []DiscountSound
  <1>1. OfferInv /\ [Next]_vars => OfferInv'
    BY OwnSteps, OfferNext, OfferStays
  <1>2. ASSUME OfferInv PROVE Offer!DiscountWithinTerms
    <2>1. ASSUME NEW b \in Offer!Made
          PROVE  /\ booking[b].deal \in Terms /\ booking[b].order \in Orders
                 /\ booking[b].discount = Offer!Discount(booking[b].deal, booking[b].order)
      BY <1>2 DEF OfferInv, Offer!TypeOK, Offer!Made, OfferCarried, Offer!Sale
    <2> QED
      BY <2>1, DiscountBounds DEF Offer!DiscountWithinTerms
  <1>3. OfferInv => DiscountSound
    BY <1>2 DEF OfferInv, DiscountSound
  <1> QED
    BY <1>1, <1>3, OfferInit, PTL DEF Spec

-----------------------------------------------------------------------------
(* Itineraries *)

\* A point is linked to a day that exists, and what is put in order is a list.
DayCarried ==
    \A p \in Procs :
        /\ dayTask[p].op = "link" => day /\ dayTask[p].poi \in Pair
        /\ dayTask[p].op = "reorder" => dayTask[p].plan \in Day!Plans

DayInv == Day!TypeOK /\ Day!PlacesDiffer /\ Day!ShownExist /\ DayCarried

LEMMA DayFacts ==
    /\ MaxPlace \in Nat /\ 0 \in Day!Places
    /\ Nothing \notin Pair /\ Nothing \notin Things
  BY DeskAssumption DEF Day!ItinerariesAssumption, Day!Places

LEMMA DayIdle ==
    /\ Day!Idle \in Day!Task
    /\ Day!Idle = [op |-> "idle", poi |-> Nothing, place |-> 0, plan |-> <<>>, row |-> Nothing]
  BY DayFacts DEF Day!Idle, Day!Task

LEMMA DayInit == Init => DayInv
  <1> SUFFICES ASSUME Day!Init PROVE DayInv
    BY DEF Init
  <1>1. /\ dayTask \in [Procs -> Day!Task]
        /\ \A p \in Procs : dayTask[p] = Day!Idle
    BY DayIdle DEF Day!Init
  <1>2. Day!TypeOK
    BY <1>1, DayFacts DEF Day!TypeOK, Day!Init
  <1>3. Day!PlacesDiffer /\ Day!ShownExist
    BY DEF Day!PlacesDiffer, Day!ShownExist, Day!Shown, Day!Init
  <1>4. DayCarried
    <2>1. ASSUME NEW p \in Procs
          PROVE  dayTask[p].op # "link" /\ dayTask[p].op # "reorder"
      BY <1>1 DEF Day!Idle
    <2> QED
      BY Zenon, <2>1 DEF DayCarried
  <1> QED
    BY <1>2, <1>3, <1>4 DEF DayInv

\* The requests as a step leaves them.
LEMMA DayMoved ==
    ASSUME Day!TypeOK, NEW p \in Procs, NEW t \in Day!Task,
           dayTask' = [dayTask EXCEPT ![p] = t]
    PROVE  /\ dayTask' \in [Procs -> Day!Task]
           /\ dayTask'[p] = t
           /\ \A q \in Procs \ {p} : dayTask'[q] = dayTask[q]
  BY DEF Day!TypeOK

\* Taking rows away puts no two points together.
LEMMA DayWithout ==
    ASSUME Day!TypeOK, Day!PlacesDiffer, NEW R, Day!Without(R),
           arranged' = arranged \/ Day!Shown' = {}
    PROVE  /\ poi' \in [Things -> Pair \union {Nothing}]
           /\ place' \in [Things -> Day!Places]
           /\ Day!Shown' = Day!Shown \ R
           /\ \A r \in Day!Shown' : poi'[r] = poi[r]
           /\ Day!PlacesDiffer'
  <1>1. /\ poi' = [r \in Things |-> IF r \in R THEN Nothing ELSE poi[r]]
        /\ place' = [r \in Things |-> IF r \in R THEN 0 ELSE place[r]]
    BY DEF Day!Without
  <1>2. poi' \in [Things -> Pair \union {Nothing}] /\ place' \in [Things -> Day!Places]
    BY <1>1, DayFacts DEF Day!TypeOK
  <1>3. /\ Day!Shown' = Day!Shown \ R
        /\ \A r \in Day!Shown' : r \in Things /\ poi'[r] = poi[r] /\ place'[r] = place[r]
    BY <1>1 DEF Day!Shown
  <1>4. Day!PlacesDiffer'
    BY <1>3 DEF Day!PlacesDiffer
  <1> QED
    BY <1>2, <1>3, <1>4

\* A step that moves a request, and nothing that is shown.
LEMMA DayAsks ==
    ASSUME DayInv, NEW p \in Procs, NEW t \in Day!Task,
           dayTask' = [dayTask EXCEPT ![p] = t],
           UNCHANGED <<day, points, poi, place, arranged>>,
           t.op = "link" => day /\ t.poi \in Pair,
           t.op = "reorder" => t.plan \in Day!Plans
    PROVE  DayInv'
  <1>1. Day!TypeOK'
    BY DayMoved DEF DayInv, Day!TypeOK
  <1>2. Day!PlacesDiffer' /\ Day!ShownExist'
    BY DEF DayInv, Day!PlacesDiffer, Day!ShownExist, Day!Shown
  <1>3. DayCarried'
    BY DayMoved DEF DayInv, DayCarried
  <1> QED
    BY <1>1, <1>2, <1>3 DEF DayInv

\* Rows go with the day or the point they refer to, or when they are removed; a request
\* that is about to delete one of them finds nothing.
LEMMA DayDrops ==
    ASSUME DayInv, NEW R, Day!Without(R), arranged' = arranged \/ Day!Shown' = {},
           arranged' \in BOOLEAN, day' \in BOOLEAN, points' \in SUBSET Pair,
           dayTask' \in [Procs -> Day!Task],
           \A r \in Day!Shown \ R : day' /\ poi[r] \in points',
           \A p \in Procs : \/ dayTask'[p].op \in {"idle", "lost"}
                            \/ dayTask'[p] = dayTask[p] /\ day' = day
    PROVE  DayInv'
  <1>1. /\ poi' \in [Things -> Pair \union {Nothing}]
        /\ place' \in [Things -> Day!Places]
        /\ Day!Shown' = Day!Shown \ R
        /\ \A r \in Day!Shown' : poi'[r] = poi[r]
        /\ Day!PlacesDiffer'
    BY DayWithout DEF DayInv
  <1>2. Day!TypeOK'
    BY <1>1 DEF Day!TypeOK
  <1>3. Day!ShownExist'
    BY <1>1 DEF Day!ShownExist
  <1>4. DayCarried'
    BY DEF DayInv, DayCarried
  <1> QED
    BY <1>1, <1>2, <1>3, <1>4 DEF DayInv

LEMMA DayLinks ==
    ASSUME DayInv, NEW p \in Procs, NEW r \in Things, Day!LinkWrite(p, r)
    PROVE  DayInv'
  <1> DEFINE x == dayTask[p].poi
             n == dayTask[p].place
  <1>1. /\ x \in points /\ Day!Free(x, n) /\ r \notin Day!Shown
        /\ poi' = [poi EXCEPT ![r] = x] /\ place' = [place EXCEPT ![r] = n]
        /\ dayTask' = [dayTask EXCEPT ![p] = Day!Idle]
        /\ arranged' = FALSE /\ UNCHANGED <<day, points>>
    BY DEF Day!LinkWrite, Day!End
  <1>2. day /\ x \in Pair /\ n \in Day!Places /\ x # Nothing
    BY DayFacts DEF Day!LinkWrite, DayInv, DayCarried, Day!TypeOK, Day!Task
  <1> HIDE DEF x, n
  <1>3. /\ dayTask' \in [Procs -> Day!Task]
        /\ \A q \in Procs : dayTask'[q] = dayTask[q] \/ dayTask'[q].op = "idle"
    BY <1>1, DayIdle, DayMoved DEF DayInv
  <1>4. /\ poi' \in [Things -> Pair \union {Nothing}] /\ place' \in [Things -> Day!Places]
        /\ poi'[r] = x /\ place'[r] = n
        /\ \A s \in Things \ {r} : poi'[s] = poi[s] /\ place'[s] = place[s]
    BY <1>1, <1>2 DEF DayInv, Day!TypeOK
  <1>5. Day!Shown' = Day!Shown \union {r}
    BY <1>2, <1>4 DEF Day!Shown
  <1>6. Day!TypeOK'
    BY <1>1, <1>3, <1>4 DEF DayInv, Day!TypeOK
  <1>7. Day!PlacesDiffer'
    <2>1. \A s \in Day!Shown : s \in Things \ {r} /\ ~(poi'[s] = x /\ place'[s] = n)
      BY <1>1, <1>4 DEF Day!Free, Day!Shown
    <2>2. \A s, u \in Day!Shown : s # u /\ place'[s] = place'[u] => poi'[s] # poi'[u]
      BY <1>4, <2>1 DEF DayInv, Day!PlacesDiffer
    <2> QED
      BY <1>1, <1>4, <1>5, <2>1, <2>2 DEF Day!PlacesDiffer
  <1>8. Day!ShownExist'
    <2>1. \A s \in Day!Shown : s \in Things \ {r}
      BY <1>1 DEF Day!Shown
    <2> QED
      BY <1>1, <1>2, <1>4, <1>5, <2>1 DEF DayInv, Day!ShownExist
  <1>9. DayCarried'
    BY <1>1, <1>3 DEF DayInv, DayCarried
  <1> QED
    BY <1>6, <1>7, <1>8, <1>9 DEF DayInv

LEMMA DayReorders ==
    ASSUME DayInv, NEW p \in Procs, Day!ReorderWrite(p)
    PROVE  DayInv'
  <1> DEFINE f == dayTask[p].plan
  <1>1. /\ Day!Applies(f)
        /\ place' = [r \in Things |-> IF r \in Day!Shown /\ poi[r] \in DOMAIN f
                                      THEN f[poi[r]] ELSE place[r]]
        /\ dayTask' = [dayTask EXCEPT ![p] = Day!Idle]
        /\ arranged' = (\A r \in Day!Shown : poi[r] \in DOMAIN f)
        /\ UNCHANGED <<day, points, poi>>
    BY DEF Day!ReorderWrite, Day!End
  <1>2. /\ \A x \in DOMAIN f : f[x] \in Day!Places
        /\ \A x, y \in DOMAIN f : f[x] = f[y] => x = y
    <2>1. f \in Day!Plans
      BY DEF Day!ReorderWrite, DayInv, DayCarried
    <2>2. PICK D \in SUBSET Pair : f \in Day!Injection(D, Day!Places)
      BY <2>1 DEF Day!Plans
    <2> QED
      BY <2>2 DEF Day!Injection, Day!IsInjective
  <1> HIDE DEF f
  <1>3. /\ dayTask' \in [Procs -> Day!Task]
        /\ \A q \in Procs : dayTask'[q] = dayTask[q] \/ dayTask'[q].op = "idle"
    BY <1>1, DayIdle, DayMoved DEF DayInv
  <1>4. Day!Shown' = Day!Shown /\ Day!Shown \subseteq Things
    BY <1>1 DEF Day!Shown
  <1>5. Day!TypeOK'
    BY <1>1, <1>2, <1>3 DEF DayInv, Day!TypeOK
  <1>6. ASSUME NEW r \in Day!Shown, NEW s \in Day!Shown, r # s, place'[r] = place'[s]
        PROVE  poi[r] # poi[s] /\ ~arranged'
    <2>1. CASE poi[r] \in DOMAIN f /\ poi[s] \in DOMAIN f
      <3>1. poi[r] # poi[s]
        BY <1>1, <1>6, <2>1 DEF Day!Applies
      <3>2. f[poi[r]] = f[poi[s]]
        BY <1>1, <1>4, <1>6, <2>1
      <3> QED
        BY <1>2, <2>1, <3>1, <3>2
    <2>2. CASE poi[r] \notin DOMAIN f /\ poi[s] \notin DOMAIN f
      <3>1. place[r] = place[s]
        BY <1>1, <1>4, <1>6, <2>2
      <3> QED
        BY <1>1, <1>6, <2>2, <3>1 DEF DayInv, Day!PlacesDiffer
    <2>3. CASE poi[r] \in DOMAIN f <=> poi[s] \notin DOMAIN f
      BY <1>1, <1>6, <2>3
    <2> QED
      BY <2>1, <2>2, <2>3
  <1>7. Day!PlacesDiffer'
    BY <1>1, <1>4, <1>6 DEF Day!PlacesDiffer
  <1>8. Day!ShownExist'
    BY <1>1, <1>4 DEF DayInv, Day!ShownExist
  <1>9. DayCarried'
    BY <1>1, <1>3 DEF DayInv, DayCarried
  <1> QED
    BY <1>5, <1>7, <1>8, <1>9 DEF DayInv

LEMMA DayNext == ASSUME DayInv, Day!Next PROVE DayInv'
  <1>t. Day!TypeOK /\ Day!ShownExist
    BY DEF DayInv
  <1>k. \A t \in Day!Task : t.op \in {"idle", "link", "reorder", "remove", "lost"}
    BY DEF Day!Task
  <1>l. [Day!Idle EXCEPT !.op = "lost"] \in Day!Task /\ [Day!Idle EXCEPT !.op = "lost"].op = "lost"
    BY DayIdle DEF Day!Task
  <1>1. CASE Day!AddDay
    <2>1. ~day /\ day' = TRUE /\ UNCHANGED <<points, poi, place, dayTask, arranged>>
      BY <1>1 DEF Day!AddDay
    <2>2. Day!TypeOK' /\ Day!PlacesDiffer' /\ Day!ShownExist'
      BY <2>1 DEF DayInv, Day!TypeOK, Day!PlacesDiffer, Day!ShownExist, Day!Shown
    <2>3. DayCarried'
      BY <2>1 DEF DayInv, DayCarried
    <2> QED
      BY <2>2, <2>3 DEF DayInv
  <1>2. CASE Day!DeleteDay
    <2>1. /\ Day!Without(Things) /\ day' = FALSE /\ arranged' = TRUE /\ UNCHANGED points
          /\ dayTask' = [p \in Procs |-> IF dayTask[p].op = "idle" THEN Day!Idle
                                         ELSE [Day!Idle EXCEPT !.op = "lost"]]
      BY <1>2 DEF Day!DeleteDay
    <2>2. /\ dayTask' \in [Procs -> Day!Task]
          /\ \A p \in Procs : dayTask'[p].op \in {"idle", "lost"}
      BY <2>1, <1>l, DayIdle
    <2>3. Day!Shown' = {} /\ Day!Shown \ Things = {}
      BY <2>1 DEF Day!Without, Day!Shown
    <2>4. points' \in SUBSET Pair
      BY <2>1, <1>t DEF Day!TypeOK
    <2> QED
      BY <2>1, <2>2, <2>3, <2>4, DayDrops
  <1>3. ASSUME NEW x \in Pair, Day!DeletePoint(x) PROVE DayInv'
    <2> DEFINE R == {r \in Things : poi[r] = x}
    <2>1. /\ Day!Without(R) /\ points' = points \ {x} /\ UNCHANGED <<day, arranged>>
          /\ dayTask' = [p \in Procs |->
                IF dayTask[p].op = "remove" /\ dayTask[p].row \in R
                THEN [Day!Idle EXCEPT !.op = "lost"] ELSE dayTask[p]]
      BY <1>3 DEF Day!DeletePoint, Day!Losing
    <2>2. /\ dayTask' \in [Procs -> Day!Task]
          /\ \A p \in Procs : dayTask'[p] = dayTask[p] \/ dayTask'[p].op = "lost"
      BY <2>1, <1>l, <1>t DEF Day!TypeOK
    <2>3. \A r \in Day!Shown \ R : day' /\ poi[r] \in points'
      BY <2>1, <1>t DEF Day!ShownExist, Day!Shown
    <2>4. points' \in SUBSET Pair /\ arranged' \in BOOLEAN /\ day' \in BOOLEAN
      BY <2>1, <1>t DEF Day!TypeOK
    <2> HIDE DEF R
    <2> QED
      BY <2>1, <2>2, <2>3, <2>4, DayDrops
  <1>4. ASSUME NEW p \in Procs, NEW x \in Pair, NEW n \in Day!Places, Day!LinkRead(p, x, n)
        PROVE  DayInv'
    <2> DEFINE t == [Day!Idle EXCEPT !.op = "link", !.poi = x, !.place = n]
    <2>1. t \in Day!Task /\ t.op = "link" /\ t.poi = x
      BY DayIdle DEF Day!Task
    <2>2. /\ dayTask' = [dayTask EXCEPT ![p] = t] /\ day
          /\ UNCHANGED <<day, points, poi, place, arranged>>
      BY <1>4 DEF Day!LinkRead, Day!Begin
    <2> QED
      BY <2>1, <2>2, DayAsks
  <1>5. ASSUME NEW p \in Procs, NEW f \in Day!Plans, Day!ReorderRead(p, f) PROVE DayInv'
    <2> DEFINE t == [Day!Idle EXCEPT !.op = "reorder", !.plan = f]
    <2>1. t \in Day!Task /\ t.op = "reorder" /\ t.plan = f
      BY DayIdle DEF Day!Task
    <2>2. /\ dayTask' = [dayTask EXCEPT ![p] = t]
          /\ UNCHANGED <<day, points, poi, place, arranged>>
      BY <1>5 DEF Day!ReorderRead, Day!Begin
    <2> QED
      BY <2>1, <2>2, DayAsks
  <1>6. ASSUME NEW p \in Procs, NEW r \in Things, Day!RemoveRead(p, r) PROVE DayInv'
    <2> DEFINE t == [Day!Idle EXCEPT !.op = "remove", !.row = r]
    <2>1. t \in Day!Task /\ t.op = "remove"
      BY DayIdle DEF Day!Task
    <2>2. /\ dayTask' = [dayTask EXCEPT ![p] = t]
          /\ UNCHANGED <<day, points, poi, place, arranged>>
      BY <1>6 DEF Day!RemoveRead, Day!Begin
    <2> QED
      BY <2>1, <2>2, DayAsks
  <1>7. ASSUME NEW p \in Procs, Day!RemoveWrite(p) PROVE DayInv'
    <2> DEFINE R == {dayTask[p].row}
    <2>1. /\ Day!Without(R) /\ UNCHANGED <<day, points, arranged>>
          /\ dayTask' = [q \in Procs |->
                IF q = p THEN Day!Idle
                ELSE IF dayTask[q].op = "remove" /\ dayTask[q].row = dayTask[p].row
                     THEN [Day!Idle EXCEPT !.op = "lost"] ELSE dayTask[q]]
      BY <1>7 DEF Day!RemoveWrite
    <2>2. /\ dayTask' \in [Procs -> Day!Task]
          /\ \A q \in Procs : dayTask'[q] = dayTask[q] \/ dayTask'[q].op \in {"idle", "lost"}
      BY <2>1, <1>l, <1>t, DayIdle DEF Day!TypeOK
    <2>3. \A r \in Day!Shown \ R : day' /\ poi[r] \in points'
      BY <2>1, <1>t DEF Day!ShownExist
    <2>4. points' \in SUBSET Pair /\ arranged' \in BOOLEAN /\ day' \in BOOLEAN
      BY <2>1, <1>t DEF Day!TypeOK
    <2> HIDE DEF R
    <2> QED
      BY <2>1, <2>2, <2>3, <2>4, DayDrops
  <1>8. ASSUME NEW p \in Procs, Day!Abort(p) PROVE DayInv'
    BY <1>8, DayIdle, DayAsks DEF Day!Abort, Day!End
  <1> QED
    BY <1>1, <1>2, <1>3, <1>4, <1>5, <1>6, <1>7, <1>8, DayLinks, DayReorders
    DEF Day!Next, Day!RequestStep

LEMMA DayStays == ASSUME DayInv, UNCHANGED dayVars PROVE DayInv'
  BY DEF dayVars, DayInv, Day!TypeOK, Day!PlacesDiffer, Day!ShownExist, Day!Shown, DayCarried

\* However links, removals, deletions and stale reorderings interleave, what is shown
\* exists, no point is shown twice in one place, and a day put in order as a whole keeps
\* its points apart.
THEOREM OrderIsKept == Spec => []OrderKept
  <1>1. DayInv /\ [Next]_vars => DayInv'
    BY OwnSteps, DayNext, DayStays
  <1>2. DayInv => OrderKept
    BY DEF DayInv, OrderKept
  <1> QED
    BY <1>1, <1>2, DayInit, PTL DEF Spec

-----------------------------------------------------------------------------
(* Waiting lists *)

\* What a run carries: an entry whose row it has read is there unless it is among the
\* gone, and in production the entry it is about to mark has its mail.
WaitCarried ==
    \A p \in Procs :
        /\ runTask[p].mailed # Nothing => runTask[p].mailed \in runTask[p].left
        /\ \A a \in runTask[p].left \ runTask[p].gone :
            /\ entry[a] # "NONE"
            /\ production /\ runTask[p].mailed = a => mails[a] > 0

\* While runs keep apart, there is one at a time, what it has still to handle is waiting,
\* and a mail is out for those notified and for the one the run is about to mark.
WaitApart ==
    /\ \A p, q \in Procs : Wait!Running(p) /\ Wait!Running(q) => p = q
    /\ \A p \in Procs :
        /\ runTask[p].gone = {}
        /\ \A a \in runTask[p].left : entry[a] = "WAITING"
    /\ \A a \in Pair :
        /\ mails[a] <= 1
        /\ mails[a] > 0 => entry[a] = "NOTIFIED" \/ \E p \in Procs : runTask[p].mailed = a

WaitInv ==
    /\ Wait!TypeOK /\ Wait!NotifiedIsMailed /\ WaitCarried
    /\ runCalm => WaitApart

LEMMA WaitIdle ==
    /\ Wait!Idle \in Wait!Task
    /\ Wait!Idle = [left |-> {}, mailed |-> Nothing, gone |-> {}]
  BY DEF Wait!Idle, Wait!Task

LEMMA WaitFacts ==
    /\ MaxMails \in Nat /\ MaxMails > 1
    /\ Nothing \notin Pair
  BY DeskAssumption DEF Wait!WaitlistAssumption

LEMMA WaitInit == Init => WaitInv
  <1> SUFFICES ASSUME Wait!Init PROVE WaitInv
    BY DEF Init
  <1>1. /\ runTask \in [Procs -> Wait!Task]
        /\ \A p \in Procs : runTask[p] = [left |-> {}, mailed |-> Nothing, gone |-> {}]
    BY WaitIdle DEF Wait!Init
  <1>2. Wait!TypeOK
    BY <1>1, WaitFacts DEF Wait!TypeOK, Wait!Init
  <1>3. Wait!NotifiedIsMailed /\ WaitCarried
    BY <1>1 DEF Wait!NotifiedIsMailed, WaitCarried, Wait!Init
  <1>4. WaitApart
    BY <1>1 DEF WaitApart, Wait!Running, Wait!Init
  <1> QED
    BY <1>2, <1>3, <1>4 DEF WaitInv

\* The runs as a step leaves them.
LEMMA WaitMoved ==
    ASSUME Wait!TypeOK, NEW p \in Procs, NEW t \in Wait!Task,
           runTask' = [runTask EXCEPT ![p] = t]
    PROVE  /\ runTask' \in [Procs -> Wait!Task]
           /\ runTask'[p] = t
           /\ \A q \in Procs \ {p} : runTask'[q] = runTask[q]
  BY DEF Wait!TypeOK

\* A run as it is when it is done with an entry.
LEMMA WaitDone ==
    ASSUME Wait!TypeOK, NEW p \in Procs, NEW a \in runTask[p].left
    PROVE  /\ Wait!Done(p, a) \in Wait!Task
           /\ Wait!Done(p, a).mailed = Nothing
           /\ Wait!Done(p, a).left = runTask[p].left \ {a}
           /\ Wait!Done(p, a).left \ Wait!Done(p, a).gone
                \subseteq (runTask[p].left \ runTask[p].gone) \ {a}
           /\ runTask[p].gone = {} => Wait!Done(p, a).gone = {}
  <1>1. runTask[p] \in Wait!Task
    BY DEF Wait!TypeOK
  <1>2. CASE runTask[p].left = {a}
    BY <1>1, <1>2, WaitIdle DEF Wait!Done
  <1>3. CASE runTask[p].left # {a}
    BY <1>1, <1>3 DEF Wait!Done, Wait!Task
  <1> QED
    BY <1>2, <1>3

LEMMA WaitJoins ==
    ASSUME WaitInv, NEW a \in Pair, Wait!JoinWaitlist(a)
    PROVE  WaitInv'
  <1>1. /\ entry[a] = "NONE" /\ entry' = [entry EXCEPT ![a] = "WAITING"]
        /\ mails' = [mails EXCEPT ![a] = 0]
        /\ UNCHANGED <<production, runTask, runCalm>>
    BY DEF Wait!JoinWaitlist
  <1>2. Wait!TypeOK'
    BY <1>1, WaitFacts DEF WaitInv, Wait!TypeOK
  <1>3. Wait!NotifiedIsMailed'
    BY <1>1 DEF WaitInv, Wait!TypeOK, Wait!NotifiedIsMailed
  <1>4. WaitCarried'
    BY <1>1, WaitFacts DEF WaitInv, Wait!TypeOK, Wait!Task, WaitCarried
  <1>5. runCalm' => WaitApart'
    BY <1>1, WaitFacts DEF WaitInv, Wait!TypeOK, Wait!Task, WaitApart, Wait!Running
  <1> QED
    BY <1>2, <1>3, <1>4, <1>5 DEF WaitInv

LEMMA WaitLeaves ==
    ASSUME WaitInv, NEW a \in Pair, Wait!RemoveFromWaitlist(a)
    PROVE  WaitInv'
  <1>1. /\ entry' = [entry EXCEPT ![a] = "NONE"]
        /\ mails' = [mails EXCEPT ![a] = 0]
        /\ runTask' = [p \in Procs |-> IF a \in runTask[p].left
                            THEN [runTask[p] EXCEPT !.gone = runTask[p].gone \union {a}]
                            ELSE runTask[p]]
        /\ runCalm' = (runCalm /\ \A p \in Procs : a \notin runTask[p].left)
        /\ UNCHANGED production
    BY DEF Wait!RemoveFromWaitlist
  <1>t. \A p \in Procs : runTask[p] \in Wait!Task
    BY DEF WaitInv, Wait!TypeOK
  <1>2. ASSUME NEW p \in Procs
        PROVE  /\ runTask'[p] \in Wait!Task
               /\ runTask'[p].left = runTask[p].left
               /\ runTask'[p].mailed = runTask[p].mailed
               /\ runTask'[p].gone = IF a \in runTask[p].left THEN runTask[p].gone \union {a}
                                     ELSE runTask[p].gone
    BY <1>1, <1>t DEF Wait!Task
  <1>3. Wait!TypeOK'
    BY <1>1, <1>2, WaitFacts DEF WaitInv, Wait!TypeOK
  <1>4. Wait!NotifiedIsMailed'
    BY <1>1 DEF WaitInv, Wait!TypeOK, Wait!NotifiedIsMailed
  <1>5. WaitCarried'
    BY <1>1, <1>2, <1>t, WaitFacts DEF WaitInv, Wait!TypeOK, Wait!Task, WaitCarried
  <1>6. ASSUME runCalm' PROVE WaitApart'
    <2>1. \A p \in Procs : runTask'[p] = runTask[p] /\ a \notin runTask[p].left
      BY <1>1, <1>6, <1>t
    <2>2. WaitApart
      BY <1>1, <1>6 DEF WaitInv
    <2> QED
      BY <1>1, <2>1, <2>2, <1>t, WaitFacts
      DEF WaitInv, Wait!TypeOK, Wait!Task, WaitApart, Wait!Running
  <1> QED
    BY <1>3, <1>4, <1>5, <1>6 DEF WaitInv

LEMMA WaitReads ==
    ASSUME WaitInv, NEW p \in Procs, Wait!NotifyRead(p)
    PROVE  WaitInv'
  <1> DEFINE L == {a \in Pair : entry[a] = "WAITING"}
             t == [left |-> L, mailed |-> Nothing, gone |-> {}]
  <1>1. /\ runTask' = [runTask EXCEPT ![p] = t]
        /\ ~Wait!Running(p)
        /\ runCalm' = (runCalm /\ \A q \in Procs : ~Wait!Running(q))
        /\ UNCHANGED <<production, entry, mails>>
    BY DEF Wait!NotifyRead, Wait!Unnotified
  <1>2. /\ t \in Wait!Task /\ t.mailed = Nothing /\ t.gone = {}
        /\ \A a \in t.left : a \in Pair /\ entry[a] = "WAITING"
    BY DEF Wait!Task
  <1> HIDE DEF t, L
  <1>3. /\ runTask' \in [Procs -> Wait!Task] /\ runTask'[p] = t
        /\ \A q \in Procs \ {p} : runTask'[q] = runTask[q]
    BY <1>1, <1>2, WaitMoved DEF WaitInv
  <1>4. Wait!TypeOK' /\ Wait!NotifiedIsMailed'
    BY <1>1, <1>3 DEF WaitInv, Wait!TypeOK, Wait!NotifiedIsMailed
  <1>5. WaitCarried'
    BY <1>1, <1>2, <1>3, WaitFacts DEF WaitInv, WaitCarried
  <1>6. ASSUME runCalm' PROVE WaitApart'
    <2>1. WaitApart /\ \A q \in Procs : runTask[q].left = {}
      BY <1>1, <1>6 DEF WaitInv, Wait!Running
    <2>2. ASSUME NEW q \in Procs PROVE runTask[q].mailed = Nothing
      <3>1. runTask[q].mailed # Nothing => runTask[q].mailed \in runTask[q].left
        BY DEF WaitInv, WaitCarried
      <3>2. runTask[q].left = {}
        BY <2>1
      <3> QED
        BY <3>1, <3>2
    <2> QED
      BY <1>1, <1>2, <1>3, <2>1, <2>2, WaitFacts DEF WaitApart, Wait!Running
  <1> QED
    BY <1>4, <1>5, <1>6 DEF WaitInv

LEMMA WaitMails ==
    ASSUME WaitInv, NEW p \in Procs, NEW a \in Pair, Wait!QueueMail(p, a)
    PROVE  WaitInv'
  <1> DEFINE t == [runTask[p] EXCEPT !.mailed = a]
  <1>1. /\ a \in runTask[p].left /\ runTask[p].mailed = Nothing
        /\ mails' = [mails EXCEPT ![a] =
                IF production /\ mails[a] < MaxMails THEN mails[a] + 1 ELSE mails[a]]
        /\ runTask' = [runTask EXCEPT ![p] = t]
        /\ UNCHANGED <<production, entry, runCalm>>
    BY DEF Wait!QueueMail
  <1>2. runTask[p] \in Wait!Task /\ mails \in [Pair -> 0..MaxMails]
    BY DEF WaitInv, Wait!TypeOK
  <1>3. /\ t \in Wait!Task /\ t.mailed = a
        /\ t.left = runTask[p].left /\ t.gone = runTask[p].gone
    BY <1>2 DEF Wait!Task
  <1> HIDE DEF t
  <1>4. /\ runTask' \in [Procs -> Wait!Task] /\ runTask'[p] = t
        /\ \A q \in Procs \ {p} : runTask'[q] = runTask[q]
    BY <1>1, <1>3, WaitMoved DEF WaitInv
  <1>5. /\ mails' \in [Pair -> 0..MaxMails]
        /\ \A b \in Pair \ {a} : mails'[b] = mails[b]
        /\ mails'[a] >= mails[a] /\ mails'[a] <= mails[a] + 1
        /\ production => mails'[a] > 0
    BY <1>1, <1>2, WaitFacts
  <1>6. \A b \in Pair : mails[b] > 0 => mails'[b] > 0
    BY <1>2, <1>5, WaitFacts
  <1>7. Wait!TypeOK'
    BY <1>1, <1>4, <1>5 DEF WaitInv, Wait!TypeOK
  <1>8. Wait!NotifiedIsMailed'
    BY <1>1, <1>6 DEF WaitInv, Wait!NotifiedIsMailed
  <1>9. WaitCarried'
    <2>1. \A q \in Procs : runTask[q].left \subseteq Pair
      BY DEF WaitInv, Wait!TypeOK, Wait!Task
    <2> QED
      BY <1>1, <1>3, <1>4, <1>5, <1>6, <2>1, WaitFacts DEF WaitInv, WaitCarried
  <1>10. ASSUME runCalm' PROVE WaitApart'
    <2>1. WaitApart
      BY <1>1, <1>10 DEF WaitInv
    <2>2. \A q \in Procs : runTask[q].mailed # a
      <3>1. \A q \in Procs : runTask[q].mailed = a => q = p
        BY <1>1, <2>1, WaitFacts DEF WaitInv, WaitCarried, WaitApart, Wait!Running
      <3> QED
        BY <1>1, <3>1, WaitFacts
    <2>3. mails[a] = 0
      BY <1>1, <1>2, <2>1, <2>2 DEF WaitApart
    <2>4. \A b \in Pair : mails'[b] <= 1
      BY <1>2, <1>5, <2>1, <2>3 DEF WaitApart
    <2>5. ASSUME NEW b \in Pair, mails'[b] > 0
          PROVE  entry'[b] = "NOTIFIED" \/ \E q \in Procs : runTask'[q].mailed = b
      <3>1. CASE b = a
        BY <1>3, <1>4, <3>1
      <3>2. CASE b # a
        <4>1. entry[b] = "NOTIFIED" \/ \E q \in Procs : runTask[q].mailed = b
          BY <1>5, <2>1, <2>5, <3>2 DEF WaitApart
        <4> QED
          BY <1>1, <1>4, <4>1, WaitFacts
      <3> QED
        BY <3>1, <3>2
    <2>6. \A q \in Procs : runTask'[q].left = runTask[q].left /\ runTask'[q].gone = runTask[q].gone
      BY <1>3, <1>4
    <2> QED
      BY <1>1, <2>1, <2>4, <2>5, <2>6 DEF WaitApart, Wait!Running
  <1> QED
    BY <1>7, <1>8, <1>9, <1>10 DEF WaitInv

\* A run goes on to its next entry; the mail of the one it leaves is accounted for.
LEMMA WaitPasses ==
    ASSUME WaitInv, NEW p \in Procs, NEW a \in runTask[p].left,
           runTask' = [runTask EXCEPT ![p] = Wait!Done(p, a)],
           UNCHANGED <<production, mails>>,
           entry' \in [Pair -> {"NONE", "WAITING", "NOTIFIED"}], runCalm' \in BOOLEAN,
           \A b \in Pair \ {a} : entry'[b] = entry[b],
           entry'[a] = entry[a] \/ (entry'[a] = "NOTIFIED" /\ runTask[p].mailed = a
                                      /\ a \notin runTask[p].gone),
           runCalm' => runCalm /\ (runTask[p].mailed = Nothing \/ entry'[a] = "NOTIFIED"),
           runTask[p].mailed \in {a, Nothing}
    PROVE  WaitInv'
  <1>0. a \in Pair /\ \A q \in Procs : runTask[q] \in Wait!Task /\ runTask[q].left \subseteq Pair
    BY DEF WaitInv, Wait!TypeOK, Wait!Task
  <1> DEFINE t == Wait!Done(p, a)
  <1>1. /\ t \in Wait!Task /\ t.mailed = Nothing /\ t.left = runTask[p].left \ {a}
        /\ t.left \ t.gone \subseteq (runTask[p].left \ runTask[p].gone) \ {a}
        /\ runTask[p].gone = {} => t.gone = {}
    BY WaitDone DEF WaitInv
  <1>2. /\ runTask' \in [Procs -> Wait!Task] /\ runTask'[p] = t
        /\ \A q \in Procs \ {p} : runTask'[q] = runTask[q]
    BY <1>1, WaitMoved DEF WaitInv
  <1> HIDE DEF t
  <1>3. Wait!TypeOK'
    BY <1>2 DEF WaitInv, Wait!TypeOK
  <1>4. Wait!NotifiedIsMailed'
    <2>1. entry'[a] # entry[a] => (production => mails[a] > 0)
      BY <1>0 DEF WaitInv, WaitCarried
    <2> QED
      BY <1>0, <2>1 DEF WaitInv, Wait!NotifiedIsMailed
  <1>5. WaitCarried'
    <2>1. \A b \in Pair : entry[b] # "NONE" => entry'[b] # "NONE"
      BY <1>0
    <2> QED
      BY <1>0, <1>1, <1>2, <2>1, WaitFacts DEF WaitInv, WaitCarried
  <1>6. ASSUME runCalm' PROVE WaitApart'
    <2>1. WaitApart
      BY <1>6 DEF WaitInv
    <2>2. \A q \in Procs \ {p} : runTask[q].left = {}
      BY <2>1 DEF WaitApart, Wait!Running
    <2>3. \A q \in Procs : runTask'[q].gone = {} /\ \A b \in runTask'[q].left :
                b \in Pair \ {a} /\ entry[b] = "WAITING"
      BY <1>0, <1>1, <1>2, <2>1, <2>2 DEF WaitApart
    <2>4. ASSUME NEW b \in Pair, mails[b] > 0
          PROVE  entry'[b] = "NOTIFIED" \/ \E q \in Procs : runTask'[q].mailed = b
      <3>1. entry[b] = "NOTIFIED" \/ \E q \in Procs : runTask[q].mailed = b
        BY <2>1, <2>4 DEF WaitApart
      <3>2. CASE entry[b] = "NOTIFIED"
        BY <1>0, <3>2
      <3>3. ASSUME NEW q \in Procs, runTask[q].mailed = b
            PROVE  entry'[b] = "NOTIFIED"
        <4>1. q = p
          BY <2>2, <3>3, WaitFacts DEF WaitInv, WaitCarried
        <4> QED
          BY <1>6, <3>3, <4>1, WaitFacts
      <3> QED
        BY <3>1, <3>2, <3>3
    <2>5. \A q, r \in Procs : Wait!Running(q)' /\ Wait!Running(r)' => q = r
      BY <1>2, <2>2 DEF Wait!Running
    <2> QED
      BY <2>1, <2>3, <2>4, <2>5 DEF WaitApart
  <1> QED
    BY <1>3, <1>4, <1>5, <1>6 DEF WaitInv

LEMMA WaitNext == ASSUME WaitInv, Wait!Next PROVE WaitInv'
  <1>t. Wait!TypeOK /\ WaitCarried
    BY DEF WaitInv
  <1>1. ASSUME NEW a \in Pair, Wait!JoinWaitlist(a) \/ Wait!RemoveFromWaitlist(a)
        PROVE  WaitInv'
    BY <1>1, WaitJoins, WaitLeaves
  <1>2. ASSUME NEW p \in Procs, Wait!NotifyRead(p) PROVE WaitInv'
    BY <1>2, WaitReads
  <1>3. ASSUME NEW p \in Procs, NEW a \in Pair, Wait!QueueMail(p, a) PROVE WaitInv'
    BY <1>3, WaitMails
  <1>4. ASSUME NEW p \in Procs, NEW a \in Pair, Wait!QueueFails(p, a) PROVE WaitInv'
    <2>1. /\ a \in runTask[p].left /\ runTask[p].mailed = Nothing
          /\ runTask' = [runTask EXCEPT ![p] = Wait!Done(p, a)]
          /\ UNCHANGED <<production, entry, mails, runCalm>>
      BY <1>4 DEF Wait!QueueFails
    <2>2. entry' \in [Pair -> {"NONE", "WAITING", "NOTIFIED"}] /\ runCalm' \in BOOLEAN
      BY <2>1, <1>t DEF Wait!TypeOK
    <2> QED
      BY <2>1, <2>2, WaitPasses
  <1>5. ASSUME NEW p \in Procs, Wait!Mark(p) PROVE WaitInv'
    <2> DEFINE a == runTask[p].mailed
    <2>1. /\ a # Nothing
          /\ entry' = IF a \notin runTask[p].gone THEN [entry EXCEPT ![a] = "NOTIFIED"]
                      ELSE entry
          /\ runTask' = [runTask EXCEPT ![p] = Wait!Done(p, a)]
          /\ UNCHANGED <<production, mails, runCalm>>
      BY <1>5 DEF Wait!Mark, Wait!MarksRow
    <2>2. a \in runTask[p].left /\ a \in Pair
      BY <2>1, <1>t DEF WaitCarried, Wait!TypeOK, Wait!Task
    <2>3. /\ entry' \in [Pair -> {"NONE", "WAITING", "NOTIFIED"}] /\ runCalm' \in BOOLEAN
          /\ \A b \in Pair \ {a} : entry'[b] = entry[b]
          /\ IF a \notin runTask[p].gone THEN entry'[a] = "NOTIFIED" ELSE entry'[a] = entry[a]
      BY <2>1, <2>2, <1>t DEF Wait!TypeOK
    <2>4. runCalm' => runCalm /\ a \notin runTask[p].gone
      BY <2>1 DEF WaitInv, WaitApart
    <2> QED
      BY <2>1, <2>2, <2>3, <2>4, WaitPasses
  <1>6. ASSUME NEW p \in Procs, Wait!MarkFails(p) PROVE WaitInv'
    <2> DEFINE a == runTask[p].mailed
    <2>1. /\ a # Nothing /\ runCalm' = FALSE
          /\ runTask' = [runTask EXCEPT ![p] = Wait!Done(p, a)]
          /\ UNCHANGED <<production, entry, mails>>
      BY <1>6 DEF Wait!MarkFails
    <2>2. a \in runTask[p].left
      BY <2>1, <1>t DEF WaitCarried
    <2>3. entry' \in [Pair -> {"NONE", "WAITING", "NOTIFIED"}]
      BY <2>1, <1>t DEF Wait!TypeOK
    <2>4. \A b \in Pair : entry'[b] = entry[b]
      BY <2>1
    <2>5. entry'[a] = entry[a]
      BY <2>1
    <2> QED
      BY <2>1, <2>2, <2>3, <2>4, <2>5, WaitPasses
  <1>7. CASE Wait!Restart
    <2>1. /\ runTask' = [p \in Procs |-> Wait!Idle]
          /\ runCalm' = (runCalm /\ \A p \in Procs : runTask[p].mailed = Nothing)
          /\ UNCHANGED <<production, entry, mails>>
      BY <1>7 DEF Wait!Restart
    <2>2. /\ runTask' \in [Procs -> Wait!Task]
          /\ \A p \in Procs : runTask'[p] = [left |-> {}, mailed |-> Nothing, gone |-> {}]
      BY <2>1, WaitIdle
    <2>3. Wait!TypeOK' /\ Wait!NotifiedIsMailed'
      BY <2>1, <2>2 DEF WaitInv, Wait!TypeOK, Wait!NotifiedIsMailed
    <2>4. WaitCarried'
      BY <2>2 DEF WaitCarried
    <2>5. ASSUME runCalm' PROVE WaitApart'
      <3>1. runCalm /\ \A p \in Procs : runTask[p].mailed = Nothing
        BY <2>1, <2>5
      <3>2. WaitApart
        BY <3>1 DEF WaitInv
      <3>3. \A a \in Pair : mails'[a] <= 1 /\ (mails'[a] > 0 => entry'[a] = "NOTIFIED")
        BY <2>1, <3>1, <3>2, WaitFacts DEF WaitApart
      <3>4. \A p \in Procs : runTask'[p].left = {} /\ runTask'[p].gone = {}
        BY <2>2
      <3> QED
        BY <3>3, <3>4 DEF WaitApart, Wait!Running
    <2> QED
      BY <2>3, <2>4, <2>5 DEF WaitInv
  <1> QED
    BY <1>1, <1>2, <1>3, <1>4, <1>5, <1>6, <1>7 DEF Wait!Next, Wait!RunStep

LEMMA WaitStays == ASSUME WaitInv, UNCHANGED waitVars PROVE WaitInv'
  <1> USE DEF waitVars
  <1>1. Wait!TypeOK' /\ Wait!NotifiedIsMailed' /\ WaitCarried'
    BY DEF WaitInv, Wait!TypeOK, Wait!NotifiedIsMailed, WaitCarried
  <1>2. runCalm' => WaitApart'
    BY DEF WaitInv, WaitApart, Wait!Running
  <1> QED
    BY <1>1, <1>2 DEF WaitInv

\* Whoever joins and leaves during the runs, and whatever fails in them: in production
\* nobody is put down as notified without a mail, and runs that keep apart, whose marks
\* succeed, mail nobody twice.
THEOREM NotifiedAreMailed == Spec => []WaitlistSound
  <1>1. WaitInv /\ [Next]_vars => WaitInv'
    BY OwnSteps, WaitNext, WaitStays
  <1>2. WaitInv => WaitlistSound
    BY DEF WaitInv, WaitApart, WaitlistSound, Wait!MailedOnce
  <1> QED
    BY <1>1, <1>2, WaitInit, PTL DEF Spec

-----------------------------------------------------------------------------
(* All services together *)

\* Every column and every request's local state keeps its type, in all the services.
THEOREM TypeCorrect == Spec => []TypeOK
  <1> DEFINE Typed == /\ part \in Parts /\ OfflineInv /\ RatingInv /\ PermitInv
                      /\ PartnerInv /\ AdminInv /\ BucketInv
                      /\ OfferInv /\ DayInv /\ WaitInv /\ ResetInv
  <1>1. Init => Typed
    BY OfflineInit, RatingInit, PermitInit, PartnerInit, AdminInit, BucketInit,
       OfferInit, DayInit, WaitInit, ResetInit DEF Init
  <1>2. Typed /\ [Next]_vars => Typed'
    <2> SUFFICES ASSUME Typed, [Next]_vars PROVE Typed'
      OBVIOUS
    <2>1. (part \in Parts)'
      BY OwnSteps DEF Parts
    <2>2. OfflineInv'
      BY OwnSteps, OfflineNext, OfflineStays
    <2>3. RatingInv'
      BY OwnSteps, RatingNext, RatingStays
    <2>4. PermitInv'
      BY OwnSteps, PermitNext, PermitStays
    <2>5. PartnerInv'
      BY OwnSteps, PartnerNext, PartnerStays
    <2>6. AdminInv'
      BY OwnSteps, AdminNext, AdminStays
    <2>7. BucketInv'
      BY OwnSteps, BucketNext, BucketStays
    <2>8. OfferInv'
      BY OwnSteps, OfferNext, OfferStays
    <2>9. DayInv'
      BY OwnSteps, DayNext, DayStays
    <2>10. WaitInv'
      BY OwnSteps, WaitNext, WaitStays
    <2>11. ResetInv'
      BY OwnSteps, ResetNext, ResetStays
    <2> QED
      BY <2>1, <2>2, <2>3, <2>4, <2>5, <2>6, <2>7, <2>8, <2>9, <2>10, <2>11
  <1>3. /\ Typed
        /\ Listing!TypeOK /\ Listing!PriceIsDerived /\ Listing!RetiredIsFree
        /\ Label!TypeOK /\ Label!FewRequestsRemain
        => TypeOK
    BY DEF TypeOK, OfflineInv, RatingInv, PermitInv, PartnerInv, AdminInv, BucketInv,
           OfferInv, DayInv, WaitInv, ResetInv
  <1> QED
    BY <1>1, <1>2, <1>3, ListingSafe, LabelSafe, PTL DEF Spec
=============================================================================

------------------------- MODULE Reservations_proofs -------------------------
(***************************************************************************)
(* Proofs about Reservations, for any numbers of bookings and requests and *)
(* any capacity: its type invariant, how far a tour can be overbooked and  *)
(* how often a vehicle or guide can be booked for a day, and that a        *)
(* vehicle or guide with bookings is not deleted.                          *)
(***************************************************************************)
EXTENDS Reservations, FiniteSetTheorems, TLAPS

-----------------------------------------------------------------------------
(* Types *)

LEMMA IdleType == NoItem \in Item /\ Idle \in Task /\ 1 \in 1..MaxCap
  <1>1. 1 \in 1..LastDay /\ 1 \in 1..LastDay + 1 /\ 2 \in 1..LastDay + 1 /\ 1 \in 1..MaxParty
        /\ 0 \in 0..MaxCap /\ 1 \in 1..MaxCap
    BY ReservationsAssumption
  <1>2. AnyDay \in Span
    BY <1>1 DEF AnyDay, Span
  <1>3. NoItem \in Item
    BY <1>1, <1>2 DEF NoItem, Item
  <1> QED
    BY <1>1, <1>3 DEF Idle, Task

\* A booking that is being answered has a row, and only a hire is deleted.
Grounded ==
    \A p \in Procs :
        /\ task[p].op \in {"confirm", "reject"} =>
              task[p].booking \in Bookings /\ status[task[p].booking] # "NONE"
        /\ task[p].op = "remove" => kind = "hire"

Sound == TypeOK /\ Grounded

LEMMA SoundInit == Init => Sound
  <1> SUFFICES ASSUME Init PROVE Sound
    OBVIOUS
  <1>1. TypeOK
    BY IdleType DEF Init, TypeOK, Status
  <1>2. Grounded
    BY DEF Init, Grounded, Idle
  <1> QED
    BY <1>1, <1>2 DEF Sound

LEMMA BookedType == TypeOK => Booked \in Nat
  <1> SUFFICES ASSUME TypeOK PROVE Booked \in Nat
    OBVIOUS
  <1>1. IsFiniteSet(Holding \X (1..MaxParty))
    <2>1. IsFiniteSet(Holding)
      BY ReservationsAssumption, FS_Subset DEF Holding
    <2>2. IsFiniteSet(1..MaxParty)
      BY ReservationsAssumption, FS_Interval
    <2> QED
      BY <2>1, <2>2, FS_Product
  <1>2. IsFiniteSet(Seats(Holding))
    BY <1>1, FS_Subset DEF Seats
  <1> QED
    BY <1>2, FS_CardinalityType DEF Booked

\* The other processes stay where they are.
Moved(p, t) ==
    /\ task' \in [Procs -> Task]
    /\ task'[p] = t
    /\ \A q \in Procs \ {p} : task'[q] = task[q]

LEMMA Moves ==
  ASSUME TypeOK, NEW p \in Procs
  PROVE  /\ \A t \in Task : Begin(p, t) => task[p].op = "idle" /\ Moved(p, t)
         /\ End(p) => Moved(p, Idle)
         /\ \A i \in Item : Grant(p, i) => Moved(p, [task[p] EXCEPT !.op = "insert", !.item = i])
  <1>1. ASSUME NEW t \in Task, Begin(p, t) PROVE task[p].op = "idle" /\ Moved(p, t)
    BY <1>1 DEF Begin, Moved, TypeOK
  <1>2. ASSUME End(p) PROVE Moved(p, Idle)
    BY <1>2, IdleType DEF End, Moved, TypeOK
  <1>3. ASSUME NEW i \in Item, Grant(p, i)
        PROVE  Moved(p, [task[p] EXCEPT !.op = "insert", !.item = i])
    <2>1. [task[p] EXCEPT !.op = "insert", !.item = i] \in Task
      BY <1>3 DEF TypeOK, Task
    <2> QED
      BY <1>3, <2>1 DEF Grant, Moved, TypeOK
  <1> QED
    BY <1>1, <1>2, <1>3

\* Each step of a request, with the task it goes on to.
LEMMA StepMoves ==
  ASSUME Sound, NEW p \in Procs
  PROVE  /\ CreateRead(p) => task[p].op = "idle" /\ Moved(p, [Idle EXCEPT !.op = "check", !.cap = cap])
         /\ CheckSeats(p) => \E n \in 1..MaxParty :
              /\ n <= task[p].cap - Booked
              /\ Moved(p, [task[p] EXCEPT !.op = "insert", !.item = [party |-> n, span |-> AnyDay]])
         /\ CheckDays(p) => \E s \in Span :
              /\ \A b \in Holding : ~ Overlaps(s, item[b].span)
              /\ Moved(p, [task[p] EXCEPT !.op = "insert", !.item = [party |-> 1, span |-> s]])
         /\ \A b \in Bookings : ConfirmRead(p, b) =>
              task[p].op = "idle" /\ Moved(p, [Idle EXCEPT !.op = "confirm", !.booking = b])
         /\ \A b \in Bookings : RejectRead(p, b) =>
              task[p].op = "idle" /\ Moved(p, [Idle EXCEPT !.op = "reject", !.booking = b])
         /\ DeleteCheck(p) => task[p].op = "idle" /\ Moved(p, [Idle EXCEPT !.op = "remove"])
         /\ CreateInsert(p) \/ ConfirmWrite(p) \/ RejectWrite(p) \/ DeleteWrite(p) \/ Abort(p)
              => Moved(p, Idle)
  <1> USE DEF Sound
  <1>1. cap \in 0..MaxCap
    BY ReservationsAssumption DEF TypeOK
  <1>2. CreateRead(p) => task[p].op = "idle" /\ Moved(p, [Idle EXCEPT !.op = "check", !.cap = cap])
    <2>1. [Idle EXCEPT !.op = "check", !.cap = cap] \in Task
      BY <1>1, IdleType DEF Task
    <2> QED
      BY <2>1, Moves DEF CreateRead
  <1>3. CheckSeats(p) => \E n \in 1..MaxParty :
          /\ n <= task[p].cap - Booked
          /\ Moved(p, [task[p] EXCEPT !.op = "insert", !.item = [party |-> n, span |-> AnyDay]])
    <2>1. \A n \in 1..MaxParty : [party |-> n, span |-> AnyDay] \in Item
      BY IdleType DEF NoItem, Item
    <2> QED
      BY <2>1, Moves DEF CheckSeats
  <1>4. CheckDays(p) => \E s \in Span :
          /\ \A b \in Holding : ~ Overlaps(s, item[b].span)
          /\ Moved(p, [task[p] EXCEPT !.op = "insert", !.item = [party |-> 1, span |-> s]])
    <2>1. \A s \in Span : [party |-> 1, span |-> s] \in Item
      BY IdleType DEF NoItem, Item
    <2> QED
      BY <2>1, Moves DEF CheckDays
  <1>5. ASSUME NEW b \in Bookings
        PROVE  /\ [Idle EXCEPT !.op = "confirm", !.booking = b] \in Task
               /\ [Idle EXCEPT !.op = "reject", !.booking = b] \in Task
    BY IdleType DEF Task
  <1>6. [Idle EXCEPT !.op = "remove"] \in Task
    BY IdleType DEF Task
  <1>7. ASSUME NEW b \in Bookings, ConfirmRead(p, b)
        PROVE  task[p].op = "idle" /\ Moved(p, [Idle EXCEPT !.op = "confirm", !.booking = b])
    BY <1>5, <1>7, Moves DEF ConfirmRead
  <1>8. ASSUME NEW b \in Bookings, RejectRead(p, b)
        PROVE  task[p].op = "idle" /\ Moved(p, [Idle EXCEPT !.op = "reject", !.booking = b])
    BY <1>5, <1>8, Moves DEF RejectRead
  <1>9. DeleteCheck(p) => task[p].op = "idle" /\ Moved(p, [Idle EXCEPT !.op = "remove"])
    BY <1>6, Moves DEF DeleteCheck
  <1>10. CreateInsert(p) \/ ConfirmWrite(p) \/ RejectWrite(p) \/ DeleteWrite(p) \/ Abort(p)
              => Moved(p, Idle)
    BY Moves DEF CreateInsert, ConfirmWrite, RejectWrite, DeleteWrite, Abort
  <1> QED
    BY <1>2, <1>3, <1>4, <1>7, <1>8, <1>9, <1>10

\* A step that changes nothing but the task of one process.
LEMMA TaskStep ==
  ASSUME Sound, NEW p \in Procs, NEW t, Moved(p, t),
         t.op \in {"confirm", "reject"} => t.booking \in Bookings /\ status[t.booking] # "NONE",
         t.op = "remove" => kind = "hire",
         UNCHANGED <<product, status, item, revived>>, orderly' \in BOOLEAN
  PROVE  TypeOK' /\ Grounded'
  <1>1. /\ UNCHANGED kind /\ UNCHANGED exists /\ UNCHANGED active /\ UNCHANGED cap
        /\ UNCHANGED status /\ UNCHANGED item /\ UNCHANGED revived
    BY DEF product
  <1>2. TypeOK'
    BY <1>1 DEF TypeOK, Sound, Moved
  <1>3. ASSUME NEW q \in Procs
        PROVE  /\ task'[q].op \in {"confirm", "reject"} =>
                     task'[q].booking \in Bookings /\ status[task'[q].booking] # "NONE"
               /\ task'[q].op = "remove" => kind = "hire"
    BY DEF Sound, Grounded, Moved
  <1> QED
    BY <1>1, <1>2, <1>3 DEF Grounded

LEMMA SoundStep == Sound /\ [Next]_vars => Sound'
  <1> SUFFICES ASSUME Sound, [Next]_vars PROVE Sound'
    OBVIOUS
  <1> USE DEF Sound
  <1>0. orderly' \in BOOLEAN
    BY DEF Next, vars, TypeOK
  <1>1. ASSUME NEW p \in Procs, RequestStep(p) PROVE TypeOK' /\ Grounded'
    <2>1. CASE CreateRead(p)
      <3>1. [Idle EXCEPT !.op = "check", !.cap = cap].op = "check"
        BY DEF Idle
      <3> QED
        BY <1>0, <2>1, <3>1, StepMoves, TaskStep DEF CreateRead
    <2>2. CASE CheckSeats(p)
      <3>1. PICK n \in 1..MaxParty :
              Moved(p, [task[p] EXCEPT !.op = "insert", !.item = [party |-> n, span |-> AnyDay]])
        BY <1>0, <2>2, StepMoves
      <3>2. task'[p].op = "insert"
        BY <3>1 DEF Moved, TypeOK, Task
      <3> QED
        BY <1>0, <2>2, <3>1, <3>2 DEF CheckSeats, Moved, TypeOK, Grounded, product
    <2>3. CASE CheckDays(p)
      <3>1. PICK s \in Span :
              Moved(p, [task[p] EXCEPT !.op = "insert", !.item = [party |-> 1, span |-> s]])
        BY <1>0, <2>3, StepMoves
      <3>2. task'[p].op = "insert"
        BY <3>1 DEF Moved, TypeOK, Task
      <3> QED
        BY <1>0, <2>3, <3>1, <3>2 DEF CheckDays, Moved, TypeOK, Grounded, product
    <2>4. CASE CreateInsert(p)
      <3>1. Moved(p, Idle)
        BY <1>0, <2>4, StepMoves
      <3>2. PICK b \in Bookings :
              /\ status' = [status EXCEPT ![b] = "REQUESTED"]
              /\ item' = [item EXCEPT ![b] = task[p].item]
        BY <1>0, <2>4 DEF CreateInsert
      <3>3. task[p].item \in Item /\ Idle.op = "idle"
        BY DEF TypeOK, Task, Idle
      <3>4. status' \in [Bookings -> Status] /\ item' \in [Bookings -> Item]
        BY <3>2, <3>3 DEF TypeOK, Status
      <3>5. TypeOK'
        BY <1>0, <2>4, <3>1, <3>4 DEF CreateInsert, Moved, TypeOK, product
      <3> QED
        BY <2>4, <3>1, <3>2, <3>3, <3>5 DEF CreateInsert, product, Moved, TypeOK, Grounded
    <2>5. ASSUME NEW b \in Bookings, ConfirmRead(p, b) \/ RejectRead(p, b)
          PROVE  TypeOK' /\ Grounded'
      <3>1. PICK o \in {"confirm", "reject"} : Moved(p, [Idle EXCEPT !.op = o, !.booking = b])
        BY <2>5, StepMoves
      <3>2. [Idle EXCEPT !.op = o, !.booking = b].op = o
            /\ [Idle EXCEPT !.op = o, !.booking = b].booking = b
        BY DEF Idle
      <3>3. status[b] # "NONE" /\ UNCHANGED <<product, status, item, revived>>
        BY <2>5 DEF ConfirmRead, RejectRead
      <3> HIDE DEF Sound
      <3> QED
        BY <1>0, <3>1, <3>2, <3>3, TaskStep
    <2>6. CASE ConfirmWrite(p)
      <3>1. Moved(p, Idle) /\ Idle.op = "idle"
        BY <1>0, <2>6, StepMoves DEF Idle
      <3>2. status' \in [Bookings -> Status] /\ revived' \in SUBSET Bookings
        BY <1>0, <2>6 DEF ConfirmWrite, TypeOK, Status, Grounded
      <3>3. \A c \in Bookings : status'[c] = status[c] \/ status'[c] # "NONE"
        BY <2>6 DEF ConfirmWrite, TypeOK
      <3>4. UNCHANGED kind /\ UNCHANGED exists /\ UNCHANGED active /\ UNCHANGED cap /\ UNCHANGED item
        BY <2>6 DEF ConfirmWrite, product
      <3>5. TypeOK'
        BY <1>0, <2>6, <3>1, <3>2, <3>4 DEF ConfirmWrite, Moved, TypeOK
      <3> QED
        BY <3>1, <3>3, <3>4, <3>5 DEF Moved, Grounded
    <2>7. CASE RejectWrite(p)
      <3>1. Moved(p, Idle) /\ Idle.op = "idle"
        BY <1>0, <2>7, StepMoves DEF Idle
      <3>2. status' \in [Bookings -> Status]
        BY <1>0, <2>7 DEF RejectWrite, TypeOK, Status
      <3>3. \A c \in Bookings : status'[c] = status[c] \/ status'[c] # "NONE"
        BY <2>7 DEF RejectWrite, TypeOK
      <3>4. UNCHANGED kind /\ UNCHANGED exists /\ UNCHANGED active /\ UNCHANGED cap /\ UNCHANGED item
        BY <2>7 DEF RejectWrite, product
      <3>5. TypeOK'
        BY <1>0, <2>7, <3>1, <3>2, <3>4 DEF RejectWrite, Moved, TypeOK
      <3> QED
        BY <3>1, <3>3, <3>4, <3>5 DEF Moved, Grounded
    <2>8. CASE DeleteCheck(p)
      <3>1. [Idle EXCEPT !.op = "remove"].op = "remove"
        BY DEF Idle
      <3>2. kind = "hire" /\ UNCHANGED <<product, status, item, revived>>
        BY <2>8 DEF DeleteCheck, Deletable
      <3> HIDE DEF Sound
      <3> QED
        BY <1>0, <2>8, <3>1, <3>2, StepMoves, TaskStep
    <2>9. CASE DeleteWrite(p)
      <3>1. kind = "hire" /\ Moved(p, Idle) /\ Idle.op = "idle"
        BY <2>9, StepMoves DEF DeleteWrite, Grounded, Idle
      <3>2. TypeOK'
        BY <1>0, <2>9, <3>1 DEF DeleteWrite, Moved, TypeOK
      <3> QED
        BY <2>9, <3>1, <3>2 DEF DeleteWrite, Moved, Grounded
    <2>10. CASE Abort(p)
      <3>1. Idle.op = "idle" /\ UNCHANGED <<product, status, item, revived>>
        BY <2>10 DEF Idle, Abort
      <3> HIDE DEF Sound
      <3> QED
        BY <1>0, <2>10, <3>1, StepMoves, TaskStep
    <2> QED
      BY <1>1, <2>1, <2>2, <2>3, <2>4, <2>5, <2>6, <2>7, <2>8, <2>9, <2>10 DEF RequestStep
  <1>2. ASSUME NEW b \in Bookings, Capture(b) \/ Close(b) PROVE TypeOK' /\ Grounded'
    <2>1. status' \in [Bookings -> Status] /\ revived' \in SUBSET Bookings
      BY <1>2 DEF Capture, Close, TypeOK, Status
    <2>2. \A c \in Bookings : status'[c] = status[c] \/ status'[c] # "NONE"
      BY <1>2 DEF Capture, Close, TypeOK
    <2> QED
      BY <1>0, <1>2, <2>1, <2>2 DEF Capture, Close, TypeOK, Grounded, product
  <1>3. CASE EditProduct
    BY <1>0, <1>3 DEF EditProduct, TypeOK, Grounded, product
  <1>4. CASE DeactivateTour
    BY <1>0, <1>4 DEF DeactivateTour, TypeOK, Grounded, product
  <1>5. CASE UNCHANGED vars
    BY <1>5 DEF vars, product, TypeOK, Grounded
  <1> QED
    BY <1>1, <1>2, <1>3, <1>4, <1>5 DEF Next, Step

-----------------------------------------------------------------------------
(* Who has been let in and is about to insert *)

Claimants == {p \in Procs : task[p].op = "insert"}

\* The seats and the days they are about to take.
Claims == {u \in Claimants \X (1..MaxParty) : u[2] <= task[u[1]].item.party}

HeldOn(d)    == {b \in Kept : d \in Nights(item[b].span)}
ClaimedOn(d) == {p \in Claimants : d \in Nights(task[p].item.span)}

\* The request that is let in counts itself against the bookings it has read;
\* every other one that was let in may not have been read yet.
SeatInv ==
    kind = "tour" =>
        Cardinality(Seats(Kept)) + Cardinality(Claims)
            <= MaxCap + MaxParty * (Cardinality(Procs) - 1)

DayInv ==
    kind = "hire" =>
        \A d \in 1..LastDay :
            Cardinality(HeldOn(d)) + Cardinality(ClaimedOn(d)) <= Cardinality(Procs)

LEMMA Finite ==
  /\ \A S \in SUBSET (Bookings \X (1..MaxParty)) : IsFiniteSet(S) /\ Cardinality(S) \in Nat
  /\ \A S \in SUBSET (Procs \X (1..MaxParty)) : IsFiniteSet(S) /\ Cardinality(S) \in Nat
  /\ \A S \in SUBSET Bookings : IsFiniteSet(S) /\ Cardinality(S) \in Nat
  /\ \A S \in SUBSET Procs : IsFiniteSet(S) /\ Cardinality(S) \in Nat
  <1>1. \A T : IsFiniteSet(T) => \A S \in SUBSET T : IsFiniteSet(S) /\ Cardinality(S) \in Nat
    BY FS_Subset, FS_CardinalityType
  <1>2. IsFiniteSet(Bookings) /\ IsFiniteSet(Procs) /\ IsFiniteSet(1..MaxParty)
    BY ReservationsAssumption, FS_Interval
  <1>3. IsFiniteSet(Bookings \X (1..MaxParty)) /\ IsFiniteSet(Procs \X (1..MaxParty))
    BY <1>2, FS_Product
  <1> QED
    BY <1>1, <1>2, <1>3

LEMMA UpTo == \A k \in Nat : IsFiniteSet(1..k) /\ Cardinality(1..k) = k
  <1> SUFFICES ASSUME NEW k \in Nat PROVE IsFiniteSet(1..k) /\ Cardinality(1..k) = k
    OBVIOUS
  <1>1. IsFiniteSet(1..k) /\ Cardinality(1..k) = IF 1 > k THEN 0 ELSE k - 1 + 1
    BY FS_Interval
  <1> QED
    BY <1>1

LEMMA Smaller ==
  ASSUME NEW S, NEW T, IsFiniteSet(T), S \subseteq T
  PROVE  Cardinality(S) <= Cardinality(T)
  BY FS_Subset

\* Two disjoint parts are no more than the whole.
LEMMA Parts ==
  ASSUME NEW S, NEW T, NEW U, IsFiniteSet(U), S \subseteq U, T \subseteq U, S \cap T = {}
  PROVE  Cardinality(S) + Cardinality(T) <= Cardinality(U)
  <1>1. IsFiniteSet(S) /\ IsFiniteSet(T)
    BY FS_Subset
  <1>2. Cardinality(S \cup T) = Cardinality(S) + Cardinality(T) - Cardinality({})
    BY <1>1, FS_Union
  <1>3. Cardinality({}) = 0
    BY FS_EmptySet
  <1>4. S \cup T \subseteq U
    OBVIOUS
  <1>5. Cardinality(S \cup T) <= Cardinality(U)
    BY <1>4, Smaller
  <1>6. Cardinality(S) \in Nat /\ Cardinality(T) \in Nat /\ Cardinality(U) \in Nat
    BY <1>1, FS_CardinalityType
  <1> QED
    BY <1>2, <1>3, <1>5, <1>6

LEMMA Whole ==
  ASSUME NEW S, NEW T, NEW U, IsFiniteSet(S), IsFiniteSet(T), U \subseteq S \cup T
  PROVE  Cardinality(U) <= Cardinality(S) + Cardinality(T)
  <1>1. IsFiniteSet(S \cup T) /\ IsFiniteSet(S \cap T)
        /\ Cardinality(S \cup T) = Cardinality(S) + Cardinality(T) - Cardinality(S \cap T)
    BY FS_Union, FS_Intersection
  <1>2. Cardinality(U) <= Cardinality(S \cup T)
    BY <1>1, Smaller
  <1>3. IsFiniteSet(U)
    BY <1>1, FS_Subset
  <1>4. Cardinality(S) \in Nat /\ Cardinality(T) \in Nat /\ Cardinality(U) \in Nat
        /\ Cardinality(S \cap T) \in Nat
    BY <1>1, <1>3, FS_CardinalityType
  <1> QED
    BY <1>1, <1>2, <1>4

LEMMA Where ==
  /\ Kept \in SUBSET Bookings /\ Kept' \in SUBSET Bookings /\ Kept \subseteq Holding
  /\ Claims \in SUBSET (Procs \X (1..MaxParty)) /\ Claims' \in SUBSET (Procs \X (1..MaxParty))
  /\ \A S \in SUBSET Bookings :
        /\ Seats(S) \in SUBSET (Bookings \X (1..MaxParty))
        /\ Seats(S)' \in SUBSET (Bookings \X (1..MaxParty))
  <1>1. Kept \in SUBSET Bookings /\ Kept' \in SUBSET Bookings /\ Kept \subseteq Holding
    BY DEF Kept, Holding
  <1>2. Claims \in SUBSET (Procs \X (1..MaxParty)) /\ Claims' \in SUBSET (Procs \X (1..MaxParty))
    BY DEF Claims, Claimants
  <1>3. ASSUME NEW S \in SUBSET Bookings
        PROVE  /\ Seats(S) \in SUBSET (Bookings \X (1..MaxParty))
               /\ Seats(S)' \in SUBSET (Bookings \X (1..MaxParty))
    BY DEF Seats
  <1> QED
    BY <1>1, <1>2, <1>3

\* Steps that let nobody in and insert nothing only make room.
Quiet ==
    /\ kind' = kind
    /\ item' = item
    /\ Kept' \subseteq Kept
    /\ Claimants' \subseteq Claimants
    /\ \A q \in Claimants' : task'[q] = task[q]

LEMMA StepKinds ==
  Sound /\ [Next]_vars =>
      Quiet \/ \E p \in Procs : CheckSeats(p) \/ CheckDays(p) \/ CreateInsert(p)
  <1> SUFFICES ASSUME Sound, [Next]_vars,
                      \A p \in Procs : ~ (CheckSeats(p) \/ CheckDays(p) \/ CreateInsert(p))
               PROVE  Quiet
    OBVIOUS
  <1>1. ASSUME NEW p \in Procs, NEW t, Moved(p, t), t.op # "insert"
        PROVE  Claimants' \subseteq Claimants /\ \A q \in Claimants' : task'[q] = task[q]
    BY <1>1 DEF Claimants, Moved
  <1>2. ASSUME NEW p \in Procs, RequestStep(p) PROVE Quiet
    <2>1. PICK t : Moved(p, t) /\ t.op # "insert"
      <3>1. \A b : /\ [Idle EXCEPT !.op = "check", !.cap = cap].op = "check"
                   /\ [Idle EXCEPT !.op = "confirm", !.booking = b].op = "confirm"
                   /\ [Idle EXCEPT !.op = "reject", !.booking = b].op = "reject"
                   /\ [Idle EXCEPT !.op = "remove"].op = "remove"
                   /\ Idle.op = "idle"
        BY DEF Idle
      <3>2. CASE CreateRead(p)
        BY <3>1, <3>2, StepMoves
      <3>3. CASE \E b \in Bookings : ConfirmRead(p, b) \/ RejectRead(p, b)
        BY <3>1, <3>3, StepMoves
      <3>4. CASE DeleteCheck(p)
        BY <3>1, <3>4, StepMoves
      <3>5. CASE ConfirmWrite(p) \/ RejectWrite(p) \/ DeleteWrite(p) \/ Abort(p)
        BY <3>1, <3>5, StepMoves
      <3> QED
        BY <1>2, <3>2, <3>3, <3>4, <3>5 DEF RequestStep
    <2>2. Claimants' \subseteq Claimants /\ \A q \in Claimants' : task'[q] = task[q]
      BY <1>1, <2>1
    <2>3. kind' = kind /\ item' = item
      BY <1>2 DEF RequestStep, CreateRead, ConfirmRead, RejectRead, ConfirmWrite, RejectWrite,
                  DeleteCheck, DeleteWrite, Abort, product
    <2>4. Kept' \subseteq Kept
      <3>1. CASE ConfirmWrite(p)
        BY <3>1 DEF ConfirmWrite, Kept, Sound, Grounded, TypeOK, Status
      <3>2. CASE RejectWrite(p)
        BY <3>2 DEF RejectWrite, Kept, Sound, Grounded, TypeOK, Status
      <3>3. CASE UNCHANGED <<status, revived>>
        BY <3>3 DEF Kept
      <3> QED
        BY <1>2, <3>1, <3>2, <3>3 DEF RequestStep, CreateRead, ConfirmRead, RejectRead,
              DeleteCheck, DeleteWrite, Abort
    <2> QED
      BY <2>2, <2>3, <2>4 DEF Quiet
  <1>3. ASSUME UNCHANGED <<kind, item, task>>, Kept' \subseteq Kept PROVE Quiet
    BY <1>3 DEF Quiet, Claimants
  <1>4. ASSUME NEW b \in Bookings, Capture(b) \/ Close(b) PROVE Quiet
    <2>1. Kept' \subseteq Kept
      BY <1>4 DEF Capture, Close, Kept, Sound, TypeOK, Status
    <2> QED
      BY <1>3, <1>4, <2>1 DEF Capture, Close, product
  <1>5. CASE EditProduct \/ DeactivateTour \/ UNCHANGED vars
    <2>1. UNCHANGED <<kind, item, task, status, revived>>
      BY <1>5 DEF EditProduct, DeactivateTour, vars, product
    <2>2. Kept' \subseteq Kept
      BY <2>1 DEF Kept
    <2> QED
      BY <1>3, <2>1, <2>2
  <1> QED
    BY <1>2, <1>4, <1>5 DEF Next, Step

-----------------------------------------------------------------------------
(* Seats of a tour *)

LEMMA QuietSeats ==
  ASSUME Sound, SeatInv, Quiet
  PROVE  SeatInv'
  <1>1. Seats(Kept)' \subseteq Seats(Kept)
    BY DEF Seats, Quiet
  <1>2. Claims' \subseteq Claims
    BY DEF Claims, Quiet
  <1>3. Cardinality(Seats(Kept)') <= Cardinality(Seats(Kept))
    BY <1>1, Smaller, Finite, Where
  <1>4. Cardinality(Claims') <= Cardinality(Claims)
    BY <1>2, Smaller, Finite, Where
  <1>5. Seats(Kept) \in SUBSET (Bookings \X (1..MaxParty))
        /\ Seats(Kept)' \in SUBSET (Bookings \X (1..MaxParty))
    BY Where DEF Seats
  <1>6. /\ Cardinality(Seats(Kept)) \in Nat /\ Cardinality(Seats(Kept)') \in Nat
        /\ Cardinality(Claims) \in Nat /\ Cardinality(Claims') \in Nat
        /\ Cardinality(Procs) \in Nat
    BY <1>5, Finite, Where
  <1>7. kind' = kind
    BY DEF Quiet
  <1>8. MaxParty * (Cardinality(Procs) - 1) \in Int /\ MaxCap \in Int
    BY <1>6, ReservationsAssumption
  <1> QED
    BY <1>3, <1>4, <1>6, <1>7, <1>8 DEF SeatInv

\* A party of n is let in.
LEMMA GrantSeats ==
  ASSUME Sound, NEW p \in Procs, CheckSeats(p)
  PROVE  SeatInv'
  <1>1. PICK n \in 1..MaxParty :
          /\ n <= task[p].cap - Booked
          /\ Moved(p, [task[p] EXCEPT !.op = "insert", !.item = [party |-> n, span |-> AnyDay]])
    BY StepMoves
  <1>2. task[p].cap \in 0..MaxCap /\ MaxCap \in Nat /\ MaxParty \in Nat
    BY ReservationsAssumption DEF Sound, TypeOK, Task
  <1>3. UNCHANGED <<kind, status, item, revived>>
    BY DEF CheckSeats, product
  <1>4. Cardinality(Seats(Kept)') + n <= MaxCap
    <2>1. Seats(Kept)' \subseteq Seats(Holding)
      BY <1>3, Where DEF Seats, Kept
    <2>2. Holding \in SUBSET Bookings
      BY DEF Holding
    <2>3. Cardinality(Seats(Kept)') <= Booked
      BY <2>1, <2>2, Smaller, Finite, Where DEF Booked
    <2>4. Cardinality(Seats(Kept)') \in Nat /\ Booked \in Nat
      <3>1. Seats(Kept)' \in SUBSET (Bookings \X (1..MaxParty))
        BY DEF Seats, Kept
      <3> QED
        BY <3>1, Finite, BookedType DEF Sound
    <2> QED
      BY <1>1, <1>2, <2>3, <2>4
  <1>5. Cardinality(Claims') <= MaxParty * (Cardinality(Procs) - 1) + n
    <2> DEFINE mine == {p} \X (1..n)
               others == (Procs \ {p}) \X (1..MaxParty)
    <2>1. task'[p].op = "insert" /\ task'[p].item.party = n
      BY <1>1 DEF Moved, Sound, TypeOK, Task
    <2>2. Claims' \subseteq others \cup mine
      BY <2>1 DEF Claims, Claimants
    <2>3. IsFiniteSet(Procs) /\ IsFiniteSet({p}) /\ Cardinality({p}) = 1
          /\ Cardinality(Procs) \in Nat
      BY ReservationsAssumption, FS_Singleton, FS_CardinalityType
    <2>4. IsFiniteSet(Procs \ {p}) /\ Cardinality(Procs \ {p}) = Cardinality(Procs) - 1
      BY <2>3, FS_RemoveElement
    <2>5. /\ IsFiniteSet(1..n) /\ Cardinality(1..n) = n
          /\ IsFiniteSet(1..MaxParty) /\ Cardinality(1..MaxParty) = MaxParty
      <3>1. n \in Nat
        BY <1>2
      <3> QED
        BY <1>2, <3>1, UpTo
    <2>6. IsFiniteSet(mine) /\ Cardinality(mine) = Cardinality({p}) * Cardinality(1..n)
      BY <2>3, <2>5, FS_Product
    <2>7. IsFiniteSet(others)
          /\ Cardinality(others) = Cardinality(Procs \ {p}) * Cardinality(1..MaxParty)
      BY <2>4, <2>5, FS_Product
    <2>8. Cardinality(Claims') <= Cardinality(others) + Cardinality(mine)
      <3> HIDE DEF mine, others
      <3> QED
        BY <2>2, <2>6, <2>7, Whole
    <2>9. Cardinality(mine) = n
      <3> HIDE DEF mine
      <3> QED
        BY <2>3, <2>5, <2>6
    <2>10. Cardinality(others) = MaxParty * (Cardinality(Procs) - 1)
      <3> HIDE DEF others
      <3> QED
        BY <1>2, <2>3, <2>4, <2>5, <2>7
    <2> HIDE DEF mine, others
    <2> QED
      BY <2>8, <2>9, <2>10
  <1>6. /\ Cardinality(Seats(Kept)') \in Nat /\ Cardinality(Claims') \in Nat
        /\ MaxParty * (Cardinality(Procs) - 1) \in Int
    <2>1. Seats(Kept)' \in SUBSET (Bookings \X (1..MaxParty))
      BY DEF Seats, Kept
    <2>2. Cardinality(Procs) \in Nat
      BY Finite
    <2> QED
      BY <1>2, <2>1, <2>2, Finite, Where
  <1> QED
    BY <1>2, <1>4, <1>5, <1>6 DEF SeatInv

\* The party that was let in is inserted: its claim becomes seats.
LEMMA InsertSeats ==
  ASSUME Sound, SeatInv, NEW p \in Procs, CreateInsert(p)
  PROVE  SeatInv'
  <1>1. PICK b \in Bookings :
          /\ status[b] = "NONE"
          /\ status' = [status EXCEPT ![b] = "REQUESTED"]
          /\ item' = [item EXCEPT ![b] = task[p].item]
    BY DEF CreateInsert
  <1> DEFINE n == task[p].item.party
             mine == {p} \X (1..n)
             hers == {b} \X (1..n)
  <1>2. Moved(p, Idle) /\ Idle.op = "idle" /\ UNCHANGED <<kind, revived>> /\ task[p].op = "insert"
    BY StepMoves DEF CreateInsert, Idle, product
  <1>3. n \in 1..MaxParty /\ MaxParty \in Nat /\ MaxCap \in Nat
    BY ReservationsAssumption DEF Sound, TypeOK, Task, Item
  <1>4. Seats(Kept)' \subseteq Seats(Kept) \cup hers
    BY <1>1, <1>2 DEF Seats, Kept, Sound, TypeOK
  <1>5. Claims' \subseteq Claims /\ Claims' \cap mine = {} /\ mine \subseteq Claims
    BY <1>2, <1>3 DEF Claims, Claimants, Moved
  <1>6. /\ IsFiniteSet(mine) /\ Cardinality(mine) = n
        /\ IsFiniteSet(hers) /\ Cardinality(hers) = n
    <2>1. n \in Nat /\ IsFiniteSet(1..n) /\ Cardinality(1..n) = n
      <3>1. n \in Nat
        <4> HIDE DEF n
        <4> QED
          BY <1>3
      <3> QED
        BY <3>1, UpTo
    <2>2. \A x : IsFiniteSet({x}) /\ Cardinality({x}) = 1
      BY FS_Singleton
    <2>3. \A x : IsFiniteSet({x} \X (1..n)) /\ Cardinality({x} \X (1..n)) = Cardinality({x}) * Cardinality(1..n)
      BY <2>1, <2>2, FS_Product
    <2>4. \A x : IsFiniteSet({x} \X (1..n)) /\ Cardinality({x} \X (1..n)) = n
      <3> HIDE DEF n
      <3>1. ASSUME NEW x PROVE Cardinality({x}) * Cardinality(1..n) = n
        <4>1. Cardinality({x}) = 1
          BY <2>2
        <4>2. Cardinality({x}) * Cardinality(1..n) = 1 * n
          BY <2>1, <4>1, Zenon
        <4> QED
          BY <2>1, <4>2
      <3> QED
        BY <2>3, <3>1, Zenon
    <2> QED
      BY <2>4
  <1>7. /\ IsFiniteSet(Seats(Kept)) /\ Cardinality(Seats(Kept)) \in Nat
        /\ Cardinality(Seats(Kept)') \in Nat
        /\ IsFiniteSet(Claims) /\ Cardinality(Claims) \in Nat /\ Cardinality(Claims') \in Nat
        /\ Cardinality(Procs) \in Nat
    <2>1. Seats(Kept) \in SUBSET (Bookings \X (1..MaxParty))
          /\ Seats(Kept)' \in SUBSET (Bookings \X (1..MaxParty))
      BY DEF Seats, Kept
    <2> QED
      BY <2>1, Finite, Where
  <1> HIDE DEF mine, hers
  <1>8. Cardinality(Seats(Kept)') <= Cardinality(Seats(Kept)) + n
    BY <1>4, <1>6, <1>7, Whole
  <1>9. Cardinality(Claims') + n <= Cardinality(Claims)
    BY <1>5, <1>6, <1>7, Parts
  <1>10. MaxParty * (Cardinality(Procs) - 1) \in Int
    BY <1>3, <1>7
  <1> HIDE DEF n
  <1> QED
    BY <1>2, <1>3, <1>7, <1>8, <1>9, <1>10 DEF SeatInv

LEMMA SeatStep == Sound /\ SeatInv /\ [Next]_vars => SeatInv'
  <1>1. ASSUME Sound, NEW p \in Procs, CheckDays(p) PROVE SeatInv'
    BY <1>1 DEF CheckDays, SeatInv, product
  <1> QED
    BY <1>1, StepKinds, QuietSeats, GrantSeats, InsertSeats

LEMMA SeatInit == Init => SeatInv
  <1> SUFFICES ASSUME Init PROVE SeatInv
    OBVIOUS
  <1>1. Seats(Kept) = {} /\ Claims = {}
    BY DEF Init, Seats, Kept, Claims, Claimants, Idle
  <1>2. IsFiniteSet(Procs) /\ Procs # {} /\ Cardinality(Procs) \in Nat
    BY ReservationsAssumption, FS_CardinalityType
  <1>3. Cardinality(Procs) # 0
    BY <1>2, FS_EmptySet
  <1>4. Cardinality({}) = 0
    BY FS_EmptySet
  <1>5. /\ MaxParty * (Cardinality(Procs) - 1) >= 0 /\ MaxCap \in Nat
        /\ MaxParty * (Cardinality(Procs) - 1) \in Int
    BY <1>2, <1>3, ReservationsAssumption
  <1>6. 0 + 0 <= MaxCap + MaxParty * (Cardinality(Procs) - 1)
    BY <1>5
  <1> QED
    BY <1>1, <1>4, <1>6 DEF SeatInv

-----------------------------------------------------------------------------
(* Days of a vehicle or guide *)

LEMMA DayFinite ==
  ASSUME NEW d
  PROVE  /\ HeldOn(d) \in SUBSET Bookings /\ HeldOn(d)' \in SUBSET Bookings
         /\ ClaimedOn(d) \in SUBSET Procs /\ ClaimedOn(d)' \in SUBSET Procs
         /\ IsFiniteSet(HeldOn(d)) /\ IsFiniteSet(ClaimedOn(d))
         /\ Cardinality(HeldOn(d)) \in Nat /\ Cardinality(HeldOn(d)') \in Nat
         /\ Cardinality(ClaimedOn(d)) \in Nat /\ Cardinality(ClaimedOn(d)') \in Nat
         /\ Cardinality(Procs) \in Nat
  <1>1. /\ HeldOn(d) \in SUBSET Bookings /\ HeldOn(d)' \in SUBSET Bookings
        /\ ClaimedOn(d) \in SUBSET Procs /\ ClaimedOn(d)' \in SUBSET Procs
    BY DEF HeldOn, ClaimedOn, Kept, Claimants
  <1> QED
    BY <1>1, Finite

LEMMA QuietDays ==
  ASSUME Sound, DayInv, Quiet
  PROVE  DayInv'
  <1>1. ASSUME NEW d \in 1..LastDay, kind = "hire"
        PROVE  Cardinality(HeldOn(d)') + Cardinality(ClaimedOn(d)') <= Cardinality(Procs)
    <2>1. HeldOn(d)' \subseteq HeldOn(d)
      BY DEF HeldOn, Quiet
    <2>2. ClaimedOn(d)' \subseteq ClaimedOn(d)
      BY DEF ClaimedOn, Quiet
    <2>3. Cardinality(HeldOn(d)') <= Cardinality(HeldOn(d))
          /\ Cardinality(ClaimedOn(d)') <= Cardinality(ClaimedOn(d))
      BY <2>1, <2>2, Smaller, DayFinite
    <2> QED
      BY <1>1, <2>3, DayFinite DEF DayInv
  <1> QED
    BY <1>1 DEF DayInv, Quiet

\* A party is let in for days nobody holds.
LEMMA GrantDays ==
  ASSUME Sound, DayInv, NEW p \in Procs, CheckDays(p)
  PROVE  DayInv'
  <1>1. PICK s \in Span :
          /\ \A b \in Holding : ~ Overlaps(s, item[b].span)
          /\ Moved(p, [task[p] EXCEPT !.op = "insert", !.item = [party |-> 1, span |-> s]])
    BY StepMoves
  <1>2. UNCHANGED <<kind, status, item, revived>> /\ kind = "hire" /\ task[p].op = "check"
    BY DEF CheckDays, product
  <1>3. task'[p].op = "insert" /\ task'[p].item.span = s
    BY <1>1 DEF Moved, Sound, TypeOK, Task
  <1>4. ASSUME NEW d \in 1..LastDay
        PROVE  Cardinality(HeldOn(d)') + Cardinality(ClaimedOn(d)') <= Cardinality(Procs)
    <2>1. HeldOn(d)' = HeldOn(d)
      BY <1>2 DEF HeldOn, Kept
    <2>2. CASE d \in Nights(s)
      <3>1. HeldOn(d) = {}
        <4>1. ASSUME NEW b \in HeldOn(d) PROVE FALSE
          <5>1. b \in Holding /\ b \in Bookings /\ d \in Nights(item[b].span)
            BY Where DEF HeldOn
          <5>2. item[b].span \in Span
            BY <5>1 DEF Sound, TypeOK, Item
          <5>3. /\ item[b].span.from \in Int /\ item[b].span.to \in Int
                /\ s.from \in Int /\ s.to \in Int
            BY <5>2, ReservationsAssumption DEF Span
          <5> QED
            BY <1>1, <2>2, <5>1, <5>3 DEF Nights, Overlaps
        <4> QED
          BY <4>1
      <3>2. Cardinality(ClaimedOn(d)') <= Cardinality(Procs)
        BY DayFinite, Smaller, ReservationsAssumption
      <3> QED
        BY <2>1, <3>1, <3>2, FS_EmptySet, DayFinite
    <2>3. CASE d \notin Nights(s)
      <3>1. ClaimedOn(d)' \subseteq ClaimedOn(d)
        BY <1>1, <1>3, <2>3 DEF ClaimedOn, Claimants, Moved
      <3>2. Cardinality(ClaimedOn(d)') <= Cardinality(ClaimedOn(d))
        BY <3>1, Smaller, DayFinite
      <3> QED
        BY <1>2, <2>1, <3>2, DayFinite DEF DayInv
    <2> QED
      BY <2>2, <2>3
  <1> QED
    BY <1>4 DEF DayInv

LEMMA InsertDays ==
  ASSUME Sound, DayInv, NEW p \in Procs, CreateInsert(p)
  PROVE  DayInv'
  <1>1. PICK b \in Bookings :
          /\ status[b] = "NONE"
          /\ status' = [status EXCEPT ![b] = "REQUESTED"]
          /\ item' = [item EXCEPT ![b] = task[p].item]
    BY DEF CreateInsert
  <1>2. Moved(p, Idle) /\ Idle.op = "idle" /\ UNCHANGED <<kind, revived>> /\ task[p].op = "insert"
    BY StepMoves DEF CreateInsert, Idle, product
  <1>3. ASSUME NEW d \in 1..LastDay, kind = "hire"
        PROVE  Cardinality(HeldOn(d)') + Cardinality(ClaimedOn(d)') <= Cardinality(Procs)
    <2>1. ClaimedOn(d)' = ClaimedOn(d) \ {p}
      BY <1>2 DEF ClaimedOn, Claimants, Moved
    <2>2. CASE d \in Nights(task[p].item.span)
      <3>1. HeldOn(d)' \subseteq HeldOn(d) \cup {b}
        BY <1>1, <1>2 DEF HeldOn, Kept, Sound, TypeOK
      <3>2. p \in ClaimedOn(d)
        BY <1>2, <2>2 DEF ClaimedOn, Claimants
      <3>3. Cardinality(ClaimedOn(d)') = Cardinality(ClaimedOn(d)) - 1
        BY <2>1, <3>2, FS_RemoveElement, DayFinite
      <3>4. IsFiniteSet({b}) /\ Cardinality({b}) = 1
        BY FS_Singleton
      <3>5. Cardinality(HeldOn(d)') <= Cardinality(HeldOn(d)) + 1
        BY <3>1, <3>4, Whole, DayFinite
      <3> QED
        BY <1>3, <3>3, <3>5, DayFinite DEF DayInv
    <2>3. CASE d \notin Nights(task[p].item.span)
      <3>1. HeldOn(d)' \subseteq HeldOn(d)
        BY <1>1, <1>2, <2>3 DEF HeldOn, Kept, Sound, TypeOK
      <3>2. Cardinality(HeldOn(d)') <= Cardinality(HeldOn(d))
            /\ Cardinality(ClaimedOn(d)') <= Cardinality(ClaimedOn(d))
        BY <2>1, <3>1, Smaller, DayFinite
      <3> QED
        BY <1>3, <3>2, DayFinite DEF DayInv
    <2> QED
      BY <2>2, <2>3
  <1> QED
    BY <1>2, <1>3 DEF DayInv

LEMMA DayStep == Sound /\ DayInv /\ [Next]_vars => DayInv'
  <1>1. ASSUME Sound, NEW p \in Procs, CheckSeats(p) PROVE DayInv'
    BY <1>1 DEF CheckSeats, DayInv, product
  <1> QED
    BY <1>1, StepKinds, QuietDays, GrantDays, InsertDays

LEMMA DayInit == Init => DayInv
  <1> SUFFICES ASSUME Init PROVE DayInv
    OBVIOUS
  <1>1. ASSUME NEW d \in 1..LastDay PROVE HeldOn(d) = {} /\ ClaimedOn(d) = {}
    BY DEF Init, HeldOn, Kept, ClaimedOn, Claimants, Idle
  <1>2. Cardinality(Procs) \in Nat /\ Cardinality({}) = 0
    BY FS_EmptySet, Finite
  <1> QED
    BY <1>1, <1>2 DEF DayInv

-----------------------------------------------------------------------------
(* A hire that is booked is not deleted *)

\* While creations and deletions keep apart: who is about to delete has seen that
\* nothing holds the product, and who creates has seen its row.
OrphanInv ==
    orderly =>
        /\ Calm
        /\ Kept # {} => exists
        /\ (\E p \in Procs : task[p].op = "remove") => Kept = {}
        /\ (\E p \in Procs : task[p].op \in {"check", "insert"}) => exists

LEMMA OrphanStep == Sound /\ OrphanInv /\ [Next]_vars => OrphanInv'
  <1> SUFFICES ASSUME Sound, OrphanInv, [Next]_vars, orderly' PROVE OrphanInv'
    BY DEF OrphanInv
  <1>1. orderly /\ Calm'
    <2>1. CASE Next
      BY <2>1 DEF Next
    <2>2. CASE UNCHANGED vars
      BY <2>2 DEF vars, Calm, OrphanInv
    <2> QED
      BY <2>1, <2>2
  <1>2. /\ Calm
        /\ Kept # {} => exists
        /\ \A p \in Procs : task[p].op = "remove" => Kept = {}
        /\ \A p \in Procs : task[p].op \in {"check", "insert"} => exists
    BY <1>1 DEF OrphanInv
  <1>3. ASSUME NEW p \in Procs, CheckSeats(p) \/ CheckDays(p) PROVE OrphanInv'
    <2>1. task[p].op = "check" /\ UNCHANGED <<exists, status, item, revived>>
      BY <1>3 DEF CheckSeats, CheckDays, product
    <2>2. exists /\ Kept' = Kept
      BY <1>2, <2>1 DEF Kept
    <2>3. PICK t : Moved(p, t) /\ t.op = "insert"
      <3>1. \A i : [task[p] EXCEPT !.op = "insert", !.item = i].op = "insert"
        BY DEF Sound, TypeOK, Task
      <3> QED
        BY <1>3, <3>1, StepMoves
    <2>4. \A q \in Procs : task'[q].op = "remove" => Kept' = {}
      BY <1>2, <2>2, <2>3 DEF Moved
    <2> QED
      BY <1>1, <2>1, <2>2, <2>4 DEF OrphanInv
  <1>4. ASSUME NEW p \in Procs, CreateInsert(p) PROVE OrphanInv'
    <2>1. task[p].op = "insert" /\ UNCHANGED exists /\ Moved(p, Idle) /\ Idle.op = "idle"
      BY <1>4, StepMoves DEF CreateInsert, product, Idle
    <2>2. exists
      BY <1>2, <2>1
    <2>3. \A q \in Procs : task'[q].op # "remove"
      BY <1>2, <2>1 DEF Calm, Moved
    <2> QED
      BY <1>1, <2>1, <2>2, <2>3 DEF OrphanInv
  <1>5. ASSUME Quiet, UNCHANGED exists,
               \A p \in Procs : task'[p].op \in {"check", "remove"} =>
                   \/ task[p].op = task'[p].op
                   \/ task'[p].op = "check" /\ exists
                   \/ task'[p].op = "remove" /\ Kept = {}
        PROVE  OrphanInv'
    <2>1. \A p \in Procs : task'[p].op = "remove" => Kept' = {}
      BY <1>2, <1>5 DEF Quiet
    <2>2. \A p \in Procs : task'[p].op \in {"check", "insert"} => exists'
      BY <1>2, <1>5 DEF Quiet, Claimants
    <2> QED
      BY <1>1, <1>2, <1>5, <2>1, <2>2 DEF OrphanInv, Quiet
  <1>6. ASSUME NEW p \in Procs, DeleteWrite(p) PROVE OrphanInv'
    <2>1. task[p].op = "remove" /\ Kept' = Kept /\ Moved(p, Idle) /\ Idle.op = "idle"
      BY <1>6, StepMoves DEF DeleteWrite, Idle, Kept
    <2>2. Kept' = {}
      BY <1>2, <2>1
    <2>3. \A q \in Procs : task'[q].op \notin {"check", "insert", "remove"}
      BY <1>2, <2>1 DEF Calm, Moved
    <2> QED
      BY <1>1, <2>2, <2>3 DEF OrphanInv
  <1>7. ASSUME Quiet, NEW p \in Procs, RequestStep(p), ~ DeleteWrite(p),
               ~ CheckSeats(p), ~ CheckDays(p), ~ CreateInsert(p)
        PROVE  OrphanInv'
    <2>1. UNCHANGED exists
      BY <1>7 DEF RequestStep, CreateRead, ConfirmRead, RejectRead, ConfirmWrite, RejectWrite,
                  DeleteCheck, Abort, product
    <2>2. PICK t : /\ Moved(p, t)
                   /\ t.op = "check" => exists
                   /\ t.op = "remove" => Kept = {}
      <3>1. \A b : /\ [Idle EXCEPT !.op = "check", !.cap = cap].op = "check"
                   /\ [Idle EXCEPT !.op = "confirm", !.booking = b].op = "confirm"
                   /\ [Idle EXCEPT !.op = "reject", !.booking = b].op = "reject"
                   /\ [Idle EXCEPT !.op = "remove"].op = "remove"
                   /\ Idle.op = "idle"
        BY DEF Idle
      <3>2. CASE CreateRead(p)
        BY <3>1, <3>2, StepMoves DEF CreateRead
      <3>3. CASE \E b \in Bookings : ConfirmRead(p, b) \/ RejectRead(p, b)
        BY <3>1, <3>3, StepMoves
      <3>4. CASE DeleteCheck(p)
        BY <3>1, <3>4, StepMoves, Where DEF DeleteCheck, NoneHolds
      <3>5. CASE ConfirmWrite(p) \/ RejectWrite(p) \/ Abort(p)
        BY <3>1, <3>5, StepMoves
      <3> QED
        BY <1>7, <3>2, <3>3, <3>4, <3>5 DEF RequestStep
    <2>3. \A q \in Procs : task'[q].op \in {"check", "remove"} =>
              \/ task[q].op = task'[q].op
              \/ task'[q].op = "check" /\ exists
              \/ task'[q].op = "remove" /\ Kept = {}
      BY <2>2 DEF Moved
    <2> QED
      BY <1>5, <1>7, <2>1, <2>3
  <1>8. ASSUME Quiet, UNCHANGED <<exists, task>> PROVE OrphanInv'
    BY <1>5, <1>8
  <1>9. ASSUME NEW b \in Bookings, Capture(b) \/ Close(b) PROVE OrphanInv'
    <2>1. exists' = exists /\ task' = task /\ kind' = kind /\ item' = item
      BY <1>9 DEF Capture, Close, product
    <2>2. Kept' \subseteq Kept
      BY <1>9 DEF Capture, Close, Kept, Sound, TypeOK, Status
    <2>3. Quiet
      BY <2>1, <2>2 DEF Quiet, Claimants
    <2> QED
      BY <1>8, <2>1, <2>3
  <1>10. CASE EditProduct \/ DeactivateTour \/ UNCHANGED vars
    <2>1. /\ exists' = exists /\ task' = task /\ kind' = kind /\ item' = item
          /\ status' = status /\ revived' = revived
      <3>1. CASE EditProduct
        BY <3>1 DEF EditProduct
      <3>2. CASE DeactivateTour
        BY <3>2 DEF DeactivateTour
      <3>3. CASE UNCHANGED vars
        BY <3>3 DEF vars, product
      <3> QED
        BY <1>10, <3>1, <3>2, <3>3
    <2>2. Kept' = Kept
      BY <2>1 DEF Kept
    <2>3. Quiet
      BY <2>1, <2>2 DEF Quiet, Claimants
    <2> QED
      BY <1>8, <2>1, <2>3
  <1> QED
    BY <1>3, <1>4, <1>6, <1>7, <1>9, <1>10, StepKinds DEF Next, Step

LEMMA OrphanInit == Init => OrphanInv
  BY DEF Init, OrphanInv, Calm, Kept, Idle

-----------------------------------------------------------------------------
(* The theorems *)

\* All invariants together.
IInv == Sound /\ SeatInv /\ DayInv /\ OrphanInv

\* The strengthened invariant is inductive.
THEOREM Invariance == Spec => []IInv
  <1>1. Init => IInv
    BY SoundInit, SeatInit, DayInit, OrphanInit DEF IInv
  <1>2. IInv /\ [Next]_vars => IInv'
    BY SoundStep, SeatStep, DayStep, OrphanStep DEF IInv
  <1> QED
    BY <1>1, <1>2, PTL DEF Spec

\* Every variable has its type, and a tour's row is never deleted.
THEOREM TypeCorrect == Spec => []TypeOK
  <1>1. IInv => TypeOK
    BY DEF IInv, Sound
  <1> QED
    BY <1>1, Invariance, PTL

\* A tour's seats are oversold by at most one party for each further request.
THEOREM SeatsAreBounded == Spec => []SeatBound
  <1>1. IInv => SeatBound
    <2> SUFFICES ASSUME IInv, kind = "tour"
                 PROVE  Cardinality(Seats(Kept)) <= MaxCap + MaxParty * (Cardinality(Procs) - 1)
      BY DEF SeatBound
    <2>1. /\ Cardinality(Seats(Kept)) \in Nat /\ Cardinality(Claims) \in Nat
          /\ Cardinality(Procs) \in Nat
      <3>1. Seats(Kept) \in SUBSET (Bookings \X (1..MaxParty))
        BY DEF Seats, Kept
      <3> QED
        BY <3>1, Finite, Where
    <2>2. MaxCap + MaxParty * (Cardinality(Procs) - 1) \in Int
      BY <2>1, ReservationsAssumption
    <2>3. Cardinality(Seats(Kept)) + Cardinality(Claims)
            <= MaxCap + MaxParty * (Cardinality(Procs) - 1)
      BY DEF IInv, SeatInv
    <2> QED
      BY <2>1, <2>2, <2>3
  <1> QED
    BY <1>1, Invariance, PTL

\* No day of a vehicle or guide is booked more often than requests run at once.
THEOREM DaysAreBounded == Spec => []DayBound
  <1>1. IInv => DayBound
    <2> SUFFICES ASSUME IInv, kind = "hire", NEW d \in 1..LastDay
                 PROVE  Cardinality(HeldOn(d)) <= Cardinality(Procs)
      BY DEF DayBound, HeldOn
    <2>1. Cardinality(HeldOn(d)) + Cardinality(ClaimedOn(d)) <= Cardinality(Procs)
      BY DEF IInv, DayInv
    <2> QED
      BY <2>1, DayFinite
  <1> QED
    BY <1>1, Invariance, PTL

\* A vehicle or guide that is booked keeps its row.
THEOREM BookedIsKept == Spec => []NoOrphan
  <1>1. IInv => NoOrphan
    BY DEF IInv, OrphanInv, NoOrphan
  <1> QED
    BY <1>1, Invariance, PTL
=============================================================================

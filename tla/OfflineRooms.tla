---------------------------- MODULE OfflineRooms ----------------------------
(***************************************************************************)
(* The bookings of one room type that its provider takes by telephone      *)
(* (OfflineRoomBookingService).  A creation or a change of dates or rooms  *)
(* reads totalRooms, then sums what overlaps, then writes; every change    *)
(* writes back the fields it did not change as it read them.  The online   *)
(* calendar of RoomInventory is another table and is not asked.            *)
(***************************************************************************)
EXTENDS Integers, FiniteSets

CONSTANTS
    Bookings,      \* ids of OfflineRoomBooking rows
    Procs,         \* requests handled at the same time
    MaxRooms,      \* largest totalRooms
    LastDay,       \* days are 1..LastDay
    NoBooking

\* The assumptions about the constants, which Desk makes.
OfflineRoomsAssumption ==
    /\ IsFiniteSet(Bookings)
    /\ IsFiniteSet(Procs) /\ Procs # {}
    /\ MaxRooms \in Nat \ {0}
    /\ LastDay \in Nat \ {0}
    /\ NoBooking \notin Bookings

VARIABLES
    total,         \* HomestayRoom.totalRooms
    row,           \* the OfflineRoomBooking rows; no rooms where there is none
    task           \* the request each process handles

vars == <<total, row, task>>

-----------------------------------------------------------------------------
Stay == {r \in [from : 1..LastDay, to : 1..LastDay + 1, rooms : 0..MaxRooms] : r.from < r.to}

Vacant == [from |-> 1, to |-> 2, rooms |-> 0]

Task == [op : {"idle", "start", "check", "write", "rename", "cancel"},
         booking : Bookings \union {NoBooking},
         stay : Stay,
         total : 0..MaxRooms]

Idle == [op |-> "idle", booking |-> NoBooking, stay |-> Vacant, total |-> 0]

TypeOK ==
    /\ total \in 1..MaxRooms
    /\ row \in [Bookings -> Stay]
    /\ task \in [Procs -> Task]

Init ==
    /\ total = MaxRooms
    /\ row = [b \in Bookings |-> Vacant]
    /\ task = [p \in Procs |-> Idle]

Present == {b \in Bookings : row[b].rooms > 0}

Overlaps(r, s) == r.from < s.to /\ r.to > s.from

\* The rooms of a set of bookings, as a number of keys handed out.
Rooms(S) == Cardinality({k \in S \X (1..MaxRooms) : k[2] <= row[k[1]].rooms})

\* A slip: an update is measured against every other booking of its first day only.
TakenFirstDay(s, b) == Rooms({c \in Present \ {b} : Overlaps(row[c], [s EXCEPT !.to = s.from + 1])})

Taken(s, b) == Rooms({c \in Present \ {b} : Overlaps(row[c], s)})

-----------------------------------------------------------------------------
Begin(p, t) ==
    /\ task[p].op = "idle"
    /\ task' = [task EXCEPT ![p] = t]

End(p) == task' = [task EXCEPT ![p] = Idle]

\* createOfflineBooking, or updateOfflineBooking of a row that is read first.
CreateStart(p) ==
    /\ Begin(p, [Idle EXCEPT !.op = "start"])
    /\ UNCHANGED <<total, row>>

UpdateRead(p, b) ==
    /\ b \in Present
    /\ \/ Begin(p, [Idle EXCEPT !.op = "start", !.booking = b])
       \/ Begin(p, [Idle EXCEPT !.op = "rename", !.booking = b, !.stay = row[b]])
    /\ UNCHANGED <<total, row>>

CapacityRead(p) ==
    /\ task[p].op = "start"
    /\ task' = [task EXCEPT ![p] = [@ EXCEPT !.op = "check", !.total = total]]
    /\ UNCHANGED <<total, row>>

\* A creation asks for any stay, and so does a change of the dates, the rooms or both.
CapacityCheck(p) ==
    /\ task[p].op = "check"
    /\ \E s \in {r \in Stay : r.rooms > 0} :
        /\ Taken(s, task[p].booking) + s.rooms <= task[p].total
        /\ task' = [task EXCEPT ![p] = [@ EXCEPT !.op = "write", !.stay = s]]
    /\ UNCHANGED <<total, row>>

Insert(p) ==
    /\ task[p].op = "write"
    /\ task[p].booking = NoBooking
    /\ \E b \in Bookings \ Present : row' = [row EXCEPT ![b] = task[p].stay]
    /\ End(p)
    /\ UNCHANGED total

\* A change of the guest alone is not checked, and writes the dates and rooms back.
Update(p) ==
    /\ task[p].op \in {"write", "rename"}
    /\ task[p].booking \in Present
    /\ row' = [row EXCEPT ![task[p].booking] = task[p].stay]
    /\ End(p)
    /\ UNCHANGED total

(* deleteOfflineBooking *)

DeleteRead(p, b) ==
    /\ b \in Present
    /\ Begin(p, [Idle EXCEPT !.op = "cancel", !.booking = b])
    /\ UNCHANGED <<total, row>>

Delete(p) ==
    /\ task[p].op = "cancel"
    /\ task[p].booking \in Present
    /\ row' = [row EXCEPT ![task[p].booking] = Vacant]
    /\ End(p)
    /\ UNCHANGED total

\* HomestayService.updateRoom: totalRooms is not compared with the bookings.
EditTotal ==
    /\ total' \in 1..MaxRooms
    /\ UNCHANGED <<row, task>>

\* Refused, or the row is gone, or the statement failed.
Abort(p) ==
    /\ task[p].op # "idle"
    /\ End(p)
    /\ UNCHANGED <<total, row>>

RequestStep(p) ==
    \/ CreateStart(p)
    \/ \E b \in Bookings : UpdateRead(p, b) \/ DeleteRead(p, b)
    \/ CapacityRead(p) \/ CapacityCheck(p)
    \/ Insert(p) \/ Update(p) \/ Delete(p)
    \/ Abort(p)

Next == EditTotal \/ \E p \in Procs : RequestStep(p)

Spec == Init /\ [][Next]_vars

-----------------------------------------------------------------------------
\* Whatever the order of their reads and writes, and of changes of totalRooms, on no
\* night do the provider's bookings take more rooms than the largest totalRooms for
\* each request handled at the time; with one at a time, never more than that total.
NightsCovered ==
    \A d \in 1..LastDay :
        Rooms({b \in Present : row[b].from <= d /\ d < row[b].to})
            <= MaxRooms * Cardinality(Procs)
=============================================================================

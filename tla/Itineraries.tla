----------------------------- MODULE Itineraries ----------------------------
(***************************************************************************)
(* One day of a tour's itinerary and the points of interest shown on it,   *)
(* in their places (ToursService, POIService).  Points are linked and      *)
(* removed one by one and put in order all at once; a link, a reordering   *)
(* and a removal read the day or its rows first and write them later.      *)
(***************************************************************************)
EXTENDS Integers, Functions

CONSTANTS
    Points,        \* ids of POI rows
    Rows,          \* ids of TourItineraryPOI rows of the day
    Procs,         \* requests handled at the same time
    MaxPlace,      \* bound: largest place a point is given
    NoPoint, NoRow

Places == 0..MaxPlace

\* A list of points as the reordering applies it: the last mention of a point counts, so
\* no two points get one place.
Plans == UNION {Injection(D, Places) : D \in (SUBSET Points) \ {{}}}

\* The assumptions about the constants, which Desk makes.
ItinerariesAssumption ==
    /\ MaxPlace \in Nat
    /\ NoPoint \notin Points
    /\ NoRow \notin Rows

VARIABLES
    day,           \* whether the TourItinerary row exists
    points,        \* POI rows that exist
    poi,           \* poiId of each row of the day, NoPoint where there is no row
    place,         \* its order
    task,          \* the request each process handles
    arranged       \* history: the day was put in order and no point was linked since

vars == <<day, points, poi, place, task, arranged>>

-----------------------------------------------------------------------------
\* "lost" is a request whose day, or whose row, was deleted after it looked.
Task == [op : {"idle", "link", "reorder", "remove", "lost"},
         poi : Points \union {NoPoint}, place : Places,
         plan : Plans \union {<<>>}, row : Rows \union {NoRow}]

Idle == [op |-> "idle", poi |-> NoPoint, place |-> 0, plan |-> <<>>, row |-> NoRow]

TypeOK ==
    /\ day \in BOOLEAN
    /\ points \in SUBSET Points
    /\ poi \in [Rows -> Points \union {NoPoint}]
    /\ place \in [Rows -> Places]
    /\ task \in [Procs -> Task]
    /\ arranged \in BOOLEAN

Init ==
    /\ day = FALSE
    /\ points = Points
    /\ poi = [r \in Rows |-> NoPoint]
    /\ place = [r \in Rows |-> 0]
    /\ task = [p \in Procs |-> Idle]
    /\ arranged = TRUE

Shown == {r \in Rows : poi[r] # NoPoint}

\* The day without the rows R, which go with what they refer to.
Without(R) ==
    /\ poi' = [r \in Rows |-> IF r \in R THEN NoPoint ELSE poi[r]]
    /\ place' = [r \in Rows |-> IF r \in R THEN 0 ELSE place[r]]

-----------------------------------------------------------------------------
Begin(p, t) ==
    /\ task[p].op = "idle"
    /\ task' = [task EXCEPT ![p] = t]

End(p) == task' = [task EXCEPT ![p] = Idle]

\* The rows R are gone: a request that was about to delete one of them finds nothing.
Losing(R) ==
    task' = [p \in Procs |-> IF task[p].op = "remove" /\ task[p].row \in R
                             THEN [Idle EXCEPT !.op = "lost"] ELSE task[p]]

\* The unique key on (tourId, dayNumber) lets one request create the day.
AddDay ==
    /\ ~day
    /\ day' = TRUE
    /\ UNCHANGED <<points, poi, place, task, arranged>>

\* The day's rows go with it.  A day that is added again has another id: what was under way
\* for this one fails.
DeleteDay ==
    /\ day
    /\ day' = FALSE
    /\ Without(Rows)
    /\ task' = [p \in Procs |-> IF task[p].op = "idle" THEN Idle
                                ELSE [Idle EXCEPT !.op = "lost"]]
    /\ arranged' = TRUE
    /\ UNCHANGED points

\* deletePOI: the rows that show the point go with it, on every day.
DeletePoint(x) ==
    LET R == {r \in Rows : poi[r] = x} IN
    /\ x \in points
    /\ points' = points \ {x}
    /\ Without(R)
    /\ Losing(R)
    /\ UNCHANGED <<day, arranged>>

\* addPoiToItinerary and POIService.linkToItinerary
LinkRead(p, x, n) ==
    /\ day /\ x \in points
    /\ Begin(p, [Idle EXCEPT !.op = "link", !.poi = x, !.place = n])
    /\ UNCHANGED <<day, points, poi, place, arranged>>

\* The unique key on (itineraryId, poiId, order): another point may have the place.
Free(x, n) == \A r \in Shown : ~(poi[r] = x /\ place[r] = n)

LinkWrite(p, r) ==
    LET x == task[p].poi  n == task[p].place IN
    /\ task[p].op = "link"
    /\ x \in points /\ Free(x, n)
    /\ r \notin Shown
    /\ poi' = [poi EXCEPT ![r] = x]
    /\ place' = [place EXCEPT ![r] = n]
    /\ End(p)
    /\ arranged' = FALSE
    /\ UNCHANGED <<day, points>>

ReorderRead(p, f) ==
    /\ day
    /\ DOMAIN f \subseteq {poi[r] : r \in Shown}
    /\ Begin(p, [Idle EXCEPT !.op = "reorder", !.plan = f])
    /\ UNCHANGED <<day, points, poi, place, arranged>>

\* A slip: places are given to the listed points as if each had one row.
AppliesAnyway(f) == DOMAIN f # {}

\* One updateMany for each listed point: where a point has two rows the second breaks the
\* unique key, and nothing is changed.
Applies(f) ==
    \A r, s \in Shown : poi[r] \in DOMAIN f /\ poi[s] = poi[r] => r = s

\* Listed points that were removed meanwhile are passed over, and points that are not
\* listed keep their places.
ReorderWrite(p) ==
    LET f == task[p].plan IN
    /\ task[p].op = "reorder"
    /\ Applies(f)
    /\ place' = [r \in Rows |-> IF r \in Shown /\ poi[r] \in DOMAIN f
                                THEN f[poi[r]] ELSE place[r]]
    /\ End(p)
    /\ arranged' = (\A r \in Shown : poi[r] \in DOMAIN f)
    /\ UNCHANGED <<day, points, poi>>

RemoveRead(p, r) ==
    /\ r \in Shown
    /\ Begin(p, [Idle EXCEPT !.op = "remove", !.row = r])
    /\ UNCHANGED <<day, points, poi, place, arranged>>

\* delete by id, wherever the row has been put since.
RemoveWrite(p) ==
    /\ task[p].op = "remove"
    /\ Without({task[p].row})
    /\ task' = [q \in Procs |->
            IF q = p THEN Idle
            ELSE IF task[q].op = "remove" /\ task[q].row = task[p].row
                 THEN [Idle EXCEPT !.op = "lost"] ELSE task[q]]
    /\ UNCHANGED <<day, points, arranged>>

\* A statement fails, also on a key or on a row that is gone.
Abort(p) ==
    /\ task[p].op # "idle"
    /\ End(p)
    /\ UNCHANGED <<day, points, poi, place, arranged>>

-----------------------------------------------------------------------------
RequestStep(p) ==
    \/ \E x \in Points, n \in Places : LinkRead(p, x, n)
    \/ \E r \in Rows : LinkWrite(p, r) \/ RemoveRead(p, r)
    \/ \E f \in Plans : ReorderRead(p, f)
    \/ ReorderWrite(p) \/ RemoveWrite(p) \/ Abort(p)

Next ==
    \/ AddDay \/ DeleteDay
    \/ \E x \in Points : DeletePoint(x)
    \/ \E p \in Procs : RequestStep(p)

Spec == Init /\ [][Next]_vars

-----------------------------------------------------------------------------
\* A point is not shown twice in one place, also after a reordering that was decided on
\* before other points were linked or removed; and a day that was put in order as a whole
\* has its points in different places, until another is linked.
PlacesDiffer ==
    \A r, s \in Shown : r # s /\ place[r] = place[s] => poi[r] # poi[s] /\ ~arranged

\* What is shown are points that exist, on a day that exists.
ShownExist == \A r \in Shown : day /\ poi[r] \in points
=============================================================================

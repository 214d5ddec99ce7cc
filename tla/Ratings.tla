------------------------------ MODULE Ratings -------------------------------
(***************************************************************************)
(* The reviews of one tour or homestay and the rating kept with the        *)
(* product.  Every change of a review (ReviewsService; AdminService may    *)
(* delete one as well) is written first; then the reviews are aggregated;  *)
(* then the result is stored.  The average is kept as the sum and number   *)
(* it is made of, and its rounding, which differs between the two          *)
(* services, is left out.                                                  *)
(***************************************************************************)
EXTENDS Integers, FiniteSets

CONSTANTS
    Users,         \* those who may review the product
    Procs,         \* requests handled at the same time
    MaxStars,      \* best rating
    NoUser

\* The assumptions about the constants, which Desk makes.
RatingsAssumption ==
    /\ IsFiniteSet(Users)
    /\ IsFiniteSet(Procs)
    /\ MaxStars \in Nat \ {0}
    /\ NoUser \notin Users

VARIABLES
    stars,         \* Review.rating of each user's review, 0 where there is none
    stored,        \* rating and totalReviews of the product
    task,          \* the request each process handles
    torn           \* history: a result may be stored late, or not at all

vars == <<stars, stored, task, torn>>

-----------------------------------------------------------------------------
Figure == [sum : 0..MaxStars * Cardinality(Users), count : 0..Cardinality(Users)]

Task == [op : {"idle", "post", "edit", "erase", "aggregate", "store"},
         user : Users \union {NoUser},
         figure : Figure]

None == [sum |-> 0, count |-> 0]

Idle == [op |-> "idle", user |-> NoUser, figure |-> None]

TypeOK ==
    /\ stars \in [Users -> 0..MaxStars]
    /\ stored \in Figure
    /\ task \in [Procs -> Task]
    /\ torn \in BOOLEAN

Init ==
    /\ stars = [u \in Users |-> 0]
    /\ stored = None
    /\ task = [p \in Procs |-> Idle]
    /\ torn = FALSE

Reviewers == {u \in Users : stars[u] > 0}

Aggregate == [sum   |-> Cardinality({s \in Users \X (1..MaxStars) : s[2] <= stars[s[1]]}),
              count |-> Cardinality(Reviewers)]

-----------------------------------------------------------------------------
Begin(p, op, u) ==
    /\ task[p].op = "idle"
    /\ task' = [task EXCEPT ![p] = [Idle EXCEPT !.op = op, !.user = u]]

Goto(p, op) == task' = [task EXCEPT ![p] = [@ EXCEPT !.op = op]]

End(p) == task' = [task EXCEPT ![p] = Idle]

(* createReview, updateReview, deleteReview of both services *)

PostRead(p, u) ==
    /\ u \notin Reviewers
    /\ Begin(p, "post", u)
    /\ UNCHANGED <<stars, stored, torn>>

ChangeRead(p, u) ==
    /\ u \in Reviewers
    /\ Begin(p, "edit", u) \/ Begin(p, "erase", u)
    /\ UNCHANGED <<stars, stored, torn>>

\* A slip: the rating is not computed again after a deletion.
FollowingUnlessErased(op) == IF op = "erase" THEN "idle" ELSE "aggregate"

\* What follows the write of the review.
Following(op) == "aggregate"

\* A user has one review of a product: a partial unique index sees to it.
PostWrite(p) ==
    LET u == task[p].user IN
    /\ task[p].op = "post"
    /\ u \notin Reviewers
    /\ \E n \in 1..MaxStars : stars' = [stars EXCEPT ![u] = n]
    /\ Goto(p, Following("post"))
    /\ UNCHANGED <<stored, torn>>

EditWrite(p) ==
    LET u == task[p].user IN
    /\ task[p].op = "edit"
    /\ u \in Reviewers
    /\ \E n \in 1..MaxStars : stars' = [stars EXCEPT ![u] = n]
    /\ Goto(p, Following("edit"))
    /\ UNCHANGED <<stored, torn>>

EraseWrite(p) ==
    LET u == task[p].user IN
    /\ task[p].op = "erase"
    /\ u \in Reviewers
    /\ stars' = [stars EXCEPT ![u] = 0]
    /\ Goto(p, Following("erase"))
    /\ UNCHANGED <<stored, torn>>

(* updateProductRating *)

\* Whoever aggregates alone will store what is true, and so repairs what was torn.
AggregateRead(p) ==
    /\ task[p].op = "aggregate"
    /\ task' = [task EXCEPT ![p] = [@ EXCEPT !.op = "store", !.figure = Aggregate]]
    /\ torn' = \E q \in Procs \ {p} : task[q].op = "store"
    /\ UNCHANGED <<stars, stored>>

Store(p) ==
    /\ task[p].op = "store"
    /\ stored' = task[p].figure
    /\ End(p)
    /\ UNCHANGED <<stars, torn>>

\* Refused, the review is gone, or a statement failed; what was written stays.
Abort(p) ==
    /\ task[p].op # "idle"
    /\ torn' = (torn \/ task[p].op \in {"aggregate", "store"})
    /\ End(p)
    /\ UNCHANGED <<stars, stored>>

RequestStep(p) ==
    \/ \E u \in Users : PostRead(p, u) \/ ChangeRead(p, u)
    \/ PostWrite(p) \/ EditWrite(p) \/ EraseWrite(p)
    \/ AggregateRead(p) \/ Store(p)
    \/ Abort(p)

Next == \E p \in Procs : RequestStep(p)

Spec == Init /\ [][Next]_vars

-----------------------------------------------------------------------------
\* However the changes of reviews overlap: when no request has a rating to compute or
\* to store any more, the product's rating is that of its reviews, unless a request
\* failed after it had written, or two stored what they had computed side by side, and
\* no other has computed it since.
RatingIsTrue ==
    torn \/ stored = Aggregate \/ \E p \in Procs : task[p].op \in {"aggregate", "store"}
=============================================================================

------------------------------- MODULE Labels -------------------------------
(***************************************************************************)
(* The tags of one homestay (addTagsToHomestay, removeTagFromHomestay);    *)
(* its facilities are handled in the same way in a table of their own.     *)
(* "Add" replaces: one transaction deletes the rows there are and inserts  *)
(* those asked for.  At READ COMMITTED the deletion covers the rows that   *)
(* were committed when its statement began and that nobody else deletes    *)
(* first; rows that another transaction commits before this one inserts    *)
(* are left alone, those for the same tags among them.  Where two          *)
(* transactions delete the same row one waits for the other: the waiting   *)
(* is left out, what each of them finds is not.                            *)
(***************************************************************************)
EXTENDS Integers, FiniteSets

CONSTANTS
    Tags,          \* ids of Tag rows
    Procs,         \* requests handled at the same time
    MaxTags        \* most tags of one request

\* The assumptions about the constants, which Desk makes.
LabelsAssumption ==
    /\ IsFiniteSet(Tags)
    /\ IsFiniteSet(Procs) /\ Procs # {}
    /\ MaxTags \in Nat \ {0}

VARIABLES
    tagged,        \* tags for which there is a HomestayTag row
    task           \* the request each process handles

vars == <<tagged, task>>

-----------------------------------------------------------------------------
Request == {T \in SUBSET Tags : T # {} /\ Cardinality(T) <= MaxTags}

\* `doomed` are the rows that the deletion covers, by their tags.
Task == [op : {"idle", "replace", "insert", "remove"},
         tags : SUBSET Tags,
         doomed : SUBSET Tags]

Idle == [op |-> "idle", tags |-> {}, doomed |-> {}]

TypeOK ==
    /\ tagged \in SUBSET Tags
    /\ task \in [Procs -> Task]

Init ==
    /\ tagged = {}
    /\ task = [p \in Procs |-> Idle]

Begin(p, t) ==
    /\ task[p].op = "idle"
    /\ task' = [task EXCEPT ![p] = t]

End(p) == task' = [task EXCEPT ![p] = Idle]

\* Process p is done, and `rows` are deleted: no other deletion covers them any more.
EndDeleting(p, rows) ==
    task' = [q \in Procs |->
               IF q = p THEN Idle ELSE [task[q] EXCEPT !.doomed = @ \ rows]]

\* The homestay, its owner and the tags asked for are looked up first.
ReplaceRead(p, T) ==
    /\ T \in Request
    /\ Begin(p, [Idle EXCEPT !.op = "replace", !.tags = T])
    /\ UNCHANGED tagged

DeleteAll(p) ==
    /\ task[p].op = "replace"
    /\ task' = [task EXCEPT ![p] = [@ EXCEPT !.op = "insert", !.doomed = tagged]]
    /\ UNCHANGED tagged

\* The insertion fails on the key, and the transaction with it, where a row that was
\* committed meanwhile has the same tag.
Commit(p) ==
    LET left == tagged \ task[p].doomed IN
    /\ task[p].op = "insert"
    /\ left \intersect task[p].tags = {}
    /\ tagged' = left \union task[p].tags
    /\ EndDeleting(p, task[p].doomed)

RemoveRead(p, t) ==
    /\ Begin(p, [Idle EXCEPT !.op = "remove", !.tags = {t}])
    /\ UNCHANGED tagged

Remove(p) ==
    /\ task[p].op = "remove"
    /\ task[p].tags \subseteq tagged
    /\ tagged' = tagged \ task[p].tags
    /\ EndDeleting(p, task[p].tags)

\* Refused, a row was missing or in the way, or a statement failed: nothing is kept.
Abort(p) ==
    /\ task[p].op # "idle"
    /\ End(p)
    /\ UNCHANGED tagged

RequestStep(p) ==
    \/ \E T \in Request : ReplaceRead(p, T)
    \/ DeleteAll(p) \/ Commit(p)
    \/ \E t \in Tags : RemoveRead(p, t)
    \/ Remove(p)
    \/ Abort(p)

Next == \E p \in Procs : RequestStep(p)

Spec == Init /\ [][Next]_vars

-----------------------------------------------------------------------------
\* Replacing does replace: however many requests a homestay has seen, its tags are
\* those of at most as many of them as are handled at the same time; with one at a
\* time, of the last one.
FewRequestsRemain ==
    Cardinality(tagged) <= MaxTags * Cardinality(Procs)
=============================================================================

----------------------------- MODULE BucketLists ----------------------------
(***************************************************************************)
(* One bucket list of a customer (BucketListService): items are added,     *)
(* changed and removed while it is a draft; checkout freezes it, so that   *)
(* the items can be booked one by one.  Every handler reads the list with  *)
(* its items, checks its status and then writes one row.  markItemBooked,  *)
(* which would convert the list, is called from nowhere.                   *)
(***************************************************************************)
EXTENDS Integers

CONSTANTS
    Items,         \* ids of BucketListItem rows
    Procs,         \* requests handled at the same time
    MaxQuantity,
    NoItem

\* The assumptions about the constants, which Desk makes.
BucketListsAssumption ==
    /\ MaxQuantity \in Nat \ {0}
    /\ NoItem \notin Items

VARIABLES
    status,        \* BucketList.status, NONE where there is no row
    quantity,      \* of each item, 0 where there is no row
    task,          \* the request each process handles
    orderly        \* history: no removal overlapped a checkout

vars == <<status, quantity, task, orderly>>

-----------------------------------------------------------------------------
Task == [op : {"idle", "add", "update", "remove", "checkout", "delete"},
         item : Items \union {NoItem}]

Idle == [op |-> "idle", item |-> NoItem]

TypeOK ==
    /\ status \in {"NONE", "DRAFT", "PENDING_CHECKOUT"}
    /\ quantity \in [Items -> 0..MaxQuantity]
    /\ task \in [Procs -> Task]
    /\ orderly \in BOOLEAN

Init ==
    /\ status = "NONE"
    /\ quantity = [i \in Items |-> 0]
    /\ task = [p \in Procs |-> Idle]
    /\ orderly = TRUE

Listed == {i \in Items : quantity[i] > 0}

-----------------------------------------------------------------------------
Begin(p, op, i) ==
    /\ task[p].op = "idle"
    /\ task' = [task EXCEPT ![p] = [op |-> op, item |-> i]]

End(p) == task' = [task EXCEPT ![p] = Idle]

\* The id is new; the list is the one followed here.
Create ==
    /\ status = "NONE" /\ Listed = {}
    /\ \A p \in Procs : task[p].op = "idle"
    /\ status' = "DRAFT"
    /\ UNCHANGED <<quantity, task>>

AddRead(p) ==
    /\ status = "DRAFT"
    /\ Begin(p, "add", NoItem)
    /\ UNCHANGED <<status, quantity>>

\* The foreign key keeps items out of a list that is gone.
AddWrite(p) ==
    /\ task[p].op = "add"
    /\ status # "NONE"
    /\ \E i \in Items \ Listed, n \in 1..MaxQuantity : quantity' = [quantity EXCEPT ![i] = n]
    /\ End(p)
    /\ UNCHANGED status

ItemRead(p, i) ==
    /\ status = "DRAFT"
    /\ i \in Listed
    /\ Begin(p, "update", i) \/ Begin(p, "remove", i)
    /\ UNCHANGED <<status, quantity>>

UpdateWrite(p) ==
    /\ task[p].op = "update"
    /\ task[p].item \in Listed
    /\ \E n \in 1..MaxQuantity : quantity' = [quantity EXCEPT ![task[p].item] = n]
    /\ End(p)
    /\ UNCHANGED status

RemoveWrite(p) ==
    /\ task[p].op = "remove"
    /\ task[p].item \in Listed
    /\ quantity' = [quantity EXCEPT ![task[p].item] = 0]
    /\ End(p)
    /\ UNCHANGED status

\* A slip: the items are not looked at.
AnyContent == TRUE

HasItems == Listed # {}

CheckoutRead(p) ==
    /\ status = "DRAFT"
    /\ HasItems
    /\ Begin(p, "checkout", NoItem)
    /\ UNCHANGED <<status, quantity>>

CheckoutWrite(p) ==
    /\ task[p].op = "checkout"
    /\ status # "NONE"
    /\ status' = "PENDING_CHECKOUT"
    /\ End(p)
    /\ UNCHANGED quantity

DeleteRead(p) ==
    /\ status # "NONE"
    /\ Begin(p, "delete", NoItem)
    /\ UNCHANGED <<status, quantity>>

\* The items go with the list.
DeleteWrite(p) ==
    /\ task[p].op = "delete"
    /\ status # "NONE"
    /\ status' = "NONE"
    /\ quantity' = [i \in Items |-> 0]
    /\ End(p)

Abort(p) ==
    /\ task[p].op # "idle"
    /\ End(p)
    /\ UNCHANGED <<status, quantity>>

-----------------------------------------------------------------------------
Calm ==
    \A p, q \in Procs : task[p].op = "remove" => task[q].op # "checkout"

RequestStep(p) ==
    \/ AddRead(p) \/ AddWrite(p)
    \/ \E i \in Items : ItemRead(p, i)
    \/ UpdateWrite(p) \/ RemoveWrite(p)
    \/ CheckoutRead(p) \/ CheckoutWrite(p)
    \/ DeleteRead(p) \/ DeleteWrite(p)
    \/ Abort(p)

Step == Create \/ \E p \in Procs : RequestStep(p)

Next == Step /\ orderly' = (orderly /\ Calm')

Spec == Init /\ [][Next]_vars

-----------------------------------------------------------------------------
\* A list that is up for booking has something in it, and keeps it, unless an item was
\* being removed while the list was being checked out.
PendingHasItems == orderly /\ status = "PENDING_CHECKOUT" => Listed # {}
=============================================================================

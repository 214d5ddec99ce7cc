------------------------------- MODULE Admins -------------------------------
(***************************************************************************)
(* Who is an admin.  AdminService.addRole and removeRole are open to those *)
(* whom the guard takes for admins by its cached copy of their roles.  If  *)
(* a default admin is configured, only that user may take the role from    *)
(* others, and nobody may touch the default admin's.  The last admin is    *)
(* kept by a count that is read before the row is deleted.                 *)
(***************************************************************************)
EXTENDS Integers, FiniteSets

CONSTANTS
    Users,
    Procs,         \* requests handled at the same time
    Nobody

\* The assumptions about the constants, which Desk makes.
AdminsAssumption ==
    /\ IsFiniteSet(Users)
    /\ IsFiniteSet(Procs)
    /\ Nobody \notin Users

VARIABLES
    default,       \* the user with DEFAULT_ADMIN_EMAIL, or Nobody if it is not set
    admins,        \* users with a UserRoleMap row for ADMIN
    cached,        \* users whose cached copy has the role
    task,          \* the request each process handles
    orderly        \* history: no two deletions of the role overlapped

vars == <<default, admins, cached, task, orderly>>

-----------------------------------------------------------------------------
Task == [op : {"idle", "add", "assign", "count", "delete", "forget"}, user : Users \union {Nobody}]

Idle == [op |-> "idle", user |-> Nobody]

TypeOK ==
    /\ default \in Users \union {Nobody}
    /\ admins \in SUBSET Users
    /\ cached \in SUBSET Users
    /\ task \in [Procs -> Task]
    /\ orderly \in BOOLEAN

Init ==
    /\ admins \in (SUBSET Users) \ {{}}
    /\ default \in admins \union {Nobody}
    /\ cached = {}
    /\ task = [p \in Procs |-> Idle]
    /\ orderly = TRUE

-----------------------------------------------------------------------------
Begin(p, op, u) ==
    /\ task[p].op = "idle"
    /\ task' = [task EXCEPT ![p] = [op |-> op, user |-> u]]

Goto(p, op) == task' = [task EXCEPT ![p] = [@ EXCEPT !.op = op]]

End(p) == task' = [task EXCEPT ![p] = Idle]

\* The guard caches the roles it reads; the copy lapses after five minutes.
Recognise(u) ==
    /\ u \in admins
    /\ cached' = cached \union {u}
    /\ UNCHANGED <<default, admins, task>>

CacheLapse(u) ==
    /\ u \in cached
    /\ cached' = cached \ {u}
    /\ UNCHANGED <<default, admins, task>>

MayTouch(a, u) == a \in cached /\ a # u /\ u # default

IsDefaultAdmin(a) == default = Nobody \/ a = default

\* addRole; and assignRole, which gives what role it is asked for and drops no copy.
AddRead(p, a, u) ==
    /\ MayTouch(a, u)
    /\ u \notin admins
    /\ \/ IsDefaultAdmin(a) /\ Begin(p, "add", u)
       \/ Begin(p, "assign", u)
    /\ UNCHANGED <<default, admins, cached>>

AddWrite(p) ==
    /\ task[p].op \in {"add", "assign"}
    /\ task[p].user \notin admins
    /\ admins' = admins \union {task[p].user}
    /\ IF task[p].op = "add" THEN Goto(p, "forget") ELSE End(p)
    /\ UNCHANGED <<default, cached>>

RemoveRead(p, a, u) ==
    /\ MayTouch(a, u)
    /\ IsDefaultAdmin(a)
    /\ Begin(p, "count", u)
    /\ UNCHANGED <<default, admins, cached>>

NotTheLast == Cardinality(admins) > 1

RemoveCount(p) ==
    /\ task[p].op = "count"
    /\ NotTheLast
    /\ Goto(p, "delete")
    /\ UNCHANGED <<default, admins, cached>>

RemoveDelete(p) ==
    /\ task[p].op = "delete"
    /\ admins' = admins \ {task[p].user}
    /\ Goto(p, "forget")
    /\ UNCHANGED <<default, cached>>

\* RedisService.del says nothing of its failures.
Forget(p) ==
    /\ task[p].op = "forget"
    /\ cached' \in {cached \ {task[p].user}, cached}
    /\ End(p)
    /\ UNCHANGED <<default, admins>>

Abort(p) ==
    /\ task[p].op # "idle"
    /\ End(p)
    /\ UNCHANGED <<default, admins, cached>>

-----------------------------------------------------------------------------
Calm == Cardinality({p \in Procs : task[p].op = "delete"}) <= 1

RequestStep(p) ==
    \/ \E a, u \in Users : AddRead(p, a, u) \/ RemoveRead(p, a, u)
    \/ AddWrite(p)
    \/ RemoveCount(p) \/ RemoveDelete(p)
    \/ Forget(p)
    \/ Abort(p)

Step ==
    \/ \E p \in Procs : RequestStep(p)
    \/ \E u \in Users : Recognise(u) \/ CacheLapse(u)

Next == Step /\ orderly' = (orderly /\ Calm')

Spec == Init /\ [][Next]_vars

-----------------------------------------------------------------------------
\* A configured default admin stays one, whoever acts on what stale copy of the roles;
\* and without one there is an admin left as long as no two deletions overlap.
AdminRemains ==
    /\ default # Nobody => default \in admins
    /\ orderly => admins # {}
=============================================================================

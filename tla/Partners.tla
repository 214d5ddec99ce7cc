------------------------------ MODULE Partners ------------------------------
(***************************************************************************)
(* How one user becomes a partner.  Admins invite the user's address by an *)
(* onboarding link (OnboardingService), which the user, or a login with    *)
(* the address, completes: in one transaction a provider is made or        *)
(* extended by the invited types, the roles that go with them are given,   *)
(* and the invite is marked.  Admins also assign and remove roles and      *)
(* verify or suspend the provider (AdminService).  One role goes with each *)
(* type here.  The user is verified, which is the subject of Accounts.     *)
(***************************************************************************)
EXTENDS FiniteSets, Integers

CONSTANTS
    Invites,       \* ids of Onboarding rows for the user's address
    Types,         \* provider types, and the roles that go with them
    Procs,         \* requests handled at the same time
    NoInvite

\* The assumptions about the constants, which Desk makes.
PartnersAssumption ==
    /\ IsFiniteSet(Procs)
    /\ NoInvite \notin Invites

VARIABLES
    invite,        \* the Onboarding rows
    provider,      \* the user's Provider row
    roles,         \* the user's UserRoleMap rows
    task,          \* the request each process handles
    removed,       \* history: roles taken away and not given again
    orderly        \* history: no two requests extended the provider at once

vars == <<invite, provider, roles, task, removed, orderly>>

-----------------------------------------------------------------------------
InviteState == {"NONE", "OPEN", "LAPSED", "DONE"}

ProviderStatus == {"NONE", "PENDING", "ACTIVE", "SUSPENDED"}

Task == [op : {"idle", "invite", "revoke", "resend", "complete", "extend", "assign"},
         invite : Invites \union {NoInvite},
         types : SUBSET Types,         \* to be added
         had : BOOLEAN,                \* the role was there when it was read
         fresh : BOOLEAN,              \* the provider was not
         known : SUBSET Types]         \* its types then

Idle == [op |-> "idle", invite |-> NoInvite, types |-> {},
         had |-> FALSE, fresh |-> FALSE, known |-> {}]

TypeOK ==
    /\ invite \in [Invites -> [state : InviteState, types : SUBSET Types]]
    /\ provider \in [status : ProviderStatus, types : SUBSET Types]
    /\ roles \in SUBSET Types
    /\ task \in [Procs -> Task]
    /\ removed \in SUBSET Types
    /\ orderly \in BOOLEAN

Init ==
    /\ invite = [i \in Invites |-> [state |-> "NONE", types |-> {}]]
    /\ provider = [status |-> "NONE", types |-> {}]
    /\ roles = {}
    /\ task = [p \in Procs |-> Idle]
    /\ removed = {}
    /\ orderly = TRUE

Begin(p, t) ==
    /\ task[p].op = "idle"
    /\ task' = [task EXCEPT ![p] = t]

End(p) == task' = [task EXCEPT ![p] = Idle]

Mark(i, s) == invite' = [invite EXCEPT ![i].state = s]

Others == <<provider, roles, removed>>

-----------------------------------------------------------------------------
(* createOnboardingInvite, resendOnboardingInvite, revokeOnboardingInvite *)

InviteRead(p) ==
    /\ \A i \in Invites : invite[i].state # "OPEN"
    /\ Begin(p, [Idle EXCEPT !.op = "invite"])
    /\ UNCHANGED <<invite, Others>>

InviteInsert(p) ==
    /\ task[p].op = "invite"
    /\ \E i \in Invites, T \in (SUBSET Types) \ {{}} :
        /\ invite[i].state = "NONE"
        /\ invite' = [invite EXCEPT ![i] = [state |-> "OPEN", types |-> T]]
    /\ End(p)
    /\ UNCHANGED Others

ReviseRead(p, i) ==
    /\ invite[i].state \in {"OPEN", "LAPSED"}
    /\ \E op \in {"revoke", "resend"} :
        Begin(p, [Idle EXCEPT !.op = op, !.invite = i])
    /\ UNCHANGED <<invite, Others>>

\* Only the date is written: what was completed meanwhile stays completed.
ReviseWrite(p) ==
    LET i == task[p].invite IN
    /\ task[p].op \in {"revoke", "resend"}
    /\ Mark(i, IF invite[i].state = "DONE" THEN "DONE"
               ELSE IF task[p].op = "revoke" THEN "LAPSED" ELSE "OPEN")
    /\ End(p)
    /\ UNCHANGED Others

Lapse(i) ==
    /\ invite[i].state = "OPEN"
    /\ Mark(i, "LAPSED")
    /\ UNCHANGED <<task, Others>>

-----------------------------------------------------------------------------
(* completeOnboarding, checkAndCompleteOnboardingByEmail: the invite is not *)
(* looked at again in the transaction of createProviderForUser              *)

CompleteRead(p, i) ==
    /\ invite[i].state = "OPEN"
    /\ Begin(p, [Idle EXCEPT !.op = "complete", !.invite = i, !.types = invite[i].types])
    /\ UNCHANGED <<invite, Others>>

Look(t) == [t EXCEPT !.fresh = (provider.status = "NONE"), !.known = provider.types]

ProviderRead(p) ==
    /\ task[p].op = "complete"
    /\ task' = [task EXCEPT ![p] = [Look(@) EXCEPT !.op = "extend"]]
    /\ UNCHANGED <<invite, Others>>

\* The insertion fails if the user has got a provider meanwhile; an update writes the
\* types back as they were read.
Extend(t) ==
    /\ t.fresh => provider.status = "NONE"
    /\ provider' = [status |-> IF t.fresh THEN "PENDING" ELSE provider.status,
                    types  |-> t.known \union t.types]

Give(T) ==
    /\ roles' = roles \union T
    /\ removed' = removed \ T

\* A slip: only a new provider is given the roles.
GiveFresh(t) == IF t.fresh THEN Give(t.types) ELSE UNCHANGED <<roles, removed>>

GiveAll(t) == Give(t.types)

CompleteCommit(p) ==
    /\ task[p].op = "extend"
    /\ Extend(task[p])
    /\ GiveAll(task[p])
    /\ Mark(task[p].invite, "DONE")
    /\ End(p)

-----------------------------------------------------------------------------
(* assignRole, removeRole, verifyProvider, suspendProvider *)

AssignRead(p, t) ==
    /\ Begin(p, Look([Idle EXCEPT !.op = "assign", !.types = {t}, !.had = (t \in roles)]))
    /\ UNCHANGED <<invite, Others>>

AssignCommit(p) ==
    LET t == task[p] IN
    /\ t.op = "assign"
    /\ IF t.had THEN UNCHANGED <<roles, removed>>
       ELSE t.types \intersect roles = {} /\ Give(t.types)
    /\ Extend(t)
    /\ End(p)
    /\ UNCHANGED invite

RemoveRole(t) ==
    /\ roles' = roles \ {t}
    /\ removed' = removed \union ({t} \intersect roles)
    /\ UNCHANGED <<invite, provider, task>>

Judge ==
    /\ provider.status # "NONE"
    /\ \E s \in {"ACTIVE", "SUSPENDED"} : provider' = [provider EXCEPT !.status = s]
    /\ UNCHANGED <<invite, roles, task, removed>>

Abort(p) ==
    /\ task[p].op # "idle"
    /\ End(p)
    /\ UNCHANGED <<invite, Others>>

-----------------------------------------------------------------------------
Calm == Cardinality({p \in Procs : task[p].op \in {"extend", "assign"}}) <= 1

RequestStep(p) ==
    \/ InviteRead(p) \/ InviteInsert(p)
    \/ \E i \in Invites : ReviseRead(p, i) \/ CompleteRead(p, i)
    \/ ReviseWrite(p)
    \/ ProviderRead(p) \/ CompleteCommit(p)
    \/ \E t \in Types : AssignRead(p, t)
    \/ AssignCommit(p)
    \/ Abort(p)

Step ==
    \/ \E p \in Procs : RequestStep(p)
    \/ \E i \in Invites : Lapse(i)
    \/ \E t \in Types : RemoveRole(t)
    \/ Judge

Next == Step /\ orderly' = (orderly /\ Calm')

Spec == Init /\ [][Next]_vars

-----------------------------------------------------------------------------
\* A completed invite was worth something, however it was completed, revoked, sent
\* again or overtaken: the user has a provider and the invited roles, but for those an
\* admin took away; and, while no two requests extended the provider at the same time,
\* the provider is of the invited types.
InvitesHonoured ==
    \A i \in Invites : invite[i].state = "DONE" =>
        /\ provider.status # "NONE"
        /\ invite[i].types \subseteq roles \union removed
        /\ orderly => invite[i].types \subseteq provider.types
=============================================================================

------------------------------- MODULE Resets -------------------------------
(***************************************************************************)
(* The password reset links of one user (AuthService.requestPasswordReset  *)
(* and resetPassword).  The user row holds the hash of one token and its   *)
(* expiry; a request overwrites both and mails the token, a reset looks    *)
(* for the token, hashes the new password and then writes the row by id,   *)
(* which clears whatever token it holds by then.  So does an admin who     *)
(* sets the password (AdminService.setUserPassword).                       *)
(***************************************************************************)
EXTENDS Integers

CONSTANTS
    Tokens,        \* random tokens, each made for one request
    Procs,         \* requests handled at the same time
    NoToken

\* The assumptions about the constants, which Desk makes.
ResetsAssumption == NoToken \notin Tokens

VARIABLES
    token,         \* User.resetToken (as what its hash is of)
    ahead,         \* User.resetTokenExpire is in the future
    mailed,        \* tokens the user has been sent
    task,          \* the request each process handles
    newest,        \* history: the token that was written last, and no admin has cleared
    spent,         \* history: tokens a password was set with, by the request that did
    orderly        \* history: no reset overlapped a request or another reset

vars == <<token, ahead, mailed, task, newest, spent, orderly>>

-----------------------------------------------------------------------------
Task == [op : {"idle", "request", "mail", "reset"}, token : Tokens \union {NoToken}]

Idle == [op |-> "idle", token |-> NoToken]

TypeOK ==
    /\ token \in Tokens \union {NoToken}
    /\ ahead \in BOOLEAN
    /\ mailed \in SUBSET Tokens
    /\ task \in [Procs -> Task]
    /\ newest \in Tokens \union {NoToken}
    /\ spent \in SUBSET (Tokens \X Procs)
    /\ orderly \in BOOLEAN

Init ==
    /\ token = NoToken /\ ahead = FALSE /\ mailed = {}
    /\ task = [p \in Procs |-> Idle]
    /\ newest = NoToken /\ spent = {} /\ orderly = TRUE

-----------------------------------------------------------------------------
Begin(p, op, t) ==
    /\ task[p].op = "idle"
    /\ task' = [task EXCEPT ![p] = [op |-> op, token |-> t]]

End(p) == task' = [task EXCEPT ![p] = Idle]

\* A token that nobody was given, and no request holds.
Unused(t) ==
    /\ t \notin mailed /\ t # token /\ t # newest
    /\ \A p \in Procs : task[p].token # t

RequestRead(p, t) ==
    /\ Unused(t)
    /\ Begin(p, "request", t)
    /\ UNCHANGED <<token, ahead, mailed, newest, spent>>

RequestWrite(p) ==
    /\ task[p].op = "request"
    /\ token' = task[p].token /\ ahead' = TRUE
    /\ newest' = task[p].token
    /\ task' = [task EXCEPT ![p].op = "mail"]
    /\ UNCHANGED <<mailed, spent>>

RequestMail(p) ==
    /\ task[p].op = "mail"
    /\ mailed' = mailed \union {task[p].token}
    /\ End(p)
    /\ UNCHANGED <<token, ahead, newest, spent>>

\* A slip: the expiry alone is looked at.
AnySent(t) == ahead

Valid(t) == t = token /\ ahead

ResetRead(p, t) ==
    /\ t \in mailed
    /\ Valid(t)
    /\ Begin(p, "reset", t)
    /\ UNCHANGED <<token, ahead, mailed, newest, spent>>

\* A slip: the used token stays in the row.
Kept == token

Cleared == NoToken

\* update({ where: { id } }): neither the token nor its expiry is looked at again.
ResetWrite(p) ==
    /\ task[p].op = "reset"
    /\ token' = Cleared /\ ahead' = FALSE
    /\ spent' = spent \union {<<task[p].token, p>>}
    /\ End(p)
    /\ UNCHANGED <<mailed, newest>>

SetUserPassword ==
    /\ token' = Cleared /\ ahead' = FALSE
    /\ newest' = NoToken
    /\ UNCHANGED <<mailed, task, spent>>

\* The hour is over.
Lapse ==
    /\ ahead
    /\ ahead' = FALSE
    /\ UNCHANGED <<token, mailed, task, newest, spent>>

Abort(p) ==
    /\ task[p].op # "idle"
    /\ End(p)
    /\ UNCHANGED <<token, ahead, mailed, newest, spent>>

-----------------------------------------------------------------------------
Calm ==
    \A p, q \in Procs : task[p].op = "reset" =>
        task[q].op # "request" /\ (p # q => task[q].op # "reset")

RequestStep(p) ==
    \/ \E t \in Tokens : RequestRead(p, t) \/ ResetRead(p, t)
    \/ RequestWrite(p) \/ RequestMail(p) \/ ResetWrite(p) \/ Abort(p)

Step == SetUserPassword \/ Lapse \/ \E p \in Procs : RequestStep(p)

Next == Step /\ orderly' = (orderly /\ Calm')

Spec == Init /\ [][Next]_vars

-----------------------------------------------------------------------------
Spent(t) == \E p \in Procs : <<t, p>> \in spent

\* The token in the row is the one written last, and no password was set with it: a spent
\* link never comes back, however requests and resets overlap.
TokenIsUnspent == token # NoToken => token = newest /\ ~Spent(token)

\* While requests keep apart, the link sent last works until it is used, lapses or gives way
\* to a password set by an admin: no other reset clears it.
NewestWorks == orderly /\ newest # NoToken /\ ~Spent(newest) => token = newest

\* Nor does a link set the password twice then.
SpentOnce ==
    orderly => \A t \in Tokens, p, q \in Procs : <<t, p>> \in spent /\ <<t, q>> \in spent => p = q
=============================================================================

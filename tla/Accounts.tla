------------------------------ MODULE Accounts ------------------------------
(***************************************************************************)
(* User accounts, their sessions and the cache the guard answers from:     *)
(* AuthService, UsersService and AdminService.updateUser / setUserPassword.*)
(*                                                                         *)
(* A request is a process in Procs.  Between its statements (Postgres or   *)
(* Redis) any other request may run, and it may break off after each of    *)
(* them.  What is left of a handler is named by the operation it does      *)
(* next: "flushEnd" drops the cache entry and then ends the sessions.      *)
(*                                                                         *)
(* A one-time code is identified with the address it was mailed to.  The   *)
(* password, the refresh token whose hash makes a session usable and the   *)
(* profile are left out, and anybody may hold an access token.  Roles are  *)
(* in Partners.                                                            *)
(***************************************************************************)
EXTENDS Naturals

CONSTANTS
    Users, Mails,
    Sessions,      \* ids of Session rows
    Procs,         \* requests the server handles at the same time
    NoUser, NoMail

ASSUME AccountsAssumption ==
    /\ NoUser \notin Users
    /\ NoMail \notin Mails

VARIABLES
    known,         \* users that have a row
    deleted,       \* User.isDeleted
    disabled,      \* User.isDisabled
    verified,      \* User.isVerified
    mail,          \* User.email
    code,          \* address of the unexpired one-time code, if there is one
    cached,        \* users whose entry auth:user:<id> is in Redis
    sess,          \* the Session rows that have not expired
    task,          \* the request each process handles
    proof,         \* history: the address last shown to belong to the user
    late,          \* history: users whose entry was stored after their deletion
    kept,          \* history: deleted users whose entry Redis failed to drop
    cut,           \* history: users for whom a change broke off half way
    crossed        \* history: users two requests worked on at a time

row     == <<known, deleted, disabled>>
address == <<mail, code, verified, proof>>
access  == <<cached, sess>>
vars    == <<known, deleted, disabled, verified, mail, code, cached, sess, task,
             proof, late, kept, cut, crossed>>

-----------------------------------------------------------------------------
\* Reads that led to a write still to come, and what follows the writes.
Entry == {"idle", "fill", "in"}
Reads == {"open", "ask", "code", "verify", "vouch", "link", "mark", "email", "delete",
          "disable", "enable", "edit"}
Flushes == {"flush", "flushEnd", "flushEndAsk", "flushOpen"}
Ends    == {"end", "endAsk"}

Ops     == Entry \union Reads \union Flushes \union Ends

Task == [op : Ops,
         user : Users \union {NoUser},
         mail : Mails \union {NoMail}]

Idle == [op |-> "idle", user |-> NoUser, mail |-> NoMail]

\* A Session row.  `barred` is history: the account was deleted or disabled when
\* the row was made.
Row == [user : Users, barred : BOOLEAN]

NoRow == [user |-> NoUser]

TypeOK ==
    /\ known \in SUBSET Users
    /\ deleted \in SUBSET Users
    /\ disabled \in SUBSET Users
    /\ verified \in SUBSET Users
    /\ mail \in [Users -> Mails \union {NoMail}]
    /\ code \in [Users -> Mails \union {NoMail}]
    /\ proof \in [Users -> Mails \union {NoMail}]
    /\ cached \in SUBSET Users
    /\ sess \in [Sessions -> Row \union {NoRow}]
    /\ task \in [Procs -> Task]
    /\ late \in SUBSET Users
    /\ kept \in SUBSET Users
    /\ cut \in SUBSET Users
    /\ crossed \in SUBSET Users
    /\ known = {u \in Users : mail[u] \in Mails}

Init ==
    /\ known = {} /\ deleted = {} /\ disabled = {} /\ verified = {}
    /\ mail = [u \in Users |-> NoMail]
    /\ code = [u \in Users |-> NoMail]
    /\ proof = [u \in Users |-> NoMail]
    /\ cached = {}
    /\ sess = [s \in Sessions |-> NoRow]
    /\ task = [p \in Procs |-> Idle]
    /\ late = {} /\ kept = {} /\ cut = {} /\ crossed = {}

Begin(p, op, u, m) ==
    /\ task[p].op = "idle"
    /\ task' = [task EXCEPT ![p] = [op |-> op, user |-> u, mail |-> m]]

Goto(p, op) == task' = [task EXCEPT ![p].op = op]

\* The address that was read is of no more use.
Then(p, op) == task' = [task EXCEPT ![p] = [@ EXCEPT !.op = op, !.mail = NoMail]]

End(p) == task' = [task EXCEPT ![p] = Idle]

\* The address is nobody else's: User.email is unique.
Free(m, u) == \A v \in known \ {u} : mail[v] # m

-----------------------------------------------------------------------------
(* validateUserByToken, before every request that needs a user *)

GuardHit(p, u) ==
    /\ u \in cached
    /\ Begin(p, "in", u, NoMail)
    /\ UNCHANGED <<row, address, access, late, kept, cut>>

\* A slip: the row is taken as it is.
AdmitsAll(u) == u \in known

Admits(u) == u \in known \ deleted

\* There is no entry, or Redis failed to read it.
GuardRead(p, u) ==
    /\ Admits(u)
    /\ Begin(p, "fill", u, NoMail)
    /\ UNCHANGED <<row, address, access, late, kept, cut>>

GuardFill(p) ==
    LET u == task[p].user IN
    /\ task[p].op = "fill"
    /\ cached' = cached \union {u}
    /\ late' = IF u \in deleted THEN late \union {u} ELSE late
    /\ Goto(p, "in")
    /\ UNCHANGED <<row, address, sess, kept, cut>>

\* RedisService.set says nothing of its failures.
GuardFillFails(p) ==
    /\ task[p].op = "fill"
    /\ Goto(p, "in")
    /\ UNCHANGED <<row, address, access, late, kept, cut>>

-----------------------------------------------------------------------------
(* What handlers end with *)

\* A slip: the entry is left to expire.
LeftToExpire(u) == cached

Forgotten(u) == cached \ {u}

AfterFlush == [flush |-> "idle", flushEnd |-> "end", flushEndAsk |-> "endAsk", flushOpen |-> "open"]

GoOn(p) == IF task[p].op = "flush" THEN End(p) ELSE Goto(p, AfterFlush[task[p].op])

Flush(p) ==
    LET u == task[p].user IN
    /\ task[p].op \in Flushes
    /\ cached' = Forgotten(u)
    /\ late' = late \ {u} /\ kept' = kept \ {u}
    /\ GoOn(p)
    /\ UNCHANGED <<row, address, sess, cut>>

\* RedisService.del says nothing of its failures either: the handler goes on.
FlushFails(p) ==
    /\ task[p].op \in Flushes
    /\ kept' = kept \union ({task[p].user} \intersect cached \intersect deleted)
    /\ GoOn(p)
    /\ UNCHANGED <<row, address, access, late, cut>>

EndSessions(p) ==
    /\ task[p].op \in Ends
    /\ sess' = [s \in Sessions |-> IF sess[s].user = task[p].user THEN NoRow ELSE sess[s]]
    /\ IF task[p].op = "end" THEN End(p) ELSE Goto(p, "ask")
    /\ UNCHANGED <<row, address, cached, late, kept, cut>>

\* Storing the hash of the refresh token then fails when the row is gone (Abort).
OpenSession(p) ==
    LET u == task[p].user IN
    /\ task[p].op = "open"
    /\ \E s \in Sessions :
        /\ sess[s] = NoRow
        /\ sess' = [sess EXCEPT ![s] = [user |-> u, barred |-> u \in deleted \union disabled]]
    /\ End(p)
    /\ UNCHANGED <<row, address, cached, late, kept, cut>>

-----------------------------------------------------------------------------
(* requestOtp and verifyOtp *)

\* The code goes to the address the row was found by.
RequestOtpRead(p, u) ==
    /\ u \in known \ verified
    /\ Begin(p, "code", u, mail[u])
    /\ UNCHANGED <<row, address, access, late, kept, cut>>

\* The same, called by updateUserDetails with the new address.
AskOtp(p) ==
    LET u == task[p].user IN
    /\ task[p].op = "ask"
    /\ IF mail[u] = task[p].mail /\ u \notin verified THEN Goto(p, "code") ELSE End(p)
    /\ UNCHANGED <<row, address, access, late, kept, cut>>

RequestOtpWrite(p) ==
    /\ task[p].op = "code"
    /\ code' = [code EXCEPT ![task[p].user] = task[p].mail]
    /\ End(p)
    /\ UNCHANGED <<row, mail, verified, proof, access, late, kept, cut>>

\* Whoever reads mail at that address enters the code, with the account's address.
VerifyOtpRead(p, u) ==
    /\ u \in known
    /\ code[u] # NoMail
    /\ Begin(p, "verify", u, code[u])
    /\ UNCHANGED <<row, address, access, late, kept, cut>>

Verify(u, m) ==
    /\ verified' = verified \union {u}
    /\ proof' = [proof EXCEPT ![u] = m]

\* Neither isDeleted nor isDisabled is looked at.
VerifyOtpWrite(p) ==
    LET u == task[p].user IN
    /\ task[p].op = "verify"
    /\ Verify(u, task[p].mail)
    /\ code' = [code EXCEPT ![u] = NoMail]
    /\ Then(p, "open")
    /\ UNCHANGED <<row, mail, access, late, kept, cut>>

-----------------------------------------------------------------------------
(* signUp, signIn, logout, googleAuth *)

NewRow(u, m) ==
    /\ u \notin known
    /\ Free(m, u)
    /\ known' = known \union {u}
    /\ mail' = [mail EXCEPT ![u] = m]

SignUp(p, u, m) ==
    /\ NewRow(u, m)
    /\ code' = [code EXCEPT ![u] = m]
    /\ Begin(p, "open", u, NoMail)
    /\ UNCHANGED <<deleted, disabled, verified, proof, access, late, kept, cut>>

SignInRead(p, u) ==
    /\ u \in known \ (deleted \union disabled)
    /\ Begin(p, "open", u, NoMail)
    /\ UNCHANGED <<row, address, access, late, kept, cut>>

\* The session named by the cookie, if it is the user's; then the cache entry.
Logout(p) ==
    /\ task[p].op = "in"
    /\ \E S \in SUBSET {s \in Sessions : sess[s].user = task[p].user} :
        /\ \A s, t \in S : s = t
        /\ sess' = [s \in Sessions |-> IF s \in S THEN NoRow ELSE sess[s]]
    /\ Goto(p, "flush")
    /\ UNCHANGED <<row, address, cached, late, kept, cut>>

GoogleSignIn(p, u) ==
    /\ u \in known \ (deleted \union disabled)
    /\ Begin(p, "flushOpen", u, NoMail)
    /\ UNCHANGED <<row, address, access, late, kept, cut>>

GoogleSignUp(p, u, m) ==
    /\ NewRow(u, m)
    /\ Verify(u, m)
    /\ Begin(p, "flushOpen", u, NoMail)
    /\ UNCHANGED <<deleted, disabled, code, access, late, kept, cut>>

\* A Google identity that is not known yet is linked to the account with its
\* address; isDisabled is not looked at.
GoogleLinkRead(p, u) ==
    /\ u \in known \ deleted
    /\ Begin(p, "link", u, mail[u])
    /\ UNCHANGED <<row, address, access, late, kept, cut>>

\* The row AuthIdentity, which no other step reads.
GoogleLink(p) ==
    /\ task[p].op = "link"
    /\ Goto(p, "mark")
    /\ UNCHANGED <<row, address, access, late, kept, cut>>

GoogleMark(p) ==
    /\ task[p].op = "mark"
    /\ Verify(task[p].user, task[p].mail)
    /\ Then(p, "flushOpen")
    /\ UNCHANGED <<row, mail, code, access, late, kept, cut>>

-----------------------------------------------------------------------------
(* The user's own account *)

\* updateProfile changes nothing of this model but the cache entry.
UpdateProfile(p) ==
    /\ task[p].op = "in"
    /\ task[p].user \notin deleted
    /\ Goto(p, "flush")
    /\ UNCHANGED <<row, address, access, late, kept, cut>>

UpdateDetailsRead(p, m) ==
    LET u == task[p].user IN
    /\ task[p].op = "in"
    /\ u \notin deleted
    /\ \A v \in known \ deleted : v # u => mail[v] # m
    /\ task' = [task EXCEPT ![p] = [@ EXCEPT !.op = "email", !.mail = m]]
    /\ UNCHANGED <<row, address, access, late, kept, cut>>

\* The code of the former address stays until requestOtp overwrites it.
UpdateDetailsWrite(p) ==
    LET u == task[p].user IN
    /\ task[p].op = "email"
    /\ u \notin deleted
    /\ Free(task[p].mail, u)
    /\ mail' = [mail EXCEPT ![u] = task[p].mail]
    /\ verified' = verified \ {u}
    /\ Goto(p, "flushEndAsk")
    /\ UNCHANGED <<row, code, proof, access, late, kept, cut>>

\* deleteAccount, when the user has no open booking.
DeleteAccountRead(p) ==
    /\ task[p].op = "in"
    /\ Goto(p, "delete")
    /\ UNCHANGED <<row, address, access, late, kept, cut>>

-----------------------------------------------------------------------------
(* An admin's requests about user u *)

DeleteUserRead(p, u) ==
    /\ u \in known
    /\ Begin(p, "delete", u, NoMail)
    /\ UNCHANGED <<row, address, access, late, kept, cut>>

DeleteWrite(p) ==
    /\ task[p].op = "delete"
    /\ deleted' = deleted \union {task[p].user}
    /\ Goto(p, "flushEnd")
    /\ UNCHANGED <<known, disabled, address, access, late, kept, cut>>

\* toggleUserStatus writes the opposite of what it read.
ToggleRead(p, u) ==
    /\ u \in known
    /\ Begin(p, IF u \in disabled THEN "enable" ELSE "disable", u, NoMail)
    /\ UNCHANGED <<row, address, access, late, kept, cut>>

ToggleWrite(p) ==
    LET u == task[p].user IN
    /\ \/ task[p].op = "disable" /\ disabled' = disabled \union {u} /\ Goto(p, "flushEnd")
       \/ task[p].op = "enable" /\ disabled' = disabled \ {u} /\ Goto(p, "flush")
    /\ UNCHANGED <<known, deleted, address, access, late, kept, cut>>

VerifyUserRead(p, u) ==
    /\ u \in known \ verified
    /\ Begin(p, "vouch", u, mail[u])
    /\ UNCHANGED <<row, address, access, late, kept, cut>>

VerifyUserWrite(p) ==
    LET u == task[p].user IN
    /\ task[p].op = "vouch"
    /\ Verify(u, task[p].mail)
    /\ code' = [code EXCEPT ![u] = NoMail]
    /\ End(p)
    /\ UNCHANGED <<row, mail, access, late, kept, cut>>

UpdateUserRead(p, u) ==
    /\ u \in known
    /\ Begin(p, "edit", u, mail[u])
    /\ UNCHANGED <<row, address, access, late, kept, cut>>

\* A slip: a field that is left out is written as well.
WritesAnyway(u, m) == [mail EXCEPT ![u] = m]

MailAfter(u, m) == IF m = NoMail THEN mail ELSE [mail EXCEPT ![u] = m]

\* Slips: the code of the former address is kept, or only a new address logs out.
KeepsCode(u, changed) == code
EndsIfMoved(off, changed) == changed

CodeAfter(u, changed) == IF changed THEN [code EXCEPT ![u] = NoMail] ELSE code

EndsAccess(off, changed) == off \/ changed

\* Each field is given or left out (isDisabled and isVerified: `off` and `ok`
\* are the values afterwards; m = NoMail: no address given).  A new address
\* overrides isVerified.
UpdateUserWrite(p) ==
    LET u == task[p].user IN
    /\ task[p].op = "edit"
    /\ \E off, ok \in BOOLEAN, m \in Mails \union {NoMail} :
        LET changed == m \notin {NoMail, task[p].mail} IN
        /\ m # NoMail => Free(m, u)
        /\ mail' = MailAfter(u, m)
        /\ disabled' = IF off THEN disabled \union {u} ELSE disabled \ {u}
        /\ code' = CodeAfter(u, changed)
        /\ IF ok /\ ~ changed
             THEN IF u \in verified THEN UNCHANGED <<verified, proof>>
                  ELSE Verify(u, task[p].mail)
             ELSE verified' = verified \ {u} /\ UNCHANGED proof
        /\ Then(p, IF EndsAccess(off, changed) THEN "flushEnd" ELSE "flush")
    /\ UNCHANGED <<known, deleted, access, late, kept, cut>>

\* The new password is none of this model's.
SetUserPassword(p, u) ==
    /\ u \in known \ deleted
    /\ Begin(p, "flushEnd", u, NoMail)
    /\ UNCHANGED <<row, address, access, late, kept, cut>>

-----------------------------------------------------------------------------
(* Time, failures *)

CacheLapse(u) ==
    /\ u \in cached
    /\ cached' = cached \ {u}
    /\ late' = late \ {u} /\ kept' = kept \ {u}
    /\ UNCHANGED <<row, address, sess, task, cut>>

SessionLapse(s) ==
    /\ sess[s] # NoRow
    /\ sess' = [sess EXCEPT ![s] = NoRow]
    /\ UNCHANGED <<row, address, cached, task, late, kept, cut>>

CodeLapse(u) ==
    /\ code[u] # NoMail
    /\ code' = [code EXCEPT ![u] = NoMail]
    /\ UNCHANGED <<row, mail, verified, proof, access, task, late, kept, cut>>

\* Operations before which the account may have been changed, so that the rest
\* is owed.
Owing == {"flushEnd", "flushEndAsk", "end", "endAsk", "ask", "code"}

\* A request is over: refused, answered, or a statement of it failed.
Abort(p) ==
    /\ task[p].op # "idle"
    /\ cut' = IF task[p].op \in Owing THEN cut \union {task[p].user} ELSE cut
    /\ End(p)
    /\ UNCHANGED <<row, address, access, late, kept>>

Restart ==
    /\ cut' = cut \union {task[p].user : p \in {q \in Procs : task[q].op \in Owing}}
    /\ task' = [p \in Procs |-> Idle]
    /\ UNCHANGED <<row, address, access, late, kept>>

-----------------------------------------------------------------------------
LoginStep(p) ==
    \/ \E u \in Users : RequestOtpRead(p, u) \/ VerifyOtpRead(p, u) \/ SignInRead(p, u)
    \/ \E u \in Users : GoogleSignIn(p, u) \/ GoogleLinkRead(p, u)
    \/ \E u \in Users, m \in Mails : SignUp(p, u, m) \/ GoogleSignUp(p, u, m)
    \/ RequestOtpWrite(p) \/ VerifyOtpWrite(p) \/ GoogleLink(p) \/ GoogleMark(p)
    \/ OpenSession(p)

OwnStep(p) ==
    \/ \E u \in Users : GuardHit(p, u) \/ GuardRead(p, u)
    \/ GuardFill(p) \/ GuardFillFails(p) \/ Logout(p) \/ UpdateProfile(p) \/ DeleteAccountRead(p)
    \/ \E m \in Mails : UpdateDetailsRead(p, m)
    \/ UpdateDetailsWrite(p)

AdminStep(p) ==
    \/ \E u \in Users : DeleteUserRead(p, u) \/ ToggleRead(p, u) \/ VerifyUserRead(p, u)
    \/ \E u \in Users : UpdateUserRead(p, u) \/ SetUserPassword(p, u)
    \/ DeleteWrite(p) \/ ToggleWrite(p) \/ VerifyUserWrite(p)
    \/ UpdateUserWrite(p)

RequestStep(p) ==
    \/ LoginStep(p) \/ OwnStep(p) \/ AdminStep(p)
    \/ Flush(p) \/ FlushFails(p) \/ EndSessions(p) \/ AskOtp(p) \/ Abort(p)

Lapse ==
    \/ \E u \in Users : CacheLapse(u) \/ CodeLapse(u)
    \/ \E s \in Sessions : SessionLapse(s)

\* Users on whom two requests work.
Crowded == {u \in Users : \E p, q \in Procs : p # q /\ task[p].user = u /\ task[q].user = u}

Next ==
    /\ (\E p \in Procs : RequestStep(p)) \/ Lapse \/ Restart
    /\ crossed' = crossed \union Crowded'

Spec == Init /\ [][Next]_vars

\* Redis drops an entry after its time.
FairSpec ==
    /\ Spec
    /\ \A u \in Users : WF_vars(CacheLapse(u) /\ crossed' = crossed \union Crowded')

-----------------------------------------------------------------------------
Pending(ops, u) == \E p \in Procs : task[p].user = u /\ task[p].op \in ops

\* The guard can answer from the cache for a deleted user only while a request is
\* about to drop the entry, or if this entry was stored after the deletion by a
\* request that had read the row before, if Redis failed to drop it and the
\* handler went on, or if a handler broke off half way.
CacheForgets ==
    \A u \in cached \intersect deleted :
        Pending({"flushEnd", "flushEndAsk"}, u) \/ u \in late \union kept \union cut

\* A session that was opened in good standing does not outlive it: once the
\* account is deleted or disabled, by whichever of the handlers, and that
\* handler is through, the session is gone.  (Sessions opened afterwards, by the
\* logins that do not look, are marked.)
SessionsEnd ==
    \A s \in Sessions :
        sess[s] # NoRow /\ ~ sess[s].barred /\ sess[s].user \in deleted \union disabled =>
            \/ Pending({"flushEnd", "flushEndAsk", "end", "endAsk"}, sess[s].user)
            \/ sess[s].user \in cut

\* An address is verified only if its owner got the code, signed in with Google
\* or was vouched for, even if it was changed in between; given that requests for
\* one account came one after the other and none broke off half way.
VerifiedIsProven ==
    \A u \in verified \ (crossed \union cut) : proof[u] = mail[u]

\* A deleted user is locked out for good in the end, whatever requests overlapped
\* the deletion, stored late answers or broke off, and though Redis failed.
LockedOut == \A u \in Users : <>[](u \in deleted => u \notin cached)
=============================================================================

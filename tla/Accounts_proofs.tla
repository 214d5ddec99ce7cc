--------------------------- MODULE Accounts_proofs ---------------------------
(***************************************************************************)
(* Proofs about Accounts, for any numbers of users, addresses, sessions    *)
(* and requests: its type invariant, that the cache forgets a deleted      *)
(* user, that sessions end with the account, and that an address is        *)
(* verified only if it was shown to be the user's.                         *)
(***************************************************************************)
EXTENDS Accounts, TLAPS

-----------------------------------------------------------------------------
(* Types *)

\* What a request works on exists, and what it writes as an address is one.
Grounded ==
    /\ cached \union verified \subseteq known
    /\ \A u \in Users \ known : code[u] = NoMail
    /\ \A p \in Procs :
        /\ task[p].op # "idle" => task[p].user \in known
        /\ task[p].op = "email" => task[p].mail \in Mails

Sound == TypeOK /\ Grounded

LEMMA IdleType == Idle \in Task
  BY DEF Idle, Task, Ops, Entry

\* How the tasks look after each of the four ways to move process p on.
Moved(p, t) ==
    /\ task' \in [Procs -> Task]
    /\ task'[p] = t
    /\ \A q \in Procs \ {p} : task'[q] = task[q]

LEMMA Moves ==
  ASSUME TypeOK, NEW p \in Procs
  PROVE  /\ \A op \in Ops, u \in Users, m \in Mails \union {NoMail} :
              Begin(p, op, u, m) =>
                task[p].op = "idle" /\ Moved(p, [op |-> op, user |-> u, mail |-> m])
         /\ \A op \in Ops :
              Goto(p, op) =>
                Moved(p, [op |-> op, user |-> task[p].user, mail |-> task[p].mail])
         /\ \A op \in Ops :
              Then(p, op) => Moved(p, [op |-> op, user |-> task[p].user, mail |-> NoMail])
         /\ End(p) => Moved(p, Idle)
  <1> USE DEF Moved
  <1>1. task \in [Procs -> Task] /\ task[p] \in Task
    BY DEF TypeOK
  <1>2. ASSUME NEW op \in Ops, NEW u \in Users, NEW m \in Mails \union {NoMail}, Begin(p, op, u, m)
        PROVE  task[p].op = "idle" /\ Moved(p, [op |-> op, user |-> u, mail |-> m])
    BY <1>1, <1>2 DEF Begin, Task
  <1>3. ASSUME NEW op \in Ops, Goto(p, op)
        PROVE  Moved(p, [op |-> op, user |-> task[p].user, mail |-> task[p].mail])
    BY <1>1, <1>3 DEF Goto, Task
  <1>4. ASSUME NEW op \in Ops, Then(p, op)
        PROVE  Moved(p, [op |-> op, user |-> task[p].user, mail |-> NoMail])
    BY <1>1, <1>4 DEF Then, Task
  <1>5. ASSUME End(p) PROVE Moved(p, Idle)
    BY <1>1, <1>5, IdleType DEF End
  <1> QED
    BY <1>2, <1>3, <1>4, <1>5

LEMMA NoRowType == \A r : r \in Row \union {NoRow} => r.user \in Users \union {NoUser}
  BY DEF Row, NoRow

LEMMA SoundInit == Init => Sound
  <1> SUFFICES ASSUME Init PROVE Sound
    OBVIOUS
  <1>1. \A p \in Procs : task[p] = Idle
    BY DEF Init
  <1>2. TypeOK
    BY IdleType, AccountsAssumption DEF Init, TypeOK
  <1>3. Grounded
    BY <1>1 DEF Init, Grounded, Idle
  <1> QED
    BY <1>2, <1>3 DEF Sound

\* The set of all operations, spelled out.
LEMMA AllOps ==
  Ops = {"idle", "fill", "in", "open", "ask", "code", "verify", "vouch", "link", "mark", "email",
         "delete", "disable", "enable", "edit", "flush", "flushEnd", "flushEndAsk", "flushOpen",
         "end", "endAsk"}
  BY DEF Ops, Entry, Reads, Flushes, Ends

-----------------------------------------------------------------------------
(* An address that is verified *)

Asking == {"flushEndAsk", "endAsk", "ask", "code"}
Mailed == Asking \union {"verify", "vouch", "link", "mark", "edit"}

\* What holds of user u while requests for u come one after the other and are
\* carried through.  Only a request that will mail a new code leaves the code of
\* another address, and every request has read the present address.
Proven(u) ==
    /\ u \in verified => proof[u] = mail[u]
    /\ code[u] \in {NoMail, mail[u]} \/ Pending(Asking, u)
    /\ \A p \in Procs : task[p].user = u /\ task[p].op \in Mailed => task[p].mail = mail[u]
    /\ \A p \in Procs : task[p].user = u /\ task[p].op \in Asking \ {"code"} => u \notin verified

ProvenSound ==
    /\ Crowded \subseteq crossed
    /\ \A u \in Users \ (crossed \union cut) : Proven(u)

\* Proven(w)' if one process works on w, and goes on to t.
Fine(w, t) ==
    /\ w \in verified' => proof'[w] = mail'[w]
    /\ code'[w] \in {NoMail, mail'[w]} \/ (t.user = w /\ t.op \in Asking)
    /\ t.op \in Mailed => t.mail = mail'[w]
    /\ t.op \in Asking \ {"code"} => w \notin verified'

Alone(p, w) == \A q \in Procs \ {p} : task[q].user # w

\* A step of process p on the account w only has to be looked at for w.
LEMMA ProvenMove ==
  ASSUME ProvenSound, crossed' = crossed \union Crowded', cut \subseteq cut',
         NEW p \in Procs, NEW t, NEW w \in Users, Moved(p, t),
         task[p].op = "idle" \/ task[p].user = w,
         t.user = w \/ t = Idle,
         task[p].op = "idle" => t.user = w,
         \A v \in Users \ {w} :
            /\ v \in verified' <=> v \in verified
            /\ mail'[v] = mail[v] /\ code'[v] = code[v] /\ proof'[v] = proof[v],
         w \notin crossed \union cut /\ Proven(w) /\ Alone(p, w) => Fine(w, t)
  PROVE  ProvenSound'
  <1>1. Crowded' \subseteq crossed'
    OBVIOUS
  <1>2. ASSUME NEW v \in Users, v \notin crossed' \union cut', v # w
        PROVE  Proven(v)'
    <2>1. Proven(v)
      BY <1>2 DEF ProvenSound
    <2>2. ASSUME NEW q \in Procs, task[q].user = v, task[q].op # "idle" PROVE q # p
      BY <1>2, <2>2
    <2>3. ASSUME NEW q \in Procs, task'[q].user = v, task'[q].op # "idle"
          PROVE  task'[q] = task[q]
      BY <1>2, <2>3 DEF Moved, Idle
    <2>4. Pending(Asking, v) => Pending(Asking, v)'
      BY <2>2 DEF Pending, Asking, Moved
    <2> QED
      BY <1>2, <2>1, <2>3, <2>4 DEF Proven, Asking, Mailed
  <1>3. ASSUME w \notin crossed' \union cut'
        PROVE  Proven(w)'
    <2>2. ASSUME NEW q \in Procs, q # p, task'[q].user = w PROVE FALSE
      <3>1. CASE task[p].op = "idle"
        <4>1. task'[p].user = w
          BY <3>1 DEF Moved
        <4> QED
          BY <1>3, <2>2, <4>1 DEF Crowded
      <3>2. CASE task[p].user = w
        BY <1>3, <2>2, <3>2 DEF Crowded, Moved, ProvenSound
      <3> QED
        BY <3>1, <3>2
    <2>3. task'[p] = t
      BY DEF Moved
    <2>4. Fine(w, t)
      <3>1. Alone(p, w)
        BY <2>2 DEF Alone, Moved
      <3> QED
        BY <1>3, <3>1 DEF ProvenSound
    <2> QED
      BY <2>2, <2>3, <2>4 DEF Fine, Proven, Pending
  <1> QED
    BY <1>1, <1>2, <1>3 DEF ProvenSound

-----------------------------------------------------------------------------
(* The inductive invariant *)

IInv == Sound /\ CacheForgets /\ SessionsEnd /\ ProvenSound

LEMMA IInvInit == Init => IInv
  <1> SUFFICES ASSUME Init PROVE IInv
    OBVIOUS
  <1>1. \A p \in Procs : task[p] = Idle
    BY DEF Init
  <1>2. Crowded = {}
    BY <1>1, AccountsAssumption DEF Crowded, Idle
  <1>3. \A u \in Users : Proven(u)
    BY <1>1, AccountsAssumption DEF Init, Proven, Idle, Asking, Mailed
  <1>4. CacheForgets /\ SessionsEnd
    BY DEF Init, CacheForgets, SessionsEnd
  <1> QED
    BY <1>2, <1>3, <1>4, SoundInit DEF IInv, ProvenSound

\* Process p owes neither the cache entry nor the sessions, and adds nothing to them.
LEMMA CacheMove ==
  ASSUME CacheForgets, NEW p \in Procs, NEW t, Moved(p, t), cached' \subseteq cached,
         deleted' = deleted, late \subseteq late', kept \subseteq kept', cut \subseteq cut',
         task[p].op \notin {"flushEnd", "flushEndAsk"}
  PROVE  CacheForgets'
  BY DEF CacheForgets, Pending, Moved

LEMMA EndsMove ==
  ASSUME SessionsEnd, NEW p \in Procs, NEW t, Moved(p, t),
         \A s \in Sessions : sess'[s] \in {sess[s], NoRow},
         UNCHANGED <<deleted, disabled>>, cut \subseteq cut',
         task[p].op \notin {"flushEnd", "flushEndAsk", "end", "endAsk"}
  PROVE  SessionsEnd'
  BY DEF SessionsEnd, Pending, Moved

\* A step that reads, or goes on.
LEMMA QuietMove ==
  ASSUME IInv, crossed' = crossed \union Crowded', NEW p \in Procs, NEW t, NEW w \in known,
         Moved(p, t), task[p].op = "idle" \/ task[p].user = w, t.user = w \/ t = Idle,
         task[p].op = "idle" => t.user = w,
         t.op = "email" => t.mail \in Mails,
         UNCHANGED <<row, address, cached, late, kept, cut>>,
         sess' \in [Sessions -> Row \union {NoRow}],
         \A s \in Sessions : sess'[s] \in {sess[s], NoRow},
         task[p].op \notin {"flushEnd", "flushEndAsk", "end", "endAsk"},
         w \notin crossed \union cut /\ Proven(w) /\ Alone(p, w) => Fine(w, t)
  PROVE  IInv'
  <1>1. Sound'
    BY DEF IInv, Sound, TypeOK, Grounded, row, address, Moved, Idle, Crowded
  <1>2. CacheForgets'
    BY CacheMove DEF IInv, row
  <1>3. SessionsEnd'
    BY EndsMove DEF IInv, row
  <1>4. ProvenSound'
    <2>1. w \in Users
      BY DEF IInv, Sound, TypeOK
    <2> QED
      BY <2>1, ProvenMove DEF IInv, row, address
  <1> QED
    BY <1>1, <1>2, <1>3, <1>4 DEF IInv

\* A request begins.
LEMMA BeginStep ==
  ASSUME IInv, crossed' = crossed \union Crowded', NEW p \in Procs, NEW u \in Users,
         \/ GuardHit(p, u)
         \/ GuardRead(p, u)
         \/ RequestOtpRead(p, u)
         \/ VerifyOtpRead(p, u)
         \/ SignInRead(p, u)
         \/ GoogleSignIn(p, u)
         \/ GoogleLinkRead(p, u)
         \/ DeleteUserRead(p, u)
         \/ ToggleRead(p, u)
         \/ VerifyUserRead(p, u)
         \/ UpdateUserRead(p, u)
         \/ SetUserPassword(p, u)
  PROVE  IInv'
  <1>1. ASSUME NEW op \in Ops \ {"email", "idle"}, NEW m \in Mails \union {NoMail}, u \in known,
               Begin(p, op, u, m), UNCHANGED <<row, address, access, late, kept, cut>>,
               op \notin {"flushEndAsk", "endAsk", "ask"},
               u \notin crossed \union cut /\ Proven(u) /\ ~ Pending(Asking, u) /\ op \in Mailed
                  => m = mail[u]
        PROVE  IInv'
    <2> DEFINE t == [op |-> op, user |-> u, mail |-> m]
    <2>1. Moved(p, t) /\ task[p].op = "idle"
      BY <1>1, Moves DEF IInv, Sound
    <2>2. u \notin crossed \union cut /\ Proven(u) /\ Alone(p, u) => Fine(u, t)
      <3> SUFFICES ASSUME u \notin crossed \union cut, Proven(u), Alone(p, u) PROVE Fine(u, t)
        OBVIOUS
      <3>1. ~ Pending(Asking, u)
        BY <2>1 DEF Pending, Alone, Asking
      <3>2. UNCHANGED <<mail, code, verified, proof>>
        BY <1>1 DEF address
      <3> QED
        BY <1>1, <3>1, <3>2 DEF Proven, Fine, Asking
    <2> QED
      BY <1>1, <2>1, <2>2, QuietMove DEF IInv, Sound, TypeOK, access
  <1>2. u \in known => mail[u] \in Mails \union {NoMail} /\ code[u] \in Mails \union {NoMail}
    BY DEF IInv, Sound, TypeOK
  <1>3. cached \subseteq known
    BY DEF IInv, Sound, Grounded
  <1>4. CASE GuardHit(p, u)
    BY <1>4, <1>1, <1>2, <1>3, AllOps DEF GuardHit, Mailed, Asking
  <1>5. CASE GuardRead(p, u)
    BY <1>5, <1>1, <1>2, <1>3, AllOps DEF GuardRead, Admits, Mailed, Asking
  <1>6. CASE RequestOtpRead(p, u)
    BY <1>6, <1>1, <1>2, <1>3, AllOps DEF RequestOtpRead, Mailed, Asking
  <1>7. CASE VerifyOtpRead(p, u)
    BY <1>7, <1>1, <1>2, <1>3, AllOps DEF VerifyOtpRead, Proven, Mailed, Asking
  <1>8. CASE SignInRead(p, u)
    BY <1>8, <1>1, <1>2, <1>3, AllOps DEF SignInRead, Mailed, Asking
  <1>9. CASE GoogleSignIn(p, u)
    BY <1>9, <1>1, <1>2, <1>3, AllOps DEF GoogleSignIn, Mailed, Asking
  <1>10. CASE GoogleLinkRead(p, u)
    BY <1>10, <1>1, <1>2, <1>3, AllOps DEF GoogleLinkRead, Mailed, Asking
  <1>11. CASE DeleteUserRead(p, u)
    BY <1>11, <1>1, <1>2, <1>3, AllOps DEF DeleteUserRead, Mailed, Asking
  <1>12. CASE ToggleRead(p, u)
    BY <1>12, <1>1, <1>2, <1>3, AllOps DEF ToggleRead, Mailed, Asking
  <1>13. CASE VerifyUserRead(p, u)
    BY <1>13, <1>1, <1>2, <1>3, AllOps DEF VerifyUserRead, Mailed, Asking
  <1>14. CASE UpdateUserRead(p, u)
    BY <1>14, <1>1, <1>2, <1>3, AllOps DEF UpdateUserRead, Mailed, Asking
  <1>15. CASE SetUserPassword(p, u)
    BY <1>15, <1>1, <1>2, <1>3, AllOps DEF SetUserPassword, Mailed, Asking
  <1> QED
    BY <1>4, <1>5, <1>6, <1>7, <1>8, <1>9, <1>10, <1>11, <1>12, <1>13, <1>14, <1>15

\* A request goes on without a change to any account.
LEMMA GoOnStep ==
  ASSUME IInv, crossed' = crossed \union Crowded', NEW p \in Procs,
         \/ UpdateProfile(p) \/ DeleteAccountRead(p) \/ GoogleLink(p) \/ AskOtp(p) \/ Logout(p)
         \/ GuardFillFails(p)
         \/ \E m \in Mails : UpdateDetailsRead(p, m)
  PROVE  IInv'
  <1> DEFINE w == task[p].user
  <1>0. /\ task \in [Procs -> Task] /\ task[p] \in Task /\ TypeOK
        /\ sess \in [Sessions -> Row \union {NoRow}]
        /\ task[p].op # "idle" => w \in known /\ w \in Users
    BY DEF IInv, Sound, Grounded, TypeOK
  <1>1. ASSUME NEW op \in Ops, op \notin {"idle", "email", "flushEndAsk", "endAsk", "ask"},
               NEW m \in Mails \union {NoMail}, op = "code" => m = mail[w],
               op \in Mailed => m = task[p].mail /\ task[p].op \in Mailed,
               task[p].op \notin {"idle", "flushEnd", "flushEndAsk", "end", "endAsk"},
               task[p].op \in Asking => op \in Asking,
               Moved(p, [op |-> op, user |-> w, mail |-> m]),
               UNCHANGED <<row, address, cached, late, kept, cut>>,
               sess' \in [Sessions -> Row \union {NoRow}],
               \A s \in Sessions : sess'[s] \in {sess[s], NoRow}
        PROVE  IInv'
    <2> DEFINE t == [op |-> op, user |-> w, mail |-> m]
    <2>1. w \notin crossed \union cut /\ Proven(w) /\ Alone(p, w) => Fine(w, t)
      <3> SUFFICES ASSUME w \notin crossed \union cut, Proven(w), Alone(p, w) PROVE Fine(w, t)
        OBVIOUS
      <3>1. Pending(Asking, w) => op \in Asking
        BY <1>1 DEF Pending, Alone
      <3> QED
        BY <1>1, <3>1, <1>0 DEF Proven, Fine, Asking, address
    <2> QED
      BY <1>0, <1>1, <2>1, QuietMove
  <1>2. CASE UpdateProfile(p)
    <2>1. Moved(p, [op |-> "flush", user |-> w, mail |-> task[p].mail])
      BY <1>0, <1>2, Moves, AllOps DEF UpdateProfile
    <2> QED
      BY <1>0, <1>1, <1>2, <2>1, AllOps DEF UpdateProfile, Task, Mailed, Asking, access
  <1>3. CASE DeleteAccountRead(p)
    <2>1. Moved(p, [op |-> "delete", user |-> w, mail |-> task[p].mail])
      BY <1>0, <1>3, Moves, AllOps DEF DeleteAccountRead
    <2> QED
      BY <1>0, <1>1, <1>3, <2>1, AllOps DEF DeleteAccountRead, Task, Mailed, Asking, access
  <1>4. CASE GoogleLink(p)
    <2>1. Moved(p, [op |-> "mark", user |-> w, mail |-> task[p].mail])
      BY <1>0, <1>4, Moves, AllOps DEF GoogleLink
    <2> QED
      BY <1>0, <1>1, <1>4, <2>1, AllOps DEF GoogleLink, Task, Mailed, Asking, access
  <1>5. CASE Logout(p)
    <2>1. Moved(p, [op |-> "flush", user |-> w, mail |-> task[p].mail])
      BY <1>0, <1>5, Moves, AllOps DEF Logout
    <2>2. /\ sess' \in [Sessions -> Row \union {NoRow}]
          /\ \A s \in Sessions : sess'[s] \in {sess[s], NoRow}
      BY <1>0, <1>5 DEF Logout
    <2> QED
      BY <1>0, <1>1, <1>5, <2>1, <2>2, AllOps DEF Logout, Task, Mailed, Asking
  <1>6. CASE AskOtp(p)
    <2>1. CASE mail[w] = task[p].mail /\ w \notin verified
      <3>1. Moved(p, [op |-> "code", user |-> w, mail |-> task[p].mail])
        BY <1>0, <1>6, <2>1, Moves, AllOps DEF AskOtp
      <3> QED
        BY <1>0, <1>1, <1>6, <2>1, <3>1, AllOps DEF AskOtp, Task, Mailed, Asking, access
    <2>2. CASE ~ (mail[w] = task[p].mail /\ w \notin verified)
      <3>1. Moved(p, Idle)
        BY <1>0, <1>6, <2>2, Moves DEF AskOtp
      <3>2. ~ Proven(w)
        BY <1>6, <2>2 DEF AskOtp, Proven, Asking, Mailed
      <3> QED
        BY <1>0, <1>6, <3>1, <3>2, QuietMove DEF AskOtp, access, Idle
    <2> QED
      BY <2>1, <2>2
  <1>7. ASSUME NEW m \in Mails, UpdateDetailsRead(p, m) PROVE IInv'
    <2> DEFINE t == [op |-> "email", user |-> w, mail |-> m]
    <2>1. Moved(p, t)
      BY <1>0, <1>7, AllOps DEF UpdateDetailsRead, Moved, Task
    <2>2. Proven(w) /\ Alone(p, w) => Fine(w, t)
      <3> SUFFICES ASSUME Proven(w), Alone(p, w) PROVE Fine(w, t)
        OBVIOUS
      <3>1. ~ Pending(Asking, w)
        BY <1>7 DEF UpdateDetailsRead, Pending, Alone, Asking
      <3> QED
        BY <1>7, <3>1 DEF UpdateDetailsRead, Proven, Fine, Mailed, Asking, address
    <2> QED
      BY <1>0, <1>7, <2>1, <2>2, QuietMove DEF UpdateDetailsRead, access
  <1>8. CASE GuardFillFails(p)
    <2>1. Moved(p, [op |-> "in", user |-> w, mail |-> task[p].mail])
      BY <1>0, <1>8, Moves, AllOps DEF GuardFillFails
    <2> QED
      BY <1>0, <1>1, <1>8, <2>1, AllOps DEF GuardFillFails, Task, Mailed, Asking, access
  <1> QED
    BY <1>2, <1>3, <1>4, <1>5, <1>6, <1>7, <1>8

\* A step that changes the address, the code or the verification of one account.
LEMMA AddressMove ==
  ASSUME IInv, crossed' = crossed \union Crowded', NEW p \in Procs, NEW t, NEW w \in Users,
         Moved(p, t), task[p].op = "idle" \/ task[p].user = w, t.user = w \/ t = Idle,
         task[p].op = "idle" => t.user = w,
         UNCHANGED <<deleted, disabled, cached, sess, late, kept, cut>>,
         task[p].op \notin {"flushEnd", "flushEndAsk", "end", "endAsk"},
         \A v \in Users \ {w} :
            /\ v \in verified' <=> v \in verified
            /\ mail'[v] = mail[v] /\ code'[v] = code[v] /\ proof'[v] = proof[v],
         w \notin crossed \union cut /\ Proven(w) /\ Alone(p, w) => Fine(w, t),
         Sound'
  PROVE  IInv'
  <1>1. CacheForgets'
    BY CacheMove DEF IInv
  <1>2. SessionsEnd'
    BY EndsMove DEF IInv
  <1>3. ProvenSound'
    BY ProvenMove DEF IInv
  <1> QED
    BY <1>1, <1>2, <1>3 DEF IInv

LEMMA AddressStep ==
  ASSUME IInv, crossed' = crossed \union Crowded', NEW p \in Procs,
         \/ RequestOtpWrite(p) \/ VerifyOtpWrite(p) \/ GoogleMark(p) \/ UpdateDetailsWrite(p)
         \/ VerifyUserWrite(p)
  PROVE  IInv'
  <1> DEFINE w == task[p].user
  <1>0. /\ task \in [Procs -> Task] /\ task[p] \in Task /\ TypeOK
        /\ task[p].op # "idle" => w \in known /\ w \in Users
        /\ w \in known => mail[w] \in Mails
    BY DEF IInv, Sound, Grounded, TypeOK
  <1>1. crossed' \in SUBSET Users
    BY <1>0 DEF Crowded, TypeOK
  <1>2. ASSUME Alone(p, w), task[p].op \notin Asking PROVE ~ Pending(Asking, w)
    BY <1>2 DEF Pending, Alone
  <1> USE DEF row, access, address
  <1>3. CASE RequestOtpWrite(p)
    <2>1. Moved(p, Idle)
      BY <1>0, <1>3, Moves DEF RequestOtpWrite
    <2>2. Sound'
      BY <1>0, <1>1, <1>3, <2>1 DEF RequestOtpWrite, IInv, Sound, TypeOK, Grounded, Moved, Idle, Task
    <2>3. Proven(w) => Fine(w, Idle)
      BY <1>0, <1>3 DEF RequestOtpWrite, Proven, Fine, Idle, Asking, Mailed, TypeOK
    <2> QED
      BY <1>0, <1>3, <2>1, <2>2, <2>3, AddressMove DEF RequestOtpWrite, TypeOK
  <1>4. CASE VerifyOtpWrite(p)
    <2> DEFINE t == [op |-> "open", user |-> w, mail |-> NoMail]
    <2>1. Moved(p, t)
      BY <1>0, <1>4, Moves, AllOps DEF VerifyOtpWrite
    <2>2. Sound'
      BY <1>0, <1>1, <1>4, <2>1
      DEF VerifyOtpWrite, Verify, IInv, Sound, TypeOK, Grounded, Moved, Idle, Task
    <2>3. Proven(w) => Fine(w, t)
      BY <1>0, <1>4 DEF VerifyOtpWrite, Verify, Proven, Fine, Asking, Mailed, TypeOK
    <2> QED
      BY <1>0, <1>4, <2>1, <2>2, <2>3, AddressMove DEF VerifyOtpWrite, Verify, TypeOK
  <1>5. CASE GoogleMark(p)
    <2> DEFINE t == [op |-> "flushOpen", user |-> w, mail |-> NoMail]
    <2>1. Moved(p, t)
      BY <1>0, <1>5, Moves, AllOps DEF GoogleMark
    <2>2. Sound'
      BY <1>0, <1>1, <1>5, <2>1
      DEF GoogleMark, Verify, IInv, Sound, TypeOK, Grounded, Moved, Idle, Task
    <2>3. Proven(w) /\ Alone(p, w) => Fine(w, t)
      BY <1>0, <1>2, <1>5 DEF GoogleMark, Verify, Proven, Fine, Asking, Mailed, TypeOK
    <2> QED
      BY <1>0, <1>5, <2>1, <2>2, <2>3, AddressMove DEF GoogleMark, Verify, TypeOK
  <1>6. CASE UpdateDetailsWrite(p)
    <2> DEFINE t == [op |-> "flushEndAsk", user |-> w, mail |-> task[p].mail]
    <2>1. Moved(p, t)
      BY <1>0, <1>6, Moves, AllOps DEF UpdateDetailsWrite
    <2>2. task[p].mail \in Mails
      BY <1>6 DEF UpdateDetailsWrite, IInv, Sound, Grounded
    <2>3. Sound'
      BY <1>0, <1>1, <1>6, <2>1, <2>2
      DEF UpdateDetailsWrite, IInv, Sound, TypeOK, Grounded, Moved, Idle, Task
    <2>4. Proven(w) => Fine(w, t)
      BY <1>0, <1>6 DEF UpdateDetailsWrite, Proven, Fine, Asking, Mailed, TypeOK
    <2> QED
      BY <1>0, <1>6, <2>1, <2>3, <2>4, AddressMove DEF UpdateDetailsWrite, TypeOK
  <1>7. CASE VerifyUserWrite(p)
    <2>1. Moved(p, Idle)
      BY <1>0, <1>7, Moves DEF VerifyUserWrite
    <2>2. Sound'
      BY <1>0, <1>1, <1>7, <2>1
      DEF VerifyUserWrite, Verify, IInv, Sound, TypeOK, Grounded, Moved, Idle, Task
    <2>3. Proven(w) => Fine(w, Idle)
      BY <1>0, <1>7 DEF VerifyUserWrite, Verify, Proven, Fine, Idle, Asking, Mailed, TypeOK
    <2> QED
      BY <1>0, <1>7, <2>1, <2>2, <2>3, AddressMove DEF VerifyUserWrite, Verify, TypeOK
  <1> QED
    BY <1>3, <1>4, <1>5, <1>6, <1>7

LEMMA SignUpStep ==
  ASSUME IInv, crossed' = crossed \union Crowded', NEW p \in Procs, NEW u \in Users,
         NEW m \in Mails, SignUp(p, u, m) \/ GoogleSignUp(p, u, m)
  PROVE  IInv'
  <1> USE DEF row, access, address, NewRow
  <1>0. TypeOK /\ crossed' \in SUBSET Users
    BY DEF IInv, Sound, TypeOK, Crowded
  <1>1. CASE SignUp(p, u, m)
    <2> DEFINE t == [op |-> "open", user |-> u, mail |-> NoMail]
    <2>1. Moved(p, t) /\ task[p].op = "idle"
      BY <1>0, <1>1, Moves, AllOps DEF SignUp
    <2>2. Sound'
      BY <1>0, <1>1, <2>1, AccountsAssumption DEF SignUp, IInv, Sound, TypeOK, Grounded, Moved
    <2>3. Proven(u) => Fine(u, t)
      <3>1. u \notin verified
        BY <1>1 DEF SignUp, IInv, Sound, Grounded
      <3> QED
        BY <1>0, <1>1, <3>1 DEF SignUp, Fine, Asking, Mailed, TypeOK
    <2> QED
      BY <1>0, <1>1, <2>1, <2>2, <2>3, AddressMove DEF SignUp, TypeOK
  <1>2. CASE GoogleSignUp(p, u, m)
    <2> DEFINE t == [op |-> "flushOpen", user |-> u, mail |-> NoMail]
    <2>1. Moved(p, t) /\ task[p].op = "idle"
      BY <1>0, <1>2, Moves, AllOps DEF GoogleSignUp
    <2>2. Sound'
      BY <1>0, <1>2, <2>1, AccountsAssumption
      DEF GoogleSignUp, Verify, IInv, Sound, TypeOK, Grounded, Moved
    <2>3. Fine(u, t)
      <3>1. code[u] = NoMail
        BY <1>2 DEF GoogleSignUp, IInv, Sound, Grounded
      <3> QED
        BY <1>0, <1>2, <3>1 DEF GoogleSignUp, Verify, Fine, Asking, Mailed, TypeOK
    <2> QED
      BY <1>0, <1>2, <2>1, <2>2, <2>3, AddressMove DEF GoogleSignUp, Verify, TypeOK
  <1> QED
    BY <1>1, <1>2

\* A step of process p that leaves every address, code and verification alone.
LEMMA ProvenStays ==
  ASSUME IInv, crossed' = crossed \union Crowded', cut \subseteq cut', NEW p \in Procs, NEW t,
         Moved(p, t), task[p].op # "idle", UNCHANGED address,
         \/ t = Idle /\ (task[p].op \in Asking => task[p].user \in cut')
         \/ /\ t.user = task[p].user
            /\ t.op \in Mailed => task[p].op \in Mailed /\ t.mail = task[p].mail
            /\ t.op \in Asking <=> task[p].op \in Asking
            /\ t.op \in Asking \ {"code"} => task[p].op \in Asking \ {"code"}
  PROVE  ProvenSound'
  <1> DEFINE w == task[p].user
  <1>1. w \in Users
    BY DEF IInv, Sound, TypeOK, Grounded
  <1>2. CASE w \in cut'
    <2> DEFINE v == w
    <2>1. Crowded' \subseteq crossed'
      OBVIOUS
    <2>2. ASSUME NEW x \in Users, x \notin crossed' \union cut' PROVE Proven(x)'
      <3>1. Proven(x) /\ x # w
        BY <1>2, <2>2 DEF IInv, ProvenSound
      <3>2. ASSUME NEW q \in Procs, task[q].user = x PROVE task'[q] = task[q]
        BY <3>1, <3>2 DEF Moved
      <3>3. ASSUME NEW q \in Procs, task'[q].user = x PROVE task'[q] = task[q]
        BY <3>1, <3>3, AccountsAssumption DEF Moved, Idle
      <3> QED
        BY <3>1, <3>2, <3>3 DEF Proven, Pending, address
    <2> QED
      BY <2>1, <2>2 DEF ProvenSound
  <1>3. CASE w \notin cut'
    <2>1. Proven(w) /\ Alone(p, w) => Fine(w, t)
      <3> SUFFICES ASSUME Proven(w), Alone(p, w) PROVE Fine(w, t)
        OBVIOUS
      <3>1. Pending(Asking, w) => task[p].op \in Asking
        BY DEF Pending, Alone
      <3>2. Idle.op \notin Mailed /\ Idle.op \notin Asking
        BY DEF Idle, Mailed, Asking
      <3> QED
        BY <1>3, <3>1, <3>2 DEF Proven, Fine, address
    <2> QED
      BY <1>1, <2>1, ProvenMove DEF IInv, address
  <1> QED
    BY <1>2, <1>3

\* A step about the cache, the sessions or the standing of the account.
LEMMA AccessStep ==
  ASSUME IInv, crossed' = crossed \union Crowded', NEW p \in Procs,
         \/ GuardFill(p) \/ EndSessions(p) \/ OpenSession(p)
         \/ DeleteWrite(p) \/ ToggleWrite(p) \/ Flush(p) \/ FlushFails(p) \/ Abort(p)
  PROVE  IInv'
  <1> DEFINE w == task[p].user
  <1>0. /\ task \in [Procs -> Task] /\ task[p] \in Task /\ TypeOK
        /\ sess \in [Sessions -> Row \union {NoRow}]
        /\ task[p].op # "idle" => w \in known /\ w \in Users
    BY DEF IInv, Sound, Grounded, TypeOK
  <1>1. crossed' \in SUBSET Users
    BY <1>0 DEF Crowded, TypeOK
  <1> USE DEF row, access
  <1>2. CASE GuardFill(p)
    <2>1. Moved(p, [op |-> "in", user |-> w, mail |-> task[p].mail])
      BY <1>0, <1>2, Moves, AllOps DEF GuardFill
    <2>2. Sound'
      BY <1>0, <1>1, <1>2, <2>1 DEF GuardFill, IInv, Sound, TypeOK, Grounded, Moved, address
    <2>3. CacheForgets'
      BY <1>2, <2>1 DEF GuardFill, IInv, CacheForgets, Pending, Moved
    <2>4. SessionsEnd'
      BY <1>2, <2>1, EndsMove DEF GuardFill, IInv
    <2>5. ProvenSound'
      BY <1>2, <2>1, ProvenStays DEF GuardFill, Mailed, Asking
    <2> QED
      BY <2>2, <2>3, <2>4, <2>5 DEF IInv
  <1>3. CASE EndSessions(p)
    <2> DEFINE t == IF task[p].op = "end" THEN Idle
                    ELSE [op |-> "ask", user |-> w, mail |-> task[p].mail]
    <2>1. Moved(p, t)
      BY <1>0, <1>3, Moves, AllOps DEF EndSessions
    <2>2. Sound'
      BY <1>0, <1>1, <1>3, <2>1
      DEF EndSessions, Ends, IInv, Sound, TypeOK, Grounded, Moved, address, Idle
    <2>3. CacheForgets'
      BY <1>3, <2>1, CacheMove DEF EndSessions, Ends, IInv
    <2>4. SessionsEnd'
      <3> SUFFICES ASSUME NEW s \in Sessions, sess'[s] # NoRow, ~ sess'[s].barred,
                          sess'[s].user \in deleted' \union disabled'
                   PROVE  \/ Pending({"flushEnd", "flushEndAsk", "end", "endAsk"}, sess[s].user)'
                          \/ sess'[s].user \in cut'
        BY <1>3 DEF EndSessions, SessionsEnd
      <3>1. sess'[s] = sess[s] /\ sess[s].user # w
        BY <1>0, <1>3 DEF EndSessions
      <3>2. ASSUME NEW q \in Procs, task[q].user = sess[s].user PROVE task'[q] = task[q]
        BY <2>1, <3>1, <3>2 DEF Moved
      <3> QED
        BY <1>3, <3>1, <3>2 DEF EndSessions, IInv, SessionsEnd, Pending
    <2>5. ProvenSound'
      BY <1>3, <2>1, ProvenStays DEF EndSessions, Ends, Mailed, Asking
    <2> QED
      BY <2>2, <2>3, <2>4, <2>5 DEF IInv
  <1>4. CASE OpenSession(p)
    <2>1. Moved(p, Idle)
      BY <1>0, <1>4, Moves DEF OpenSession
    <2>2. PICK s \in Sessions : sess' = [sess EXCEPT ![s] =
                                   [user |-> w, barred |-> w \in deleted \union disabled]]
      BY <1>4 DEF OpenSession
    <2>3. sess' \in [Sessions -> Row \union {NoRow}]
      <3>1. [user |-> w, barred |-> w \in deleted \union disabled] \in Row
        BY <1>0, <1>4 DEF OpenSession, Row
      <3> QED
        BY <1>0, <2>2, <3>1
    <2>4. Sound'
      BY <1>0, <1>1, <1>4, <2>1, <2>3
      DEF OpenSession, IInv, Sound, TypeOK, Grounded, Moved, address, Idle
    <2>5. CacheForgets'
      BY <1>4, <2>1, CacheMove DEF OpenSession, IInv
    <2>6. SessionsEnd'
      <3>1. ASSUME NEW z \in Sessions, z # s PROVE sess'[z] = sess[z]
        BY <1>0, <2>2, <3>1
      <3>2. sess'[s] = [user |-> w, barred |-> w \in deleted \union disabled]
        BY <1>0, <2>2
      <3>3. \A u : Pending({"flushEnd", "flushEndAsk", "end", "endAsk"}, u) =>
                     Pending({"flushEnd", "flushEndAsk", "end", "endAsk"}, u)'
        BY <1>4, <2>1 DEF OpenSession, Pending, Moved
      <3>4. sess'[s].user = w /\ (w \in deleted \union disabled => sess'[s].barred)
        <4>1. sess'[s].user = w /\ sess'[s].barred = (w \in deleted \union disabled)
          BY <3>2
        <4> QED
          BY <4>1, Zenon
      <3>5. UNCHANGED <<deleted, disabled, cut>>
        BY <1>4 DEF OpenSession
      <3> QED
        BY <3>1, <3>3, <3>4, <3>5 DEF IInv, SessionsEnd
    <2>7. ProvenSound'
      BY <1>4, <2>1, ProvenStays DEF OpenSession, Asking
    <2> QED
      BY <2>4, <2>5, <2>6, <2>7 DEF IInv
  <1>5. CASE DeleteWrite(p)
    <2>1. Moved(p, [op |-> "flushEnd", user |-> w, mail |-> task[p].mail])
      BY <1>0, <1>5, Moves, AllOps DEF DeleteWrite
    <2>2. Sound'
      BY <1>0, <1>1, <1>5, <2>1 DEF DeleteWrite, IInv, Sound, TypeOK, Grounded, Moved, address
    <2>3. CacheForgets'
      BY <1>5, <2>1 DEF DeleteWrite, IInv, CacheForgets, Pending, Moved
    <2>4. SessionsEnd'
      BY <1>5, <2>1 DEF DeleteWrite, IInv, SessionsEnd, Pending, Moved
    <2>5. ProvenSound'
      BY <1>5, <2>1, ProvenStays DEF DeleteWrite, Mailed, Asking
    <2> QED
      BY <2>2, <2>3, <2>4, <2>5 DEF IInv
  <1>6. CASE ToggleWrite(p)
    <2> DEFINE t == [op |-> IF task[p].op = "disable" THEN "flushEnd" ELSE "flush",
                     user |-> w, mail |-> task[p].mail]
    <2>1. Moved(p, t)
      BY <1>0, <1>6, Moves, AllOps DEF ToggleWrite
    <2>2. Sound'
      BY <1>0, <1>1, <1>6, <2>1 DEF ToggleWrite, IInv, Sound, TypeOK, Grounded, Moved, address
    <2>3. CacheForgets'
      BY <1>6, <2>1, CacheMove DEF ToggleWrite, IInv
    <2>4. SessionsEnd'
      BY <1>6, <2>1 DEF ToggleWrite, IInv, SessionsEnd, Pending, Moved
    <2>5. ProvenSound'
      BY <1>6, <2>1, ProvenStays DEF ToggleWrite, Mailed, Asking
    <2> QED
      BY <2>2, <2>3, <2>4, <2>5 DEF IInv
  <1>7. CASE Flush(p) \/ FlushFails(p)
    <2> DEFINE t == IF task[p].op = "flush" THEN Idle
                    ELSE [op |-> AfterFlush[task[p].op], user |-> w, mail |-> task[p].mail]
    <2>0. /\ task[p].op \in {"flush", "flushEnd", "flushEndAsk", "flushOpen"}
          /\ AfterFlush["flushEnd"] = "end" /\ AfterFlush["flushEndAsk"] = "endAsk"
          /\ AfterFlush["flushOpen"] = "open"
      BY <1>7 DEF Flush, FlushFails, Flushes, AfterFlush
    <2>1. Moved(p, t)
      BY <1>0, <1>7, <2>0, Moves, AllOps DEF Flush, FlushFails, GoOn
    <2>2. /\ UNCHANGED <<row, address, sess, cut>> /\ cached' \subseteq cached
          /\ late' \in SUBSET Users /\ kept' \in SUBSET Users
      BY <1>0, <1>7, <2>0 DEF Flush, FlushFails, Forgotten, TypeOK
    <2>3. Sound'
      BY <1>0, <1>1, <2>0, <2>1, <2>2 DEF IInv, Sound, TypeOK, Grounded, Moved, address, Idle
    <2>4. CacheForgets'
      <3> SUFFICES ASSUME NEW u \in cached' \intersect deleted',
                          ~ Pending({"flushEnd", "flushEndAsk"}, u)'
                   PROVE  u \in late' \union kept' \union cut'
        BY DEF CacheForgets
      <3>1. CASE Flush(p)
        <4>1. u # w /\ u \in cached /\ u \in deleted
          BY <2>2, <3>1 DEF Flush, Forgotten
        <4>2. ~ Pending({"flushEnd", "flushEndAsk"}, u)
          BY <2>1, <4>1 DEF Pending, Moved
        <4> QED
          BY <3>1, <4>1, <4>2 DEF Flush, IInv, CacheForgets
      <3>2. CASE FlushFails(p)
        <4>1. u \in cached /\ u \in deleted
          BY <2>2
        <4>2. CASE u = w
          BY <3>2, <4>1, <4>2 DEF FlushFails
        <4>3. CASE u # w
          <5>1. ~ Pending({"flushEnd", "flushEndAsk"}, u)
            BY <2>1, <4>3 DEF Pending, Moved
          <5> QED
            BY <3>2, <4>1, <5>1 DEF FlushFails, IInv, CacheForgets
        <4> QED
          BY <4>2, <4>3
      <3> QED
        BY <1>7, <3>1, <3>2
    <2>5. SessionsEnd'
      BY <2>0, <2>1, <2>2 DEF IInv, SessionsEnd, Pending, Moved
    <2>6. ProvenSound'
      BY <2>0, <2>1, <2>2, ProvenStays DEF Mailed, Asking
    <2> QED
      BY <2>3, <2>4, <2>5, <2>6 DEF IInv
  <1>8. CASE Abort(p)
    <2>1. Moved(p, Idle)
      BY <1>0, <1>8, Moves DEF Abort
    <2>2. Sound'
      BY <1>0, <1>1, <1>8, <2>1 DEF Abort, IInv, Sound, TypeOK, Grounded, Moved, address, Idle
    <2>3. CacheForgets'
      BY <1>8, <2>1 DEF Abort, Owing, IInv, CacheForgets, Pending, Moved
    <2>4. SessionsEnd'
      BY <1>8, <2>1 DEF Abort, Owing, IInv, SessionsEnd, Pending, Moved
    <2>5. ProvenSound'
      BY <1>8, <2>1, ProvenStays DEF Abort, Owing, Asking
    <2> QED
      BY <2>2, <2>3, <2>4, <2>5 DEF IInv
  <1> QED
    BY <1>2, <1>3, <1>4, <1>5, <1>6, <1>7, <1>8

LEMMA LapseStep ==
  ASSUME IInv, crossed' = crossed \union Crowded', Lapse
  PROVE  IInv'
  <1> USE DEF row, access, address
  <1>0. TypeOK /\ crossed' \in SUBSET Users
    BY DEF IInv, Sound, TypeOK, Crowded
  <1>1. UNCHANGED <<known, deleted, disabled, verified, mail, proof, task, cut>>
    BY DEF Lapse, CacheLapse, CodeLapse, SessionLapse
  <1>2. cached' \subseteq cached /\ \A s \in Sessions : sess'[s] \in {sess[s], NoRow}
    BY <1>0 DEF Lapse, CacheLapse, CodeLapse, SessionLapse, TypeOK
  <1>3. \A u \in Users : code'[u] \in {code[u], NoMail}
    BY <1>0 DEF Lapse, CacheLapse, CodeLapse, SessionLapse, TypeOK
  <1>4. Sound'
    BY <1>0, <1>1, <1>2, <1>3
    DEF Lapse, CacheLapse, CodeLapse, SessionLapse, IInv, Sound, TypeOK, Grounded
  <1>5. CacheForgets'
    <2> SUFFICES ASSUME NEW u \in cached' \intersect deleted'
                 PROVE  Pending({"flushEnd", "flushEndAsk"}, u)' \/ u \in late' \union kept' \union cut'
      BY DEF CacheForgets
    <2>1. Pending({"flushEnd", "flushEndAsk"}, u) \/ u \in late \union kept \union cut
      BY <1>1, <1>2 DEF IInv, CacheForgets
    <2>2. u \in late \union kept => u \in late' \union kept'
      BY DEF Lapse, CacheLapse, CodeLapse, SessionLapse
    <2> QED
      BY <1>1, <2>1, <2>2 DEF Pending
  <1>6. SessionsEnd'
    BY <1>1, <1>2 DEF IInv, SessionsEnd, Pending
  <1>7. ProvenSound'
    BY <1>1, <1>3 DEF IInv, ProvenSound, Proven, Pending, Crowded
  <1> QED
    BY <1>4, <1>5, <1>6, <1>7 DEF IInv

LEMMA RestartStep ==
  ASSUME IInv, crossed' = crossed \union Crowded', Restart
  PROVE  IInv'
  <1> USE DEF row, access, address
  <1>0. TypeOK /\ crossed' \in SUBSET Users
    BY DEF IInv, Sound, TypeOK, Crowded
  <1>1. \A p \in Procs : task'[p] = Idle
    BY DEF Restart
  <1>2. UNCHANGED <<known, deleted, disabled, verified, mail, code, proof, cached, sess, late, kept>>
    BY DEF Restart
  <1>3. ASSUME NEW u, Pending(Owing, u) PROVE u \in cut'
    BY <1>3 DEF Restart, Pending
  <1>4. cut \subseteq cut' /\ cut' \in SUBSET Users
    <2>1. ASSUME NEW q \in Procs, task[q].op \in Owing PROVE task[q].user \in Users
      BY <1>0, <2>1 DEF Owing, IInv, Sound, Grounded, TypeOK
    <2> QED
      BY <1>0, <2>1 DEF Restart, TypeOK
  <1>5. Sound'
    <2>1. task' \in [Procs -> Task]
      BY IdleType DEF Restart
    <2> QED
      BY <1>0, <1>1, <1>2, <1>4, <2>1 DEF IInv, Sound, TypeOK, Grounded, Idle
  <1>6. CacheForgets'
    BY <1>2, <1>3, <1>4 DEF IInv, CacheForgets, Pending, Owing
  <1>7. SessionsEnd'
    BY <1>2, <1>3, <1>4 DEF IInv, SessionsEnd, Pending, Owing
  <1>8. ProvenSound'
    <2>1. ASSUME NEW u \in Users, u \notin crossed' \union cut' PROVE Proven(u)'
      <3>1. Proven(u) /\ ~ Pending(Asking, u)
        BY <1>3, <1>4, <2>1 DEF IInv, ProvenSound, Pending, Owing, Asking
      <3> QED
        BY <1>1, <1>2, <3>1 DEF Proven, Idle, Mailed, Asking
    <2> QED
      BY <2>1 DEF ProvenSound
  <1> QED
    BY <1>5, <1>6, <1>7, <1>8 DEF IInv

\* An admin's update: each field is written or not.
LEMMA UpdateUserStep ==
  ASSUME IInv, crossed' = crossed \union Crowded', NEW p \in Procs, UpdateUserWrite(p)
  PROVE  IInv'
  <1> USE DEF row, access, address
  <1> DEFINE w == task[p].user
  <1>0. /\ task \in [Procs -> Task] /\ task[p] \in Task /\ TypeOK
        /\ task[p].op = "edit" /\ w \in known /\ w \in Users
        /\ mail[w] \in Mails
    BY DEF IInv, Sound, Grounded, TypeOK, UpdateUserWrite
  <1>1. crossed' \in SUBSET Users
    BY <1>0 DEF Crowded, TypeOK
  <1>2. PICK off \in BOOLEAN, ok \in BOOLEAN, m \in Mails \union {NoMail} :
          LET changed == m \notin {NoMail, task[p].mail} IN
          /\ mail' = MailAfter(w, m)
          /\ disabled' = IF off THEN disabled \union {w} ELSE disabled \ {w}
          /\ code' = CodeAfter(w, changed)
          /\ IF ok /\ ~ changed
               THEN IF w \in verified THEN UNCHANGED <<verified, proof>>
                    ELSE Verify(w, task[p].mail)
               ELSE verified' = verified \ {w} /\ UNCHANGED proof
          /\ Then(p, IF EndsAccess(off, changed) THEN "flushEnd" ELSE "flush")
    BY DEF UpdateUserWrite
  <1> DEFINE changed == m \notin {NoMail, task[p].mail}
             next    == IF EndsAccess(off, changed) THEN "flushEnd" ELSE "flush"
             t       == [op |-> next, user |-> w, mail |-> NoMail]
  <1>3. Moved(p, t)
    BY <1>0, <1>2, Moves, AllOps
  <1>4. UNCHANGED <<known, deleted, cached, sess, late, kept, cut>>
    BY DEF UpdateUserWrite
  <1>5. \A v \in Users \ {w} :
            /\ v \in verified' <=> v \in verified
            /\ mail'[v] = mail[v] /\ code'[v] = code[v] /\ proof'[v] = proof[v]
    BY <1>0, <1>2 DEF MailAfter, CodeAfter, Verify, TypeOK
  <1>6. mail'[w] = IF m = NoMail THEN mail[w] ELSE m
    BY <1>0, <1>2 DEF MailAfter, TypeOK
  <1>7. code'[w] = IF changed THEN NoMail ELSE code[w]
    BY <1>0, <1>2 DEF CodeAfter, TypeOK
  <1>8. Sound'
    <2>1. /\ mail' \in [Users -> Mails \union {NoMail}]
          /\ code' \in [Users -> Mails \union {NoMail}]
          /\ proof' \in [Users -> Mails \union {NoMail}]
          /\ verified' \in SUBSET Users /\ disabled' \in SUBSET Users
      BY <1>0, <1>2 DEF MailAfter, CodeAfter, Verify, TypeOK, Task
    <2>2. mail'[w] \in Mails
      BY <1>0, <1>6
    <2>3. TypeOK'
      BY <1>0, <1>1, <1>3, <1>4, <1>5, <2>1, <2>2 DEF TypeOK, Moved
    <2>4. verified' \subseteq known'
      BY <1>0, <1>2, <1>4 DEF Verify, IInv, Sound, Grounded
    <2>5. Grounded'
      BY <1>0, <1>3, <1>4, <1>5, <2>4 DEF IInv, Sound, Grounded, Moved
    <2> QED
      BY <2>3, <2>5 DEF Sound
  <1>9. CacheForgets'
    BY <1>0, <1>3, <1>4, CacheMove DEF IInv
  <1>10. SessionsEnd'
    <2>1. CASE off
      <3>1. t.op = "flushEnd"
        BY <2>1 DEF EndsAccess
      <3>2. \A v : v # w /\ v \in disabled' => v \in disabled
        BY <1>2
      <3> QED
        BY <1>0, <1>3, <1>4, <3>1, <3>2 DEF IInv, SessionsEnd, Pending, Moved
    <2>2. CASE ~ off
      <3>1. disabled' \subseteq disabled
        BY <1>2, <2>2
      <3> QED
        BY <1>0, <1>3, <1>4, <3>1 DEF IInv, SessionsEnd, Pending, Moved
    <2> QED
      BY <2>1, <2>2
  <1>11. ProvenSound'
    <2>1. ASSUME Proven(w), Alone(p, w) PROVE Fine(w, t)
      <3>1. task[p].mail = mail[w]
        BY <1>0, <2>1 DEF Proven, Mailed
      <3>2. code[w] \in {NoMail, mail[w]}
        BY <1>0, <2>1 DEF Proven, Pending, Alone, Asking
      <3>3. code'[w] \in {NoMail, mail'[w]}
        BY <1>6, <1>7, <3>1, <3>2
      <3>4. w \in verified' => proof'[w] = mail'[w]
        <4>1. CASE ok /\ ~ changed
          <5>1. mail'[w] = mail[w]
            BY <1>6, <3>1, <4>1
          <5>2. w \in verified => proof'[w] = proof[w]
            BY <1>2, <4>1
          <5>3. w \notin verified => proof'[w] = mail[w]
            BY <1>0, <1>2, <3>1, <4>1 DEF Verify, TypeOK
          <5> QED
            BY <2>1, <5>1, <5>2, <5>3 DEF Proven
        <4>2. CASE ~ (ok /\ ~ changed)
          BY <1>2, <4>2
        <4> QED
          BY <4>1, <4>2
      <3>5. t.op \notin Mailed
        BY DEF Mailed, Asking
      <3> QED
        BY <3>3, <3>4, <3>5 DEF Fine, Mailed
    <2> QED
      BY <1>0, <1>3, <1>4, <1>5, <2>1, ProvenMove DEF IInv
  <1> QED
    BY <1>8, <1>9, <1>10, <1>11 DEF IInv

THEOREM Invariance == Spec => []IInv
  <1>1. IInv /\ [Next]_vars => IInv'
    <2> SUFFICES ASSUME IInv, [Next]_vars PROVE IInv'
      OBVIOUS
    <2>1. CASE UNCHANGED vars
      BY <2>1 DEF vars, IInv, Sound, TypeOK, Grounded, CacheForgets, SessionsEnd, ProvenSound,
         Proven, Pending, Crowded
    <2>2. CASE Next
      <3>1. crossed' = crossed \union Crowded'
        BY <2>2 DEF Next
      <3>2. ASSUME NEW p \in Procs, RequestStep(p) PROVE IInv'
        BY <3>1, <3>2, BeginStep, GoOnStep, AddressStep, SignUpStep, AccessStep, UpdateUserStep
        DEF RequestStep, LoginStep, OwnStep, AdminStep
      <3> QED
        BY <2>2, <3>1, <3>2, LapseStep, RestartStep DEF Next
    <2> QED
      BY <2>1, <2>2
  <1> QED
    BY <1>1, IInvInit, PTL DEF Spec

-----------------------------------------------------------------------------
\* Types: in particular, a row is known just when it has an address.
THEOREM TypeCorrect == Spec => []TypeOK
  <1>1. IInv => TypeOK
    BY DEF IInv, Sound
  <1> QED
    BY <1>1, Invariance, PTL

\* The guard answers from the cache for a deleted user only in the cases named.
THEOREM CacheIsForgotten == Spec => []CacheForgets
  <1>1. IInv => CacheForgets
    BY DEF IInv
  <1> QED
    BY <1>1, Invariance, PTL

\* A session opened in good standing does not outlive it.
THEOREM SessionsAreEnded == Spec => []SessionsEnd
  <1>1. IInv => SessionsEnd
    BY DEF IInv
  <1> QED
    BY <1>1, Invariance, PTL

\* A verified address was shown to be the user's.
THEOREM AddressIsProven == Spec => []VerifiedIsProven
  <1>1. IInv => VerifiedIsProven
    BY DEF IInv, Sound, TypeOK, ProvenSound, Proven, VerifiedIsProven
  <1> QED
    BY <1>1, Invariance, PTL
=============================================================================

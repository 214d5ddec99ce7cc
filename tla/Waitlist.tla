------------------------------ MODULE Waitlist ------------------------------
(***************************************************************************)
(* The waiting list of one kind of service (ServiceWaitlistService).  A    *)
(* notification run reads who has not been notified and then, one entry    *)
(* after the other, queues a mail and marks the entry; a failure of either *)
(* is logged and the run goes on.  Nothing keeps two runs apart, and       *)
(* EmailService.queueEmail does nothing outside production.                *)
(***************************************************************************)
EXTENDS Integers

CONSTANTS
    People,        \* e-mail addresses
    Procs,         \* runs at the same time
    MaxMails,      \* bound: mails counted for an entry
    Nobody

\* The assumptions about the constants, which Desk makes.
WaitlistAssumption ==
    /\ MaxMails \in Nat \ {0, 1}
    /\ Nobody \notin People

VARIABLES
    production,    \* NODE_ENV
    entry,         \* the ServiceWaitlist row of each address
    mails,         \* history: mails queued for the address since the row was made
    task,          \* the run each process is in
    orderly        \* history: runs kept apart, and none was disturbed between mail and mark

vars == <<production, entry, mails, task, orderly>>

-----------------------------------------------------------------------------
(* "left" are the entries a run has still to handle and "mailed" the one   *)
(* whose mail it has queued; "gone" are those whose row was deleted after  *)
(* the run read it, whether or not the address has joined again.           *)

Task == [left : SUBSET People, mailed : People \union {Nobody}, gone : SUBSET People]

Idle == [left |-> {}, mailed |-> Nobody, gone |-> {}]

Running(p) == task[p].left # {}

TypeOK ==
    /\ production \in BOOLEAN
    /\ entry \in [People -> {"NONE", "WAITING", "NOTIFIED"}]
    /\ mails \in [People -> 0..MaxMails]
    /\ task \in [Procs -> Task]
    /\ orderly \in BOOLEAN

Init ==
    /\ production \in BOOLEAN
    /\ entry = [a \in People |-> "NONE"]
    /\ mails = [a \in People |-> 0]
    /\ task = [p \in Procs |-> Idle]
    /\ orderly = TRUE

-----------------------------------------------------------------------------
\* One row for each address and service; the unique key decides between two requests.
JoinWaitlist(a) ==
    /\ entry[a] = "NONE"
    /\ entry' = [entry EXCEPT ![a] = "WAITING"]
    /\ mails' = [mails EXCEPT ![a] = 0]
    /\ UNCHANGED <<production, task, orderly>>

RemoveFromWaitlist(a) ==
    /\ entry[a] # "NONE"
    /\ entry' = [entry EXCEPT ![a] = "NONE"]
    /\ mails' = [mails EXCEPT ![a] = 0]
    /\ task' = [p \in Procs |-> IF a \in task[p].left
                                THEN [task[p] EXCEPT !.gone = @ \union {a}] ELSE task[p]]
    /\ orderly' = (orderly /\ \A p \in Procs : a \notin task[p].left)
    /\ UNCHANGED production

-----------------------------------------------------------------------------
\* A slip: those who were notified are asked for again.
EverybodyOn(a) == entry[a] # "NONE"

Unnotified(a) == entry[a] = "WAITING"

NotifyRead(p) ==
    LET L == {a \in People : Unnotified(a)} IN
    /\ ~Running(p)
    /\ L # {}
    /\ task' = [task EXCEPT ![p] = [left |-> L, mailed |-> Nobody, gone |-> {}]]
    /\ orderly' = (orderly /\ \A q \in Procs : ~Running(q))
    /\ UNCHANGED <<production, entry, mails>>

\* The entry is done with; a run without entries is over.
Done(p, a) ==
    IF task[p].left = {a} THEN Idle
    ELSE [left |-> task[p].left \ {a}, mailed |-> Nobody, gone |-> task[p].gone \ {a}]

\* queueEmail; the run knows the address from the row it read.
QueueMail(p, a) ==
    /\ a \in task[p].left
    /\ task[p].mailed = Nobody
    /\ mails' = [mails EXCEPT ![a] =
            IF production /\ mails[a] < MaxMails THEN mails[a] + 1 ELSE mails[a]]
    /\ task' = [task EXCEPT ![p].mailed = a]
    /\ UNCHANGED <<production, entry, orderly>>

QueueFails(p, a) ==
    /\ a \in task[p].left
    /\ task[p].mailed = Nobody
    /\ task' = [task EXCEPT ![p] = Done(p, a)]
    /\ UNCHANGED <<production, entry, mails, orderly>>

\* A slip: the entry is marked by its address.
MarksAddress(p, a) == entry[a] # "NONE"

\* update by id needs the row the run has read.
MarksRow(p, a) == a \notin task[p].gone

Mark(p) ==
    LET a == task[p].mailed IN
    /\ a # Nobody
    /\ entry' = IF MarksRow(p, a) THEN [entry EXCEPT ![a] = "NOTIFIED"] ELSE entry
    /\ task' = [task EXCEPT ![p] = Done(p, a)]
    /\ UNCHANGED <<production, mails, orderly>>

\* The update fails: the mail is on its way, the entry still counts as not notified.
MarkFails(p) ==
    /\ task[p].mailed # Nobody
    /\ task' = [task EXCEPT ![p] = Done(p, task[p].mailed)]
    /\ orderly' = FALSE
    /\ UNCHANGED <<production, entry, mails>>

\* The server stops during a run.
Restart ==
    /\ \E p \in Procs : Running(p)
    /\ task' = [p \in Procs |-> Idle]
    /\ orderly' = (orderly /\ \A p \in Procs : task[p].mailed = Nobody)
    /\ UNCHANGED <<production, entry, mails>>

-----------------------------------------------------------------------------
RunStep(p) ==
    \/ NotifyRead(p)
    \/ \E a \in People : QueueMail(p, a) \/ QueueFails(p, a)
    \/ Mark(p) \/ MarkFails(p)

Next ==
    \/ \E a \in People : JoinWaitlist(a) \/ RemoveFromWaitlist(a)
    \/ \E p \in Procs : RunStep(p)
    \/ Restart

Spec == Init /\ [][Next]_vars

-----------------------------------------------------------------------------
\* In production nobody is put down as notified without a mail for this entry, whatever
\* failed and whoever left and joined again during a run.
NotifiedIsMailed == production => \A a \in People : entry[a] = "NOTIFIED" => mails[a] > 0

\* Nobody gets a second mail while runs keep apart, every mark succeeds and nobody leaves
\* during a run.
MailedOnce == orderly => \A a \in People : mails[a] <= 1
=============================================================================

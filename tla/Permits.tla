------------------------------ MODULE Permits -------------------------------
(***************************************************************************)
(* The travel permit of one guest of a tour booking.  The customer submits *)
(* it with two documents, admins approve or reject it and attach the       *)
(* permit's document (PermitService), and a daily run of the scheduler     *)
(* expires it six months after the approval.  Every handler reads the row, *)
(* checks its status and then writes by id.                                *)
(***************************************************************************)
EXTENDS Integers

CONSTANT Procs     \* requests handled at the same time

VARIABLES
    status,        \* Permit.status
    docs,          \* which of the guest's documents are attached
    approved,      \* approvedAt: never, within six months, or longer ago
    paper,         \* permitDocumentId is set
    task,          \* the request each process handles
    sweeping       \* the scheduler's run has the permit in its list

vars == <<status, docs, approved, paper, task, sweeping>>

-----------------------------------------------------------------------------
Docs == {"passportPhoto", "identityProof"}

PermitStatus == {"REQUIRED", "COLLECTING_DOCS", "SUBMITTED", "APPROVED", "REJECTED", "EXPIRED"}

Task == [op : {"idle", "submit", "approve", "reject", "attach"}, docs : SUBSET Docs]

Idle == [op |-> "idle", docs |-> {}]

TypeOK ==
    /\ status \in PermitStatus
    /\ docs \in SUBSET Docs
    /\ approved \in {"never", "recently", "long ago"}
    /\ paper \in BOOLEAN
    /\ task \in [Procs -> Task]
    /\ sweeping \in BOOLEAN

\* createTourBooking makes the permit, with what documents the guest has given.
Init ==
    /\ docs \in SUBSET Docs
    /\ status = IF docs = Docs THEN "COLLECTING_DOCS" ELSE "REQUIRED"
    /\ approved = "never"
    /\ paper = FALSE
    /\ task = [p \in Procs |-> Idle]
    /\ sweeping = FALSE

-----------------------------------------------------------------------------
Begin(p, t) ==
    /\ task[p].op = "idle"
    /\ task' = [task EXCEPT ![p] = t]

End(p) == task' = [task EXCEPT ![p] = Idle]

\* A slip: either document will do.
Some(given) == given # {}

Complete(given) == given = Docs

\* submitPermit: what the request brings, and otherwise what is there.
SubmitRead(p) ==
    /\ status \in {"REQUIRED", "COLLECTING_DOCS"}
    /\ \E brought \in SUBSET Docs :
        /\ Complete(brought \union docs)
        /\ Begin(p, [op |-> "submit", docs |-> brought \union docs])
    /\ UNCHANGED <<status, docs, approved, paper, sweeping>>

SubmitWrite(p) ==
    /\ task[p].op = "submit"
    /\ status' = "SUBMITTED"
    /\ docs' = docs \union task[p].docs
    /\ End(p)
    /\ UNCHANGED <<approved, paper, sweeping>>

ApproveRead(p) ==
    /\ status = "SUBMITTED"
    /\ Begin(p, [Idle EXCEPT !.op = "approve"])
    /\ UNCHANGED <<status, docs, approved, paper, sweeping>>

ApproveWrite(p) ==
    /\ task[p].op = "approve"
    /\ status' = "APPROVED"
    /\ approved' = "recently"
    /\ paper' \in {paper, TRUE}
    /\ End(p)
    /\ UNCHANGED <<docs, sweeping>>

RejectRead(p) ==
    /\ status \in {"SUBMITTED", "COLLECTING_DOCS"}
    /\ Begin(p, [Idle EXCEPT !.op = "reject"])
    /\ UNCHANGED <<status, docs, approved, paper, sweeping>>

RejectWrite(p) ==
    /\ task[p].op = "reject"
    /\ status' = "REJECTED"
    /\ End(p)
    /\ UNCHANGED <<docs, approved, paper, sweeping>>

AttachRead(p) ==
    /\ status = "APPROVED"
    /\ Begin(p, [Idle EXCEPT !.op = "attach"])
    /\ UNCHANGED <<status, docs, approved, paper, sweeping>>

AttachWrite(p) ==
    /\ task[p].op = "attach"
    /\ paper' = TRUE
    /\ End(p)
    /\ UNCHANGED <<status, docs, approved, sweeping>>

Abort(p) ==
    /\ task[p].op # "idle"
    /\ End(p)
    /\ UNCHANGED <<status, docs, approved, paper, sweeping>>

-----------------------------------------------------------------------------
(* Time, and expireStalePermits, daily; what fails is left to the next day *)

SixMonths ==
    /\ approved = "recently"
    /\ approved' = "long ago"
    /\ UNCHANGED <<status, docs, paper, task, sweeping>>

Stale == status # "EXPIRED" /\ approved = "long ago"

SweepFind ==
    /\ ~ sweeping
    /\ Stale
    /\ sweeping' = TRUE
    /\ UNCHANGED <<status, docs, approved, paper, task>>

SweepWrite ==
    /\ sweeping
    /\ status' = "EXPIRED"
    /\ sweeping' = FALSE
    /\ UNCHANGED <<docs, approved, paper, task>>

SweepFail ==
    /\ sweeping
    /\ sweeping' = FALSE
    /\ UNCHANGED <<status, docs, approved, paper, task>>

-----------------------------------------------------------------------------
RequestStep(p) ==
    \/ SubmitRead(p) \/ SubmitWrite(p)
    \/ ApproveRead(p) \/ ApproveWrite(p)
    \/ RejectRead(p) \/ RejectWrite(p)
    \/ AttachRead(p) \/ AttachWrite(p)
    \/ Abort(p)

Next ==
    \/ \E p \in Procs : RequestStep(p)
    \/ SixMonths
    \/ SweepFind \/ SweepWrite \/ SweepFail

Spec == Init /\ [][Next]_vars

-----------------------------------------------------------------------------
\* In whatever order customers, admins and the scheduler read and write: nothing is
\* submitted, and nothing was ever approved, without both documents; and a permit's own
\* document is attached only to what was approved.
DocumentsFirst ==
    /\ status \in {"SUBMITTED", "APPROVED"} => docs = Docs
    /\ approved # "never" => docs = Docs
    /\ paper => approved # "never"
=============================================================================

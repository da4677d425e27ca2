---------------------------- MODULE AccountErase ----------------------------
(* Closing an account. Auth locks the user, then erases stage by stage:     *)
(* drafting, billing, its own data, the audit log, drafting and billing     *)
(* once more, and last the user document. Each stage that finished is       *)
(* written on the user; a run that fails or dies leaves the account locked  *)
(* and the ten-minute sweep resumes it. The runs are those of DELETE /me,   *)
(* of the sweep of unverified accounts and of the erase sweep; they may     *)
(* overlap, and so may the calls to drafting, which go on when auth gives   *)
(* up on their answer. Requests that began before the lock still write, and *)
(* the public review posts come at any time.                                *)
EXTENDS Naturals, FiniteSets

CONSTANTS
    Closer,      \* runs of closeAccount
    Unverified,  \* runs of the unverified sweep's delete step
    Sweeper,     \* the runner of the erase sweep (one, never overlapping itself)
    Call,        \* calls of drafting's eraseAccount that can be open at once
    MaxRuns,     \* runs of runAccountErase at a time
    MaxFaults,   \* failed, unanswered or cut-off steps
    Late,        \* what may still be written: by requests that began before the
                 \* lock, and by review posts through a link that is still open
    MaxLate      \* how many of them

Kinds == {"work", "usage", "session", "audit"}

Runner == Closer \cup Unverified \cup {Sweeper}

ASSUME EraseAssumption ==
    /\ Sweeper \notin Closer \cup Unverified /\ Closer \cap Unverified = {}
    /\ MaxRuns \in Nat \ {0} /\ MaxFaults \in Nat /\ Late \subseteq Kinds \cup {"own", "guest"} /\ MaxLate \in Nat

VARIABLES
    user,      \* [there, active, verified, stage]: the user document
    lockedBy,  \* ghost: the runner whose lock was the first write
    finished,  \* ghost: the stages whose work some run has done
    rows,      \* <<kind, late>>: rows held by user id, and whether they came late
    inflight,  \* kinds a request that began before the lock may still write
    docs,      \* the user's document in drafting, which has the review rows
    review,    \* review link of the old document, and the feedback given by it
    guest,     \* link and rows of the user as a reviewer of somebody else's document
    posting,   \* the links of the two by which a post is in flight
    deleteRow, \* the account_delete row of the audit log is there
    runner,    \* [Runner -> what it is doing]
    call,      \* [Call -> a run of drafting's eraseAccount]
    faults

vars == <<user, lockedBy, finished, rows, inflight, docs, review, guest, posting, deleteRow,
          runner, call, faults>>

(* The stages in order; 0 is no erasure marker.                             *)
Locked == 1
DraftingErased == 2
BillingErased == 3
AuthDataErased == 4
AuditDone == 5
Stage == 0..5

(* The stage after which no row of a kind is looked for again.              *)
LastErasedBy(kind) == IF kind = "session" THEN AuthDataErased ELSE AuditDone
RowsOf(kind) == {x \in rows : x[1] = kind}

NoCall == [pc |-> "free", by |-> {}, docs |-> {}, guest |-> FALSE]
Idle == [pc |-> "idle", at |-> 0]

Init ==
    /\ \E verified \in BOOLEAN :
          user = [there |-> TRUE, active |-> TRUE, verified |-> verified, stage |-> 0]
    /\ lockedBy = {} /\ finished = {}
    /\ rows = Kinds \X {FALSE}
    /\ docs = {"old"}
    /\ \E late \in SUBSET Late :
          /\ Cardinality(late) <= MaxLate
          /\ inflight = IF user.verified THEN late \cap Kinds ELSE {}
          /\ review = IF "own" \in late THEN [link |-> "open", feedback |-> "none"]
                                        ELSE [link |-> "used", feedback |-> "stored"]
          /\ guest = IF "guest" \in late THEN [link |-> "open", rows |-> "none"]
                                         ELSE [link |-> "used", rows |-> "named"]
    /\ posting = {}
    /\ deleteRow = FALSE
    /\ runner = [r \in Runner |-> Idle]
    /\ call = [c \in Call |-> NoCall]
    /\ faults = 0

posts == <<review, guest, posting>>
drafting == <<docs, posts>>
ghosts == <<lockedBy, finished>>
account == <<user, lockedBy, finished>>

----------------------------------------------------------------------------
(* What goes on beside the erase.                                           *)

(* A request that passed its session or isActive check before the lock      *)
(* writes its rows: a draft, an ink row, a session, an audit row.           *)
LateWrite(kind) ==
    /\ kind \in inflight
    /\ inflight' = inflight \ {kind}
    /\ rows' = rows \cup {<<kind, LastErasedBy(kind) \in finished>>}
    /\ UNCHANGED <<account, drafting, deleteRow, runner, call, faults>>

(* A post finds its link open and the document there. The document that the *)
(* user reviews is somebody else's, and stays.                              *)
BeginPost(which) ==
    /\ which \notin posting
    /\ IF which = "own" THEN review.link = "open" /\ "old" \in docs ELSE guest.link = "open"
    /\ posting' = posting \cup {which}
    /\ UNCHANGED <<account, rows, inflight, docs, review, guest, deleteRow, runner, call, faults>>

(* Behind the erase: it has passed the step that would have found the row.  *)
BehindOwn == \/ "old" \notin docs
             \/ \E c \in Call : call[c].pc \in {"links", "rows", "documents"} /\ "old" \in call[c].docs

BehindGuest == \/ guest.link = "placeholder"
               \/ \E c \in Call : call[c].pc = "guestLinks" /\ call[c].guest

(* It writes what it has read, whatever went meanwhile; the link it came by *)
(* is used, if it is still there. Feedback on the user's document ...       *)
EndOwnPost ==
    /\ "own" \in posting
    /\ posting' = posting \ {"own"}
    /\ review' = [link |-> IF review.link = "none" THEN "none" ELSE "used",
                  feedback |-> IF BehindOwn THEN "late" ELSE "stored"]
    /\ UNCHANGED <<account, rows, inflight, docs, guest, deleteRow, runner, call, faults>>

(* ... and the user's own post as a reviewer: the feedback and the event    *)
(* take the name.                                                           *)
EndGuestPost ==
    /\ "guest" \in posting
    /\ posting' = posting \ {"guest"}
    /\ guest' = [link |-> IF guest.link = "placeholder" THEN "placeholder" ELSE "used",
                 rows |-> IF BehindGuest THEN "late" ELSE "named"]
    /\ UNCHANGED <<account, rows, inflight, docs, review, deleteRow, runner, call, faults>>

(* A verify link is used: only on a live account that is not being erased.  *)
LiveAccount == user.there /\ user.active /\ user.stage = 0
VerifyEmail ==
    /\ LiveAccount /\ ~user.verified
    /\ user' = [user EXCEPT !.verified = TRUE]
    /\ UNCHANGED <<ghosts, rows, inflight, drafting, deleteRow, runner, call, faults>>

----------------------------------------------------------------------------
(* The ways in.                                                             *)

Running == {"read", "step", "wait", "mark", "askAgain", "waitAgain", "billingAgain", "delete"}
Room == Cardinality({r \in Runner : runner[r].pc \in Running}) < MaxRuns

Goto(r, pc) == runner' = [runner EXCEPT ![r].pc = pc]

(* closeAccount reads the user, takes the proof, asks billing.              *)
Check(r) ==
    /\ r \in Closer /\ runner[r].pc = "idle"
    /\ LiveAccount
    /\ Goto(r, "checked")
    /\ UNCHANGED <<account, rows, inflight, drafting, deleteRow, call, faults>>

(* The delete step finds an unverified account whose days are over.         *)
FindUnverified(r) ==
    /\ r \in Unverified /\ runner[r].pc = "idle"
    /\ user.there /\ user.stage = 0 /\ ~user.verified
    /\ Goto(r, "due")
    /\ UNCHANGED <<account, rows, inflight, drafting, deleteRow, call, faults>>

(* The lock writes a marker only where there is none.                       *)
LockUser(r) ==
    IF user.stage = 0
    THEN /\ user' = [user EXCEPT !.active = FALSE, !.stage = Locked]
         /\ lockedBy' = lockedBy \cup {r}
    ELSE /\ user' = [user EXCEPT !.active = FALSE]
         /\ UNCHANGED lockedBy

Lock(r) ==
    /\ runner[r].pc = "checked"
    /\ LockUser(r)
    /\ Goto(r, "kill")
    /\ UNCHANGED <<finished, rows, inflight, drafting, deleteRow, call, faults>>

(* Mutant: the lock does not ask again whether the user verified.           *)
DueByMarker == user.there /\ user.stage = 0

(* The conditional lock: what made the account due is part of the write.    *)
StillDue == user.there /\ user.stage = 0 /\ ~user.verified
LockIfDue(r) ==
    /\ runner[r].pc = "due"
    /\ IF StillDue
       THEN LockUser(r) /\ Goto(r, "kill")
       ELSE UNCHANGED <<user, lockedBy>> /\ Goto(r, "idle")
    /\ UNCHANGED <<finished, rows, inflight, drafting, deleteRow, call, faults>>

(* Every session is killed; a failure is left to the auth stage.            *)
Kill(r) ==
    /\ runner[r].pc = "kill" /\ Room
    /\ rows' = rows \ RowsOf("session")
    /\ Goto(r, "read")
    /\ UNCHANGED <<account, inflight, drafting, deleteRow, call, faults>>

KillFails(r) ==
    /\ runner[r].pc = "kill" /\ Room /\ faults < MaxFaults
    /\ faults' = faults + 1
    /\ Goto(r, "read")
    /\ UNCHANGED <<account, rows, inflight, drafting, deleteRow, call>>

(* Mutant: the sweep takes only accounts that no stage has passed.          *)
TickLocked ==
    /\ runner[Sweeper].pc = "idle" /\ Room
    /\ user.there /\ user.stage = Locked
    /\ Goto(Sweeper, "read")
    /\ UNCHANGED <<account, rows, inflight, drafting, deleteRow, call, faults>>

(* The sweep takes up every account that has the marker.                    *)
Tick ==
    /\ runner[Sweeper].pc = "idle" /\ Room
    /\ user.there /\ user.stage # 0
    /\ Goto(Sweeper, "read")
    /\ UNCHANGED <<account, rows, inflight, drafting, deleteRow, call, faults>>

----------------------------------------------------------------------------
(* runAccountErase.                                                         *)

End(r) == runner' = [runner EXCEPT ![r] = Idle]

(* The run starts after the stage it reads. No user: finished, if the audit *)
(* log has the account_delete row.                                          *)
Read(r) ==
    /\ runner[r].pc = "read"
    /\ IF user.there
       THEN runner' = [runner EXCEPT ![r] =
                          [pc |-> IF user.stage = AuditDone THEN "askAgain" ELSE "step",
                           at |-> user.stage + 1]]
       ELSE End(r)
    /\ UNCHANGED <<account, rows, inflight, drafting, deleteRow, call, faults>>

(* A call to drafting is opened; its caller waits for the answer.           *)
Open(r) ==
    /\ \E c \in Call : call[c].pc = "free"
    /\ LET c == CHOOSE x \in Call : call[x].pc = "free"
       IN call' = [call EXCEPT ![c] = [NoCall EXCEPT !.pc = "read", !.by = {r}]]

Ask(r) ==
    /\ \/ runner[r].pc = "step" /\ runner[r].at = DraftingErased /\ Goto(r, "wait")
       \/ runner[r].pc = "askAgain" /\ Goto(r, "waitAgain")
    /\ Open(r)
    /\ UNCHANGED <<account, rows, inflight, drafting, deleteRow, faults>>

(* Billing deletes its usage rows and unsets the texts on the ones it keeps.*)
EraseBilling(r) ==
    /\ \/ runner[r].pc = "step" /\ runner[r].at = BillingErased /\ Goto(r, "mark")
       \/ runner[r].pc = "billingAgain" /\ Goto(r, "delete")
    /\ rows' = rows \ RowsOf("usage")
    /\ finished' = finished \cup {BillingErased}
    /\ UNCHANGED <<user, lockedBy, inflight, drafting, deleteRow, call, faults>>

EraseAuthData(r) ==
    /\ runner[r].pc = "step" /\ runner[r].at = AuthDataErased
    /\ rows' = rows \ RowsOf("session")
    /\ finished' = finished \cup {AuthDataErased}
    /\ Goto(r, "mark")
    /\ UNCHANGED <<user, lockedBy, inflight, drafting, deleteRow, call, faults>>

EraseAudit(r) ==
    /\ runner[r].pc = "step" /\ runner[r].at = AuditDone
    /\ deleteRow' = TRUE
    /\ rows' = rows \ RowsOf("audit")
    /\ finished' = finished \cup {AuditDone}
    /\ Goto(r, "mark")
    /\ UNCHANGED <<user, lockedBy, inflight, drafting, call, faults>>

Mark(r, stage, afterAudit) ==
    /\ runner[r].pc = "mark"
    /\ user' = IF user.there THEN [user EXCEPT !.stage = stage] ELSE user
    /\ runner' = [runner EXCEPT ![r] =
                     [pc |-> IF @.at = AuditDone THEN afterAudit ELSE "step", at |-> @.at + 1]]
    /\ UNCHANGED <<ghosts, rows, inflight, drafting, deleteRow, call, faults>>

(* Mutant: no second pass over drafting and billing.                        *)
SetStageNoRecheck(r) == Mark(r, runner[r].at, "delete")

(* The stage is written, whatever it was, if the user is still there.       *)
SetStage(r) == Mark(r, runner[r].at, "askAgain")

(* Last the user document itself.                                           *)
DeleteUser(r) ==
    /\ runner[r].pc = "delete"
    /\ user' = [user EXCEPT !.there = FALSE]
    /\ End(r)
    /\ UNCHANGED <<ghosts, rows, inflight, drafting, deleteRow, call, faults>>

(* A step fails, or its answer does not come in fifteen seconds, or the     *)
(* process dies: the account stays locked, the caller hears "pending".      *)
Fail(r) ==
    /\ runner[r].pc \in Running /\ faults < MaxFaults
    /\ faults' = faults + 1
    /\ End(r)
    /\ call' = [c \in Call |-> [call[c] EXCEPT !.by = @ \ {r}]]
    /\ UNCHANGED <<account, rows, inflight, drafting, deleteRow>>

Take(c, failed) ==
    /\ call[c].pc \in {"ok", "failed"}
    /\ call' = [call EXCEPT ![c] = NoCall]
    /\ IF call[c].by = {} THEN UNCHANGED runner
       ELSE \E r \in call[c].by :
              IF failed THEN End(r)
              ELSE Goto(r, IF runner[r].pc = "wait" THEN "mark" ELSE "billingAgain")
    /\ UNCHANGED <<account, rows, inflight, drafting, deleteRow, faults>>

(* Mutant: an answer that is not ok counts as done.                         *)
AnyAnswer(c) == Take(c, FALSE)

(* Drafting's answer, to a caller that still waits for it.                  *)
Answered(c) == Take(c, call[c].pc = "failed")

----------------------------------------------------------------------------
(* Drafting's eraseAccount.                                                 *)

Move(c, pc) == call' = [call EXCEPT ![c].pc = pc]

(* It answers: what it had read is gone; without a caller it is over.       *)
Answer(c, pc) ==
    call' = [call EXCEPT ![c] =
                IF @.by = {} THEN NoCall
                ELSE [@ EXCEPT !.pc = pc, !.docs = {}, !.guest = FALSE]]

(* The documents are read before anything goes, and the links on other      *)
(* people's documents that carry the user's address.                        *)
ReadFirst(c) ==
    /\ call[c].pc = "read"
    /\ call' = [call EXCEPT ![c].pc = "guestRows", ![c].docs = docs, ![c].guest = guest.link # "placeholder"]
    /\ UNCHANGED <<account, rows, inflight, drafting, deleteRow, runner, faults>>

Anonymous(c, what) == IF call[c].guest /\ what # "none" THEN "placeholder" ELSE what

(* Feedback and events first; the links last: the step before searches by   *)
(* them.                                                                    *)
GuestRows(c) ==
    /\ call[c].pc = "guestRows"
    /\ guest' = [guest EXCEPT !.rows = Anonymous(c, @)]
    /\ Move(c, "guestLinks")
    /\ UNCHANGED <<account, rows, inflight, docs, review, posting, deleteRow, runner, faults>>

GuestLinks(c) ==
    /\ call[c].pc = "guestLinks"
    /\ guest' = [guest EXCEPT !.link = Anonymous(c, @)]
    /\ Move(c, "feedback")
    /\ UNCHANGED <<account, rows, inflight, docs, review, posting, deleteRow, runner, faults>>

(* Feedback, then links, of the documents that were read.                   *)
OwnFeedback(c) ==
    /\ call[c].pc = "feedback"
    /\ review' = [review EXCEPT !.feedback = IF "old" \in call[c].docs THEN "none" ELSE @]
    /\ Move(c, "links")
    /\ UNCHANGED <<account, rows, inflight, docs, guest, posting, deleteRow, runner, faults>>

OwnLinks(c) ==
    /\ call[c].pc = "links"
    /\ review' = [review EXCEPT !.link = IF "old" \in call[c].docs THEN "none" ELSE @]
    /\ Move(c, "rows")
    /\ UNCHANGED <<account, rows, inflight, docs, guest, posting, deleteRow, runner, faults>>

(* Everything held by user id, collection by collection ...                 *)
OwnRows(c) ==
    /\ call[c].pc = "rows"
    /\ rows' = rows \ RowsOf("work")
    /\ Move(c, "documents")
    /\ UNCHANGED <<account, inflight, drafting, deleteRow, runner, faults>>

(* ... and the documents last: the review rows are found through them.      *)
OwnDocuments(c) ==
    /\ call[c].pc = "documents"
    /\ docs' = {}
    /\ finished' = finished \cup {DraftingErased}
    /\ Answer(c, "ok")
    /\ UNCHANGED <<user, lockedBy, rows, inflight, posts, deleteRow, runner, faults>>

CallFails(c) ==
    /\ call[c].pc \notin {"free", "ok", "failed"} /\ faults < MaxFaults
    /\ faults' = faults + 1
    /\ Answer(c, "failed")
    /\ UNCHANGED <<account, rows, inflight, drafting, deleteRow, runner>>

CallStep(c) ==
    \/ ReadFirst(c) \/ GuestRows(c) \/ GuestLinks(c)
    \/ OwnFeedback(c) \/ OwnLinks(c) \/ OwnRows(c) \/ OwnDocuments(c) \/ Answered(c)

RunnerStep(r) ==
    \/ Lock(r) \/ LockIfDue(r) \/ Kill(r) \/ Read(r) \/ Ask(r) \/ EraseBilling(r)
    \/ EraseAuthData(r) \/ EraseAudit(r) \/ SetStage(r) \/ DeleteUser(r)

Next ==
    \/ \E kind \in Kinds : LateWrite(kind)
    \/ \E which \in {"own", "guest"} : BeginPost(which)
    \/ EndOwnPost \/ EndGuestPost \/ VerifyEmail \/ Tick
    \/ \E r \in Runner : Check(r) \/ FindUnverified(r) \/ KillFails(r) \/ Fail(r) \/ RunnerStep(r)
    \/ \E c \in Call : CallFails(c) \/ CallStep(c)

Spec == Init /\ [][Next]_vars

Fairness ==
    /\ WF_vars(Tick)
    /\ \A r \in Runner : WF_vars(RunnerStep(r))
    /\ \A c \in Call : WF_vars(CallStep(c))

FairSpec == Spec /\ Fairness

----------------------------------------------------------------------------
CallPoints == {"free", "read", "guestRows", "guestLinks", "feedback", "links", "rows",
               "documents", "ok", "failed"}

(* Every document, row, run and call has its type.                          *)
TypeOK ==
    /\ user \in [there : BOOLEAN, active : BOOLEAN, verified : BOOLEAN, stage : Stage]
    /\ lockedBy \subseteq Runner /\ finished \subseteq Stage
    /\ rows \subseteq Kinds \X BOOLEAN /\ inflight \subseteq Kinds
    /\ docs \subseteq {"old"}
    /\ review \in [link : {"none", "open", "used"}, feedback : {"none", "stored", "late"}]
    /\ guest \in [link : {"open", "used", "placeholder"},
                  rows : {"none", "named", "late", "placeholder"}]
    /\ posting \subseteq {"own", "guest"}
    /\ deleteRow \in BOOLEAN /\ faults \in 0..MaxFaults
    /\ runner \in [Runner -> [pc : {"idle", "checked", "due", "kill"} \cup Running,
                             at : 0..AuditDone + 1]]
    /\ call \in [Call -> [pc : CallPoints, by : SUBSET Runner, docs : SUBSET {"old"}, guest : BOOLEAN]]

(* The stage on the user never runs ahead of the work, however the runs     *)
(* overlap and wherever they fail: a resumed run leaves out only what some  *)
(* run has finished since the lock.                                         *)
StageHonest == \A s \in DraftingErased..user.stage : s \in finished

(* Locked is for good: from the lock on the account is not active, and the  *)
(* marker is neither taken off nor put back to the start while it exists.   *)
StaysLocked ==
    [][user.stage # 0 =>
          /\ ~user'.active
          /\ user'.stage >= Locked
          /\ user'.stage = Locked => user.stage = Locked]_vars

(* The user document goes only when nothing is left of what existed before  *)
(* the last pass over it: drafting and billing rows written by requests     *)
(* that were in flight when the lock landed go with the second pass. Of the *)
(* review posts only those stay that the erase overtook between their reads *)
(* and their write ("late"): what they write, nothing looks for again.      *)
FinishedMeansErased ==
    ~user.there =>
        /\ deleteRow
        /\ \A x \in rows : x[2]
        /\ "old" \notin docs /\ review.link = "none" /\ review.feedback # "stored"
        /\ guest.link = "placeholder" /\ guest.rows # "named"

(* What is found only through another row is never left without it: a run   *)
(* cut off between any two steps can be taken up by the next. A review post *)
(* that the erase overtook leaves a row that nothing finds.                 *)
Reachable ==
    /\ review.link # "none" \/ review.feedback = "stored" => "old" \in docs
    /\ guest.rows = "named" => guest.link # "placeholder"

(* What is true of an erase in every state, together: its stages are done,  *)
(* and what is still there can still be found.                              *)
StagesOK == TypeOK /\ StageHonest /\ Reachable

(* A user who verified is never erased by the sweep of unverified accounts, *)
(* although it asked billing between its query and its lock; and a user it  *)
(* locked never verifies, so no bonus is granted to an account being erased.*)
VerifiedIsKept == [][lockedBy' \cap Unverified # {} => ~user'.verified]_vars

(* A lock is for good, and never that of a user who verified in time.       *)
LockOK == VerifiedIsKept /\ StaysLocked

(* An account that was locked is erased, whatever failed on the way.        *)
EraseFinishes == (user.stage # 0) ~> ~user.there
=============================================================================

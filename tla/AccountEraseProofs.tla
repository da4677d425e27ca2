------------------------- MODULE AccountEraseProofs -------------------------
(* Proofs about AccountErase: the stage on the user never runs ahead of the *)
(* work, what is still there can be found, a finished erase has left        *)
(* nothing behind, and a lock is for good - for every number of runs, of    *)
(* open calls and of faults.                                                *)
EXTENDS AccountErase, TLAPS

----------------------------------------------------------------------------
(* The inductive invariant.                                                 *)

Done(s) == s \subseteq finished

(* What a run is at, and what has been done by then.                        *)
RunOK(r) ==
    LET pc == runner[r].pc
        at == runner[r].at
    IN /\ pc = "checked" => r \in Closer
       /\ pc = "due" => r \in Unverified
       /\ pc \in {"kill"} \cup Running => user.stage # 0
       /\ pc = "step" => at \in 2..5 /\ Done(2..(at - 1))
       /\ pc = "wait" => at = 2
       /\ pc = "mark" => at \in 2..5 /\ Done(2..at)
       /\ pc \in {"askAgain", "waitAgain", "billingAgain", "delete"} => Done(2..5)

(* A call is that of one run, which waits for it and for no other; one that *)
(* answers ok has erased.                                                   *)
CallersOK ==
    /\ \A c \in Call : call[c].pc = "free" => call[c].by = {}
    /\ \A c \in Call : \A r \in call[c].by : runner[r].pc \in {"wait", "waitAgain"}
    /\ \A c \in Call : \A r, q \in call[c].by : r = q
    /\ \A c, d \in Call : call[c].by \cap call[d].by # {} => c = d
    /\ \A c \in Call : call[c].pc = "ok" => DraftingErased \in finished

(* Where a call is past a point, by the order of eraseAccount.              *)
PastRead == {"guestRows", "guestLinks", "feedback", "links", "rows", "documents"}
PastFeedback == {"links", "rows", "documents"}
PastLinks == {"rows", "documents"}
PastGuest == {"feedback", "links", "rows", "documents", "ok"}

(* What an open call has read and erased of the review rows.                *)
CallOK(c) ==
    LET k == call[c] IN
    /\ k.pc \in PastRead => ("old" \in k.docs \/ docs = {})
    /\ k.pc \in PastRead => (k.guest \/ guest.link = "placeholder")
    /\ k.pc = "guestLinks" /\ k.guest => guest.rows # "named"
    /\ k.pc \in PastGuest => guest.link = "placeholder"
    /\ k.pc \in PastFeedback => review.feedback # "stored"
    /\ k.pc \in PastLinks => review.link = "none"
    /\ k.pc = "ok" => docs = {}

(* The second pass over drafting starts when the audit stage is done: no    *)
(* row of the user's work from before is left when it answers.              *)
NoOld(kind) == <<kind, FALSE>> \notin rows

SecondPass ==
    /\ \A c \in Call : \A r \in call[c].by :
           runner[r].pc = "waitAgain" /\ call[c].pc \in {"documents", "ok"} => NoOld("work")
    /\ \A r \in Runner : runner[r].pc \in {"billingAgain", "delete"} =>
           NoOld("work") /\ docs = {} /\ guest.link = "placeholder"
    /\ \A r \in Runner : runner[r].pc = "delete" => NoOld("usage")
    /\ AuthDataErased \in finished => NoOld("session")
    /\ AuditDone \in finished => NoOld("audit") /\ deleteRow

GoneOK ==
    ~user.there => /\ NoOld("work") /\ NoOld("usage")
                   /\ docs = {} /\ guest.link = "placeholder"
                   /\ AuditDone \in finished /\ AuthDataErased \in finished

LockedOK ==
    /\ user.stage # 0 => ~user.active
    /\ user.stage = 0 => lockedBy = {} /\ user.there
    /\ lockedBy \cap Unverified # {} => ~user.verified

RunsOK == \A r \in Runner : RunOK(r)
CallsOK == \A c \in Call : CallOK(c)

Inv == TypeOK /\ StageHonest /\ LockedOK /\ RunsOK /\ CallersOK

FullInv == Inv /\ Reachable /\ CallsOK /\ SecondPass /\ GoneOK

LEMMA Truth == ASSUME NEW a, NEW S PROVE (a \in S) \in BOOLEAN
<1>1. CASE a \in S
  <2>1. (a \in S) = TRUE
    BY <1>1
  <2> QED
    BY <2>1
<1>2. CASE a \notin S
  <2>1. (a \in S) = FALSE
    BY <1>2
  <2> QED
    BY <2>1
<1> QED
  BY <1>1, <1>2


LEMMA StageNumbers ==
    /\ Locked = 1 /\ DraftingErased = 2 /\ BillingErased = 3
    /\ AuthDataErased = 4 /\ AuditDone = 5 /\ Stage = 0..5
  BY DEF Locked, DraftingErased, BillingErased, AuthDataErased, AuditDone, Stage

LEMMA LockEffect ==
    ASSUME TypeOK, NEW r \in Runner, LockUser(r)
    PROVE  /\ user' \in [there : BOOLEAN, active : BOOLEAN, verified : BOOLEAN, stage : Stage]
           /\ user'.there = user.there /\ user'.verified = user.verified /\ ~user'.active
           /\ user'.stage = (IF user.stage = 0 THEN 1 ELSE user.stage)
           /\ lockedBy' = (IF user.stage = 0 THEN lockedBy \cup {r} ELSE lockedBy)
  <1>0. user \in [there : BOOLEAN, active : BOOLEAN, verified : BOOLEAN, stage : 0..5]
    BY StageNumbers DEF TypeOK
  <1>1. CASE user.stage = 0
    <2>1. user' = [user EXCEPT !.active = FALSE, !.stage = 1] /\ lockedBy' = lockedBy \cup {r}
      BY <1>1, StageNumbers DEF LockUser
    <2>2. user' = [there |-> user.there, active |-> FALSE, verified |-> user.verified, stage |-> 1]
      BY <1>0, <2>1
    <2>3. user' \in [there : BOOLEAN, active : BOOLEAN, verified : BOOLEAN, stage : 0..5]
      BY <1>0, <2>2
    <2> QED
      BY <1>1, <2>1, <2>2, <2>3, StageNumbers
  <1>2. CASE user.stage # 0
    <2>1. user' = [user EXCEPT !.active = FALSE] /\ lockedBy' = lockedBy
      BY <1>2 DEF LockUser
    <2> QED
      BY <1>0, <1>2, <2>1, StageNumbers
  <1> QED
    BY <1>1, <1>2


LEMMA AnswerEffect ==
    ASSUME TypeOK, NEW c \in Call, NEW pc \in CallPoints, Answer(c, pc)
    PROVE  /\ call' \in [Call -> [pc : CallPoints, by : SUBSET Runner,
                                 docs : SUBSET {"old"}, guest : BOOLEAN]]
           /\ \A d \in Call \ {c} : call'[d] = call[d]
           /\ call'[c].by = call[c].by
           /\ call[c].by # {} => call'[c].pc = pc
           /\ call[c].by = {} => call'[c].pc = "free"
  <1> DEFINE k == IF call[c].by = {} THEN NoCall
                  ELSE [call[c] EXCEPT !.pc = pc, !.docs = {}, !.guest = FALSE]
  <1>1. call' = [call EXCEPT ![c] = k]
    BY DEF Answer
  <1>2. call[c] \in [pc : CallPoints, by : SUBSET Runner, docs : SUBSET {"old"}, guest : BOOLEAN]
    BY DEF TypeOK
  <1>3. /\ k \in [pc : CallPoints, by : SUBSET Runner, docs : SUBSET {"old"}, guest : BOOLEAN]
        /\ k.by = call[c].by
        /\ call[c].by # {} => k.pc = pc
        /\ call[c].by = {} => k.pc = "free"
    BY <1>2 DEF NoCall, CallPoints
  <1> HIDE DEF k
  <1> QED
    BY <1>1, <1>3 DEF TypeOK

(* What a post writes counts as found by the erase only if the erase can    *)
(* still find it.                                                           *)
LEMMA PostEffect ==
    ASSUME TypeOK, EndOwnPost \/ EndGuestPost
    PROVE  /\ UNCHANGED <<user, lockedBy, finished, rows, inflight, docs, deleteRow,
                          runner, call, faults>>
           /\ posting' \subseteq {"own", "guest"}
           /\ review' \in [link : {"none", "open", "used"}, feedback : {"none", "stored", "late"}]
           /\ guest' \in [link : {"open", "used", "placeholder"},
                          rows : {"none", "named", "late", "placeholder"}]
           /\ review'.link = "none" <=> review.link = "none"
           /\ review'.feedback = "stored" => review.feedback = "stored" \/ ~BehindOwn
           /\ guest'.link = "placeholder" <=> guest.link = "placeholder"
           /\ guest'.rows = "named" => guest.rows = "named" \/ ~BehindGuest
  <1>1. CASE EndOwnPost
    <2>1. review' = [link |-> IF review.link = "none" THEN "none" ELSE "used",
                     feedback |-> IF BehindOwn THEN "late" ELSE "stored"]
      BY <1>1 DEF EndOwnPost
    <2>2. /\ UNCHANGED <<user, lockedBy, finished, rows, inflight, docs, guest, deleteRow,
                         runner, call, faults>>
          /\ posting' = posting \ {"own"}
      BY <1>1 DEF EndOwnPost, account
    <2> QED
      BY <2>1, <2>2 DEF TypeOK
  <1>2. CASE EndGuestPost
    <2>1. guest' = [link |-> IF guest.link = "placeholder" THEN "placeholder" ELSE "used",
                    rows |-> IF BehindGuest THEN "late" ELSE "named"]
      BY <1>2 DEF EndGuestPost
    <2>2. /\ UNCHANGED <<user, lockedBy, finished, rows, inflight, docs, review, deleteRow,
                         runner, call, faults>>
          /\ posting' = posting \ {"guest"}
      BY <1>2 DEF EndGuestPost, account
    <2> QED
      BY <2>1, <2>2 DEF TypeOK
  <1> QED
    BY <1>1, <1>2

LEMMA TypeStep ==
    ASSUME TypeOK, RunsOK, [Next]_vars
    PROVE  TypeOK'
<1>1. ASSUME NEW kind \in Kinds, LateWrite(kind) PROVE TypeOK'
  <2> DEFINE late == LastErasedBy(kind) \in finished
  <2>1. <<kind, late>> \in Kinds \X BOOLEAN
    <3>1. late \in BOOLEAN
      BY Truth
    <3> HIDE DEF late
    <3> QED
      BY <3>1
  <2>2. rows' = rows \cup {<<kind, late>>}
    BY <1>1 DEF LateWrite
  <2> HIDE DEF late
  <2>3. rows' \subseteq Kinds \X BOOLEAN
    BY <2>1, <2>2 DEF TypeOK
  <2>4. inflight' \subseteq Kinds
    BY <1>1 DEF TypeOK, LateWrite
  <2> QED
    BY <1>1, <2>3, <2>4 DEF LateWrite, TypeOK, account, drafting, posts
<1>2. ASSUME NEW which \in {"own", "guest"}, BeginPost(which) PROVE TypeOK'
  BY <1>2 DEF BeginPost, TypeOK, CallPoints, Running, Kinds, Runner, account
<1>3. CASE EndOwnPost \/ EndGuestPost
  BY <1>3, PostEffect DEF TypeOK
<1>4. CASE VerifyEmail
  BY <1>4 DEF VerifyEmail, LiveAccount, TypeOK, CallPoints, Running, Kinds, Runner,
     drafting, posts, ghosts
<1>5. CASE Tick
  BY <1>5, StageNumbers DEF Tick, Goto, TypeOK, CallPoints, Running, Kinds, Runner,
     account, drafting, posts
<1>6. ASSUME NEW r \in Runner, Check(r) PROVE TypeOK'
  BY <1>6 DEF Check, Goto, TypeOK, CallPoints, Running, Kinds, Runner, account, drafting, posts
<1>7. ASSUME NEW r \in Runner, FindUnverified(r) PROVE TypeOK'
  BY <1>7, StageNumbers DEF FindUnverified, Goto, TypeOK, CallPoints, Running, Kinds,
     Runner, account, drafting, posts
<1>8. ASSUME NEW r \in Runner, KillFails(r) PROVE TypeOK'
  BY <1>8, EraseAssumption DEF KillFails, Goto, TypeOK, CallPoints, Running, Kinds,
     Runner, account, drafting, posts
<1>9. ASSUME NEW r \in Runner, Fail(r) PROVE TypeOK'
  <2>1. call' \in [Call -> [pc : CallPoints, by : SUBSET Runner,
                            docs : SUBSET {"old"}, guest : BOOLEAN]]
    BY <1>9 DEF TypeOK, Fail
  <2>2. faults' \in 0..MaxFaults
    BY <1>9, EraseAssumption DEF TypeOK, Fail
  <2>3. runner' \in [Runner -> [pc : {"idle", "checked", "due", "kill"} \cup Running,
                                at : 0..AuditDone + 1]]
    BY <1>9, StageNumbers DEF TypeOK, Fail, End, Idle
  <2> QED
    BY <1>9, <2>1, <2>2, <2>3 DEF Fail, TypeOK, account, drafting, posts
<1>10. ASSUME NEW r \in Runner, Lock(r) PROVE TypeOK'
  <2>1. runner' \in [Runner -> [pc : {"idle", "checked", "due", "kill"} \cup Running,
                                at : 0..AuditDone + 1]]
    BY <1>10 DEF TypeOK, Lock, Goto
  <2>2. /\ user' \in [there : BOOLEAN, active : BOOLEAN, verified : BOOLEAN, stage : Stage]
        /\ lockedBy' \subseteq Runner
    BY <1>10, LockEffect DEF TypeOK, Lock
  <2> QED
    BY <1>10, <2>1, <2>2 DEF Lock, TypeOK, drafting, posts
<1>11. ASSUME NEW r \in Runner, LockIfDue(r) PROVE TypeOK'
  <2>1. runner' \in [Runner -> [pc : {"idle", "checked", "due", "kill"} \cup Running,
                                at : 0..AuditDone + 1]]
    BY <1>11 DEF TypeOK, LockIfDue, Goto
  <2>2. /\ user' \in [there : BOOLEAN, active : BOOLEAN, verified : BOOLEAN, stage : Stage]
        /\ lockedBy' \subseteq Runner
    BY <1>11, LockEffect DEF TypeOK, LockIfDue
  <2> QED
    BY <1>11, <2>1, <2>2 DEF LockIfDue, TypeOK, drafting, posts
<1>12. ASSUME NEW r \in Runner, Kill(r) PROVE TypeOK'
  BY <1>12 DEF Kill, Goto, RowsOf, TypeOK, CallPoints, Running, Kinds, Runner,
     account, drafting, posts
<1>13. ASSUME NEW r \in Runner, Read(r) PROVE TypeOK'
  BY <1>13, StageNumbers DEF Read, End, Idle, TypeOK, CallPoints, Running, Kinds,
     Runner, account, drafting, posts
<1>14. ASSUME NEW r \in Runner, Ask(r) PROVE TypeOK'
  <2>1. call' \in [Call -> [pc : CallPoints, by : SUBSET Runner,
                            docs : SUBSET {"old"}, guest : BOOLEAN]]
    <3>1. PICK c \in Call : call' = [call EXCEPT ![c] = [NoCall EXCEPT !.pc = "read", !.by = {r}]]
      BY <1>14 DEF Ask, Open
    <3>2. NoCall \in [pc : CallPoints, by : SUBSET Runner,
                      docs : SUBSET {"old"}, guest : BOOLEAN]
      BY DEF NoCall, CallPoints
    <3> QED
      BY <3>1, <3>2 DEF TypeOK, CallPoints
  <2>2. runner' \in [Runner -> [pc : {"idle", "checked", "due", "kill"} \cup Running,
                                at : 0..AuditDone + 1]]
    BY <1>14, StageNumbers DEF TypeOK, Ask, Goto, Running
  <2> QED
    BY <1>14, <2>1, <2>2 DEF Ask, TypeOK, account, drafting, posts
<1>15. ASSUME NEW r \in Runner, EraseBilling(r) PROVE TypeOK'
  BY <1>15, StageNumbers DEF EraseBilling, Goto, RowsOf, TypeOK, CallPoints, Running,
     Kinds, Runner, drafting, posts
<1>16. ASSUME NEW r \in Runner, EraseAuthData(r) PROVE TypeOK'
  BY <1>16, StageNumbers DEF EraseAuthData, Goto, RowsOf, TypeOK, CallPoints,
     Running, Kinds, Runner, drafting, posts
<1>17. ASSUME NEW r \in Runner, EraseAudit(r) PROVE TypeOK'
  BY <1>17, StageNumbers DEF EraseAudit, Goto, RowsOf, TypeOK, CallPoints, Running,
     Kinds, Runner, drafting, posts
<1>18. ASSUME NEW r \in Runner, SetStage(r) PROVE TypeOK'
  <2>1. runner[r].at \in 2..5
    BY <1>18 DEF SetStage, Mark, RunsOK, RunOK
  <2>2. user' \in [there : BOOLEAN, active : BOOLEAN, verified : BOOLEAN, stage : Stage]
    BY <1>18, <2>1, StageNumbers DEF TypeOK, SetStage, Mark
  <2>3. runner' \in [Runner -> [pc : {"idle", "checked", "due", "kill"} \cup Running,
                                at : 0..AuditDone + 1]]
    BY <1>18, <2>1, StageNumbers DEF TypeOK, SetStage, Mark, Running
  <2> QED
    BY <1>18, <2>2, <2>3 DEF SetStage, Mark, TypeOK, ghosts, drafting, posts
<1>19. ASSUME NEW r \in Runner, DeleteUser(r) PROVE TypeOK'
  <2>1. user' \in [there : BOOLEAN, active : BOOLEAN, verified : BOOLEAN, stage : Stage]
    BY <1>19 DEF TypeOK, DeleteUser
  <2>2. runner' \in [Runner -> [pc : {"idle", "checked", "due", "kill"} \cup Running,
                                at : 0..AuditDone + 1]]
    BY <1>19, StageNumbers DEF TypeOK, DeleteUser, End, Idle
  <2> QED
    BY <1>19, <2>1, <2>2 DEF DeleteUser, TypeOK, ghosts, drafting, posts
<1>20. ASSUME NEW c \in Call, CallFails(c) PROVE TypeOK'
  <2>1. call' \in [Call -> [pc : CallPoints, by : SUBSET Runner,
                            docs : SUBSET {"old"}, guest : BOOLEAN]]
    BY <1>20, AnswerEffect DEF CallFails, CallPoints
  <2>2. faults' \in 0..MaxFaults
    BY <1>20, EraseAssumption DEF TypeOK, CallFails
  <2> QED
    BY <1>20, <2>1, <2>2 DEF CallFails, TypeOK, account, drafting, posts
<1>21. ASSUME NEW c \in Call, ReadFirst(c) PROVE TypeOK'
  <2> DEFINE named == guest.link # "placeholder"
             k == [call[c] EXCEPT !.pc = "guestRows", !.docs = docs, !.guest = named]
  <2>1. call \in [Call -> [pc : CallPoints, by : SUBSET Runner,
                           docs : SUBSET {"old"}, guest : BOOLEAN]]
    BY DEF TypeOK
  <2>2. named \in BOOLEAN /\ docs \in SUBSET {"old"} /\ "guestRows" \in CallPoints
    BY DEF TypeOK, CallPoints
  <2>3. call' = [call EXCEPT ![c].pc = "guestRows", ![c].docs = docs, ![c].guest = named]
    BY <1>21 DEF ReadFirst
  <2> HIDE DEF named
  <2>4. call' = [call EXCEPT ![c] = k]
    BY <2>1, <2>3
  <2>5. k \in [pc : CallPoints, by : SUBSET Runner, docs : SUBSET {"old"}, guest : BOOLEAN]
    <3>1. call[c] \in [pc : CallPoints, by : SUBSET Runner,
                       docs : SUBSET {"old"}, guest : BOOLEAN]
      BY <2>1
    <3> QED
      BY <3>1, <2>2
  <2> HIDE DEF k
  <2>6. call' \in [Call -> [pc : CallPoints, by : SUBSET Runner,
                            docs : SUBSET {"old"}, guest : BOOLEAN]]
    BY <2>1, <2>4, <2>5
  <2> QED
    BY <1>21, <2>6 DEF ReadFirst, TypeOK, account, drafting, posts
<1>22. ASSUME NEW c \in Call, GuestRows(c) PROVE TypeOK'
  <2>1. call' \in [Call -> [pc : CallPoints, by : SUBSET Runner,
                            docs : SUBSET {"old"}, guest : BOOLEAN]]
    BY <1>22 DEF TypeOK, GuestRows, Move, CallPoints
  <2>2. guest' \in [link : {"open", "used", "placeholder"},
                    rows : {"none", "named", "late", "placeholder"}]
    BY <1>22 DEF TypeOK, GuestRows, Anonymous
  <2> QED
    BY <1>22, <2>1, <2>2 DEF GuestRows, TypeOK, account
<1>23. ASSUME NEW c \in Call, GuestLinks(c) PROVE TypeOK'
  <2>1. call' \in [Call -> [pc : CallPoints, by : SUBSET Runner,
                            docs : SUBSET {"old"}, guest : BOOLEAN]]
    BY <1>23 DEF TypeOK, GuestLinks, Move, CallPoints
  <2>2. guest' \in [link : {"open", "used", "placeholder"},
                    rows : {"none", "named", "late", "placeholder"}]
    BY <1>23 DEF TypeOK, GuestLinks, Anonymous
  <2> QED
    BY <1>23, <2>1, <2>2 DEF GuestLinks, TypeOK, account
<1>24. ASSUME NEW c \in Call, OwnFeedback(c) PROVE TypeOK'
  <2>1. call' \in [Call -> [pc : CallPoints, by : SUBSET Runner,
                            docs : SUBSET {"old"}, guest : BOOLEAN]]
    BY <1>24 DEF TypeOK, OwnFeedback, Move, CallPoints
  <2>2. review' \in [link : {"none", "open", "used"}, feedback : {"none", "stored", "late"}]
    BY <1>24 DEF TypeOK, OwnFeedback
  <2> QED
    BY <1>24, <2>1, <2>2 DEF OwnFeedback, TypeOK, account
<1>25. ASSUME NEW c \in Call, OwnLinks(c) PROVE TypeOK'
  <2>1. call' \in [Call -> [pc : CallPoints, by : SUBSET Runner,
                            docs : SUBSET {"old"}, guest : BOOLEAN]]
    BY <1>25 DEF TypeOK, OwnLinks, Move, CallPoints
  <2>2. review' \in [link : {"none", "open", "used"}, feedback : {"none", "stored", "late"}]
    BY <1>25 DEF TypeOK, OwnLinks
  <2> QED
    BY <1>25, <2>1, <2>2 DEF OwnLinks, TypeOK, account
<1>26. ASSUME NEW c \in Call, OwnRows(c) PROVE TypeOK'
  BY <1>26 DEF OwnRows, RowsOf, Move, TypeOK, CallPoints, Running, Kinds, Runner,
     account, drafting, posts
<1>27. ASSUME NEW c \in Call, OwnDocuments(c) PROVE TypeOK'
  <2>1. call' \in [Call -> [pc : CallPoints, by : SUBSET Runner,
                            docs : SUBSET {"old"}, guest : BOOLEAN]]
    BY <1>27, AnswerEffect DEF OwnDocuments, CallPoints
  <2>2. finished' \subseteq Stage
    BY <1>27, StageNumbers DEF OwnDocuments, TypeOK
  <2> QED
    BY <1>27, <2>1, <2>2 DEF OwnDocuments, TypeOK, posts
<1>28. ASSUME NEW c \in Call, Answered(c) PROVE TypeOK'
  BY <1>28, EraseAssumption, StageNumbers DEF Answered, Take, NoCall, End, Idle, Goto,
     TypeOK, CallPoints, Running, Kinds, Runner, account, drafting, posts, ghosts
<1>29. CASE UNCHANGED vars
  BY <1>29 DEF vars, TypeOK, CallPoints, Running, Kinds, Runner, account, drafting, posts,
     ghosts
<1> QED
  BY <1>1, <1>2, <1>3, <1>4, <1>5, <1>6, <1>7, <1>8, <1>9, <1>10, <1>11, <1>12, <1>13,
     <1>14, <1>15, <1>16, <1>17, <1>18, <1>19, <1>20, <1>21, <1>22, <1>23, <1>24, <1>25,
     <1>26, <1>27, <1>28, <1>29 DEF Next, RunnerStep, CallStep

LEMMA HonestStep ==
    ASSUME Inv, [Next]_vars
    PROVE  StageHonest'
<1>1. ASSUME NEW kind \in Kinds, LateWrite(kind) PROVE StageHonest'
  BY <1>1, StageNumbers DEF LateWrite, Inv, TypeOK, StageHonest, RunsOK, RunOK, Done,
     Runner, account, drafting, posts
<1>2. ASSUME NEW which \in {"own", "guest"}, BeginPost(which) PROVE StageHonest'
  BY <1>2 DEF BeginPost, Inv, TypeOK, StageHonest, RunsOK, RunOK, Done, Runner, account
<1>3. CASE EndOwnPost \/ EndGuestPost
  BY <1>3, PostEffect DEF Inv, StageHonest
<1>4. CASE VerifyEmail
  BY <1>4 DEF VerifyEmail, LiveAccount, Inv, TypeOK, StageHonest, RunsOK, RunOK, Done,
     Runner, drafting, posts, ghosts
<1>5. CASE Tick
  BY <1>5, StageNumbers DEF Tick, Goto, Inv, TypeOK, StageHonest, RunsOK, RunOK, Done,
     Runner, account, drafting, posts
<1>6. ASSUME NEW r \in Runner, Check(r) PROVE StageHonest'
  BY <1>6 DEF Check, Goto, Inv, TypeOK, StageHonest, RunsOK, RunOK, Done, Runner, account,
     drafting, posts
<1>7. ASSUME NEW r \in Runner, FindUnverified(r) PROVE StageHonest'
  BY <1>7, StageNumbers DEF FindUnverified, Goto, Inv, TypeOK, StageHonest, RunsOK, RunOK,
     Done, Runner, account, drafting, posts
<1>8. ASSUME NEW r \in Runner, KillFails(r) PROVE StageHonest'
  BY <1>8 DEF KillFails, Goto, Inv, TypeOK, StageHonest, RunsOK, RunOK, Done, Runner,
     account, drafting, posts
<1>9. ASSUME NEW r \in Runner, Fail(r) PROVE StageHonest'
  BY <1>9 DEF Fail, End, Idle, Running, Inv, TypeOK, StageHonest, RunsOK, RunOK, Done,
     Runner, account, drafting, posts
<1>10. ASSUME NEW r \in Runner, Lock(r) PROVE StageHonest'
  <2>1. runner' = [runner EXCEPT ![r].pc = "kill"] /\ finished' = finished /\ LockUser(r)
    BY <1>10 DEF Lock, Goto
  <2>2. r \in Closer
    BY <1>10 DEF Lock, Inv, RunsOK, RunOK
  <2> QED
    BY <2>1, <2>2, LockEffect, EraseAssumption, StageNumbers DEF Inv, TypeOK, StageHonest,
       Running, Runner
<1>11. ASSUME NEW r \in Runner, LockIfDue(r) PROVE StageHonest'
  <2>1. CASE StillDue
    <3>1. runner' = [runner EXCEPT ![r].pc = "kill"] /\ finished' = finished /\ LockUser(r)
      BY <1>11, <2>1 DEF LockIfDue, Goto
    <3>2. user.stage = 0 /\ ~user.verified
      BY <2>1 DEF StillDue
    <3> QED
      BY <3>1, <3>2, LockEffect, StageNumbers DEF Inv, TypeOK, StageHonest, Running
  <2>2. CASE ~StillDue
    BY <1>11, <2>2, StageNumbers DEF LockIfDue, Goto, Inv, TypeOK, StageHonest, Running
  <2> QED
    BY <2>1, <2>2
<1>12. ASSUME NEW r \in Runner, Kill(r) PROVE StageHonest'
  BY <1>12 DEF Kill, Goto, RowsOf, Inv, TypeOK, StageHonest, RunsOK, RunOK, Done, Runner,
     account, drafting, posts
<1>13. ASSUME NEW r \in Runner, Read(r) PROVE StageHonest'
  BY <1>13, StageNumbers DEF Read, End, Idle, Inv, TypeOK, StageHonest, RunsOK, RunOK, Done,
     Runner, account, drafting, posts
<1>14. ASSUME NEW r \in Runner, Ask(r) PROVE StageHonest'
  BY <1>14, StageNumbers DEF Ask, Open, NoCall, Goto, Inv, TypeOK, StageHonest, RunsOK,
     RunOK, Done, Runner, account, drafting, posts
<1>15. ASSUME NEW r \in Runner, EraseBilling(r) PROVE StageHonest'
  BY <1>15, StageNumbers DEF EraseBilling, Goto, RowsOf, Inv, TypeOK, StageHonest, RunsOK,
     RunOK, Done, Runner, drafting, posts
<1>16. ASSUME NEW r \in Runner, EraseAuthData(r) PROVE StageHonest'
  BY <1>16, StageNumbers DEF EraseAuthData, Goto, RowsOf, Inv, TypeOK, StageHonest, RunsOK,
     RunOK, Done, Runner, drafting, posts
<1>17. ASSUME NEW r \in Runner, EraseAudit(r) PROVE StageHonest'
  BY <1>17, StageNumbers DEF EraseAudit, Goto, RowsOf, Inv, TypeOK, StageHonest, RunsOK,
     RunOK, Done, Runner, drafting, posts
<1>18. ASSUME NEW r \in Runner, SetStage(r) PROVE StageHonest'
  BY <1>18, StageNumbers DEF SetStage, Mark, Inv, TypeOK, StageHonest, RunsOK, RunOK, Done,
     Runner, drafting, posts, ghosts
<1>19. ASSUME NEW r \in Runner, DeleteUser(r) PROVE StageHonest'
  BY <1>19 DEF DeleteUser, End, Idle, Inv, TypeOK, StageHonest, RunsOK, RunOK, Done, Runner,
     drafting, posts, ghosts
<1>20. ASSUME NEW c \in Call, CallFails(c) PROVE StageHonest'
  BY <1>20 DEF CallFails, Answer, NoCall, Inv, TypeOK, StageHonest, RunsOK, RunOK, Done, Runner,
     account, drafting, posts
<1>21. ASSUME NEW c \in Call, ReadFirst(c) PROVE StageHonest'
  BY <1>21 DEF ReadFirst, Inv, TypeOK, StageHonest, RunsOK, RunOK, Done, Runner, account,
     drafting, posts
<1>22. ASSUME NEW c \in Call, GuestRows(c) PROVE StageHonest'
  BY <1>22 DEF GuestRows, Anonymous, Move, Inv, TypeOK, StageHonest, RunsOK, RunOK, Done,
     Runner, account
<1>23. ASSUME NEW c \in Call, GuestLinks(c) PROVE StageHonest'
  BY <1>23 DEF GuestLinks, Anonymous, Move, Inv, TypeOK, StageHonest, RunsOK, RunOK, Done,
     Runner, account
<1>24. ASSUME NEW c \in Call, OwnFeedback(c) PROVE StageHonest'
  BY <1>24 DEF OwnFeedback, Move, Inv, TypeOK, StageHonest, RunsOK, RunOK, Done, Runner, account
<1>25. ASSUME NEW c \in Call, OwnLinks(c) PROVE StageHonest'
  BY <1>25 DEF OwnLinks, Move, Inv, TypeOK, StageHonest, RunsOK, RunOK, Done, Runner, account
<1>26. ASSUME NEW c \in Call, OwnRows(c) PROVE StageHonest'
  BY <1>26 DEF OwnRows, RowsOf, Move, Inv, TypeOK, StageHonest, RunsOK, RunOK, Done, Runner,
     account, drafting, posts
<1>27. ASSUME NEW c \in Call, OwnDocuments(c) PROVE StageHonest'
  BY <1>27, StageNumbers DEF OwnDocuments, Answer, NoCall, posts, Inv, TypeOK, StageHonest,
     RunsOK, RunOK,
     Done, Runner
<1>28. ASSUME NEW c \in Call, Answered(c) PROVE StageHonest'
  BY <1>28 DEF Answered, Take, NoCall, End, Idle, Goto, Inv, TypeOK, StageHonest, RunsOK,
     RunOK, Done, Runner, account, drafting, posts
<1>29. CASE UNCHANGED vars
  BY <1>29 DEF vars, Inv, TypeOK, StageHonest, RunsOK, RunOK, Done, Runner, account,
     drafting, posts, ghosts
<1> QED
  BY <1>1, <1>2, <1>3, <1>4, <1>5, <1>6, <1>7, <1>8, <1>9, <1>10, <1>11, <1>12, <1>13,
     <1>14, <1>15, <1>16, <1>17, <1>18, <1>19, <1>20, <1>21, <1>22, <1>23, <1>24, <1>25,
     <1>26, <1>27, <1>28, <1>29 DEF Next, RunnerStep, CallStep

LEMMA LockedStep ==
    ASSUME Inv, [Next]_vars
    PROVE  LockedOK'
<1>1. ASSUME NEW kind \in Kinds, LateWrite(kind) PROVE LockedOK'
  BY <1>1, StageNumbers DEF LateWrite, Inv, TypeOK, LockedOK, RunsOK, RunOK, Runner,
     account, drafting, posts
<1>2. ASSUME NEW which \in {"own", "guest"}, BeginPost(which) PROVE LockedOK'
  BY <1>2 DEF BeginPost, Inv, TypeOK, LockedOK, RunsOK, RunOK, Runner, account
<1>3. CASE EndOwnPost \/ EndGuestPost
  BY <1>3, PostEffect DEF Inv, LockedOK
<1>4. CASE VerifyEmail
  BY <1>4 DEF VerifyEmail, LiveAccount, Inv, TypeOK, LockedOK, RunsOK, RunOK, Runner,
     drafting, posts, ghosts
<1>5. CASE Tick
  BY <1>5, StageNumbers DEF Tick, Goto, Inv, TypeOK, LockedOK, RunsOK, RunOK, Runner,
     account, drafting, posts
<1>6. ASSUME NEW r \in Runner, Check(r) PROVE LockedOK'
  BY <1>6 DEF Check, Goto, Inv, TypeOK, LockedOK, RunsOK, RunOK, Runner, account, drafting,
     posts
<1>7. ASSUME NEW r \in Runner, FindUnverified(r) PROVE LockedOK'
  BY <1>7, StageNumbers DEF FindUnverified, Goto, Inv, TypeOK, LockedOK, RunsOK, RunOK,
     Runner, account, drafting, posts
<1>8. ASSUME NEW r \in Runner, KillFails(r) PROVE LockedOK'
  BY <1>8 DEF KillFails, Goto, Inv, TypeOK, LockedOK, RunsOK, RunOK, Runner, account,
     drafting, posts
<1>9. ASSUME NEW r \in Runner, Fail(r) PROVE LockedOK'
  BY <1>9 DEF Fail, End, Idle, Running, Inv, TypeOK, LockedOK, RunsOK, RunOK, Runner,
     account, drafting, posts
<1>10. ASSUME NEW r \in Runner, Lock(r) PROVE LockedOK'
  <2>1. runner' = [runner EXCEPT ![r].pc = "kill"] /\ finished' = finished /\ LockUser(r)
    BY <1>10 DEF Lock, Goto
  <2>2. r \in Closer
    BY <1>10 DEF Lock, Inv, RunsOK, RunOK
  <2> QED
    BY <2>1, <2>2, LockEffect, EraseAssumption, StageNumbers DEF Inv, TypeOK, LockedOK,
       RunsOK, RunOK, Running, Runner
<1>11. ASSUME NEW r \in Runner, LockIfDue(r) PROVE LockedOK'
  <2>1. CASE StillDue
    <3>1. runner' = [runner EXCEPT ![r].pc = "kill"] /\ finished' = finished /\ LockUser(r)
      BY <1>11, <2>1 DEF LockIfDue, Goto
    <3>2. user.stage = 0 /\ ~user.verified
      BY <2>1 DEF StillDue
    <3> QED
      BY <3>1, <3>2, LockEffect, StageNumbers DEF Inv, TypeOK, LockedOK, RunsOK, RunOK, Running
  <2>2. CASE ~StillDue
    BY <1>11, <2>2, StageNumbers DEF LockIfDue, Goto, Inv, TypeOK, LockedOK, RunsOK, RunOK,
       Running
  <2> QED
    BY <2>1, <2>2
<1>12. ASSUME NEW r \in Runner, Kill(r) PROVE LockedOK'
  BY <1>12 DEF Kill, Goto, RowsOf, Inv, TypeOK, LockedOK, RunsOK, RunOK, Runner, account,
     drafting, posts
<1>13. ASSUME NEW r \in Runner, Read(r) PROVE LockedOK'
  BY <1>13, StageNumbers DEF Read, End, Idle, Inv, TypeOK, LockedOK, RunsOK, RunOK, Runner,
     account, drafting, posts
<1>14. ASSUME NEW r \in Runner, Ask(r) PROVE LockedOK'
  BY <1>14, StageNumbers DEF Ask, Open, NoCall, Goto, Inv, TypeOK, LockedOK, RunsOK, RunOK,
     Runner, account, drafting, posts
<1>15. ASSUME NEW r \in Runner, EraseBilling(r) PROVE LockedOK'
  BY <1>15, StageNumbers DEF EraseBilling, Goto, RowsOf, Inv, TypeOK, LockedOK, RunsOK,
     RunOK, Runner, drafting, posts
<1>16. ASSUME NEW r \in Runner, EraseAuthData(r) PROVE LockedOK'
  BY <1>16, StageNumbers DEF EraseAuthData, Goto, RowsOf, Inv, TypeOK, LockedOK, RunsOK,
     RunOK, Runner, drafting, posts
<1>17. ASSUME NEW r \in Runner, EraseAudit(r) PROVE LockedOK'
  BY <1>17, StageNumbers DEF EraseAudit, Goto, RowsOf, Inv, TypeOK, LockedOK, RunsOK, RunOK,
     Runner, drafting, posts
<1>18. ASSUME NEW r \in Runner, SetStage(r) PROVE LockedOK'
  BY <1>18, StageNumbers DEF SetStage, Mark, Inv, TypeOK, LockedOK, RunsOK, RunOK, Runner,
     drafting, posts, ghosts
<1>19. ASSUME NEW r \in Runner, DeleteUser(r) PROVE LockedOK'
  BY <1>19 DEF DeleteUser, End, Idle, Inv, TypeOK, LockedOK, RunsOK, RunOK, Runner,
     drafting, posts, ghosts
<1>20. ASSUME NEW c \in Call, CallFails(c) PROVE LockedOK'
  BY <1>20 DEF CallFails, Answer, NoCall, Inv, TypeOK, LockedOK, RunsOK, RunOK, Runner,
     account, drafting, posts
<1>21. ASSUME NEW c \in Call, ReadFirst(c) PROVE LockedOK'
  BY <1>21 DEF ReadFirst, Inv, TypeOK, LockedOK, RunsOK, RunOK, Runner, account, drafting, posts
<1>22. ASSUME NEW c \in Call, GuestRows(c) PROVE LockedOK'
  BY <1>22 DEF GuestRows, Anonymous, Move, Inv, TypeOK, LockedOK, RunsOK, RunOK, Runner, account
<1>23. ASSUME NEW c \in Call, GuestLinks(c) PROVE LockedOK'
  BY <1>23 DEF GuestLinks, Anonymous, Move, Inv, TypeOK, LockedOK, RunsOK, RunOK, Runner,
     account
<1>24. ASSUME NEW c \in Call, OwnFeedback(c) PROVE LockedOK'
  BY <1>24 DEF OwnFeedback, Move, Inv, TypeOK, LockedOK, RunsOK, RunOK, Runner, account
<1>25. ASSUME NEW c \in Call, OwnLinks(c) PROVE LockedOK'
  BY <1>25 DEF OwnLinks, Move, Inv, TypeOK, LockedOK, RunsOK, RunOK, Runner, account
<1>26. ASSUME NEW c \in Call, OwnRows(c) PROVE LockedOK'
  BY <1>26 DEF OwnRows, RowsOf, Move, Inv, TypeOK, LockedOK, RunsOK, RunOK, Runner, account,
     drafting, posts
<1>27. ASSUME NEW c \in Call, OwnDocuments(c) PROVE LockedOK'
  BY <1>27, StageNumbers DEF OwnDocuments, Answer, NoCall, posts, Inv, TypeOK, LockedOK,
     RunsOK, RunOK, Runner
<1>28. ASSUME NEW c \in Call, Answered(c) PROVE LockedOK'
  BY <1>28 DEF Answered, Take, NoCall, End, Idle, Goto, Inv, TypeOK, LockedOK, RunsOK,
     RunOK, Runner, account, drafting, posts
<1>29. CASE UNCHANGED vars
  BY <1>29 DEF vars, Inv, TypeOK, LockedOK, RunsOK, RunOK, Runner, account, drafting, posts,
     ghosts
<1> QED
  BY <1>1, <1>2, <1>3, <1>4, <1>5, <1>6, <1>7, <1>8, <1>9, <1>10, <1>11, <1>12, <1>13,
     <1>14, <1>15, <1>16, <1>17, <1>18, <1>19, <1>20, <1>21, <1>22, <1>23, <1>24, <1>25,
     <1>26, <1>27, <1>28, <1>29 DEF Next, RunnerStep, CallStep

LEMMA RunsStep ==
    ASSUME Inv, [Next]_vars
    PROVE  RunsOK'
<1>1. ASSUME NEW kind \in Kinds, LateWrite(kind) PROVE RunsOK'
  BY <1>1, StageNumbers DEF LateWrite, Inv, TypeOK, StageHonest, LockedOK, RunsOK, RunOK,
     CallersOK, Done, Running, Runner, account, drafting, posts
<1>2. ASSUME NEW which \in {"own", "guest"}, BeginPost(which) PROVE RunsOK'
  BY <1>2, StageNumbers DEF BeginPost, Inv, TypeOK, StageHonest, LockedOK, RunsOK, RunOK,
     CallersOK, Done, Running, Runner, account
<1>3. CASE EndOwnPost \/ EndGuestPost
  BY <1>3, PostEffect DEF Inv, RunsOK, RunOK, Done
<1>4. CASE VerifyEmail
  BY <1>4, StageNumbers DEF VerifyEmail, LiveAccount, Inv, TypeOK, StageHonest, LockedOK,
     RunsOK, RunOK, CallersOK, Done, Running, Runner, drafting, posts, ghosts
<1>5. CASE Tick
  BY <1>5, StageNumbers DEF Tick, Goto, Inv, TypeOK, StageHonest, LockedOK, RunsOK, RunOK,
     CallersOK, Done, Running, Runner, account, drafting, posts
<1>6. ASSUME NEW r \in Runner, Check(r) PROVE RunsOK'
  BY <1>6, StageNumbers DEF Check, Goto, Inv, TypeOK, StageHonest, LockedOK, RunsOK, RunOK,
     CallersOK, Done, Running, Runner, account, drafting, posts
<1>7. ASSUME NEW r \in Runner, FindUnverified(r) PROVE RunsOK'
  BY <1>7, StageNumbers DEF FindUnverified, Goto, Inv, TypeOK, StageHonest, LockedOK,
     RunsOK, RunOK, CallersOK, Done, Running, Runner, account, drafting, posts
<1>8. ASSUME NEW r \in Runner, KillFails(r) PROVE RunsOK'
  BY <1>8, StageNumbers DEF KillFails, Goto, Inv, TypeOK, StageHonest, LockedOK, RunsOK,
     RunOK, CallersOK, Done, Running, Runner, account, drafting, posts
<1>9. ASSUME NEW r \in Runner, Fail(r) PROVE RunsOK'
  BY <1>9, StageNumbers DEF Fail, End, Idle, Running, Inv, TypeOK, StageHonest, LockedOK,
     RunsOK, RunOK, CallersOK, Done, Runner, account, drafting, posts
<1>10. ASSUME NEW r \in Runner, Lock(r) PROVE RunsOK'
  <2>1. runner' = [runner EXCEPT ![r].pc = "kill"] /\ finished' = finished /\ LockUser(r)
    BY <1>10 DEF Lock, Goto
  <2>2. r \in Closer
    BY <1>10 DEF Lock, Inv, RunsOK, RunOK
  <2> QED
    BY <2>1, <2>2, LockEffect, EraseAssumption, StageNumbers DEF Inv, TypeOK, RunsOK, RunOK,
       Done, StageHonest, Running, Runner
<1>11. ASSUME NEW r \in Runner, LockIfDue(r) PROVE RunsOK'
  <2>1. CASE StillDue
    <3>1. runner' = [runner EXCEPT ![r].pc = "kill"] /\ finished' = finished /\ LockUser(r)
      BY <1>11, <2>1 DEF LockIfDue, Goto
    <3>2. user.stage = 0 /\ ~user.verified
      BY <2>1 DEF StillDue
    <3> QED
      BY <3>1, <3>2, LockEffect, StageNumbers DEF Inv, TypeOK, RunsOK, RunOK, Done,
         StageHonest, Running
  <2>2. CASE ~StillDue
    BY <1>11, <2>2, StageNumbers DEF LockIfDue, Goto, Inv, TypeOK, RunsOK, RunOK, Done,
       StageHonest, Running
  <2> QED
    BY <2>1, <2>2
<1>12. ASSUME NEW r \in Runner, Kill(r) PROVE RunsOK'
  BY <1>12, StageNumbers DEF Kill, Goto, RowsOf, Inv, TypeOK, StageHonest, LockedOK, RunsOK,
     RunOK, CallersOK, Done, Running, Runner, account, drafting, posts
<1>13. ASSUME NEW r \in Runner, Read(r) PROVE RunsOK'
  BY <1>13, StageNumbers DEF Read, End, Idle, Inv, TypeOK, StageHonest, LockedOK, RunsOK,
     RunOK, CallersOK, Done, Running, Runner, account, drafting, posts
<1>14. ASSUME NEW r \in Runner, Ask(r) PROVE RunsOK'
  BY <1>14, EraseAssumption, StageNumbers DEF Ask, Open, NoCall, Goto, Inv, TypeOK,
     StageHonest, LockedOK, RunsOK, RunOK, CallersOK, Done, Running, Runner, account,
     drafting, posts, ghosts
<1>15. ASSUME NEW r \in Runner, EraseBilling(r) PROVE RunsOK'
  BY <1>15, StageNumbers DEF EraseBilling, Goto, RowsOf, Inv, TypeOK, StageHonest, LockedOK,
     RunsOK, RunOK, CallersOK, Done, Running, Runner, drafting, posts
<1>16. ASSUME NEW r \in Runner, EraseAuthData(r) PROVE RunsOK'
  BY <1>16, StageNumbers DEF EraseAuthData, Goto, RowsOf, Inv, TypeOK, StageHonest,
     LockedOK, RunsOK, RunOK, CallersOK, Done, Running, Runner, drafting, posts
<1>17. ASSUME NEW r \in Runner, EraseAudit(r) PROVE RunsOK'
  BY <1>17, StageNumbers DEF EraseAudit, Goto, RowsOf, Inv, TypeOK, StageHonest, LockedOK,
     RunsOK, RunOK, CallersOK, Done, Running, Runner, drafting, posts
<1>18. ASSUME NEW r \in Runner, SetStage(r) PROVE RunsOK'
  BY <1>18, EraseAssumption, StageNumbers DEF SetStage, Mark, Inv, TypeOK, StageHonest,
     LockedOK, RunsOK, RunOK, CallersOK, Done, Running, Runner, account, drafting, posts, ghosts
<1>19. ASSUME NEW r \in Runner, DeleteUser(r) PROVE RunsOK'
  BY <1>19, StageNumbers DEF DeleteUser, End, Idle, Inv, TypeOK, StageHonest, LockedOK,
     RunsOK, RunOK, CallersOK, Done, Running, Runner, drafting, posts, ghosts
<1>20. ASSUME NEW c \in Call, CallFails(c) PROVE RunsOK'
  BY <1>20, StageNumbers DEF CallFails, Answer, NoCall, Inv, TypeOK, StageHonest, LockedOK,
     RunsOK,
     RunOK, CallersOK, Done, Running, Runner, account, drafting, posts
<1>21. ASSUME NEW c \in Call, ReadFirst(c) PROVE RunsOK'
  BY <1>21, StageNumbers DEF ReadFirst, Inv, TypeOK, StageHonest, LockedOK, RunsOK, RunOK,
     CallersOK, Done, Running, Runner, account, drafting, posts
<1>22. ASSUME NEW c \in Call, GuestRows(c) PROVE RunsOK'
  BY <1>22, StageNumbers DEF GuestRows, Anonymous, Move, Inv, TypeOK, StageHonest, LockedOK,
     RunsOK, RunOK, CallersOK, Done, Running, Runner, account
<1>23. ASSUME NEW c \in Call, GuestLinks(c) PROVE RunsOK'
  BY <1>23, StageNumbers DEF GuestLinks, Anonymous, Move, Inv, TypeOK, StageHonest,
     LockedOK, RunsOK, RunOK, CallersOK, Done, Running, Runner, account
<1>24. ASSUME NEW c \in Call, OwnFeedback(c) PROVE RunsOK'
  BY <1>24, StageNumbers DEF OwnFeedback, Move, Inv, TypeOK, StageHonest, LockedOK, RunsOK,
     RunOK, CallersOK, Done, Running, Runner, account
<1>25. ASSUME NEW c \in Call, OwnLinks(c) PROVE RunsOK'
  BY <1>25, StageNumbers DEF OwnLinks, Move, Inv, TypeOK, StageHonest, LockedOK, RunsOK,
     RunOK, CallersOK, Done, Running, Runner, account
<1>26. ASSUME NEW c \in Call, OwnRows(c) PROVE RunsOK'
  BY <1>26, StageNumbers DEF OwnRows, RowsOf, Move, Inv, TypeOK, StageHonest, LockedOK,
     RunsOK, RunOK, CallersOK, Done, Running, Runner, account, drafting, posts
<1>27. ASSUME NEW c \in Call, OwnDocuments(c) PROVE RunsOK'
  BY <1>27, StageNumbers DEF OwnDocuments, Answer, NoCall, posts, Inv, TypeOK, StageHonest,
     LockedOK, RunsOK,
     RunOK, CallersOK, Done, Running, Runner
<1>28. ASSUME NEW c \in Call, Answered(c) PROVE RunsOK'
  BY <1>28, StageNumbers DEF Answered, Take, NoCall, End, Idle, Goto, Inv, TypeOK,
     StageHonest, LockedOK, RunsOK, RunOK, CallersOK, Done, Running, Runner, account,
     drafting, posts
<1>29. CASE UNCHANGED vars
  BY <1>29 DEF vars, Inv, TypeOK, StageHonest, LockedOK, RunsOK, RunOK, CallersOK, Done,
     Running, Runner, account, drafting, posts, ghosts
<1> QED
  BY <1>1, <1>2, <1>3, <1>4, <1>5, <1>6, <1>7, <1>8, <1>9, <1>10, <1>11, <1>12, <1>13,
     <1>14, <1>15, <1>16, <1>17, <1>18, <1>19, <1>20, <1>21, <1>22, <1>23, <1>24, <1>25,
     <1>26, <1>27, <1>28, <1>29 DEF Next, RunnerStep, CallStep

LEMMA CallersStep ==
    ASSUME Inv, [Next]_vars
    PROVE  CallersOK'
<1>1. ASSUME NEW kind \in Kinds, LateWrite(kind) PROVE CallersOK'
  BY <1>1, StageNumbers DEF LateWrite, Inv, TypeOK, CallersOK, RunsOK, RunOK, Running,
     account, drafting, posts
<1>2. ASSUME NEW which \in {"own", "guest"}, BeginPost(which) PROVE CallersOK'
  BY <1>2 DEF BeginPost, Inv, TypeOK, CallersOK, RunsOK, RunOK, Running, account
<1>3. CASE EndOwnPost \/ EndGuestPost
  BY <1>3, PostEffect DEF Inv, CallersOK
<1>4. CASE VerifyEmail
  BY <1>4 DEF VerifyEmail, LiveAccount, Inv, TypeOK, CallersOK, RunsOK, RunOK, Running,
     drafting, posts, ghosts
<1>5. CASE Tick
  BY <1>5, StageNumbers DEF Tick, Goto, Inv, TypeOK, CallersOK, RunsOK, RunOK, Running,
     account, drafting, posts
<1>6. ASSUME NEW r \in Runner, Check(r) PROVE CallersOK'
  BY <1>6 DEF Check, Goto, Inv, TypeOK, CallersOK, RunsOK, RunOK, Running, account, drafting,
     posts
<1>7. ASSUME NEW r \in Runner, FindUnverified(r) PROVE CallersOK'
  BY <1>7, StageNumbers DEF FindUnverified, Goto, Inv, TypeOK, CallersOK, RunsOK, RunOK,
     Running, account, drafting, posts
<1>8. ASSUME NEW r \in Runner, KillFails(r) PROVE CallersOK'
  BY <1>8 DEF KillFails, Goto, Inv, TypeOK, CallersOK, RunsOK, RunOK, Running, account,
     drafting, posts
<1>9. ASSUME NEW r \in Runner, Fail(r) PROVE CallersOK'
  BY <1>9 DEF Fail, End, Idle, Running, Inv, TypeOK, CallersOK, RunsOK, RunOK, account,
     drafting, posts
<1>10. ASSUME NEW r \in Runner, Lock(r) PROVE CallersOK'
  BY <1>10, StageNumbers DEF Lock, LockUser, Goto, Inv, TypeOK, CallersOK, RunsOK, RunOK,
     Running, drafting, posts
<1>11. ASSUME NEW r \in Runner, LockIfDue(r) PROVE CallersOK'
  BY <1>11, StageNumbers DEF LockIfDue, StillDue, LockUser, Goto, Inv, TypeOK, CallersOK,
     RunsOK, RunOK, Running, drafting, posts
<1>12. ASSUME NEW r \in Runner, Kill(r) PROVE CallersOK'
  BY <1>12 DEF Kill, Goto, RowsOf, Inv, TypeOK, CallersOK, RunsOK, RunOK, Running, account,
     drafting, posts
<1>13. ASSUME NEW r \in Runner, Read(r) PROVE CallersOK'
  BY <1>13, StageNumbers DEF Read, End, Idle, Inv, TypeOK, CallersOK, RunsOK, RunOK,
     Running, account, drafting, posts
<1>14. ASSUME NEW r \in Runner, Ask(r) PROVE CallersOK'
  <2>1. PICK c \in Call : /\ call[c].pc = "free"
                          /\ call' = [call EXCEPT ![c] = [NoCall EXCEPT !.pc = "read", !.by = {r}]]
    BY <1>14 DEF Ask, Open
  <2>2. /\ call'[c].pc = "read" /\ call'[c].by = {r}
        /\ \A d \in Call \ {c} : call'[d] = call[d]
    BY <2>1 DEF NoCall, Inv, TypeOK
  <2>3. /\ runner[r].pc \in {"step", "askAgain"} /\ runner'[r].pc \in {"wait", "waitAgain"}
        /\ \A q \in Runner \ {r} : runner'[q] = runner[q]
    BY <1>14 DEF Ask, Goto, Inv, TypeOK
  <2>4. \A d \in Call : r \notin call[d].by /\ call[d].by \subseteq Runner
    BY <2>3 DEF Inv, TypeOK, CallersOK
  <2> QED
    BY <1>14, <2>2, <2>3, <2>4 DEF Inv, CallersOK, Ask, account
<1>15. ASSUME NEW r \in Runner, EraseBilling(r) PROVE CallersOK'
  <2>1. call' = call /\ finished \subseteq finished'
    BY <1>15 DEF EraseBilling
  <2>2. \A q \in Runner : runner[q].pc \in {"wait", "waitAgain"} => runner'[q].pc = runner[q].pc
    BY <1>15 DEF EraseBilling, Goto, Inv, TypeOK
  <2> QED
    BY <2>1, <2>2 DEF Inv, TypeOK, CallersOK
<1>16. ASSUME NEW r \in Runner, EraseAuthData(r) PROVE CallersOK'
  BY <1>16, StageNumbers DEF EraseAuthData, Goto, RowsOf, Inv, TypeOK, CallersOK, RunsOK,
     RunOK, Running, drafting, posts
<1>17. ASSUME NEW r \in Runner, EraseAudit(r) PROVE CallersOK'
  BY <1>17, StageNumbers DEF EraseAudit, Goto, RowsOf, Inv, TypeOK, CallersOK, RunsOK,
     RunOK, Running, drafting, posts
<1>18. ASSUME NEW r \in Runner, SetStage(r) PROVE CallersOK'
  BY <1>18, StageNumbers DEF SetStage, Mark, Inv, TypeOK, CallersOK, RunsOK, RunOK, Running,
     drafting, posts, ghosts
<1>19. ASSUME NEW r \in Runner, DeleteUser(r) PROVE CallersOK'
  BY <1>19 DEF DeleteUser, End, Idle, Inv, TypeOK, CallersOK, RunsOK, RunOK, Running,
     drafting, posts, ghosts
<1>20. ASSUME NEW c \in Call, CallFails(c) PROVE CallersOK'
  BY <1>20 DEF CallFails, Answer, NoCall, Inv, TypeOK, CallersOK, RunsOK, RunOK, Running,
     account,
     drafting, posts
<1>21. ASSUME NEW c \in Call, ReadFirst(c) PROVE CallersOK'
  BY <1>21 DEF ReadFirst, Inv, TypeOK, CallersOK, RunsOK, RunOK, Running, account, drafting,
     posts
<1>22. ASSUME NEW c \in Call, GuestRows(c) PROVE CallersOK'
  BY <1>22 DEF GuestRows, Anonymous, Move, Inv, TypeOK, CallersOK, RunsOK, RunOK, Running,
     account
<1>23. ASSUME NEW c \in Call, GuestLinks(c) PROVE CallersOK'
  BY <1>23 DEF GuestLinks, Anonymous, Move, Inv, TypeOK, CallersOK, RunsOK, RunOK, Running,
     account
<1>24. ASSUME NEW c \in Call, OwnFeedback(c) PROVE CallersOK'
  BY <1>24 DEF OwnFeedback, Move, Inv, TypeOK, CallersOK, RunsOK, RunOK, Running, account
<1>25. ASSUME NEW c \in Call, OwnLinks(c) PROVE CallersOK'
  BY <1>25 DEF OwnLinks, Move, Inv, TypeOK, CallersOK, RunsOK, RunOK, Running, account
<1>26. ASSUME NEW c \in Call, OwnRows(c) PROVE CallersOK'
  BY <1>26 DEF OwnRows, RowsOf, Move, Inv, TypeOK, CallersOK, RunsOK, RunOK, Running,
     account, drafting, posts
<1>27. ASSUME NEW c \in Call, OwnDocuments(c) PROVE CallersOK'
  BY <1>27, StageNumbers DEF OwnDocuments, Answer, NoCall, posts, Inv, TypeOK, CallersOK,
     RunsOK, RunOK, Running
<1>28. ASSUME NEW c \in Call, Answered(c) PROVE CallersOK'
  <2>1. /\ call'[c].pc = "free" /\ call'[c].by = {}
        /\ \A d \in Call \ {c} : call'[d] = call[d]
    BY <1>28 DEF Answered, Take, NoCall, Inv, TypeOK
  <2>2. \A d \in Call \ {c} : \A q \in call[d].by : q \in Runner /\ runner'[q] = runner[q]
    <3>1. CASE call[c].by = {}
      BY <1>28, <3>1 DEF Answered, Take, Inv, TypeOK
    <3>2. CASE call[c].by # {}
      <4>1. PICK r \in call[c].by : \A q \in Runner : q # r => runner'[q] = runner[q]
        BY <1>28, <3>2 DEF Answered, Take, End, Goto, Inv, TypeOK
      <4>2. \A d \in Call \ {c} : r \notin call[d].by /\ call[d].by \subseteq Runner
        BY <4>1 DEF Inv, TypeOK, CallersOK
      <4> QED
        BY <4>1, <4>2
    <3> QED
      BY <3>1, <3>2
  <2> QED
    BY <1>28, <2>1, <2>2 DEF Inv, TypeOK, CallersOK, Answered, Take, account
<1>29. CASE UNCHANGED vars
  BY <1>29 DEF vars, Inv, TypeOK, CallersOK, RunsOK, RunOK, Running, account, drafting,
     posts, ghosts
<1> QED
  BY <1>1, <1>2, <1>3, <1>4, <1>5, <1>6, <1>7, <1>8, <1>9, <1>10, <1>11, <1>12, <1>13,
     <1>14, <1>15, <1>16, <1>17, <1>18, <1>19, <1>20, <1>21, <1>22, <1>23, <1>24, <1>25,
     <1>26, <1>27, <1>28, <1>29 DEF Next, RunnerStep, CallStep


(* The initial states.                                                      *)
LEMMA InitOK == Init => FullInv
<1> SUFFICES ASSUME Init PROVE FullInv
  OBVIOUS
<1>1. TypeOK
  <2>1. user \in [there : BOOLEAN, active : BOOLEAN, verified : BOOLEAN, stage : Stage]
    BY StageNumbers DEF Init
  <2>2. rows \subseteq Kinds \X BOOLEAN /\ inflight \subseteq Kinds
    BY EraseAssumption DEF Init
  <2>3. runner \in [Runner -> [pc : {"idle", "checked", "due", "kill"} \cup Running,
                               at : 0..AuditDone + 1]]
    BY StageNumbers DEF Init, Idle
  <2>4. call \in [Call -> [pc : CallPoints, by : SUBSET Runner,
                           docs : SUBSET {"old"}, guest : BOOLEAN]]
    BY DEF Init, NoCall, CallPoints
  <2>5. docs \subseteq {"old"} /\ posting \subseteq {"own", "guest"}
        /\ review \in [link : {"none", "open", "used"}, feedback : {"none", "stored", "late"}]
        /\ guest \in [link : {"open", "used", "placeholder"},
                      rows : {"none", "named", "late", "placeholder"}]
    BY DEF Init
  <2>6. faults = 0 /\ MaxFaults \in Nat /\ deleteRow = FALSE
    BY EraseAssumption DEF Init
  <2>7. faults \in 0..MaxFaults
    BY <2>6
  <2>8. deleteRow \in BOOLEAN
    BY <2>6
  <2>9. lockedBy \subseteq Runner /\ finished \subseteq Stage
    BY DEF Init
  <2> QED
    BY <2>1, <2>2, <2>3, <2>4, <2>5, <2>7, <2>8, <2>9 DEF TypeOK
<1>2. StageHonest /\ LockedOK
  BY StageNumbers DEF Init, StageHonest, LockedOK
<1>3. RunsOK /\ CallersOK
  BY DEF Init, RunsOK, RunOK, CallersOK, Idle, NoCall, Running
<1>4. Reachable /\ CallsOK
  BY DEF Init, Reachable, CallsOK, CallOK, NoCall, PastRead, PastFeedback, PastLinks, PastGuest
<1>5. SecondPass /\ GoneOK
  BY DEF Init, SecondPass, GoneOK, NoCall, Idle
<1> QED
  BY <1>1, <1>2, <1>3, <1>4, <1>5 DEF FullInv, Inv

LEMMA InvStep == Inv /\ [Next]_vars => Inv'
  BY TypeStep, HonestStep, LockedStep, RunsStep, CallersStep DEF Inv

LEMMA ReachableStep ==
    ASSUME FullInv, [Next]_vars
    PROVE  Reachable'
<1>1. ASSUME NEW kind \in Kinds, LateWrite(kind) PROVE Reachable'
  BY <1>1, StageNumbers DEF LateWrite, FullInv, Inv, TypeOK, Reachable, CallsOK, CallOK,
     PastRead, PastFeedback, PastLinks, PastGuest, account, drafting, posts
<1>2. ASSUME NEW which \in {"own", "guest"}, BeginPost(which) PROVE Reachable'
  BY <1>2 DEF BeginPost, FullInv, Inv, TypeOK, Reachable, CallsOK,
     CallOK, PastRead, PastFeedback, PastLinks, PastGuest, account
<1>3. CASE EndOwnPost \/ EndGuestPost
  <2>1. /\ review'.link = "none" <=> review.link = "none"
        /\ review'.feedback = "stored" => review.feedback = "stored" \/ ~BehindOwn
        /\ guest'.link = "placeholder" <=> guest.link = "placeholder"
        /\ guest'.rows = "named" => guest.rows = "named" \/ ~BehindGuest
        /\ docs' = docs
    BY <1>3, PostEffect DEF FullInv, Inv
  <2> QED
    BY <2>1 DEF FullInv, Reachable, BehindOwn, BehindGuest
<1>4. CASE VerifyEmail
  BY <1>4 DEF VerifyEmail, LiveAccount, FullInv, Inv, TypeOK, Reachable, CallsOK, CallOK,
     PastRead, PastFeedback, PastLinks, PastGuest, drafting, posts, ghosts
<1>5. CASE Tick
  BY <1>5, StageNumbers DEF Tick, Goto, FullInv, Inv, TypeOK, Reachable, CallsOK, CallOK,
     PastRead, PastFeedback, PastLinks, PastGuest, account, drafting, posts
<1>6. ASSUME NEW r \in Runner, Check(r) PROVE Reachable'
  BY <1>6 DEF Check, Goto, FullInv, Inv, TypeOK, Reachable, CallsOK, CallOK, PastRead,
     PastFeedback, PastLinks, PastGuest, account, drafting, posts
<1>7. ASSUME NEW r \in Runner, FindUnverified(r) PROVE Reachable'
  BY <1>7, StageNumbers DEF FindUnverified, Goto, FullInv, Inv, TypeOK, Reachable, CallsOK,
     CallOK, PastRead, PastFeedback, PastLinks, PastGuest, account, drafting, posts
<1>8. ASSUME NEW r \in Runner, KillFails(r) PROVE Reachable'
  BY <1>8 DEF KillFails, Goto, FullInv, Inv, TypeOK, Reachable, CallsOK, CallOK, PastRead,
     PastFeedback, PastLinks, PastGuest, account, drafting, posts
<1>9. ASSUME NEW r \in Runner, Fail(r) PROVE Reachable'
  BY <1>9 DEF Fail, End, Idle, Running, FullInv, Inv, TypeOK, Reachable, CallsOK, CallOK,
     PastRead, PastFeedback, PastLinks, PastGuest, account, drafting, posts
<1>10. ASSUME NEW r \in Runner, Lock(r) PROVE Reachable'
  BY <1>10, StageNumbers DEF Lock, LockUser, Goto, FullInv, Inv, TypeOK, Reachable, CallsOK,
     CallOK, PastRead, PastFeedback, PastLinks, PastGuest, drafting, posts
<1>11. ASSUME NEW r \in Runner, LockIfDue(r) PROVE Reachable'
  BY <1>11, StageNumbers DEF LockIfDue, StillDue, LockUser, Goto, FullInv, Inv, TypeOK,
     Reachable, CallsOK, CallOK, PastRead, PastFeedback, PastLinks, PastGuest, drafting, posts
<1>12. ASSUME NEW r \in Runner, Kill(r) PROVE Reachable'
  BY <1>12 DEF Kill, Goto, RowsOf, FullInv, Inv, TypeOK, Reachable, CallsOK, CallOK,
     PastRead, PastFeedback, PastLinks, PastGuest, account, drafting, posts
<1>13. ASSUME NEW r \in Runner, Read(r) PROVE Reachable'
  BY <1>13, StageNumbers DEF Read, End, Idle, FullInv, Inv, TypeOK, Reachable, CallsOK,
     CallOK, PastRead, PastFeedback, PastLinks, PastGuest, account, drafting, posts
<1>14. ASSUME NEW r \in Runner, Ask(r) PROVE Reachable'
  BY <1>14, StageNumbers DEF Ask, Open, NoCall, Goto, FullInv, Inv, TypeOK, Reachable,
     CallsOK, CallOK, PastRead, PastFeedback, PastLinks, PastGuest, account, drafting, posts
<1>15. ASSUME NEW r \in Runner, EraseBilling(r) PROVE Reachable'
  BY <1>15, StageNumbers DEF EraseBilling, Goto, RowsOf, FullInv, Inv, TypeOK, Reachable,
     CallsOK, CallOK, PastRead, PastFeedback, PastLinks, PastGuest, drafting, posts
<1>16. ASSUME NEW r \in Runner, EraseAuthData(r) PROVE Reachable'
  BY <1>16, StageNumbers DEF EraseAuthData, Goto, RowsOf, FullInv, Inv, TypeOK, Reachable,
     CallsOK, CallOK, PastRead, PastFeedback, PastLinks, PastGuest, drafting, posts
<1>17. ASSUME NEW r \in Runner, EraseAudit(r) PROVE Reachable'
  BY <1>17, StageNumbers DEF EraseAudit, Goto, RowsOf, FullInv, Inv, TypeOK, Reachable,
     CallsOK, CallOK, PastRead, PastFeedback, PastLinks, PastGuest, drafting, posts
<1>18. ASSUME NEW r \in Runner, SetStage(r) PROVE Reachable'
  BY <1>18, StageNumbers DEF SetStage, Mark, FullInv, Inv, TypeOK, Reachable, CallsOK,
     CallOK, PastRead, PastFeedback, PastLinks, PastGuest, drafting, posts, ghosts
<1>19. ASSUME NEW r \in Runner, DeleteUser(r) PROVE Reachable'
  BY <1>19 DEF DeleteUser, End, Idle, FullInv, Inv, TypeOK, Reachable, CallsOK, CallOK,
     PastRead, PastFeedback, PastLinks, PastGuest, drafting, posts, ghosts
<1>20. ASSUME NEW c \in Call, CallFails(c) PROVE Reachable'
  BY <1>20 DEF CallFails, Answer, NoCall, FullInv, Inv, TypeOK, Reachable, CallsOK, CallOK,
     PastRead,
     PastFeedback, PastLinks, PastGuest, account, drafting, posts
<1>21. ASSUME NEW c \in Call, ReadFirst(c) PROVE Reachable'
  BY <1>21 DEF ReadFirst, FullInv, Inv, TypeOK, Reachable, CallsOK, CallOK, PastRead,
     PastFeedback, PastLinks, PastGuest, account, drafting, posts
<1>22. ASSUME NEW c \in Call, GuestRows(c) PROVE Reachable'
  BY <1>22 DEF GuestRows, Anonymous, Move, FullInv, Inv, TypeOK, Reachable, CallsOK, CallOK,
     PastRead, PastFeedback, PastLinks, PastGuest, account
<1>23. ASSUME NEW c \in Call, GuestLinks(c) PROVE Reachable'
  BY <1>23 DEF GuestLinks, Anonymous, Move, FullInv, Inv, TypeOK, Reachable, CallsOK,
     CallOK, PastRead, PastFeedback, PastLinks, PastGuest, account
<1>24. ASSUME NEW c \in Call, OwnFeedback(c) PROVE Reachable'
  BY <1>24 DEF OwnFeedback, Move, FullInv, Inv, TypeOK, Reachable, CallsOK, CallOK,
     PastRead, PastFeedback, PastLinks, PastGuest, account
<1>25. ASSUME NEW c \in Call, OwnLinks(c) PROVE Reachable'
  BY <1>25 DEF OwnLinks, Move, FullInv, Inv, TypeOK, Reachable, CallsOK, CallOK, PastRead,
     PastFeedback, PastLinks, PastGuest, account
<1>26. ASSUME NEW c \in Call, OwnRows(c) PROVE Reachable'
  BY <1>26 DEF OwnRows, RowsOf, Move, FullInv, Inv, TypeOK, Reachable, CallsOK, CallOK,
     PastRead, PastFeedback, PastLinks, PastGuest, account, drafting, posts
<1>27. ASSUME NEW c \in Call, OwnDocuments(c) PROVE Reachable'
  BY <1>27, StageNumbers DEF OwnDocuments, Answer, NoCall, posts, FullInv, Inv, TypeOK,
     Reachable, CallsOK,
     CallOK, PastRead, PastFeedback, PastLinks, PastGuest
<1>28. ASSUME NEW c \in Call, Answered(c) PROVE Reachable'
  BY <1>28 DEF Answered, Take, NoCall, End, Idle, Goto, FullInv, Inv, TypeOK, Reachable,
     CallsOK, CallOK, PastRead, PastFeedback, PastLinks, PastGuest, account, drafting, posts
<1>29. CASE UNCHANGED vars
  BY <1>29 DEF vars, FullInv, Inv, TypeOK, Reachable, CallsOK, CallOK,
     PastRead, PastFeedback, PastLinks, PastGuest, account, drafting, posts, ghosts
<1> QED
  BY <1>1, <1>2, <1>3, <1>4, <1>5, <1>6, <1>7, <1>8, <1>9, <1>10, <1>11, <1>12, <1>13,
     <1>14, <1>15, <1>16, <1>17, <1>18, <1>19, <1>20, <1>21, <1>22, <1>23, <1>24, <1>25,
     <1>26, <1>27, <1>28, <1>29 DEF Next, RunnerStep, CallStep

LEMMA CallsStep ==
    ASSUME FullInv, [Next]_vars
    PROVE  CallsOK'
<1>1. ASSUME NEW kind \in Kinds, LateWrite(kind) PROVE CallsOK'
  BY <1>1, StageNumbers DEF LateWrite, FullInv, Inv, TypeOK, Reachable, CallsOK, CallOK,
     PastRead, PastFeedback, PastLinks, PastGuest, account, drafting, posts
<1>2. ASSUME NEW which \in {"own", "guest"}, BeginPost(which) PROVE CallsOK'
  BY <1>2 DEF BeginPost, FullInv, Inv, TypeOK, Reachable, CallsOK,
     CallOK, PastRead, PastFeedback, PastLinks, PastGuest, account
<1>3. CASE EndOwnPost \/ EndGuestPost
  <2>1. UNCHANGED <<docs, call>>
    BY <1>3, PostEffect DEF FullInv, Inv
  <2>2. review.link = "none" => review'.link = "none"
    BY <1>3, PostEffect DEF FullInv, Inv
  <2>3. guest.link = "placeholder" => guest'.link = "placeholder"
    BY <1>3, PostEffect DEF FullInv, Inv
  <2>4. ASSUME NEW c \in Call, call[c].pc \in PastFeedback PROVE review'.feedback # "stored"
    <3>1. review.feedback # "stored"
      BY <2>4 DEF FullInv, CallsOK, CallOK
    <3>2. BehindOwn
      BY <2>4 DEF FullInv, CallsOK, CallOK, BehindOwn, PastFeedback, PastRead
    <3> QED
      BY <1>3, <3>1, <3>2, PostEffect DEF FullInv, Inv
  <2>5. ASSUME NEW c \in Call, call[c].pc = "guestLinks", call[c].guest PROVE guest'.rows # "named"
    <3>1. guest.rows # "named"
      BY <2>5 DEF FullInv, CallsOK, CallOK
    <3>2. BehindGuest
      BY <2>5 DEF BehindGuest
    <3> QED
      BY <1>3, <3>1, <3>2, PostEffect DEF FullInv, Inv
  <2> QED
    BY <2>1, <2>2, <2>3, <2>4, <2>5 DEF FullInv, CallsOK, CallOK
<1>4. CASE VerifyEmail
  BY <1>4 DEF VerifyEmail, LiveAccount, FullInv, Inv, TypeOK, Reachable, CallsOK, CallOK,
     PastRead, PastFeedback, PastLinks, PastGuest, drafting, posts, ghosts
<1>5. CASE Tick
  BY <1>5, StageNumbers DEF Tick, Goto, FullInv, Inv, TypeOK, Reachable, CallsOK, CallOK,
     PastRead, PastFeedback, PastLinks, PastGuest, account, drafting, posts
<1>6. ASSUME NEW r \in Runner, Check(r) PROVE CallsOK'
  BY <1>6 DEF Check, Goto, FullInv, Inv, TypeOK, Reachable, CallsOK, CallOK, PastRead,
     PastFeedback, PastLinks, PastGuest, account, drafting, posts
<1>7. ASSUME NEW r \in Runner, FindUnverified(r) PROVE CallsOK'
  BY <1>7, StageNumbers DEF FindUnverified, Goto, FullInv, Inv, TypeOK, Reachable, CallsOK,
     CallOK, PastRead, PastFeedback, PastLinks, PastGuest, account, drafting, posts
<1>8. ASSUME NEW r \in Runner, KillFails(r) PROVE CallsOK'
  BY <1>8 DEF KillFails, Goto, FullInv, Inv, TypeOK, Reachable, CallsOK, CallOK, PastRead,
     PastFeedback, PastLinks, PastGuest, account, drafting, posts
<1>9. ASSUME NEW r \in Runner, Fail(r) PROVE CallsOK'
  <2>1. \A c \in Call : /\ call'[c].pc = call[c].pc /\ call'[c].docs = call[c].docs
                        /\ call'[c].guest = call[c].guest
    BY <1>9 DEF Fail, FullInv, Inv, TypeOK
  <2>2. UNCHANGED <<review, guest, docs>>
    BY <1>9 DEF Fail, drafting, posts
  <2> QED
    BY <2>1, <2>2 DEF FullInv, CallsOK, CallOK
<1>10. ASSUME NEW r \in Runner, Lock(r) PROVE CallsOK'
  BY <1>10, StageNumbers DEF Lock, LockUser, Goto, FullInv, Inv, TypeOK, Reachable, CallsOK,
     CallOK, PastRead, PastFeedback, PastLinks, PastGuest, drafting, posts
<1>11. ASSUME NEW r \in Runner, LockIfDue(r) PROVE CallsOK'
  BY <1>11, StageNumbers DEF LockIfDue, StillDue, LockUser, Goto, FullInv, Inv, TypeOK,
     Reachable, CallsOK, CallOK, PastRead, PastFeedback, PastLinks, PastGuest,
     drafting, posts
<1>12. ASSUME NEW r \in Runner, Kill(r) PROVE CallsOK'
  BY <1>12 DEF Kill, Goto, RowsOf, FullInv, Inv, TypeOK, Reachable, CallsOK, CallOK,
     PastRead, PastFeedback, PastLinks, PastGuest, account, drafting, posts
<1>13. ASSUME NEW r \in Runner, Read(r) PROVE CallsOK'
  BY <1>13, StageNumbers DEF Read, End, Idle, FullInv, Inv, TypeOK, Reachable, CallsOK,
     CallOK, PastRead, PastFeedback, PastLinks, PastGuest, account, drafting, posts
<1>14. ASSUME NEW r \in Runner, Ask(r) PROVE CallsOK'
  BY <1>14, StageNumbers DEF Ask, Open, NoCall, Goto, FullInv, Inv, TypeOK, Reachable,
     CallsOK, CallOK, PastRead, PastFeedback, PastLinks, PastGuest, account, drafting, posts
<1>15. ASSUME NEW r \in Runner, EraseBilling(r) PROVE CallsOK'
  BY <1>15, StageNumbers DEF EraseBilling, Goto, RowsOf, FullInv, Inv, TypeOK, Reachable,
     CallsOK, CallOK, PastRead, PastFeedback, PastLinks, PastGuest, drafting, posts
<1>16. ASSUME NEW r \in Runner, EraseAuthData(r) PROVE CallsOK'
  BY <1>16, StageNumbers DEF EraseAuthData, Goto, RowsOf, FullInv, Inv, TypeOK, Reachable,
     CallsOK, CallOK, PastRead, PastFeedback, PastLinks, PastGuest, drafting, posts
<1>17. ASSUME NEW r \in Runner, EraseAudit(r) PROVE CallsOK'
  BY <1>17, StageNumbers DEF EraseAudit, Goto, RowsOf, FullInv, Inv, TypeOK, Reachable,
     CallsOK, CallOK, PastRead, PastFeedback, PastLinks, PastGuest, drafting, posts
<1>18. ASSUME NEW r \in Runner, SetStage(r) PROVE CallsOK'
  BY <1>18, StageNumbers DEF SetStage, Mark, FullInv, Inv, TypeOK, Reachable, CallsOK,
     CallOK, PastRead, PastFeedback, PastLinks, PastGuest, drafting, posts, ghosts
<1>19. ASSUME NEW r \in Runner, DeleteUser(r) PROVE CallsOK'
  BY <1>19 DEF DeleteUser, End, Idle, FullInv, Inv, TypeOK, Reachable, CallsOK, CallOK,
     PastRead, PastFeedback, PastLinks, PastGuest, drafting, posts, ghosts
<1>20. ASSUME NEW c \in Call, CallFails(c) PROVE CallsOK'
  BY <1>20 DEF CallFails, Answer, NoCall, FullInv, Inv, TypeOK, Reachable, CallsOK, CallOK,
     PastRead, PastFeedback, PastLinks, PastGuest, account, drafting, posts
<1>21. ASSUME NEW c \in Call, ReadFirst(c) PROVE CallsOK'
  BY <1>21 DEF ReadFirst, FullInv, Inv, TypeOK, Reachable, CallsOK, CallOK, PastRead,
     PastFeedback, PastLinks, PastGuest, account, drafting, posts
<1>22. ASSUME NEW c \in Call, GuestRows(c) PROVE CallsOK'
  BY <1>22 DEF GuestRows, Anonymous, Move, FullInv, Inv, TypeOK, Reachable, CallsOK, CallOK,
     PastRead, PastFeedback, PastLinks, PastGuest, account
<1>23. ASSUME NEW c \in Call, GuestLinks(c) PROVE CallsOK'
  BY <1>23 DEF GuestLinks, Anonymous, Move, FullInv, Inv, TypeOK, Reachable, CallsOK,
     CallOK, PastRead, PastFeedback, PastLinks, PastGuest, account
<1>24. ASSUME NEW c \in Call, OwnFeedback(c) PROVE CallsOK'
  BY <1>24, EraseAssumption, StageNumbers DEF OwnFeedback, Move, FullInv, Inv, TypeOK,
     Reachable, CallsOK, CallOK, PastRead, PastFeedback,
     PastLinks, PastGuest, account, drafting, posts, ghosts
<1>25. ASSUME NEW c \in Call, OwnLinks(c) PROVE CallsOK'
  BY <1>25 DEF OwnLinks, Move, FullInv, Inv, TypeOK, Reachable, CallsOK, CallOK, PastRead,
     PastFeedback, PastLinks, PastGuest, account
<1>26. ASSUME NEW c \in Call, OwnRows(c) PROVE CallsOK'
  BY <1>26 DEF OwnRows, RowsOf, Move, FullInv, Inv, TypeOK, Reachable, CallsOK, CallOK,
     PastRead, PastFeedback, PastLinks, PastGuest, account, drafting, posts
<1>27. ASSUME NEW c \in Call, OwnDocuments(c) PROVE CallsOK'
  BY <1>27, StageNumbers DEF OwnDocuments, Answer, NoCall, posts, FullInv, Inv, TypeOK,
     Reachable, CallsOK,
     CallOK, PastRead, PastFeedback, PastLinks, PastGuest
<1>28. ASSUME NEW c \in Call, Answered(c) PROVE CallsOK'
  BY <1>28 DEF Answered, Take, NoCall, End, Idle, Goto, FullInv, Inv, TypeOK, Reachable,
     CallsOK, CallOK, PastRead, PastFeedback, PastLinks, PastGuest, account, drafting, posts
<1>29. CASE UNCHANGED vars
  BY <1>29 DEF vars, FullInv, Inv, TypeOK, Reachable, CallsOK, CallOK,
     PastRead, PastFeedback, PastLinks, PastGuest, account, drafting, posts, ghosts
<1> QED
  BY <1>1, <1>2, <1>3, <1>4, <1>5, <1>6, <1>7, <1>8, <1>9, <1>10, <1>11, <1>12, <1>13,
     <1>14, <1>15, <1>16, <1>17, <1>18, <1>19, <1>20, <1>21, <1>22, <1>23, <1>24, <1>25,
     <1>26, <1>27, <1>28, <1>29 DEF Next, RunnerStep, CallStep

LEMMA SecondStep ==
    ASSUME FullInv, [Next]_vars
    PROVE  SecondPass'
<1>1. ASSUME NEW kind \in Kinds, LateWrite(kind) PROVE SecondPass'
  <2>1. UNCHANGED <<runner, call, docs, guest, finished, deleteRow>>
    BY <1>1 DEF LateWrite, account, drafting, posts
  <2>2. \A k \in Kinds : NoOld(k) => (NoOld(k)' \/ (k = kind /\ LastErasedBy(kind) \notin finished))
    <3>1. CASE LastErasedBy(kind) \in finished
      <4>1. (LastErasedBy(kind) \in finished) = TRUE
        BY <3>1
      <4> QED
        BY <1>1, <4>1 DEF LateWrite, NoOld
    <3>2. CASE LastErasedBy(kind) \notin finished
      BY <1>1, <3>2 DEF LateWrite, NoOld
    <3> QED
      BY <3>1, <3>2
  <2>3. \A r \in Runner : runner[r].pc \in {"waitAgain", "billingAgain", "delete"} =>
            AuditDone \in finished
    BY StageNumbers DEF FullInv, Inv, RunsOK, RunOK, Done
  <2>4. /\ LastErasedBy("session") = AuthDataErased
        /\ \A k \in {"work", "usage", "audit"} : LastErasedBy(k) = AuditDone
        /\ {"work", "usage", "session", "audit"} \subseteq Kinds
    BY DEF LastErasedBy, Kinds
  <2>5. \A c \in Call : call[c].by \subseteq Runner
    BY DEF FullInv, Inv, TypeOK
  <2> QED
    BY <2>1, <2>2, <2>3, <2>4, <2>5 DEF FullInv, SecondPass
<1>2. ASSUME NEW which \in {"own", "guest"}, BeginPost(which) PROVE SecondPass'
  BY <1>2, StageNumbers DEF BeginPost, FullInv, Inv, TypeOK, SecondPass,
     NoOld, RunsOK, RunOK, Done, CallersOK, CallsOK, CallOK, StageHonest, PastRead,
     PastFeedback, PastLinks, PastGuest, account
<1>3. CASE EndOwnPost \/ EndGuestPost
  <2>1. /\ UNCHANGED <<rows, docs, finished, deleteRow, runner, call>>
        /\ guest'.link = "placeholder" <=> guest.link = "placeholder"
    BY <1>3, PostEffect DEF FullInv, Inv
  <2> QED
    BY <2>1 DEF FullInv, SecondPass, NoOld
<1>4. CASE VerifyEmail
  BY <1>4, StageNumbers DEF VerifyEmail, LiveAccount, FullInv, Inv, TypeOK, SecondPass,
     NoOld, RunsOK, RunOK, Done, CallersOK, CallsOK, CallOK, StageHonest, PastRead,
     PastFeedback, PastLinks, PastGuest, drafting, posts, ghosts
<1>5. CASE Tick
  BY <1>5, StageNumbers DEF Tick, Goto, FullInv, Inv, TypeOK, SecondPass, NoOld, RunsOK,
     RunOK, Done, CallersOK, CallsOK, CallOK, StageHonest, PastRead, PastFeedback,
     PastLinks, PastGuest, account, drafting, posts
<1>6. ASSUME NEW r \in Runner, Check(r) PROVE SecondPass'
  BY <1>6, StageNumbers DEF Check, Goto, FullInv, Inv, TypeOK, SecondPass, NoOld, RunsOK,
     RunOK, Done, CallersOK, CallsOK, CallOK, StageHonest, PastRead, PastFeedback,
     PastLinks, PastGuest, account, drafting, posts
<1>7. ASSUME NEW r \in Runner, FindUnverified(r) PROVE SecondPass'
  BY <1>7, StageNumbers DEF FindUnverified, Goto, FullInv, Inv, TypeOK, SecondPass, NoOld,
     RunsOK, RunOK, Done, CallersOK, CallsOK, CallOK, StageHonest, PastRead, PastFeedback,
     PastLinks, PastGuest, account, drafting, posts
<1>8. ASSUME NEW r \in Runner, KillFails(r) PROVE SecondPass'
  BY <1>8, StageNumbers DEF KillFails, Goto, FullInv, Inv, TypeOK, SecondPass, NoOld,
     RunsOK, RunOK, Done, CallersOK, CallsOK, CallOK, StageHonest, PastRead, PastFeedback,
     PastLinks, PastGuest, account, drafting, posts
<1>9. ASSUME NEW r \in Runner, Fail(r) PROVE SecondPass'
  BY <1>9, StageNumbers DEF Fail, End, Idle, Running, FullInv, Inv, TypeOK, SecondPass,
     NoOld, RunsOK, RunOK, Done, CallersOK, CallsOK, CallOK, StageHonest, PastRead,
     PastFeedback, PastLinks, PastGuest, account, drafting, posts
<1>10. ASSUME NEW r \in Runner, Lock(r) PROVE SecondPass'
  BY <1>10, StageNumbers DEF Lock, LockUser, Goto, FullInv, Inv, TypeOK, SecondPass, NoOld,
     RunsOK, RunOK, Done, CallersOK, CallsOK, CallOK, StageHonest, PastRead, PastFeedback,
     PastLinks, PastGuest, drafting, posts
<1>11. ASSUME NEW r \in Runner, LockIfDue(r) PROVE SecondPass'
  <2>1. UNCHANGED <<rows, docs, guest, finished, deleteRow>>
    BY <1>11 DEF LockIfDue, LockUser, drafting, posts, account
  <2>2. \A q \in Runner : runner'[q].pc \in {"waitAgain", "billingAgain", "delete"} =>
            runner'[q].pc = runner[q].pc
    <3>1. PICK k : runner' = [runner EXCEPT ![r] = k] /\ k.pc \in {"kill", "idle"}
      <4>1. CASE StillDue
        BY <1>11, <4>1 DEF LockIfDue, Goto, FullInv, Inv, TypeOK
      <4>2. CASE ~StillDue
        BY <1>11, <4>2 DEF LockIfDue, Goto, FullInv, Inv, TypeOK
      <4> QED
        BY <4>1, <4>2
    <3> QED
      BY <3>1 DEF FullInv, Inv, TypeOK
  <2>3. UNCHANGED call
    BY <1>11 DEF LockIfDue
  <2> QED
    BY <2>1, <2>2, <2>3 DEF FullInv, Inv, TypeOK, SecondPass, NoOld
<1>12. ASSUME NEW r \in Runner, Kill(r) PROVE SecondPass'
  BY <1>12, StageNumbers DEF Kill, Goto, RowsOf, FullInv, Inv, TypeOK, SecondPass, NoOld,
     RunsOK, RunOK, Done, CallersOK, CallsOK, CallOK, StageHonest, PastRead, PastFeedback,
     PastLinks, PastGuest, account, drafting, posts
<1>13. ASSUME NEW r \in Runner, Read(r) PROVE SecondPass'
  <2>1. UNCHANGED <<rows, docs, guest, finished, deleteRow>>
    BY <1>13 DEF Read, drafting, posts, account
  <2>2. \A q \in Runner : runner'[q].pc \in {"waitAgain", "billingAgain", "delete"} =>
            runner'[q].pc = runner[q].pc
    <3>1. PICK k : runner' = [runner EXCEPT ![r] = k] /\ k.pc \in {"askAgain", "step", "idle"}
      <4>1. CASE user.there
        BY <1>13, <4>1 DEF Read
      <4>2. CASE ~user.there
        <5>1. runner' = [runner EXCEPT ![r] = Idle]
          BY <1>13, <4>2 DEF Read, End
        <5>2. Idle.pc = "idle"
          BY DEF Idle
        <5> QED
          BY <5>1, <5>2
      <4> QED
        BY <4>1, <4>2
    <3> QED
      BY <3>1 DEF FullInv, Inv, TypeOK
  <2>3. UNCHANGED call
    BY <1>13 DEF Read
  <2> QED
    BY <2>1, <2>2, <2>3 DEF FullInv, Inv, TypeOK, SecondPass, NoOld
<1>14. ASSUME NEW r \in Runner, Ask(r) PROVE SecondPass'
  <2>1. UNCHANGED <<rows, docs, guest, finished, deleteRow>>
    BY <1>14 DEF Ask, drafting, posts, account
  <2>2. PICK c \in Call : call' = [call EXCEPT ![c] = [NoCall EXCEPT !.pc = "read", !.by = {r}]]
    BY <1>14 DEF Ask, Open
  <2>3. /\ call'[c].pc = "read"
        /\ \A d \in Call \ {c} : call'[d] = call[d]
    BY <2>2 DEF NoCall, FullInv, Inv, TypeOK
  <2>4. /\ runner[r].pc \in {"step", "askAgain"} /\ runner'[r].pc \in {"wait", "waitAgain"}
        /\ \A q \in Runner \ {r} : runner'[q] = runner[q]
    BY <1>14 DEF Ask, Goto, FullInv, Inv, TypeOK
  <2>5. \A d \in Call : r \notin call[d].by /\ call[d].by \subseteq Runner
    BY <2>4 DEF FullInv, Inv, TypeOK, CallersOK
  <2> QED
    BY <2>1, <2>3, <2>4, <2>5 DEF FullInv, SecondPass, NoOld
<1>15. ASSUME NEW r \in Runner, EraseBilling(r) PROVE SecondPass'
  <2>1. rows' \subseteq rows /\ NoOld("usage")'
    BY <1>15 DEF EraseBilling, RowsOf, NoOld
  <2>2. UNCHANGED <<docs, guest, deleteRow, call>> /\ finished' = finished \cup {BillingErased}
    BY <1>15 DEF EraseBilling, drafting, posts
  <2>3. /\ \A q \in Runner \ {r} : runner'[q] = runner[q]
        /\ runner'[r].pc \in {"mark", "delete"}
        /\ runner'[r].pc = "delete" => runner[r].pc = "billingAgain"
    BY <1>15 DEF EraseBilling, Goto, FullInv, Inv, TypeOK
  <2>4. \A c \in Call : call[c].by \subseteq Runner
    BY DEF FullInv, Inv, TypeOK
  <2> QED
    BY <2>1, <2>2, <2>3, <2>4, StageNumbers DEF FullInv, SecondPass, NoOld
<1>16. ASSUME NEW r \in Runner, EraseAuthData(r) PROVE SecondPass'
  BY <1>16, StageNumbers DEF EraseAuthData, Goto, RowsOf, FullInv, Inv, TypeOK, SecondPass,
     NoOld, RunsOK, RunOK, Done, CallersOK, CallsOK, CallOK, StageHonest, PastRead,
     PastFeedback, PastLinks, PastGuest, drafting, posts
<1>17. ASSUME NEW r \in Runner, EraseAudit(r) PROVE SecondPass'
  BY <1>17, StageNumbers DEF EraseAudit, Goto, RowsOf, FullInv, Inv, TypeOK, SecondPass,
     NoOld, RunsOK, RunOK, Done, CallersOK, CallsOK, CallOK, StageHonest, PastRead,
     PastFeedback, PastLinks, PastGuest, drafting, posts
<1>18. ASSUME NEW r \in Runner, SetStage(r) PROVE SecondPass'
  BY <1>18, StageNumbers DEF SetStage, Mark, FullInv, Inv, TypeOK, SecondPass, NoOld,
     RunsOK, RunOK, Done, CallersOK, CallsOK, CallOK, StageHonest, PastRead, PastFeedback,
     PastLinks, PastGuest, drafting, posts, ghosts
<1>19. ASSUME NEW r \in Runner, DeleteUser(r) PROVE SecondPass'
  BY <1>19, StageNumbers DEF DeleteUser, End, Idle, FullInv, Inv, TypeOK, SecondPass, NoOld,
     RunsOK, RunOK, Done, CallersOK, CallsOK, CallOK, StageHonest, PastRead, PastFeedback,
     PastLinks, PastGuest, drafting, posts, ghosts
<1>20. ASSUME NEW c \in Call, CallFails(c) PROVE SecondPass'
  BY <1>20, StageNumbers DEF CallFails, Answer, NoCall, FullInv, Inv, TypeOK, SecondPass, NoOld,
     RunsOK, RunOK, Done, CallersOK, CallsOK, CallOK, StageHonest, PastRead, PastFeedback,
     PastLinks, PastGuest, account, drafting, posts
<1>21. ASSUME NEW c \in Call, ReadFirst(c) PROVE SecondPass'
  BY <1>21, StageNumbers DEF ReadFirst, FullInv, Inv, TypeOK, SecondPass, NoOld, RunsOK,
     RunOK, Done, CallersOK, CallsOK, CallOK, StageHonest, PastRead, PastFeedback,
     PastLinks, PastGuest, account, drafting, posts
<1>22. ASSUME NEW c \in Call, GuestRows(c) PROVE SecondPass'
  BY <1>22, StageNumbers DEF GuestRows, Anonymous, Move, FullInv, Inv, TypeOK, SecondPass,
     NoOld, RunsOK, RunOK, Done, CallersOK, CallsOK, CallOK, StageHonest, PastRead,
     PastFeedback, PastLinks, PastGuest, account
<1>23. ASSUME NEW c \in Call, GuestLinks(c) PROVE SecondPass'
  BY <1>23, StageNumbers DEF GuestLinks, Anonymous, Move, FullInv, Inv, TypeOK, SecondPass,
     NoOld, RunsOK, RunOK, Done, CallersOK, CallsOK, CallOK, StageHonest, PastRead,
     PastFeedback, PastLinks, PastGuest, account
<1>24. ASSUME NEW c \in Call, OwnFeedback(c) PROVE SecondPass'
  BY <1>24, StageNumbers DEF OwnFeedback, Move, FullInv, Inv, TypeOK, SecondPass, NoOld,
     RunsOK, RunOK, Done, CallersOK, CallsOK, CallOK, StageHonest, PastRead, PastFeedback,
     PastLinks, PastGuest, account
<1>25. ASSUME NEW c \in Call, OwnLinks(c) PROVE SecondPass'
  BY <1>25, StageNumbers DEF OwnLinks, Move, FullInv, Inv, TypeOK, SecondPass, NoOld,
     RunsOK, RunOK, Done, CallersOK, CallsOK, CallOK, StageHonest, PastRead, PastFeedback,
     PastLinks, PastGuest, account
<1>26. ASSUME NEW c \in Call, OwnRows(c) PROVE SecondPass'
  BY <1>26, StageNumbers DEF OwnRows, RowsOf, Move, FullInv, Inv, TypeOK, SecondPass, NoOld,
     RunsOK, RunOK, Done, CallersOK, CallsOK, CallOK, StageHonest, PastRead, PastFeedback,
     PastLinks, PastGuest, account, drafting, posts
<1>27. ASSUME NEW c \in Call, OwnDocuments(c) PROVE SecondPass'
  BY <1>27, StageNumbers DEF OwnDocuments, Answer, NoCall, posts, FullInv, Inv, TypeOK,
     SecondPass, NoOld,
     RunsOK, RunOK, Done, CallersOK, CallsOK, CallOK, StageHonest, PastRead, PastFeedback,
     PastLinks, PastGuest
<1>28. ASSUME NEW c \in Call, Answered(c) PROVE SecondPass'
  <2>1. UNCHANGED <<rows, docs, guest, finished, deleteRow>>
    BY <1>28 DEF Answered, Take, drafting, posts, account
  <2>2. /\ call[c].pc \in {"ok", "failed"} /\ call'[c].by = {}
        /\ \A d \in Call \ {c} : call'[d] = call[d]
    BY <1>28 DEF Answered, Take, NoCall, FullInv, Inv, TypeOK
  <2>3. CASE call[c].by = {}
    BY <1>28, <2>1, <2>2, <2>3 DEF Answered, Take, FullInv, SecondPass, NoOld
  <2>4. CASE call[c].by # {}
    <3>1. PICK r \in call[c].by :
             IF call[c].pc = "failed" THEN End(r)
             ELSE Goto(r, IF runner[r].pc = "wait" THEN "mark" ELSE "billingAgain")
      BY <1>28, <2>4 DEF Answered, Take
    <3>2. r \in Runner /\ runner[r].pc \in {"wait", "waitAgain"}
      BY <3>1 DEF FullInv, Inv, TypeOK, CallersOK
    <3>3. /\ \A q \in Runner \ {r} : runner'[q] = runner[q]
          /\ runner'[r].pc \in {"idle", "mark", "billingAgain"}
          /\ runner'[r].pc = "billingAgain" => runner[r].pc = "waitAgain" /\ call[c].pc = "ok"
      BY <2>2, <3>1, <3>2 DEF End, Idle, Goto, FullInv, Inv, TypeOK
    <3>4. runner'[r].pc = "billingAgain" => NoOld("work") /\ docs = {} /\ guest.link = "placeholder"
      BY <3>1, <3>3 DEF FullInv, SecondPass, CallsOK, CallOK, PastGuest
    <3>5. \A d \in Call \ {c} : r \notin call[d].by /\ call[d].by \subseteq Runner
      BY <3>1 DEF FullInv, Inv, TypeOK, CallersOK
    <3> QED
      BY <2>1, <2>2, <3>3, <3>4, <3>5 DEF FullInv, SecondPass, NoOld
  <2> QED
    BY <2>3, <2>4
<1>29. CASE UNCHANGED vars
  BY <1>29 DEF vars, FullInv, Inv, TypeOK, SecondPass, NoOld, RunsOK,
     RunOK, Done, CallersOK, CallsOK, CallOK, StageHonest, LastErasedBy, RowsOf, Kinds,
     PastRead, PastFeedback, PastLinks, PastGuest, account, drafting, posts, ghosts
<1> QED
  BY <1>1, <1>2, <1>3, <1>4, <1>5, <1>6, <1>7, <1>8, <1>9, <1>10, <1>11, <1>12, <1>13,
     <1>14, <1>15, <1>16, <1>17, <1>18, <1>19, <1>20, <1>21, <1>22, <1>23, <1>24, <1>25,
     <1>26, <1>27, <1>28, <1>29 DEF Next, RunnerStep, CallStep

LEMMA GoneStep ==
    ASSUME FullInv, [Next]_vars
    PROVE  GoneOK'
<1>1. ASSUME NEW kind \in Kinds, LateWrite(kind) PROVE GoneOK'
  BY <1>1, StageNumbers DEF LateWrite, FullInv, Inv, TypeOK, GoneOK, SecondPass, NoOld,
     RunsOK, RunOK, Done, CallsOK, CallOK, LockedOK, LastErasedBy, RowsOf, PastRead,
     PastFeedback, PastLinks, PastGuest, account, drafting, posts
<1>2. ASSUME NEW which \in {"own", "guest"}, BeginPost(which) PROVE GoneOK'
  BY <1>2, StageNumbers DEF BeginPost, FullInv, Inv, TypeOK, GoneOK,
     SecondPass, NoOld, RunsOK, RunOK, Done, CallsOK, CallOK, LockedOK, PastRead,
     PastFeedback, PastLinks, PastGuest, account
<1>3. CASE EndOwnPost \/ EndGuestPost
  <2>1. /\ UNCHANGED <<user, rows, docs, finished>>
        /\ guest'.link = "placeholder" <=> guest.link = "placeholder"
    BY <1>3, PostEffect DEF FullInv, Inv
  <2> QED
    BY <2>1 DEF FullInv, GoneOK, NoOld
<1>4. CASE VerifyEmail
  BY <1>4, StageNumbers DEF VerifyEmail, LiveAccount, FullInv, Inv, TypeOK, GoneOK,
     SecondPass, NoOld, RunsOK, RunOK, Done, CallsOK, CallOK, LockedOK, PastRead,
     PastFeedback, PastLinks, PastGuest, drafting, posts, ghosts
<1>5. CASE Tick
  BY <1>5, StageNumbers DEF Tick, Goto, FullInv, Inv, TypeOK, GoneOK, SecondPass, NoOld,
     RunsOK, RunOK, Done, CallsOK, CallOK, LockedOK, PastRead, PastFeedback, PastLinks,
     PastGuest, account, drafting, posts
<1>6. ASSUME NEW r \in Runner, Check(r) PROVE GoneOK'
  BY <1>6, StageNumbers DEF Check, Goto, FullInv, Inv, TypeOK, GoneOK, SecondPass, NoOld,
     RunsOK, RunOK, Done, CallsOK, CallOK, LockedOK, PastRead, PastFeedback, PastLinks,
     PastGuest, account, drafting, posts
<1>7. ASSUME NEW r \in Runner, FindUnverified(r) PROVE GoneOK'
  BY <1>7, StageNumbers DEF FindUnverified, Goto, FullInv, Inv, TypeOK, GoneOK, SecondPass,
     NoOld, RunsOK, RunOK, Done, CallsOK, CallOK, LockedOK, PastRead, PastFeedback,
     PastLinks, PastGuest, account, drafting, posts
<1>8. ASSUME NEW r \in Runner, KillFails(r) PROVE GoneOK'
  BY <1>8, StageNumbers DEF KillFails, Goto, FullInv, Inv, TypeOK, GoneOK, SecondPass,
     NoOld, RunsOK, RunOK, Done, CallsOK, CallOK, LockedOK, PastRead, PastFeedback,
     PastLinks, PastGuest, account, drafting, posts
<1>9. ASSUME NEW r \in Runner, Fail(r) PROVE GoneOK'
  BY <1>9, StageNumbers DEF Fail, End, Idle, Running, FullInv, Inv, TypeOK, GoneOK,
     SecondPass, NoOld, RunsOK, RunOK, Done, CallsOK, CallOK, LockedOK, PastRead,
     PastFeedback, PastLinks, PastGuest, account, drafting, posts
<1>10. ASSUME NEW r \in Runner, Lock(r) PROVE GoneOK'
  <2>1. UNCHANGED <<rows, docs, guest, finished>> /\ user'.there = user.there
    BY <1>10, LockEffect DEF Lock, LockUser, FullInv, Inv, drafting, posts
  <2> QED
    BY <2>1 DEF FullInv, GoneOK, NoOld
<1>11. ASSUME NEW r \in Runner, LockIfDue(r) PROVE GoneOK'
  <2>1. UNCHANGED <<rows, docs, guest, finished>> /\ user'.there = user.there
    BY <1>11, LockEffect DEF LockIfDue, LockUser, FullInv, Inv, drafting, posts
  <2> QED
    BY <2>1 DEF FullInv, GoneOK, NoOld
<1>12. ASSUME NEW r \in Runner, Kill(r) PROVE GoneOK'
  BY <1>12, StageNumbers DEF Kill, Goto, RowsOf, FullInv, Inv, TypeOK, GoneOK, SecondPass,
     NoOld, RunsOK, RunOK, Done, CallsOK, CallOK, LockedOK, PastRead, PastFeedback,
     PastLinks, PastGuest, account, drafting, posts
<1>13. ASSUME NEW r \in Runner, Read(r) PROVE GoneOK'
  BY <1>13, StageNumbers DEF Read, End, Idle, FullInv, Inv, TypeOK, GoneOK, SecondPass,
     NoOld, RunsOK, RunOK, Done, CallsOK, CallOK, LockedOK, PastRead, PastFeedback,
     PastLinks, PastGuest, account, drafting, posts
<1>14. ASSUME NEW r \in Runner, Ask(r) PROVE GoneOK'
  BY <1>14, StageNumbers DEF Ask, Open, NoCall, Goto, FullInv, Inv, TypeOK, GoneOK,
     SecondPass, NoOld, RunsOK, RunOK, Done, CallsOK, CallOK, LockedOK, PastRead,
     PastFeedback, PastLinks, PastGuest, account, drafting, posts
<1>15. ASSUME NEW r \in Runner, EraseBilling(r) PROVE GoneOK'
  BY <1>15, StageNumbers DEF EraseBilling, Goto, RowsOf, FullInv, Inv, TypeOK, GoneOK,
     SecondPass, NoOld, RunsOK, RunOK, Done, CallsOK, CallOK, LockedOK, PastRead,
     PastFeedback, PastLinks, PastGuest, drafting, posts
<1>16. ASSUME NEW r \in Runner, EraseAuthData(r) PROVE GoneOK'
  BY <1>16, StageNumbers DEF EraseAuthData, Goto, RowsOf, FullInv, Inv, TypeOK, GoneOK,
     SecondPass, NoOld, RunsOK, RunOK, Done, CallsOK, CallOK, LockedOK, PastRead,
     PastFeedback, PastLinks, PastGuest, drafting, posts
<1>17. ASSUME NEW r \in Runner, EraseAudit(r) PROVE GoneOK'
  BY <1>17, StageNumbers DEF EraseAudit, Goto, RowsOf, FullInv, Inv, TypeOK, GoneOK,
     SecondPass, NoOld, RunsOK, RunOK, Done, CallsOK, CallOK, LockedOK, PastRead,
     PastFeedback, PastLinks, PastGuest, drafting, posts
<1>18. ASSUME NEW r \in Runner, SetStage(r) PROVE GoneOK'
  BY <1>18, StageNumbers DEF SetStage, Mark, FullInv, Inv, TypeOK, GoneOK, SecondPass,
     NoOld, RunsOK, RunOK, Done, CallsOK, CallOK, LockedOK, PastRead, PastFeedback,
     PastLinks, PastGuest, drafting, posts, ghosts
<1>19. ASSUME NEW r \in Runner, DeleteUser(r) PROVE GoneOK'
  BY <1>19, StageNumbers DEF DeleteUser, End, Idle, FullInv, Inv, TypeOK, GoneOK,
     SecondPass, NoOld, RunsOK, RunOK, Done, CallsOK, CallOK, LockedOK, PastRead,
     PastFeedback, PastLinks, PastGuest, drafting, posts, ghosts
<1>20. ASSUME NEW c \in Call, CallFails(c) PROVE GoneOK'
  BY <1>20, StageNumbers DEF CallFails, Answer, NoCall, FullInv, Inv, TypeOK, GoneOK,
     SecondPass,
     NoOld, RunsOK, RunOK, Done, CallsOK, CallOK, LockedOK, PastRead, PastFeedback,
     PastLinks, PastGuest, account, drafting, posts
<1>21. ASSUME NEW c \in Call, ReadFirst(c) PROVE GoneOK'
  BY <1>21, StageNumbers DEF ReadFirst, FullInv, Inv, TypeOK, GoneOK, SecondPass, NoOld,
     RunsOK, RunOK, Done, CallsOK, CallOK, LockedOK, PastRead, PastFeedback, PastLinks,
     PastGuest, account, drafting, posts
<1>22. ASSUME NEW c \in Call, GuestRows(c) PROVE GoneOK'
  BY <1>22, StageNumbers DEF GuestRows, Anonymous, Move, FullInv, Inv, TypeOK, GoneOK,
     SecondPass, NoOld, RunsOK, RunOK, Done, CallsOK, CallOK, LockedOK, PastRead,
     PastFeedback, PastLinks, PastGuest, account
<1>23. ASSUME NEW c \in Call, GuestLinks(c) PROVE GoneOK'
  BY <1>23, StageNumbers DEF GuestLinks, Anonymous, Move, FullInv, Inv, TypeOK, GoneOK,
     SecondPass, NoOld, RunsOK, RunOK, Done, CallsOK, CallOK, LockedOK, PastRead,
     PastFeedback, PastLinks, PastGuest, account
<1>24. ASSUME NEW c \in Call, OwnFeedback(c) PROVE GoneOK'
  BY <1>24, StageNumbers DEF OwnFeedback, Move, FullInv, Inv, TypeOK, GoneOK, SecondPass,
     NoOld, RunsOK, RunOK, Done, CallsOK, CallOK, LockedOK, PastRead, PastFeedback,
     PastLinks, PastGuest, account
<1>25. ASSUME NEW c \in Call, OwnLinks(c) PROVE GoneOK'
  BY <1>25, StageNumbers DEF OwnLinks, Move, FullInv, Inv, TypeOK, GoneOK, SecondPass,
     NoOld, RunsOK, RunOK, Done, CallsOK, CallOK, LockedOK, PastRead, PastFeedback,
     PastLinks, PastGuest, account
<1>26. ASSUME NEW c \in Call, OwnRows(c) PROVE GoneOK'
  BY <1>26, StageNumbers DEF OwnRows, RowsOf, Move, FullInv, Inv, TypeOK, GoneOK,
     SecondPass, NoOld, RunsOK, RunOK, Done, CallsOK, CallOK, LockedOK, PastRead,
     PastFeedback, PastLinks, PastGuest, account, drafting, posts
<1>27. ASSUME NEW c \in Call, OwnDocuments(c) PROVE GoneOK'
  BY <1>27, StageNumbers DEF OwnDocuments, Answer, NoCall, posts, FullInv, Inv, TypeOK,
     GoneOK, SecondPass,
     NoOld, RunsOK, RunOK, Done, CallsOK, CallOK, LockedOK, PastRead, PastFeedback,
     PastLinks, PastGuest
<1>28. ASSUME NEW c \in Call, Answered(c) PROVE GoneOK'
  BY <1>28, StageNumbers DEF Answered, Take, NoCall, End, Idle, Goto, FullInv, Inv, TypeOK,
     GoneOK, SecondPass, NoOld, RunsOK, RunOK, Done, CallsOK, CallOK, LockedOK, PastRead,
     PastFeedback, PastLinks, PastGuest, account, drafting, posts
<1>29. CASE UNCHANGED vars
  BY <1>29 DEF vars, FullInv, Inv, TypeOK, GoneOK, SecondPass, NoOld,
     RunsOK, RunOK, Done, CallsOK, CallOK, LockedOK, LastErasedBy, RowsOf, PastRead,
     PastFeedback, PastLinks, PastGuest, account, drafting, posts, ghosts
<1> QED
  BY <1>1, <1>2, <1>3, <1>4, <1>5, <1>6, <1>7, <1>8, <1>9, <1>10, <1>11, <1>12, <1>13,
     <1>14, <1>15, <1>16, <1>17, <1>18, <1>19, <1>20, <1>21, <1>22, <1>23, <1>24, <1>25,
     <1>26, <1>27, <1>28, <1>29 DEF Next, RunnerStep, CallStep


LEMMA FullStep == FullInv /\ [Next]_vars => FullInv'
  BY InvStep, ReachableStep, CallsStep, SecondStep, GoneStep DEF FullInv

(* A lock is for good: no step takes the marker off, or puts it back to its *)
(* start, and none of an account that the sweep of unverified accounts      *)
(* locked verifies it.                                                      *)
LEMMA LockStep ==
    ASSUME Inv, [Next]_vars
    PROVE  /\ lockedBy' \cap Unverified # {} => ~user'.verified
           /\ user.stage # 0 => /\ ~user'.active
                                /\ user'.stage >= Locked
                                /\ user'.stage = Locked => user.stage = Locked
<1>1. Inv'
  BY InvStep
<1>2. lockedBy' \cap Unverified # {} => ~user'.verified
  BY <1>1 DEF Inv, LockedOK
<1>3. user \in [there : BOOLEAN, active : BOOLEAN, verified : BOOLEAN, stage : 0..5]
  BY StageNumbers DEF Inv, TypeOK
<1>4. user'.stage = user.stage \/ user.stage = 0 \/ user'.stage \in 2..5
  <2>1. ASSUME NEW r \in Runner, Lock(r) \/ LockIfDue(r)
        PROVE  user'.stage = user.stage \/ user.stage = 0
    BY <1>3, <2>1 DEF Lock, LockIfDue, StillDue, LockUser
  <2>2. ASSUME NEW r \in Runner, SetStage(r) PROVE user'.stage = user.stage \/ user'.stage \in 2..5
    BY <1>3, <2>2 DEF SetStage, Mark, Inv, RunsOK, RunOK
  <2>3. ASSUME NEW r \in Runner, DeleteUser(r) PROVE user'.stage = user.stage
    BY <1>3, <2>3 DEF DeleteUser
  <2>4. CASE VerifyEmail
    BY <1>3, <2>4 DEF VerifyEmail
  <2>5. CASE \/ \E kind \in Kinds : LateWrite(kind)
             \/ \E which \in {"own", "guest"} : BeginPost(which)
             \/ EndOwnPost \/ EndGuestPost \/ Tick \/ UNCHANGED vars
    BY <2>5 DEF LateWrite, BeginPost, EndOwnPost, EndGuestPost, Tick, account, vars
  <2>6. ASSUME NEW r \in Runner,
               \/ Check(r) \/ FindUnverified(r) \/ KillFails(r) \/ Fail(r) \/ Kill(r) \/ Read(r)
               \/ Ask(r) \/ EraseBilling(r) \/ EraseAuthData(r) \/ EraseAudit(r)
        PROVE  UNCHANGED user
    BY <2>6 DEF Check, FindUnverified, KillFails, Fail, Kill, Read, Ask, EraseBilling,
                EraseAuthData, EraseAudit, account
  <2>7. ASSUME NEW c \in Call, CallFails(c) \/ CallStep(c) PROVE UNCHANGED user
    BY <2>7 DEF CallFails, CallStep, ReadFirst, GuestRows, GuestLinks, OwnFeedback, OwnLinks,
                OwnRows, OwnDocuments, Answered, Take, account
  <2> QED
    BY <2>1, <2>2, <2>3, <2>4, <2>5, <2>6, <2>7 DEF Next, RunnerStep
<1>5. user.stage # 0 => user'.stage >= Locked /\ (user'.stage = Locked => user.stage = Locked)
  BY <1>3, <1>4, StageNumbers
<1>6. user.stage # 0 => ~user'.active
  BY <1>1, <1>5, StageNumbers DEF Inv, LockedOK
<1> QED
  BY <1>2, <1>5, <1>6

LEMMA GoneIsErased == FullInv => FinishedMeansErased
<1> SUFFICES ASSUME FullInv, ~user.there PROVE FinishedMeansErased
  BY DEF FinishedMeansErased
<1>1. /\ NoOld("work") /\ NoOld("usage") /\ NoOld("session") /\ NoOld("audit")
      /\ deleteRow /\ docs = {} /\ guest.link = "placeholder"
  BY DEF FullInv, GoneOK, SecondPass
<1>2. \A x \in rows : x[2]
  <2> SUFFICES ASSUME NEW x \in rows PROVE x[2]
    OBVIOUS
  <2>1. PICK k \in Kinds, late \in BOOLEAN : x = <<k, late>>
    BY DEF FullInv, Inv, TypeOK
  <2> QED
    BY <1>1, <2>1 DEF NoOld, Kinds
<1> QED
  BY <1>1, <1>2 DEF FullInv, Reachable, FinishedMeansErased

----------------------------------------------------------------------------
(* The theorems.                                                            *)

(* In every state the stage written on the user names only work that some   *)
(* run has done, though runs overlap, fail and write over one another's     *)
(* stage: setErasureStage after each stage of runAccountErase.              *)
THEOREM StagesHonest == Spec => []StageHonest
<1>1. Init => Inv
  BY InitOK DEF FullInv
<1>2. Inv => StageHonest
  BY DEF Inv
<1> QED
  BY <1>1, <1>2, InvStep, PTL DEF Spec

(* A lock is for good, and never that of a user who verified in time: the   *)
(* conditional write of the lock and the verify link exclude one another.   *)
THEOREM LockHolds == Spec => LockOK
<1>1. Init => Inv
  BY InitOK DEF FullInv
<1>2. Spec => VerifiedIsKept
  <2>1. Inv /\ [Next]_vars => [lockedBy' \cap Unverified # {} => ~user'.verified]_vars
    BY LockStep
  <2> QED
    BY <1>1, <2>1, InvStep, PTL DEF Spec, VerifiedIsKept
<1>3. Spec => StaysLocked
  <2>1. Inv /\ [Next]_vars =>
            [user.stage # 0 => /\ ~user'.active
                               /\ user'.stage >= Locked
                               /\ user'.stage = Locked => user.stage = Locked]_vars
    BY LockStep
  <2> QED
    BY <1>1, <2>1, InvStep, PTL DEF Spec, StaysLocked
<1> QED
  BY <1>2, <1>3 DEF LockOK

(* No step of an erase leaves behind what only another row leads to, so a   *)
(* run cut off anywhere can be taken up: eraseAccount of drafting takes the *)
(* links after the feedback and the documents last.                         *)
THEOREM StagesSound == Spec => []StagesOK
<1>1. FullInv => StagesOK
  BY DEF FullInv, Inv, StagesOK
<1> QED
  BY <1>1, InitOK, FullStep, PTL DEF Spec

(* When the user document is gone, so is all that was there before the last *)
(* pass: the stages can be marked by any run, the second pass over drafting *)
(* and billing is what makes the end complete.                              *)
THEOREM FinishedSound == Spec => []FinishedMeansErased
  BY InitOK, FullStep, GoneIsErased, PTL DEF Spec


=============================================================================

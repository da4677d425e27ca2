--------------------------- MODULE DocumentErase ---------------------------
(* The erase of a document in the drafting service: DELETE /documents/:id   *)
(* marks and hides the document and then removes, step by step and with no  *)
(* transaction, everything that hangs on it; a sweep runs what failed or    *)
(* was cut off again. Reviewers post feedback through public links and new  *)
(* documents are drafted meanwhile, and nothing keeps the erases, drafts    *)
(* and posts of one intake apart. Several documents may come from one       *)
(* intake, whose fact ledger and auxiliary rows the last of them takes.     *)
(* A fact ledger is named by its intake.                                    *)
EXTENDS Naturals, FiniteSets

CONSTANTS
    Doc,         \* documents of a user
    Intake,      \* intakes they are drafted from
    IntakeOf,    \* the intake of each document, [Doc -> Intake]
    Handler,     \* runs of eraseDocument: requests and the sweep's
    Sweeper,     \* the handler that is the sweep
    Reviewed,    \* bound: documents whose review link is posted to
    MaxDrafted,  \* documents that may still be drafted
    MaxFails     \* steps that may fail

ASSUME EraseAssumption ==
    /\ IntakeOf \in [Doc -> Intake]
    /\ Sweeper \in Handler /\ Reviewed \subseteq Doc
    /\ MaxDrafted \in Nat /\ MaxFails \in Nat

VARIABLES
    status,    \* [Doc -> "none" | "live" | "marked" | "gone"]: the row
    saved,     \* the links kept on the delete marker
    linked,    \* documents whose generation row still carries documentId
    ledger,    \* intakes whose fact ledger is stored
    aux,       \* intakes whose v3 ledgers and auxiliary calls are stored
    diffs,     \* <<document, ledger>> of the stored fact diffs
    tokens,    \* [Doc -> "none" | "open" | "used"]: the document's review link
    posting,   \* [Doc -> "none" | "read" | "stored"]: how far a post to it is
    feedback,  \* documents with stored feedback
    events,    \* documents that a review's event names
    run,       \* what each run of eraseDocument is doing
    behind,    \* history, by document: drafted while a sibling's erase had read
               \* what is shared, and was to take the facts of the intake, or
               \* had left them
    left,      \* history: <<d, e>>, an erase of d left the facts for e
    late,      \* history: what a post stored when its link was erased already
    fails      \* steps that have failed

vars == <<status, saved, linked, ledger, aux, diffs, tokens, posting, feedback, events, run,
          behind, left, late, fails>>
reviews == <<tokens, posting, feedback, events, late>>
facts == <<ledger, aux, diffs>>
history == <<behind, left>>

Links == [intakes : SUBSET Intake, ledgers : SUBSET Intake]
NoLinks == [intakes |-> {}, ledgers |-> {}]
Steps == {"links", "erasable", "tokens", "feedback", "diffs", "ledgers", "aux",
          "unlink", "document"}
Rest == [pc |-> "rest", doc |-> CHOOSE d \in Doc : TRUE, links |-> NoLinks]

Init ==
    /\ \E born \in (SUBSET Doc) \ {{}} :
          /\ status = [d \in Doc |-> IF d \in born THEN "live" ELSE "none"]
          /\ linked = born
          /\ ledger = {IntakeOf[d] : d \in born}
          /\ diffs = {<<d, IntakeOf[d]>> : d \in born}
          /\ tokens = [d \in Doc |-> IF d \in born THEN "open" ELSE "none"]
          /\ Cardinality(Doc \ born) <= MaxDrafted
    /\ aux = ledger
    /\ saved = [d \in Doc |-> NoLinks]
    /\ posting = [d \in Doc |-> "none"] /\ feedback = {} /\ events = {}
    /\ run = [h \in Handler |-> Rest]
    /\ behind = [d \in Doc |-> "no"] /\ left = {} /\ late = {}
    /\ fails = 0

----------------------------------------------------------------------------
(* The environment.                                                         *)

Busy(h) == run[h].pc \in Steps
Kin(d) == {e \in Doc : IntakeOf[e] = IntakeOf[d]}

(* A run on a sibling has read what is shared and has its document linked.  *)
Reading == {"tokens", "feedback", "diffs", "ledgers", "aux", "unlink"}
Taking(h, i) == run[h].pc \in Reading \ {"unlink"}
                /\ i \in run[h].links.intakes \cup run[h].links.ledgers
Behind(d) ==
    IF \E h \in Handler : Taking(h, IntakeOf[d]) THEN "taken"
    ELSE IF \E h \in Handler : run[h].pc \in Reading /\ run[h].doc \in Kin(d) THEN "left"
    ELSE "no"

(* A document is drafted from its intake: the intake's ledger and auxiliary *)
(* rows are written by the intake, the row, its generation, its fact diffs  *)
(* and the review link the founder makes for it follow.                     *)
Draft(d) ==
    /\ status[d] = "none"
    /\ status' = [status EXCEPT ![d] = "live"]
    /\ linked' = linked \cup {d}
    /\ ledger' = ledger \cup {IntakeOf[d]}
    /\ aux' = aux \cup {IntakeOf[d]}
    /\ diffs' = diffs \cup {<<d, IntakeOf[d]>>}
    /\ tokens' = [tokens EXCEPT ![d] = "open"]
    /\ behind' = [behind EXCEPT ![d] = Behind(d)]
    /\ UNCHANGED <<saved, posting, feedback, events, run, left, late, fails>>

(* POST /review/:token/feedback reads that the link is there and unused and *)
(* that the document is neither missing nor marked ...                      *)
BeginPost(d) ==
    /\ d \in Reviewed /\ tokens[d] = "open" /\ status[d] = "live" /\ posting[d] = "none"
    /\ posting' = [posting EXCEPT ![d] = "read"]
    /\ UNCHANGED <<status, saved, linked, facts, tokens, feedback, events, run, history, late, fails>>

Late(d, what) == IF tokens[d] = "none" THEN late \cup {<<d, what>>} ELSE late

(* ... then stores the feedback and marks the link used, if it is there ... *)
StoreFeedback(d) ==
    /\ posting[d] = "read"
    /\ posting' = [posting EXCEPT ![d] = "stored"]
    /\ feedback' = feedback \cup {d}
    /\ tokens' = [tokens EXCEPT ![d] = IF @ = "open" THEN "used" ELSE @]
    /\ late' = Late(d, "feedback")
    /\ UNCHANGED <<status, saved, linked, facts, events, run, history, fails>>

(* ... and an event that tells the founder of it.                           *)
EndPost(d) ==
    /\ posting[d] = "stored"
    /\ posting' = [posting EXCEPT ![d] = "none"]
    /\ events' = events \cup {d}
    /\ late' = Late(d, "event")
    /\ UNCHANGED <<status, saved, linked, facts, tokens, feedback, run, history, fails>>

----------------------------------------------------------------------------
(* DELETE /documents/:id and the sweep.                                     *)

Begin(h, d) == run' = [run EXCEPT ![h] = [pc |-> "links", doc |-> d, links |-> NoLinks]]

(* The marker hides the document before any step; a repeat while an erase   *)
(* is pending only runs the steps again.                                    *)
Delete(h, d) ==
    /\ h # Sweeper /\ ~Busy(h)
    /\ status[d] \in {"live", "marked"}
    /\ status' = [status EXCEPT ![d] = "marked"]
    /\ Begin(h, d)
    /\ UNCHANGED <<saved, linked, facts, reviews, history, fails>>

(* Mutant: the sweep leaves an erase that a run has begun to that run.      *)
SweepUntouched(d) ==
    /\ ~Busy(Sweeper)
    /\ status[d] = "marked" /\ saved[d] = NoLinks
    /\ Begin(Sweeper, d)
    /\ UNCHANGED <<status, saved, linked, facts, reviews, history, fails>>

(* The sweep takes up a document that still has the marker.                 *)
Sweep(d) ==
    /\ ~Busy(Sweeper)
    /\ status[d] = "marked"
    /\ Begin(Sweeper, d)
    /\ UNCHANGED <<status, saved, linked, facts, reviews, history, fails>>

Goto(h, pc) == run' = [run EXCEPT ![h].pc = pc]

LinkedIntakes(d) == IF d \in linked THEN {IntakeOf[d]} ELSE {}
DiffLedgers(d) == {l \in Intake : <<d, l>> \in diffs}

(* The links still present join those on the marker: they are read from     *)
(* rows that later steps remove. No marker: the erase is finished.          *)
SaveLinks(h) ==
    LET d == run[h].doc
        intakes == saved[d].intakes \cup LinkedIntakes(d)
        links == [intakes |-> intakes,
                  ledgers |-> saved[d].ledgers \cup DiffLedgers(d) \cup (intakes \cap ledger)]
    IN
    /\ run[h].pc = "links"
    /\ IF status[d] # "marked"
       THEN run' = [run EXCEPT ![h].pc = "done"] /\ UNCHANGED saved
       ELSE /\ saved' = [saved EXCEPT ![d] = links]
            /\ run' = [run EXCEPT ![h].pc = "erasable", ![h].links = links]
    /\ UNCHANGED <<status, linked, facts, reviews, history, fails>>

(* Mutant: every document row counts, the erased ones too.                  *)
SharedByRow(d) == {IntakeOf[e] : e \in {x \in Doc \ {d} : status[x] # "none"}}

(* What another document's generation or fact diff still reaches is left    *)
(* for that document.                                                       *)
SharedIntakes(d) == {IntakeOf[e] : e \in linked \ {d}}
SharedLedgers(d) == {l \in Intake : \E e \in Doc \ {d} : <<e, l>> \in diffs} \cup SharedIntakes(d)

Erasable(h) ==
    LET d == run[h].doc
        links == run[h].links
    IN
    /\ run[h].pc = "erasable"
    /\ run' = [run EXCEPT ![h].pc = "tokens",
                          ![h].links = [intakes |-> links.intakes \ SharedIntakes(d),
                                        ledgers |-> links.ledgers \ SharedLedgers(d)]]
    /\ left' = left \cup ({d} \X ((linked \ {d}) \cap Kin(d)))
    /\ UNCHANGED <<status, saved, linked, facts, reviews, behind, fails>>

EraseTokens(h) ==
    /\ run[h].pc = "tokens"
    /\ tokens' = [tokens EXCEPT ![run[h].doc] = "none"]
    /\ Goto(h, "feedback")
    /\ UNCHANGED <<status, saved, linked, facts, posting, feedback, events, late, history, fails>>

EraseFeedback(h) ==
    /\ run[h].pc = "feedback"
    /\ feedback' = feedback \ {run[h].doc}
    /\ Goto(h, "diffs")
    /\ UNCHANGED <<status, saved, linked, facts, tokens, posting, events, late, history, fails>>

(* Mutant: fact diffs only by the ledgers that are to go.                   *)
EraseDiffsByLedger(h) ==
    /\ run[h].pc = "diffs"
    /\ diffs' = {x \in diffs : x[2] \notin run[h].links.ledgers}
    /\ Goto(h, "ledgers")
    /\ UNCHANGED <<status, saved, linked, ledger, aux, reviews, history, fails>>

(* Fact diffs by document, then by every ledger that is to go.              *)
EraseDiffs(h) ==
    /\ run[h].pc = "diffs"
    /\ diffs' = {x \in diffs : x[1] # run[h].doc /\ x[2] \notin run[h].links.ledgers}
    /\ Goto(h, "ledgers")
    /\ UNCHANGED <<status, saved, linked, ledger, aux, reviews, history, fails>>

EraseLedgers(h) ==
    /\ run[h].pc = "ledgers"
    /\ ledger' = ledger \ run[h].links.ledgers
    /\ Goto(h, "aux")
    /\ UNCHANGED <<status, saved, linked, aux, diffs, reviews, history, fails>>

(* The v3 ledgers and the auxiliary calls, through the intakes.             *)
EraseAux(h) ==
    /\ run[h].pc = "aux"
    /\ aux' = aux \ run[h].links.intakes
    /\ Goto(h, "unlink")
    /\ UNCHANGED <<status, saved, linked, ledger, diffs, reviews, history, fails>>

(* Generations, usage logs, template usages and events stay, unlinked.      *)
Unlink(h) ==
    /\ run[h].pc = "unlink"
    /\ linked' = linked \ {run[h].doc} /\ events' = events \ {run[h].doc}
    /\ Goto(h, "document")
    /\ UNCHANGED <<status, saved, facts, tokens, posting, feedback, late, history, fails>>

EraseRow(h) ==
    /\ run[h].pc = "document"
    /\ status' = [status EXCEPT ![run[h].doc] = "gone"]
    /\ saved' = [saved EXCEPT ![run[h].doc] = NoLinks]
    /\ Goto(h, "done")
    /\ UNCHANGED <<linked, facts, reviews, history, fails>>

(* A step throws, or the process dies in it: the row stays, marked, for the *)
(* sweep. The request is answered 202, or not at all.                       *)
Fail(h) ==
    /\ Busy(h) /\ fails < MaxFails
    /\ fails' = fails + 1
    /\ Goto(h, "pending")
    /\ UNCHANGED <<status, saved, linked, facts, reviews, history>>

Step(h) ==
    \/ SaveLinks(h) \/ Erasable(h) \/ EraseTokens(h) \/ EraseFeedback(h) \/ EraseDiffs(h)
    \/ EraseLedgers(h) \/ EraseAux(h) \/ Unlink(h) \/ EraseRow(h)

Next ==
    \/ \E d \in Doc : 
          \/ Draft(d) \/ BeginPost(d) \/ StoreFeedback(d) \/ EndPost(d)
          \/ Sweep(d) \/ \E h \in Handler : Delete(h, d)
    \/ \E h \in Handler : Step(h) \/ Fail(h)

Spec == Init /\ [][Next]_vars

(* A run that started goes on, and the sweep comes round for every marked   *)
(* document, oldest first, fifty at a time, never two runs of it at once.   *)
FairSpec ==
    /\ Spec
    /\ \A h \in Handler : WF_vars(Step(h))
    /\ \A d \in Doc : SF_vars(Sweep(d))

----------------------------------------------------------------------------
TypeOK ==
    /\ status \in [Doc -> {"none", "live", "marked", "gone"}]
    /\ saved \in [Doc -> Links]
    /\ linked \subseteq Doc /\ feedback \subseteq Doc /\ events \subseteq Doc
    /\ posting \in [Doc -> {"none", "read", "stored"}]
    /\ tokens \in [Doc -> {"none", "open", "used"}]
    /\ ledger \subseteq Intake /\ aux \subseteq Intake
    /\ diffs \subseteq Doc \X Intake
    /\ run \in [Handler -> [pc : Steps \cup {"rest", "done", "pending"}, doc : Doc, links : Links]]
    /\ behind \in [Doc -> {"no", "left", "taken"}]
    /\ left \subseteq Doc \X Doc /\ late \subseteq Doc \X {"feedback", "event"}
    /\ fails \in 0..MaxFails

(* A document that is gone has left nothing behind that names it: whatever  *)
(* failed and was run again, in however many runs at once. Only a post that *)
(* had read the document stores what it stores after its link was erased    *)
(* ("a feedback POST cannot land between the two steps").                   *)
NothingLeft ==
    \A d \in Doc : status[d] = "gone" =>
        /\ d \notin linked /\ tokens[d] = "none"
        /\ \A l \in Intake : <<d, l>> \notin diffs
        /\ d \in feedback => <<d, "feedback">> \in late
        /\ d \in events => <<d, "event">> \in late

(* Two erases left the facts of their intake each for the other's document. *)
LeftToEachOther(i) ==
    \E d, e \in Doc : IntakeOf[d] = i /\ <<d, e>> \in left /\ <<e, d>> \in left

DraftedBehind(i) == \E d \in Doc : IntakeOf[d] = i /\ behind[d] # "no"

(* The last document of an intake takes the ledger and the auxiliary rows   *)
(* with it: with all of them gone, nothing of the client's facts is stored. *)
(* What is shared is read once, so two erases at a time can each leave the  *)
(* facts for the other's document, or one leave them for a document that is *)
(* about to go without them; nothing else loses sight of them.              *)
LastTakesIt ==
    \A i \in Intake :
        (\A d \in Doc : IntakeOf[d] = i => status[d] \in {"none", "gone"})
        => i \notin ledger \cup aux \/ LeftToEachOther(i) \/ DraftedBehind(i)

(* A document the user still has keeps its ledger and its auxiliary rows,   *)
(* whichever of its siblings are erased and however far that got, unless it *)
(* was drafted when an erase had found nobody to leave them for.            *)
LiveKeepsFacts ==
    \A d \in Doc : status[d] = "live" /\ behind[d] # "taken" =>
        /\ IntakeOf[d] \in ledger \cap aux
        /\ <<d, IntakeOf[d]>> \in diffs

(* 200 is answered only when the document is gone, by whichever run.        *)
DoneMeansGone == \A h \in Handler : run[h].pc = "done" => status[run[h].doc] = "gone"

(* What is true of every erase in every state, together: a document is gone *)
(* without a trace but for a late post, and said to be gone only then.      *)
EraseOK == TypeOK /\ NothingLeft /\ DoneMeansGone

(* The facts of an intake stay as long as a document of it does, and no     *)
(* longer, however the erases and drafts of its documents overlap: with the *)
(* exceptions the two parts name, which come of reading what is shared once.*)
FactsOK == LiveKeepsFacts /\ LastTakesIt

(* A deletion that was asked for finishes, whatever failed on the way.      *)
DeletionFinishes == \A d \in Doc : (status[d] = "marked") ~> (status[d] = "gone")
=============================================================================

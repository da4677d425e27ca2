----------------------- MODULE DocumentEraseProofs -----------------------
(* What holds of every deletion of documents, for any documents, intakes,   *)
(* handlers and failures, and however the erases, drafts and posts of one   *)
(* intake overlap: a document that is gone left nothing behind but what a   *)
(* late post stored, and the facts of an intake stay as long as a document  *)
(* of it does, but where what was shared had changed since it was read.     *)
EXTENDS DocumentErase, TLAPS

----------------------------------------------------------------------------
(* The inductive invariant.                                                 *)

Own(d) == IntakeOf[d]
DiffsOf(d) == {x \in diffs : x[1] = d}

PastLinks == {"erasable", "tokens", "feedback", "diffs", "ledgers", "aux", "unlink", "document"}
PastTokens == {"feedback", "diffs", "ledgers", "aux", "unlink", "document"}
PastFeedback == {"diffs", "ledgers", "aux", "unlink", "document"}
PastDiffs == {"ledgers", "aux", "unlink", "document"}

\* Everything stored about a document concerns its own intake.
OwnOK ==
    /\ \A x \in diffs : x[2] = Own(x[1])
    /\ \A x \in left : x[1] # x[2] /\ Own(x[1]) = Own(x[2])
    /\ \A d \in Doc : saved[d].intakes \cup saved[d].ledgers \subseteq {Own(d)}
    /\ \A h \in Handler :
          run[h].links.intakes \cup run[h].links.ledgers \subseteq {Own(run[h].doc)}

\* What is stored of a document in each state of its row.
RowOK(d) ==
    /\ status[d] \in {"none", "gone"} => d \notin linked
    /\ status[d] = "live" => d \in linked
    /\ d \notin linked => DiffsOf(d) = {}

GoneOK(d) ==
    status[d] = "gone" => /\ tokens[d] = "none"
                          /\ d \in feedback => <<d, "feedback">> \in late
                          /\ d \in events => <<d, "event">> \in late

LiveOK(d) ==
    status[d] = "live" /\ behind[d] # "taken" =>
        <<d, Own(d)>> \in diffs /\ Own(d) \in ledger \cap aux

\* The marker keeps the way to the facts once the generation row or the ledger
\* no longer shows it.
MarkedOK(d) ==
    status[d] = "marked" =>
        /\ d \in linked \/ Own(d) \in saved[d].intakes
        /\ \/ behind[d] = "taken"
           \/ Own(d) \in saved[d].ledgers
           \/ d \in linked /\ Own(d) \in ledger

\* Sharing: whom an erase left the facts for is still there, or left them too.
LeftOK(d, e) ==
    /\ <<d, e>> \in left => status[d] \in {"marked", "gone"}
    /\ d \in linked /\ e \notin linked /\ <<d, e>> \in left =>
          <<e, d>> \in left \/ behind[d] # "no"

\* A run is on a document that has the marker, until one has finished it.
BusyOK(h) ==
    /\ run[h].pc \in Steps => status[run[h].doc] \in {"marked", "gone"}
    /\ run[h].pc = "done" => status[run[h].doc] = "gone"

\* From the links on, the marker has the way to what the run will unlink.
SavedOK(h) ==
    LET d == run[h].doc IN
    run[h].pc \in PastLinks /\ status[d] = "marked" =>
        /\ Own(d) \in saved[d].intakes
        /\ behind[d] # "taken" => Own(d) \in saved[d].ledgers

\* What a run has erased of its own document is erased still.
TokensOK(h) == run[h].pc \in PastTokens => tokens[run[h].doc] = "none"
FeedbackOK(h) ==
    run[h].pc \in PastFeedback /\ run[h].doc \in feedback => <<run[h].doc, "feedback">> \in late
DiffsOK(h) == run[h].pc \in PastDiffs => DiffsOf(run[h].doc) = {}
UnlinkOK(h) ==
    run[h].pc = "document" =>
        run[h].doc \notin linked /\ (run[h].doc \in events => <<run[h].doc, "event">> \in late)

\* What a run has read of what is shared is what it goes by, whatever is drafted
\* and erased meanwhile: it takes what it found nobody to leave for ...
TakesOK(h) ==
    LET d == run[h].doc IN
    Taking(h, Own(d)) => \A e \in linked \cap Kin(d) : e # d => behind[e] = "taken"

\* ... it leaves the rest to everybody it found ...
LeavesOK(h) ==
    LET d == run[h].doc IN
    run[h].pc \in Reading =>
        \A e \in linked \cap Kin(d) : e # d => <<d, e>> \in left \/ behind[e] # "no"

\* ... and it has the facts to take if it found nobody ...
LinksOK(h) ==
    LET d == run[h].doc IN
    /\ run[h].pc = "erasable" => /\ Own(d) \in run[h].links.intakes
                                 /\ behind[d] # "taken" => Own(d) \in run[h].links.ledgers
    /\ run[h].pc \in Reading =>
          \/ behind[d] = "taken"
          \/ \E e \in Doc : <<d, e>> \in left
          \/ Own(d) \in run[h].links.intakes \cap run[h].links.ledgers

\* ... which are gone once it took them, unless a sibling was drafted meanwhile.
TakenOK(h) ==
    LET i == Own(run[h].doc) IN
    /\ run[h].pc \in {"aux", "unlink"} /\ i \in run[h].links.ledgers =>
          i \notin ledger \/ DraftedBehind(i)
    /\ run[h].pc = "unlink" /\ i \in run[h].links.intakes =>
          i \notin aux \/ DraftedBehind(i)

\* Facts that are stored have a document that will take them.
KeptOK ==
    \A i \in ledger \cup aux :
        LeftToEachOther(i) \/ DraftedBehind(i) \/ \E d \in linked : Own(d) = i

Inv ==
    /\ TypeOK /\ OwnOK /\ KeptOK
    /\ \A d \in Doc : RowOK(d) /\ GoneOK(d) /\ LiveOK(d) /\ MarkedOK(d)
    /\ \A d, e \in Doc : LeftOK(d, e)
    /\ \A h \in Handler : BusyOK(h) /\ SavedOK(h)
    /\ \A h \in Handler : TokensOK(h) /\ FeedbackOK(h) /\ DiffsOK(h) /\ UnlinkOK(h)
    /\ \A h \in Handler : TakesOK(h) /\ LeavesOK(h) /\ LinksOK(h) /\ TakenOK(h)

----------------------------------------------------------------------------
(* Every step keeps it.                                                     *)

LEMMA InvBase ==
    ASSUME Inv
    PROVE  /\ linked \subseteq Doc /\ left \subseteq Doc \X Doc
           /\ \A h \in Handler : run[h].doc \in Doc
  BY DEF Inv, TypeOK

Runs == [pc : Steps \cup {"rest", "done", "pending"}, doc : Doc, links : Links]

LEMMA GotoRun ==
    ASSUME Inv, NEW h \in Handler, NEW pc \in Steps \cup {"done", "pending"}, Goto(h, pc)
    PROVE  /\ run' \in [Handler -> Runs]
           /\ \A g \in Handler \ {h} : run'[g] = run[g]
           /\ run'[h].pc = pc /\ run'[h].doc = run[h].doc /\ run'[h].links = run[h].links
  <1>1. run \in [Handler -> Runs] /\ run[h] \in Runs
    BY DEF Inv, TypeOK, Runs
  <1>2. [run[h] EXCEPT !.pc = pc] \in Runs
    BY <1>1 DEF Runs
  <1>3. run' = [run EXCEPT ![h] = [run[h] EXCEPT !.pc = pc]]
    BY DEF Goto
  <1> QED
    BY <1>1, <1>2, <1>3 DEF Runs

LEMMA BeginRun ==
    ASSUME Inv, NEW h \in Handler, NEW d \in Doc, Begin(h, d)
    PROVE  /\ run' \in [Handler -> Runs]
           /\ \A g \in Handler \ {h} : run'[g] = run[g]
           /\ run'[h].pc = "links" /\ run'[h].doc = d /\ run'[h].links = NoLinks
  <1>1. run \in [Handler -> Runs]
    BY DEF Inv, TypeOK, Runs
  <1>2. [pc |-> "links", doc |-> d, links |-> NoLinks] \in Runs
    BY DEF Runs, Steps, Links, NoLinks
  <1>3. run' = [run EXCEPT ![h] = [pc |-> "links", doc |-> d, links |-> NoLinks]]
    BY DEF Begin
  <1> QED
    BY <1>1, <1>2, <1>3

\* A post to a document touches no erase and none of the facts.
LEMMA PostInv ==
    ASSUME Inv, UNCHANGED <<status, saved, linked, ledger, aux, diffs, run, behind, left>>
    PROVE  /\ OwnOK' /\ KeptOK'
           /\ \A e \in Doc : RowOK(e)' /\ LiveOK(e)' /\ MarkedOK(e)'
           /\ \A a, b \in Doc : LeftOK(a, b)'
           /\ \A g \in Handler : BusyOK(g)' /\ SavedOK(g)' /\ DiffsOK(g)'
           /\ \A g \in Handler : TakesOK(g)' /\ LeavesOK(g)' /\ LinksOK(g)' /\ TakenOK(g)'
  <1>1. OwnOK' /\ KeptOK'
    BY DEF Inv, OwnOK, KeptOK, LeftToEachOther, DraftedBehind, Own
  <1>2. \A e \in Doc : RowOK(e)' /\ LiveOK(e)' /\ MarkedOK(e)'
    BY DEF Inv, RowOK, LiveOK, MarkedOK, DiffsOf, Own
  <1>3. \A a, b \in Doc : LeftOK(a, b)'
    BY DEF Inv, LeftOK
  <1>4. \A g \in Handler : BusyOK(g)' /\ SavedOK(g)' /\ DiffsOK(g)'
    BY DEF Inv, BusyOK, SavedOK, DiffsOK, DiffsOf, Own
  <1>5. \A g \in Handler : TakesOK(g)' /\ LeavesOK(g)'
    BY DEF Inv, TakesOK, LeavesOK, Taking, Kin, Own
  <1>6. \A g \in Handler : LinksOK(g)' /\ TakenOK(g)'
    BY DEF Inv, LinksOK, TakenOK, DraftedBehind, Own
  <1> QED
    BY <1>1, <1>2, <1>3, <1>4, <1>5, <1>6

\* A new document brings its intake's facts; an erase that had read what is
\* shared did not know of it.
LEMMA DraftInv == ASSUME Inv, NEW d \in Doc, Draft(d) PROVE Inv'
  <1>0. /\ UNCHANGED <<saved, posting, feedback, events, run, left, late, fails>>
        /\ status[d] = "none" /\ d \notin linked
        /\ status'[d] = "live"
        /\ \A e \in Doc \ {d} : status'[e] = status[e]
        /\ linked' = linked \cup {d}
        /\ ledger' = ledger \cup {Own(d)} /\ aux' = aux \cup {Own(d)}
        /\ diffs' = diffs \cup {<<d, Own(d)>>}
        /\ tokens'[d] = "open"
        /\ \A e \in Doc \ {d} : tokens'[e] = tokens[e]
        /\ \A e \in Doc \ {d} : behind'[e] = behind[e]
        /\ \A h \in Handler : Taking(h, Own(d)) => behind'[d] = "taken"
        /\ \A h \in Handler : run[h].pc \in Reading /\ Own(run[h].doc) = Own(d) => behind'[d] # "no"
    <2>1. behind' = [behind EXCEPT ![d] = Behind(d)]
      BY DEF Draft
    <2>2. \A h \in Handler : Taking(h, Own(d)) => Behind(d) = "taken"
      BY DEF Behind, Own
    <2>3. \A h \in Handler : run[h].pc \in Reading /\ Own(run[h].doc) = Own(d) => Behind(d) # "no"
      BY InvBase DEF Behind, Own, Kin
    <2>4. behind'[d] = Behind(d) /\ \A e \in Doc \ {d} : behind'[e] = behind[e]
      BY <2>1 DEF Inv, TypeOK
    <2>5. d \notin linked
      BY DEF Inv, RowOK, Draft
    <2> QED
      BY <2>2, <2>3, <2>4, <2>5 DEF Inv, TypeOK, Draft, Own
  <1>1. TypeOK'
    <2>1. IntakeOf[d] \in Intake /\ <<d, IntakeOf[d]>> \in Doc \X Intake
      BY EraseAssumption
    <2>2. behind' \in [Doc -> {"no", "left", "taken"}]
      BY DEF Inv, TypeOK, Draft, Behind
    <2> QED
      BY <2>1, <2>2 DEF Inv, TypeOK, Draft
  <1>2. OwnOK'
    BY <1>0, InvBase DEF Inv, OwnOK, Own
  <1>3. KeptOK'
    BY <1>0, InvBase DEF Inv, KeptOK, LeftToEachOther, DraftedBehind, Own
  <1>4. ASSUME NEW e \in Doc PROVE RowOK(e)'
    BY <1>0, InvBase DEF Inv, RowOK, DiffsOf
  <1>5. ASSUME NEW e \in Doc PROVE GoneOK(e)'
    BY <1>0, InvBase DEF Inv, GoneOK
  <1>6. ASSUME NEW e \in Doc PROVE LiveOK(e)'
    BY <1>0, InvBase DEF Inv, LiveOK, Own
  <1>7. ASSUME NEW e \in Doc PROVE MarkedOK(e)'
    BY <1>0, InvBase DEF Inv, MarkedOK, Own
  <1>8. ASSUME NEW a \in Doc, NEW b \in Doc PROVE LeftOK(a, b)'
    BY <1>0, InvBase DEF Inv, LeftOK
  <1>9. ASSUME NEW g \in Handler PROVE BusyOK(g)'
    BY <1>0, InvBase DEF Inv, BusyOK, Steps
  <1>10. ASSUME NEW g \in Handler PROVE SavedOK(g)'
    BY <1>0, InvBase DEF Inv, SavedOK, PastLinks, Own, BusyOK, Steps
  <1>11. ASSUME NEW g \in Handler PROVE TokensOK(g)'
    BY <1>0, InvBase DEF Inv, BusyOK, Steps, TokensOK, PastTokens
  <1>12. ASSUME NEW g \in Handler PROVE FeedbackOK(g)'
    BY <1>0, InvBase DEF Inv, TokensOK, PastTokens, FeedbackOK, PastFeedback
  <1>13. ASSUME NEW g \in Handler PROVE DiffsOK(g)'
    BY <1>0, InvBase DEF Inv, DiffsOK, PastDiffs, DiffsOf, BusyOK, Steps
  <1>14. ASSUME NEW g \in Handler PROVE UnlinkOK(g)'
    BY <1>0, InvBase DEF Inv, UnlinkOK, TokensOK, PastTokens, BusyOK, Steps
  <1>15. ASSUME NEW g \in Handler PROVE TakesOK(g)'
    BY <1>0, InvBase DEF Inv, TakesOK, Reading, Taking, Kin, Own
  <1>16. ASSUME NEW g \in Handler PROVE LeavesOK(g)'
    BY <1>0, InvBase DEF Inv, LeavesOK, Reading, Kin, Own
  <1>17. ASSUME NEW g \in Handler PROVE LinksOK(g)'
    BY <1>0, InvBase DEF Inv, LinksOK, Reading, Own, BusyOK, Steps
  <1>18. ASSUME NEW g \in Handler PROVE TakenOK(g)'
    BY <1>0, InvBase DEF Inv, TakenOK, DraftedBehind, Own, Reading
  <1>19. \A e \in Doc : RowOK(e)' /\ GoneOK(e)' /\ LiveOK(e)' /\ MarkedOK(e)'
    BY <1>4, <1>5, <1>6, <1>7
  <1>20. \A g \in Handler : BusyOK(g)' /\ SavedOK(g)' /\ TokensOK(g)' /\ FeedbackOK(g)'
    BY <1>9, <1>10, <1>11, <1>12
  <1>21. \A g \in Handler : DiffsOK(g)' /\ UnlinkOK(g)' /\ TakesOK(g)' /\ LeavesOK(g)'
    BY <1>13, <1>14, <1>15, <1>16
  <1>22. \A g \in Handler : LinksOK(g)' /\ TakenOK(g)'
    BY <1>17, <1>18
  <1> QED
    BY <1>1, <1>2, <1>3, <1>8, <1>19, <1>20, <1>21, <1>22 DEF Inv

LEMMA BeginPostInv == ASSUME Inv, NEW d \in Doc, BeginPost(d) PROVE Inv'
  <1>1. /\ UNCHANGED <<status, saved, linked, ledger, aux, diffs, tokens, feedback,
                       events, run, behind, left, late, fails>>
        /\ posting[d] = "none"
    BY DEF Inv, TypeOK, BeginPost, facts, reviews, history
  <1>2. TypeOK'
    BY DEF Inv, TypeOK, BeginPost, facts, reviews, history
  <1>3. ASSUME NEW e \in Doc PROVE GoneOK(e)'
    BY <1>1, InvBase DEF Inv, GoneOK
  <1>4. ASSUME NEW g \in Handler PROVE TokensOK(g)'
    BY <1>1, InvBase DEF Inv, BusyOK, Steps, TokensOK, PastTokens
  <1>5. ASSUME NEW g \in Handler PROVE FeedbackOK(g)'
    BY <1>1, InvBase DEF Inv, TokensOK, PastTokens, FeedbackOK, PastFeedback
  <1>6. ASSUME NEW g \in Handler PROVE UnlinkOK(g)'
    BY <1>1, InvBase DEF Inv, UnlinkOK, TokensOK, PastTokens
  <1> QED
    BY <1>1, <1>2, <1>3, <1>4, <1>5, <1>6, PostInv DEF Inv

\* Feedback of a document whose link is erased already is late.
LEMMA StoreFeedbackInv == ASSUME Inv, NEW d \in Doc, StoreFeedback(d) PROVE Inv'
  <1>1. /\ UNCHANGED <<status, saved, linked, ledger, aux, diffs, events, run, behind,
                       left, fails>>
        /\ feedback' = feedback \cup {d}
        /\ tokens[d] = "none" => tokens'[d] = "none"
        /\ \A e \in Doc \ {d} : tokens'[e] = tokens[e]
        /\ late \subseteq late' /\ late' \subseteq late \cup {<<d, "feedback">>}
        /\ tokens[d] = "none" => <<d, "feedback">> \in late'
    BY DEF Inv, TypeOK, StoreFeedback, Late, facts, reviews, history
  <1>2. TypeOK'
    BY DEF Inv, TypeOK, StoreFeedback, Late, facts, reviews, history
  <1>3. ASSUME NEW e \in Doc PROVE GoneOK(e)'
    BY <1>1, InvBase DEF Inv, GoneOK
  <1>4. ASSUME NEW g \in Handler PROVE TokensOK(g)'
    BY <1>1, InvBase DEF Inv, BusyOK, Steps, TokensOK, PastTokens
  <1>5. ASSUME NEW g \in Handler PROVE FeedbackOK(g)'
    BY <1>1, InvBase DEF Inv, TokensOK, PastTokens, FeedbackOK, PastFeedback
  <1>6. ASSUME NEW g \in Handler PROVE UnlinkOK(g)'
    BY <1>1, InvBase DEF Inv, UnlinkOK, TokensOK, PastTokens
  <1> QED
    BY <1>1, <1>2, <1>3, <1>4, <1>5, <1>6, PostInv DEF Inv

LEMMA EndPostInv == ASSUME Inv, NEW d \in Doc, EndPost(d) PROVE Inv'
  <1>1. /\ UNCHANGED <<status, saved, linked, ledger, aux, diffs, tokens, feedback, run,
                       behind, left, fails>>
        /\ events' = events \cup {d}
        /\ late \subseteq late' /\ late' \subseteq late \cup {<<d, "event">>}
        /\ tokens[d] = "none" => <<d, "event">> \in late'
    BY DEF Inv, TypeOK, EndPost, Late, facts, reviews, history
  <1>2. TypeOK'
    BY DEF Inv, TypeOK, EndPost, Late, facts, reviews, history
  <1>3. ASSUME NEW e \in Doc PROVE GoneOK(e)'
    BY <1>1, InvBase DEF Inv, GoneOK
  <1>4. ASSUME NEW g \in Handler PROVE TokensOK(g)'
    BY <1>1, InvBase DEF Inv, BusyOK, Steps, TokensOK, PastTokens
  <1>5. ASSUME NEW g \in Handler PROVE FeedbackOK(g)'
    BY <1>1, InvBase DEF Inv, TokensOK, PastTokens, FeedbackOK, PastFeedback
  <1>6. ASSUME NEW g \in Handler PROVE UnlinkOK(g)'
    BY <1>1, InvBase DEF Inv, UnlinkOK, TokensOK, PastTokens
  <1> QED
    BY <1>1, <1>2, <1>3, <1>4, <1>5, <1>6, PostInv DEF Inv

LEMMA SweepInv == ASSUME Inv, NEW d \in Doc, Sweep(d) PROVE Inv'
  <1>0. /\ UNCHANGED <<status, saved, linked, ledger, aux, diffs, tokens, posting,
                       feedback, events, behind, left, late, fails>>
        /\ status[d] = "marked" /\ Sweeper \in Handler
        /\ \A g \in Handler \ {Sweeper} : run'[g] = run[g]
        /\ run'[Sweeper].pc = "links" /\ run'[Sweeper].doc = d /\ run'[Sweeper].links = NoLinks
    BY BeginRun, EraseAssumption DEF Inv, TypeOK, Sweep, Steps, facts, reviews, history
  <1>1. TypeOK'
    <2>1. run' \in [Handler -> Runs]
      BY BeginRun, EraseAssumption DEF Steps, Sweep, NoLinks
    <2> QED
      BY <2>1, EraseAssumption DEF Inv, TypeOK, Runs, Links, NoLinks, Sweep, facts, reviews,
         history
  <1>2. OwnOK'
    BY <1>0, InvBase, EraseAssumption DEF Inv, OwnOK, Own, NoLinks
  <1>3. KeptOK'
    BY <1>0, InvBase DEF Inv, KeptOK, LeftToEachOther, DraftedBehind, Own
  <1>4. ASSUME NEW e \in Doc PROVE RowOK(e)'
    BY <1>0, InvBase DEF Inv, RowOK, DiffsOf
  <1>5. ASSUME NEW e \in Doc PROVE GoneOK(e)'
    BY <1>0, InvBase DEF Inv, GoneOK
  <1>6. ASSUME NEW e \in Doc PROVE LiveOK(e)'
    BY <1>0, InvBase DEF Inv, LiveOK, Own
  <1>7. ASSUME NEW e \in Doc PROVE MarkedOK(e)'
    BY <1>0, InvBase DEF Inv, MarkedOK, Own
  <1>8. ASSUME NEW a \in Doc, NEW b \in Doc PROVE LeftOK(a, b)'
    BY <1>0, InvBase DEF Inv, LeftOK
  <1>9. ASSUME NEW g \in Handler PROVE BusyOK(g)'
    BY <1>0, InvBase DEF Inv, BusyOK, Steps
  <1>10. ASSUME NEW g \in Handler PROVE SavedOK(g)'
    BY <1>0, InvBase DEF Inv, SavedOK, PastLinks, Own
  <1>11. ASSUME NEW g \in Handler PROVE TokensOK(g)'
    BY <1>0, InvBase DEF Inv, BusyOK, Steps, TokensOK, PastTokens
  <1>12. ASSUME NEW g \in Handler PROVE FeedbackOK(g)'
    BY <1>0, InvBase DEF Inv, TokensOK, PastTokens, FeedbackOK, PastFeedback
  <1>13. ASSUME NEW g \in Handler PROVE DiffsOK(g)'
    BY <1>0, InvBase DEF Inv, DiffsOK, PastDiffs, DiffsOf
  <1>14. ASSUME NEW g \in Handler PROVE UnlinkOK(g)'
    BY <1>0, InvBase DEF Inv, UnlinkOK, TokensOK, PastTokens
  <1>15. ASSUME NEW g \in Handler PROVE TakesOK(g)'
    BY <1>0, InvBase, EraseAssumption DEF Inv, TakesOK, Reading, Taking, Kin, Own, NoLinks
  <1>16. ASSUME NEW g \in Handler PROVE LeavesOK(g)'
    BY <1>0, InvBase DEF Inv, LeavesOK, Reading, Kin, Own
  <1>17. ASSUME NEW g \in Handler PROVE LinksOK(g)'
    BY <1>0, InvBase, EraseAssumption DEF Inv, LinksOK, Reading, Own, NoLinks
  <1>18. ASSUME NEW g \in Handler PROVE TakenOK(g)'
    BY <1>0, InvBase, EraseAssumption DEF Inv, TakenOK, DraftedBehind, Own, NoLinks
  <1>19. \A e \in Doc : RowOK(e)' /\ GoneOK(e)' /\ LiveOK(e)' /\ MarkedOK(e)'
    BY <1>4, <1>5, <1>6, <1>7
  <1>20. \A g \in Handler : BusyOK(g)' /\ SavedOK(g)' /\ TokensOK(g)' /\ FeedbackOK(g)'
    BY <1>9, <1>10, <1>11, <1>12
  <1>21. \A g \in Handler : DiffsOK(g)' /\ UnlinkOK(g)' /\ TakesOK(g)' /\ LeavesOK(g)'
    BY <1>13, <1>14, <1>15, <1>16
  <1>22. \A g \in Handler : LinksOK(g)' /\ TakenOK(g)'
    BY <1>17, <1>18
  <1> QED
    BY <1>1, <1>2, <1>3, <1>8, <1>19, <1>20, <1>21, <1>22 DEF Inv

\* The marker hides the document; its generation and its ledger are still there.
LEMMA DeleteInv == ASSUME Inv, NEW h \in Handler, NEW d \in Doc, Delete(h, d) PROVE Inv'
  <1>0. /\ UNCHANGED <<saved, linked, ledger, aux, diffs, tokens, posting, feedback,
                       events, behind, left, late, fails>>
        /\ status[d] \in {"live", "marked"}
        /\ status'[d] = "marked"
        /\ \A e \in Doc \ {d} : status'[e] = status[e]
        /\ \A g \in Handler \ {h} : run'[g] = run[g]
        /\ run'[h].pc = "links" /\ run'[h].doc = d /\ run'[h].links = NoLinks
    BY BeginRun, EraseAssumption DEF Inv, TypeOK, Delete, Steps, facts, reviews, history
  <1>1. TypeOK'
    <2>1. run' \in [Handler -> Runs]
      BY BeginRun, EraseAssumption DEF Steps, Delete, NoLinks
    <2> QED
      BY <2>1, EraseAssumption DEF Inv, TypeOK, Runs, Links, NoLinks, Delete, facts, reviews,
         history
  <1>2. OwnOK'
    BY <1>0, InvBase, EraseAssumption DEF Inv, OwnOK, Own, NoLinks
  <1>3. KeptOK'
    BY <1>0, InvBase DEF Inv, KeptOK, LeftToEachOther, DraftedBehind, Own
  <1>4. ASSUME NEW e \in Doc PROVE RowOK(e)'
    BY <1>0, InvBase DEF Inv, RowOK, DiffsOf
  <1>5. ASSUME NEW e \in Doc PROVE GoneOK(e)'
    BY <1>0, InvBase DEF Inv, GoneOK
  <1>6. ASSUME NEW e \in Doc PROVE LiveOK(e)'
    BY <1>0, InvBase DEF Inv, LiveOK, Own
  <1>7. ASSUME NEW e \in Doc PROVE MarkedOK(e)'
    BY <1>0, InvBase DEF Inv, MarkedOK, Own, RowOK, LiveOK
  <1>8. ASSUME NEW a \in Doc, NEW b \in Doc PROVE LeftOK(a, b)'
    BY <1>0, InvBase DEF Inv, LeftOK
  <1>9. ASSUME NEW g \in Handler PROVE BusyOK(g)'
    BY <1>0, InvBase DEF Inv, BusyOK, Steps
  <1>10. ASSUME NEW g \in Handler PROVE SavedOK(g)'
    BY <1>0, InvBase DEF Inv, SavedOK, PastLinks, Own, BusyOK, Steps
  <1>11. ASSUME NEW g \in Handler PROVE TokensOK(g)'
    BY <1>0, InvBase DEF Inv, BusyOK, Steps, TokensOK, PastTokens
  <1>12. ASSUME NEW g \in Handler PROVE FeedbackOK(g)'
    BY <1>0, InvBase DEF Inv, TokensOK, PastTokens, FeedbackOK, PastFeedback
  <1>13. ASSUME NEW g \in Handler PROVE DiffsOK(g)'
    BY <1>0, InvBase DEF Inv, DiffsOK, PastDiffs, DiffsOf
  <1>14. ASSUME NEW g \in Handler PROVE UnlinkOK(g)'
    BY <1>0, InvBase DEF Inv, UnlinkOK, TokensOK, PastTokens
  <1>15. ASSUME NEW g \in Handler PROVE TakesOK(g)'
    BY <1>0, InvBase, EraseAssumption DEF Inv, TakesOK, Reading, Taking, Kin, Own, NoLinks
  <1>16. ASSUME NEW g \in Handler PROVE LeavesOK(g)'
    BY <1>0, InvBase DEF Inv, LeavesOK, Reading, Kin, Own
  <1>17. ASSUME NEW g \in Handler PROVE LinksOK(g)'
    BY <1>0, InvBase, EraseAssumption DEF Inv, LinksOK, Reading, Own, NoLinks
  <1>18. ASSUME NEW g \in Handler PROVE TakenOK(g)'
    BY <1>0, InvBase, EraseAssumption DEF Inv, TakenOK, DraftedBehind, Own, NoLinks
  <1>19. \A e \in Doc : RowOK(e)' /\ GoneOK(e)' /\ LiveOK(e)' /\ MarkedOK(e)'
    BY <1>4, <1>5, <1>6, <1>7
  <1>20. \A g \in Handler : BusyOK(g)' /\ SavedOK(g)' /\ TokensOK(g)' /\ FeedbackOK(g)'
    BY <1>9, <1>10, <1>11, <1>12
  <1>21. \A g \in Handler : DiffsOK(g)' /\ UnlinkOK(g)' /\ TakesOK(g)' /\ LeavesOK(g)'
    BY <1>13, <1>14, <1>15, <1>16
  <1>22. \A g \in Handler : LinksOK(g)' /\ TakenOK(g)'
    BY <1>17, <1>18
  <1> QED
    BY <1>1, <1>2, <1>3, <1>8, <1>19, <1>20, <1>21, <1>22 DEF Inv

\* The links on the marker reach the facts of the intake.
LEMMA SaveLinksFrame ==
    ASSUME Inv, NEW h \in Handler, SaveLinks(h)
    PROVE  /\ UNCHANGED <<status, linked, ledger, aux, diffs, tokens, posting, feedback,
                          events, behind, left, late, fails>>
           /\ run[h].doc \in Doc /\ run[h].pc = "links"
           /\ \A g \in Handler \ {h} : run'[g] = run[g]
           /\ run'[h].doc = run[h].doc
           /\ \A e \in Doc \ {run[h].doc} : saved'[e] = saved[e]
           /\ \/ /\ status[run[h].doc] = "gone" /\ run'[h].pc = "done"
                 /\ saved'[run[h].doc] = saved[run[h].doc] /\ run'[h].links = run[h].links
              \/ /\ status[run[h].doc] = "marked" /\ run'[h].pc = "erasable"
                 /\ saved'[run[h].doc] = run'[h].links
                 /\ run'[h].links.intakes = {Own(run[h].doc)}
                 /\ run'[h].links.ledgers \subseteq {Own(run[h].doc)}
                 /\ behind[run[h].doc] # "taken" => Own(run[h].doc) \in run'[h].links.ledgers
           /\ run' \in [Handler -> Runs]
           /\ saved' \in [Doc -> Links]
  <1> DEFINE d == run[h].doc
             intakes == saved[d].intakes \cup LinkedIntakes(d)
             links == [intakes |-> intakes,
                       ledgers |-> saved[d].ledgers \cup DiffLedgers(d) \cup (intakes \cap ledger)]
  <1>1. /\ d \in Doc /\ run[h].pc = "links"
        /\ run[h] \in [pc : Steps \cup {"rest", "done", "pending"}, doc : Doc, links : Links]
    BY DEF Inv, TypeOK, SaveLinks
  <1>2. links \in Links
    BY <1>1, EraseAssumption DEF Inv, TypeOK, LinkedIntakes, DiffLedgers, Links
  <1>3. links.intakes \cup links.ledgers \subseteq {Own(d)}
    BY <1>1 DEF Inv, OwnOK, LinkedIntakes, DiffLedgers, Own
  <1>4. UNCHANGED <<status, linked, ledger, aux, diffs, tokens, posting, feedback, events,
                    behind, left, late, fails>>
    BY DEF SaveLinks, facts, reviews, history
  <1>5. CASE status[d] # "marked"
    <2>1. saved' = saved /\ run' = [run EXCEPT ![h].pc = "done"]
      BY <1>5 DEF SaveLinks
    <2>2. status[d] = "gone"
      BY <1>1, <1>5 DEF Inv, BusyOK, Steps
    <2> QED
      BY <1>1, <1>4, <2>1, <2>2 DEF Inv, TypeOK, Runs, Steps
  <1>6. CASE status[d] = "marked"
    <2>1. /\ saved' = [saved EXCEPT ![d] = links]
          /\ run' = [run EXCEPT ![h].pc = "erasable", ![h].links = links]
      BY <1>6 DEF SaveLinks
    <2>2. links.intakes = {Own(d)}
      BY <1>1, <1>3, <1>6 DEF Inv, MarkedOK, LinkedIntakes, Own
    <2>3. behind[d] # "taken" => Own(d) \in links.ledgers
      BY <1>1, <1>6, <2>2 DEF Inv, MarkedOK
    <2> HIDE DEF d, links
    <2>4. /\ run'[h] = [run[h] EXCEPT !.pc = "erasable", !.links = links]
          /\ \A g \in Handler \ {h} : run'[g] = run[g]
      BY <2>1 DEF Inv, TypeOK
    <2>5. run'[h].doc = d /\ run'[h].pc = "erasable" /\ run'[h].links = links
      BY <1>1, <2>4 DEF d
    <2>6. run' \in [Handler -> Runs]
      BY <1>1, <1>2, <2>1 DEF Inv, TypeOK, Runs, Steps
    <2>7. /\ saved' \in [Doc -> Links] /\ saved'[d] = links
          /\ \A e \in Doc \ {d} : saved'[e] = saved[e]
      BY <1>1, <1>2, <2>1 DEF Inv, TypeOK
    <2> QED
      BY <1>1, <1>3, <1>4, <1>6, <2>2, <2>3, <2>4, <2>5, <2>6, <2>7 DEF d
  <1> QED
    BY <1>5, <1>6

LEMMA SaveLinksInv == ASSUME Inv, NEW h \in Handler, SaveLinks(h) PROVE Inv'
  <1>0. /\ UNCHANGED <<status, linked, ledger, aux, diffs, tokens, posting, feedback,
                       events, behind, left, late, fails>>
        /\ run[h].doc \in Doc /\ run[h].pc = "links"
        /\ \A g \in Handler \ {h} : run'[g] = run[g]
        /\ run'[h].doc = run[h].doc
        /\ \A e \in Doc \ {run[h].doc} : saved'[e] = saved[e]
        /\ \/ /\ status[run[h].doc] = "gone" /\ run'[h].pc = "done"
              /\ saved'[run[h].doc] = saved[run[h].doc] /\ run'[h].links = run[h].links
           \/ /\ status[run[h].doc] = "marked" /\ run'[h].pc = "erasable"
              /\ saved'[run[h].doc] = run'[h].links
              /\ run'[h].links.intakes = {Own(run[h].doc)}
              /\ run'[h].links.ledgers \subseteq {Own(run[h].doc)}
              /\ behind[run[h].doc] # "taken" => Own(run[h].doc) \in run'[h].links.ledgers
    BY SaveLinksFrame
  <1>1. TypeOK'
    BY SaveLinksFrame, EraseAssumption DEF Inv, TypeOK, Runs
  <1>2. OwnOK'
    BY <1>0, InvBase DEF Inv, OwnOK, Own
  <1>3. KeptOK'
    BY <1>0, InvBase DEF Inv, KeptOK, LeftToEachOther, DraftedBehind, Own
  <1>4. ASSUME NEW e \in Doc PROVE RowOK(e)'
    BY <1>0, InvBase DEF Inv, RowOK, DiffsOf
  <1>5. ASSUME NEW e \in Doc PROVE GoneOK(e)'
    BY <1>0, InvBase DEF Inv, GoneOK
  <1>6. ASSUME NEW e \in Doc PROVE LiveOK(e)'
    BY <1>0, InvBase DEF Inv, LiveOK, Own
  <1>7. ASSUME NEW e \in Doc PROVE MarkedOK(e)'
    BY <1>0, InvBase DEF Inv, MarkedOK, Own
  <1>8. ASSUME NEW a \in Doc, NEW b \in Doc PROVE LeftOK(a, b)'
    BY <1>0, InvBase DEF Inv, LeftOK
  <1>9. ASSUME NEW g \in Handler PROVE BusyOK(g)'
    BY <1>0, InvBase DEF Inv, BusyOK, Steps
  <1>10. ASSUME NEW g \in Handler PROVE SavedOK(g)'
    BY <1>0, InvBase DEF Inv, SavedOK, PastLinks, Own
  <1>11. ASSUME NEW g \in Handler PROVE TokensOK(g)'
    BY <1>0, InvBase DEF Inv, BusyOK, Steps, TokensOK, PastTokens
  <1>12. ASSUME NEW g \in Handler PROVE FeedbackOK(g)'
    BY <1>0, InvBase DEF Inv, TokensOK, PastTokens, FeedbackOK, PastFeedback
  <1>13. ASSUME NEW g \in Handler PROVE DiffsOK(g)'
    BY <1>0, InvBase DEF Inv, DiffsOK, PastDiffs, DiffsOf
  <1>14. ASSUME NEW g \in Handler PROVE UnlinkOK(g)'
    BY <1>0, InvBase DEF Inv, UnlinkOK, TokensOK, PastTokens
  <1>15. ASSUME NEW g \in Handler PROVE TakesOK(g)'
    BY <1>0, InvBase DEF Inv, TakesOK, Reading, Taking, Kin, Own
  <1>16. ASSUME NEW g \in Handler PROVE LeavesOK(g)'
    BY <1>0, InvBase DEF Inv, LeavesOK, Reading, Kin, Own
  <1>17. ASSUME NEW g \in Handler PROVE LinksOK(g)'
    BY <1>0, InvBase DEF Inv, LinksOK, Reading, Own
  <1>18. ASSUME NEW g \in Handler PROVE TakenOK(g)'
    BY <1>0, InvBase DEF Inv, TakenOK, DraftedBehind, Own
  <1>19. \A e \in Doc : RowOK(e)' /\ GoneOK(e)' /\ LiveOK(e)' /\ MarkedOK(e)'
    BY <1>4, <1>5, <1>6, <1>7
  <1>20. \A g \in Handler : BusyOK(g)' /\ SavedOK(g)' /\ TokensOK(g)' /\ FeedbackOK(g)'
    BY <1>9, <1>10, <1>11, <1>12
  <1>21. \A g \in Handler : DiffsOK(g)' /\ UnlinkOK(g)' /\ TakesOK(g)' /\ LeavesOK(g)'
    BY <1>13, <1>14, <1>15, <1>16
  <1>22. \A g \in Handler : LinksOK(g)' /\ TakenOK(g)'
    BY <1>17, <1>18
  <1> QED
    BY <1>1, <1>2, <1>3, <1>8, <1>19, <1>20, <1>21, <1>22 DEF Inv

\* What is shared is left for a sibling that is still linked.
LEMMA ErasableFrame ==
    ASSUME Inv, NEW h \in Handler, Erasable(h)
    PROVE  /\ UNCHANGED <<status, saved, linked, ledger, aux, diffs, tokens, posting,
                          feedback, events, behind, late, fails>>
           /\ run[h].doc \in Doc /\ run[h].pc = "erasable"
           /\ \A g \in Handler \ {h} : run'[g] = run[g]
           /\ run'[h].doc = run[h].doc /\ run'[h].pc = "tokens"
           /\ run'[h].links.intakes \subseteq run[h].links.intakes
           /\ run'[h].links.ledgers \subseteq run[h].links.ledgers
           /\ left \subseteq left'
           /\ \A x \in left' : \/ x \in left
                             \/ /\ x[1] = run[h].doc /\ x[2] \in linked
                                /\ x[2] # run[h].doc /\ Own(x[2]) = Own(x[1])
           /\ \A e \in linked \cap Kin(run[h].doc) : e # run[h].doc => <<run[h].doc, e>> \in left'
           /\ \/ /\ \E e \in linked \cap Kin(run[h].doc) : e # run[h].doc
                 /\ Own(run[h].doc) \notin run'[h].links.intakes \cup run'[h].links.ledgers
              \/ /\ \A e \in linked \cap Kin(run[h].doc) : e = run[h].doc
                 /\ run'[h].links = run[h].links
           /\ run' \in [Handler -> Runs]
           /\ left' \subseteq Doc \X Doc
  <1> DEFINE d == run[h].doc
             links == [intakes |-> run[h].links.intakes \ SharedIntakes(d),
                       ledgers |-> run[h].links.ledgers \ SharedLedgers(d)]
  <1>1. /\ d \in Doc /\ run[h].pc = "erasable"
        /\ run[h] \in [pc : Steps \cup {"rest", "done", "pending"}, doc : Doc, links : Links]
        /\ run[h].links \in Links /\ linked \subseteq Doc
    BY DEF Inv, TypeOK, Erasable
  <1>2. links \in Links
    BY <1>1 DEF Links
  <1>3. run' = [run EXCEPT ![h].pc = "tokens", ![h].links = links]
    BY DEF Erasable
  <1>4. /\ UNCHANGED <<status, saved, linked, ledger, aux, diffs, tokens, posting, feedback,
                        events, behind, late, fails>>
        /\ left' = left \cup ({d} \X ((linked \ {d}) \cap Kin(d)))
    BY DEF Erasable, facts, reviews, history
  <1>5. ASSUME NEW e \in linked \cap Kin(d), e # d
        PROVE  Own(d) \notin links.intakes \cup links.ledgers
    BY <1>5 DEF SharedIntakes, SharedLedgers, Kin, Own
  <1>6. ASSUME \A e \in linked \cap Kin(d) : e = d
        PROVE  links = run[h].links
    <2>1. Own(d) \notin SharedIntakes(d)
      BY <1>1, <1>6 DEF SharedIntakes, Kin, Own
    <2>2. ASSUME NEW e \in Doc \ {d}, <<e, Own(d)>> \in diffs PROVE FALSE
      <3>1. Own(e) = Own(d)
        BY <2>2 DEF Inv, OwnOK
      <3>2. e \in linked
        BY <2>2 DEF Inv, RowOK, DiffsOf
      <3> QED
        BY <1>6, <2>2, <3>1, <3>2 DEF Kin, Own
    <2>3. Own(d) \notin SharedLedgers(d)
      BY <2>1, <2>2 DEF SharedLedgers
    <2>4. run[h].links.intakes \cup run[h].links.ledgers \subseteq {Own(d)}
      BY DEF Inv, OwnOK
    <2>5. links.intakes = run[h].links.intakes /\ links.ledgers = run[h].links.ledgers
      BY <2>1, <2>3, <2>4
    <2> QED
      BY <1>1, <2>5 DEF Links
  <1>7. links.intakes \subseteq run[h].links.intakes /\ links.ledgers \subseteq run[h].links.ledgers
    OBVIOUS
  <1> HIDE DEF d, links
  <1>8. /\ run'[h] = [run[h] EXCEPT !.pc = "tokens", !.links = links]
        /\ \A g \in Handler \ {h} : run'[g] = run[g]
    BY <1>3 DEF Inv, TypeOK
  <1>9. run'[h].doc = d /\ run'[h].pc = "tokens" /\ run'[h].links = links
    BY <1>1, <1>8 DEF d
  <1>10. run' \in [Handler -> Runs]
    BY <1>1, <1>2, <1>3 DEF Inv, TypeOK, Runs, Steps
  <1>11. /\ left \subseteq left' /\ left' \subseteq Doc \X Doc
         /\ \A e \in linked \cap Kin(d) : e # d => <<d, e>> \in left'
    BY <1>1, <1>4 DEF Inv, TypeOK
  <1>12. \A x \in left' : \/ x \in left
                         \/ /\ x[1] = d /\ x[2] \in linked
                            /\ x[2] # d /\ Own(x[2]) = Own(x[1])
    BY <1>1, <1>4 DEF Kin, Own
  <1>13. \/ /\ \E e \in linked \cap Kin(d) : e # d
            /\ Own(d) \notin links.intakes \cup links.ledgers
         \/ /\ \A e \in linked \cap Kin(d) : e = d
            /\ links = run[h].links
    BY <1>5, <1>6
  <1> QED
    BY <1>1, <1>4, <1>7, <1>8, <1>9, <1>10, <1>11, <1>12, <1>13 DEF d

LEMMA ErasableInv == ASSUME Inv, NEW h \in Handler, Erasable(h) PROVE Inv'
  <1>0. /\ UNCHANGED <<status, saved, linked, ledger, aux, diffs, tokens, posting,
                       feedback, events, behind, late, fails>>
        /\ run[h].doc \in Doc /\ run[h].pc = "erasable"
        /\ \A g \in Handler \ {h} : run'[g] = run[g]
        /\ run'[h].doc = run[h].doc /\ run'[h].pc = "tokens"
        /\ run'[h].links.intakes \subseteq run[h].links.intakes
        /\ run'[h].links.ledgers \subseteq run[h].links.ledgers
        /\ left \subseteq left'
        /\ \A x \in left' : \/ x \in left
                          \/ /\ x[1] = run[h].doc /\ x[2] \in linked
                             /\ x[2] # run[h].doc /\ Own(x[2]) = Own(x[1])
        /\ \A e \in linked \cap Kin(run[h].doc) : e # run[h].doc => <<run[h].doc, e>> \in left'
        /\ \/ /\ \E e \in linked \cap Kin(run[h].doc) : e # run[h].doc
              /\ Own(run[h].doc) \notin run'[h].links.intakes \cup run'[h].links.ledgers
           \/ /\ \A e \in linked \cap Kin(run[h].doc) : e = run[h].doc
              /\ run'[h].links = run[h].links
    BY ErasableFrame
  <1>1. TypeOK'
    BY ErasableFrame, EraseAssumption DEF Inv, TypeOK, Runs
  <1>2. OwnOK'
    BY <1>0, InvBase DEF Inv, OwnOK, Own
  <1>3. KeptOK'
    BY <1>0, InvBase DEF Inv, KeptOK, LeftToEachOther, DraftedBehind, Own
  <1>4. ASSUME NEW e \in Doc PROVE RowOK(e)'
    BY <1>0, InvBase DEF Inv, RowOK, DiffsOf
  <1>5. ASSUME NEW e \in Doc PROVE GoneOK(e)'
    BY <1>0, InvBase DEF Inv, GoneOK
  <1>6. ASSUME NEW e \in Doc PROVE LiveOK(e)'
    BY <1>0, InvBase DEF Inv, LiveOK, Own
  <1>7. ASSUME NEW e \in Doc PROVE MarkedOK(e)'
    BY <1>0, InvBase DEF Inv, MarkedOK, Own
  <1>8. ASSUME NEW a \in Doc, NEW b \in Doc PROVE LeftOK(a, b)'
    BY <1>0, InvBase DEF Inv, LeftOK, BusyOK, Steps
  <1>9. ASSUME NEW g \in Handler PROVE BusyOK(g)'
    BY <1>0, InvBase DEF Inv, BusyOK, Steps
  <1>10. ASSUME NEW g \in Handler PROVE SavedOK(g)'
    BY <1>0, InvBase DEF Inv, SavedOK, PastLinks, Own
  <1>11. ASSUME NEW g \in Handler PROVE TokensOK(g)'
    BY <1>0, InvBase DEF Inv, BusyOK, Steps, TokensOK, PastTokens
  <1>12. ASSUME NEW g \in Handler PROVE FeedbackOK(g)'
    BY <1>0, InvBase DEF Inv, TokensOK, PastTokens, FeedbackOK, PastFeedback
  <1>13. ASSUME NEW g \in Handler PROVE DiffsOK(g)'
    BY <1>0, InvBase DEF Inv, DiffsOK, PastDiffs, DiffsOf
  <1>14. ASSUME NEW g \in Handler PROVE UnlinkOK(g)'
    BY <1>0, InvBase DEF Inv, UnlinkOK, TokensOK, PastTokens
  <1>15. ASSUME NEW g \in Handler PROVE TakesOK(g)'
    BY <1>0, InvBase DEF Inv, TakesOK, Reading, Taking, Kin, Own
  <1>16. ASSUME NEW g \in Handler PROVE LeavesOK(g)'
    BY <1>0, InvBase DEF Inv, LeavesOK, Reading, Kin, Own
  <1>17. ASSUME NEW g \in Handler PROVE LinksOK(g)'
    BY <1>0, InvBase DEF Inv, LinksOK, Reading, Own
  <1>18. ASSUME NEW g \in Handler PROVE TakenOK(g)'
    BY <1>0, InvBase DEF Inv, TakenOK, DraftedBehind, Own
  <1>19. \A e \in Doc : RowOK(e)' /\ GoneOK(e)' /\ LiveOK(e)' /\ MarkedOK(e)'
    BY <1>4, <1>5, <1>6, <1>7
  <1>20. \A g \in Handler : BusyOK(g)' /\ SavedOK(g)' /\ TokensOK(g)' /\ FeedbackOK(g)'
    BY <1>9, <1>10, <1>11, <1>12
  <1>21. \A g \in Handler : DiffsOK(g)' /\ UnlinkOK(g)' /\ TakesOK(g)' /\ LeavesOK(g)'
    BY <1>13, <1>14, <1>15, <1>16
  <1>22. \A g \in Handler : LinksOK(g)' /\ TakenOK(g)'
    BY <1>17, <1>18
  <1> QED
    BY <1>1, <1>2, <1>3, <1>8, <1>19, <1>20, <1>21, <1>22 DEF Inv

LEMMA EraseTokensInv == ASSUME Inv, NEW h \in Handler, EraseTokens(h) PROVE Inv'
  <1>0. /\ UNCHANGED <<status, saved, linked, ledger, aux, diffs, posting, feedback,
                       events, behind, left, late, fails>>
        /\ run[h].pc = "tokens"
        /\ \A g \in Handler \ {h} : run'[g] = run[g]
        /\ run'[h].pc = "feedback" /\ run'[h].doc = run[h].doc /\ run'[h].links = run[h].links
        /\ tokens'[run[h].doc] = "none"
        /\ \A e \in Doc \ {run[h].doc} : tokens'[e] = tokens[e]
    BY GotoRun, EraseAssumption DEF Inv, TypeOK, EraseTokens, Steps, facts, reviews, history
  <1>1. TypeOK'
    <2>1. run' \in [Handler -> Runs]
      BY GotoRun, EraseAssumption DEF Steps, EraseTokens
    <2> QED
      BY <2>1, EraseAssumption DEF Inv, TypeOK, Runs, Links, NoLinks, EraseTokens, facts,
         reviews, history
  <1>2. OwnOK'
    BY <1>0, InvBase DEF Inv, OwnOK, Own
  <1>3. KeptOK'
    BY <1>0, InvBase DEF Inv, KeptOK, LeftToEachOther, DraftedBehind, Own
  <1>4. ASSUME NEW e \in Doc PROVE RowOK(e)'
    BY <1>0, InvBase DEF Inv, RowOK, DiffsOf
  <1>5. ASSUME NEW e \in Doc PROVE GoneOK(e)'
    BY <1>0, InvBase DEF Inv, GoneOK
  <1>6. ASSUME NEW e \in Doc PROVE LiveOK(e)'
    BY <1>0, InvBase DEF Inv, LiveOK, Own
  <1>7. ASSUME NEW e \in Doc PROVE MarkedOK(e)'
    BY <1>0, InvBase DEF Inv, MarkedOK, Own
  <1>8. ASSUME NEW a \in Doc, NEW b \in Doc PROVE LeftOK(a, b)'
    BY <1>0, InvBase DEF Inv, LeftOK
  <1>9. ASSUME NEW g \in Handler PROVE BusyOK(g)'
    BY <1>0, InvBase DEF Inv, BusyOK, Steps
  <1>10. ASSUME NEW g \in Handler PROVE SavedOK(g)'
    BY <1>0, InvBase DEF Inv, SavedOK, PastLinks, Own
  <1>11. ASSUME NEW g \in Handler PROVE TokensOK(g)'
    BY <1>0, InvBase DEF Inv, BusyOK, Steps, TokensOK, PastTokens
  <1>12. ASSUME NEW g \in Handler PROVE FeedbackOK(g)'
    BY <1>0, InvBase DEF Inv, TokensOK, PastTokens, FeedbackOK, PastFeedback
  <1>13. ASSUME NEW g \in Handler PROVE DiffsOK(g)'
    BY <1>0, InvBase DEF Inv, DiffsOK, PastDiffs, DiffsOf
  <1>14. ASSUME NEW g \in Handler PROVE UnlinkOK(g)'
    BY <1>0, InvBase DEF Inv, UnlinkOK, TokensOK, PastTokens
  <1>15. ASSUME NEW g \in Handler PROVE TakesOK(g)'
    BY <1>0, InvBase DEF Inv, TakesOK, Reading, Taking, Kin, Own
  <1>16. ASSUME NEW g \in Handler PROVE LeavesOK(g)'
    BY <1>0, InvBase DEF Inv, LeavesOK, Reading, Kin, Own
  <1>17. ASSUME NEW g \in Handler PROVE LinksOK(g)'
    BY <1>0, InvBase DEF Inv, LinksOK, Reading, Own
  <1>18. ASSUME NEW g \in Handler PROVE TakenOK(g)'
    BY <1>0, InvBase DEF Inv, TakenOK, DraftedBehind, Own
  <1>19. \A e \in Doc : RowOK(e)' /\ GoneOK(e)' /\ LiveOK(e)' /\ MarkedOK(e)'
    BY <1>4, <1>5, <1>6, <1>7
  <1>20. \A g \in Handler : BusyOK(g)' /\ SavedOK(g)' /\ TokensOK(g)' /\ FeedbackOK(g)'
    BY <1>9, <1>10, <1>11, <1>12
  <1>21. \A g \in Handler : DiffsOK(g)' /\ UnlinkOK(g)' /\ TakesOK(g)' /\ LeavesOK(g)'
    BY <1>13, <1>14, <1>15, <1>16
  <1>22. \A g \in Handler : LinksOK(g)' /\ TakenOK(g)'
    BY <1>17, <1>18
  <1> QED
    BY <1>1, <1>2, <1>3, <1>8, <1>19, <1>20, <1>21, <1>22 DEF Inv

LEMMA EraseFeedbackInv == ASSUME Inv, NEW h \in Handler, EraseFeedback(h) PROVE Inv'
  <1>0. /\ UNCHANGED <<status, saved, linked, ledger, aux, diffs, tokens, posting,
                       events, behind, left, late, fails>>
        /\ run[h].pc = "feedback"
        /\ \A g \in Handler \ {h} : run'[g] = run[g]
        /\ run'[h].pc = "diffs" /\ run'[h].doc = run[h].doc /\ run'[h].links = run[h].links
        /\ feedback' = feedback \ {run[h].doc}
    BY GotoRun, EraseAssumption DEF Inv, TypeOK, EraseFeedback, Steps, facts, reviews, history
  <1>1. TypeOK'
    <2>1. run' \in [Handler -> Runs]
      BY GotoRun, EraseAssumption DEF Steps, EraseFeedback
    <2> QED
      BY <2>1, EraseAssumption DEF Inv, TypeOK, Runs, Links, NoLinks, EraseFeedback, facts,
         reviews, history
  <1>2. OwnOK'
    BY <1>0, InvBase DEF Inv, OwnOK, Own
  <1>3. KeptOK'
    BY <1>0, InvBase DEF Inv, KeptOK, LeftToEachOther, DraftedBehind, Own
  <1>4. ASSUME NEW e \in Doc PROVE RowOK(e)'
    BY <1>0, InvBase DEF Inv, RowOK, DiffsOf
  <1>5. ASSUME NEW e \in Doc PROVE GoneOK(e)'
    BY <1>0, InvBase DEF Inv, GoneOK
  <1>6. ASSUME NEW e \in Doc PROVE LiveOK(e)'
    BY <1>0, InvBase DEF Inv, LiveOK, Own
  <1>7. ASSUME NEW e \in Doc PROVE MarkedOK(e)'
    BY <1>0, InvBase DEF Inv, MarkedOK, Own
  <1>8. ASSUME NEW a \in Doc, NEW b \in Doc PROVE LeftOK(a, b)'
    BY <1>0, InvBase DEF Inv, LeftOK
  <1>9. ASSUME NEW g \in Handler PROVE BusyOK(g)'
    BY <1>0, InvBase DEF Inv, BusyOK, Steps
  <1>10. ASSUME NEW g \in Handler PROVE SavedOK(g)'
    BY <1>0, InvBase DEF Inv, SavedOK, PastLinks, Own
  <1>11. ASSUME NEW g \in Handler PROVE TokensOK(g)'
    BY <1>0, InvBase DEF Inv, BusyOK, Steps, TokensOK, PastTokens
  <1>12. ASSUME NEW g \in Handler PROVE FeedbackOK(g)'
    BY <1>0, InvBase DEF Inv, TokensOK, PastTokens, FeedbackOK, PastFeedback
  <1>13. ASSUME NEW g \in Handler PROVE DiffsOK(g)'
    BY <1>0, InvBase DEF Inv, DiffsOK, PastDiffs, DiffsOf
  <1>14. ASSUME NEW g \in Handler PROVE UnlinkOK(g)'
    BY <1>0, InvBase DEF Inv, UnlinkOK, TokensOK, PastTokens
  <1>15. ASSUME NEW g \in Handler PROVE TakesOK(g)'
    BY <1>0, InvBase DEF Inv, TakesOK, Reading, Taking, Kin, Own
  <1>16. ASSUME NEW g \in Handler PROVE LeavesOK(g)'
    BY <1>0, InvBase DEF Inv, LeavesOK, Reading, Kin, Own
  <1>17. ASSUME NEW g \in Handler PROVE LinksOK(g)'
    BY <1>0, InvBase DEF Inv, LinksOK, Reading, Own
  <1>18. ASSUME NEW g \in Handler PROVE TakenOK(g)'
    BY <1>0, InvBase DEF Inv, TakenOK, DraftedBehind, Own
  <1>19. \A e \in Doc : RowOK(e)' /\ GoneOK(e)' /\ LiveOK(e)' /\ MarkedOK(e)'
    BY <1>4, <1>5, <1>6, <1>7
  <1>20. \A g \in Handler : BusyOK(g)' /\ SavedOK(g)' /\ TokensOK(g)' /\ FeedbackOK(g)'
    BY <1>9, <1>10, <1>11, <1>12
  <1>21. \A g \in Handler : DiffsOK(g)' /\ UnlinkOK(g)' /\ TakesOK(g)' /\ LeavesOK(g)'
    BY <1>13, <1>14, <1>15, <1>16
  <1>22. \A g \in Handler : LinksOK(g)' /\ TakenOK(g)'
    BY <1>17, <1>18
  <1> QED
    BY <1>1, <1>2, <1>3, <1>8, <1>19, <1>20, <1>21, <1>22 DEF Inv

\* A fact diff goes with its document, or where no sibling was found.
LEMMA EraseDiffsInv == ASSUME Inv, NEW h \in Handler, EraseDiffs(h) PROVE Inv'
  <1>0. /\ UNCHANGED <<status, saved, linked, ledger, aux, tokens, posting, feedback,
                       events, behind, left, late, fails>>
        /\ run[h].pc = "diffs"
        /\ \A g \in Handler \ {h} : run'[g] = run[g]
        /\ run'[h].pc = "ledgers" /\ run'[h].doc = run[h].doc /\ run'[h].links = run[h].links
        /\ diffs' = {x \in diffs : x[1] # run[h].doc /\ x[2] \notin run[h].links.ledgers}
    BY GotoRun, EraseAssumption DEF Inv, TypeOK, EraseDiffs, Steps, facts, reviews, history
  <1>1. TypeOK'
    <2>1. run' \in [Handler -> Runs]
      BY GotoRun, EraseAssumption DEF Steps, EraseDiffs
    <2> QED
      BY <2>1, EraseAssumption DEF Inv, TypeOK, Runs, Links, NoLinks, EraseDiffs, facts,
         reviews, history
  <1>2. OwnOK'
    BY <1>0, InvBase DEF Inv, OwnOK, Own
  <1>3. KeptOK'
    BY <1>0, InvBase DEF Inv, KeptOK, LeftToEachOther, DraftedBehind, Own
  <1>4. ASSUME NEW e \in Doc PROVE RowOK(e)'
    BY <1>0, InvBase DEF Inv, RowOK, DiffsOf
  <1>5. ASSUME NEW e \in Doc PROVE GoneOK(e)'
    BY <1>0, InvBase DEF Inv, GoneOK
  <1>6. ASSUME NEW e \in Doc PROVE LiveOK(e)'
    BY <1>0, InvBase DEF Inv, LiveOK, Own, RowOK, OwnOK, TakesOK, Taking, Reading, Kin, BusyOK,
       Steps
  <1>7. ASSUME NEW e \in Doc PROVE MarkedOK(e)'
    BY <1>0, InvBase DEF Inv, MarkedOK, Own
  <1>8. ASSUME NEW a \in Doc, NEW b \in Doc PROVE LeftOK(a, b)'
    BY <1>0, InvBase DEF Inv, LeftOK
  <1>9. ASSUME NEW g \in Handler PROVE BusyOK(g)'
    BY <1>0, InvBase DEF Inv, BusyOK, Steps
  <1>10. ASSUME NEW g \in Handler PROVE SavedOK(g)'
    BY <1>0, InvBase DEF Inv, SavedOK, PastLinks, Own
  <1>11. ASSUME NEW g \in Handler PROVE TokensOK(g)'
    BY <1>0, InvBase DEF Inv, BusyOK, Steps, TokensOK, PastTokens
  <1>12. ASSUME NEW g \in Handler PROVE FeedbackOK(g)'
    BY <1>0, InvBase DEF Inv, TokensOK, PastTokens, FeedbackOK, PastFeedback
  <1>13. ASSUME NEW g \in Handler PROVE DiffsOK(g)'
    BY <1>0, InvBase DEF Inv, DiffsOK, PastDiffs, DiffsOf
  <1>14. ASSUME NEW g \in Handler PROVE UnlinkOK(g)'
    BY <1>0, InvBase DEF Inv, UnlinkOK, TokensOK, PastTokens
  <1>15. ASSUME NEW g \in Handler PROVE TakesOK(g)'
    BY <1>0, InvBase DEF Inv, TakesOK, Reading, Taking, Kin, Own
  <1>16. ASSUME NEW g \in Handler PROVE LeavesOK(g)'
    BY <1>0, InvBase DEF Inv, LeavesOK, Reading, Kin, Own
  <1>17. ASSUME NEW g \in Handler PROVE LinksOK(g)'
    BY <1>0, InvBase DEF Inv, LinksOK, Reading, Own
  <1>18. ASSUME NEW g \in Handler PROVE TakenOK(g)'
    BY <1>0, InvBase DEF Inv, TakenOK, DraftedBehind, Own
  <1>19. \A e \in Doc : RowOK(e)' /\ GoneOK(e)' /\ LiveOK(e)' /\ MarkedOK(e)'
    BY <1>4, <1>5, <1>6, <1>7
  <1>20. \A g \in Handler : BusyOK(g)' /\ SavedOK(g)' /\ TokensOK(g)' /\ FeedbackOK(g)'
    BY <1>9, <1>10, <1>11, <1>12
  <1>21. \A g \in Handler : DiffsOK(g)' /\ UnlinkOK(g)' /\ TakesOK(g)' /\ LeavesOK(g)'
    BY <1>13, <1>14, <1>15, <1>16
  <1>22. \A g \in Handler : LinksOK(g)' /\ TakenOK(g)'
    BY <1>17, <1>18
  <1> QED
    BY <1>1, <1>2, <1>3, <1>8, <1>19, <1>20, <1>21, <1>22 DEF Inv

LEMMA EraseLedgersInv == ASSUME Inv, NEW h \in Handler, EraseLedgers(h) PROVE Inv'
  <1>0. /\ UNCHANGED <<status, saved, linked, aux, diffs, tokens, posting, feedback,
                       events, behind, left, late, fails>>
        /\ run[h].pc = "ledgers"
        /\ \A g \in Handler \ {h} : run'[g] = run[g]
        /\ run'[h].pc = "aux" /\ run'[h].doc = run[h].doc /\ run'[h].links = run[h].links
        /\ ledger' = ledger \ run[h].links.ledgers
    BY GotoRun, EraseAssumption DEF Inv, TypeOK, EraseLedgers, Steps, facts, reviews, history
  <1>1. TypeOK'
    <2>1. run' \in [Handler -> Runs]
      BY GotoRun, EraseAssumption DEF Steps, EraseLedgers
    <2> QED
      BY <2>1, EraseAssumption DEF Inv, TypeOK, Runs, Links, NoLinks, EraseLedgers, facts,
         reviews, history
  <1>2. OwnOK'
    BY <1>0, InvBase DEF Inv, OwnOK, Own
  <1>3. KeptOK'
    BY <1>0, InvBase DEF Inv, KeptOK, LeftToEachOther, DraftedBehind, Own
  <1>4. ASSUME NEW e \in Doc PROVE RowOK(e)'
    BY <1>0, InvBase DEF Inv, RowOK, DiffsOf
  <1>5. ASSUME NEW e \in Doc PROVE GoneOK(e)'
    BY <1>0, InvBase DEF Inv, GoneOK
  <1>6. ASSUME NEW e \in Doc PROVE LiveOK(e)'
    BY <1>0, InvBase DEF Inv, LiveOK, Own, RowOK, OwnOK, TakesOK, Taking, Reading, Kin, BusyOK,
       Steps
  <1>7. ASSUME NEW e \in Doc PROVE MarkedOK(e)'
    BY <1>0, InvBase DEF Inv, MarkedOK, Own, OwnOK, TakesOK, Taking, Reading, Kin, SavedOK,
       PastLinks
  <1>8. ASSUME NEW a \in Doc, NEW b \in Doc PROVE LeftOK(a, b)'
    BY <1>0, InvBase DEF Inv, LeftOK
  <1>9. ASSUME NEW g \in Handler PROVE BusyOK(g)'
    BY <1>0, InvBase DEF Inv, BusyOK, Steps
  <1>10. ASSUME NEW g \in Handler PROVE SavedOK(g)'
    BY <1>0, InvBase DEF Inv, SavedOK, PastLinks, Own
  <1>11. ASSUME NEW g \in Handler PROVE TokensOK(g)'
    BY <1>0, InvBase DEF Inv, BusyOK, Steps, TokensOK, PastTokens
  <1>12. ASSUME NEW g \in Handler PROVE FeedbackOK(g)'
    BY <1>0, InvBase DEF Inv, TokensOK, PastTokens, FeedbackOK, PastFeedback
  <1>13. ASSUME NEW g \in Handler PROVE DiffsOK(g)'
    BY <1>0, InvBase DEF Inv, DiffsOK, PastDiffs, DiffsOf
  <1>14. ASSUME NEW g \in Handler PROVE UnlinkOK(g)'
    BY <1>0, InvBase DEF Inv, UnlinkOK, TokensOK, PastTokens
  <1>15. ASSUME NEW g \in Handler PROVE TakesOK(g)'
    BY <1>0, InvBase DEF Inv, TakesOK, Reading, Taking, Kin, Own
  <1>16. ASSUME NEW g \in Handler PROVE LeavesOK(g)'
    BY <1>0, InvBase DEF Inv, LeavesOK, Reading, Kin, Own
  <1>17. ASSUME NEW g \in Handler PROVE LinksOK(g)'
    BY <1>0, InvBase DEF Inv, LinksOK, Reading, Own
  <1>18. ASSUME NEW g \in Handler PROVE TakenOK(g)'
    BY <1>0, InvBase DEF Inv, TakenOK, DraftedBehind, Own
  <1>19. \A e \in Doc : RowOK(e)' /\ GoneOK(e)' /\ LiveOK(e)' /\ MarkedOK(e)'
    BY <1>4, <1>5, <1>6, <1>7
  <1>20. \A g \in Handler : BusyOK(g)' /\ SavedOK(g)' /\ TokensOK(g)' /\ FeedbackOK(g)'
    BY <1>9, <1>10, <1>11, <1>12
  <1>21. \A g \in Handler : DiffsOK(g)' /\ UnlinkOK(g)' /\ TakesOK(g)' /\ LeavesOK(g)'
    BY <1>13, <1>14, <1>15, <1>16
  <1>22. \A g \in Handler : LinksOK(g)' /\ TakenOK(g)'
    BY <1>17, <1>18
  <1> QED
    BY <1>1, <1>2, <1>3, <1>8, <1>19, <1>20, <1>21, <1>22 DEF Inv

LEMMA EraseAuxInv == ASSUME Inv, NEW h \in Handler, EraseAux(h) PROVE Inv'
  <1>0. /\ UNCHANGED <<status, saved, linked, ledger, diffs, tokens, posting, feedback,
                       events, behind, left, late, fails>>
        /\ run[h].pc = "aux"
        /\ \A g \in Handler \ {h} : run'[g] = run[g]
        /\ run'[h].pc = "unlink" /\ run'[h].doc = run[h].doc /\ run'[h].links = run[h].links
        /\ aux' = aux \ run[h].links.intakes
    BY GotoRun, EraseAssumption DEF Inv, TypeOK, EraseAux, Steps, facts, reviews, history
  <1>1. TypeOK'
    <2>1. run' \in [Handler -> Runs]
      BY GotoRun, EraseAssumption DEF Steps, EraseAux
    <2> QED
      BY <2>1, EraseAssumption DEF Inv, TypeOK, Runs, Links, NoLinks, EraseAux, facts, reviews,
         history
  <1>2. OwnOK'
    BY <1>0, InvBase DEF Inv, OwnOK, Own
  <1>3. KeptOK'
    BY <1>0, InvBase DEF Inv, KeptOK, LeftToEachOther, DraftedBehind, Own
  <1>4. ASSUME NEW e \in Doc PROVE RowOK(e)'
    BY <1>0, InvBase DEF Inv, RowOK, DiffsOf
  <1>5. ASSUME NEW e \in Doc PROVE GoneOK(e)'
    BY <1>0, InvBase DEF Inv, GoneOK
  <1>6. ASSUME NEW e \in Doc PROVE LiveOK(e)'
    BY <1>0, InvBase DEF Inv, LiveOK, Own, RowOK, OwnOK, TakesOK, Taking, Reading, Kin, BusyOK,
       Steps
  <1>7. ASSUME NEW e \in Doc PROVE MarkedOK(e)'
    BY <1>0, InvBase DEF Inv, MarkedOK, Own
  <1>8. ASSUME NEW a \in Doc, NEW b \in Doc PROVE LeftOK(a, b)'
    BY <1>0, InvBase DEF Inv, LeftOK
  <1>9. ASSUME NEW g \in Handler PROVE BusyOK(g)'
    BY <1>0, InvBase DEF Inv, BusyOK, Steps
  <1>10. ASSUME NEW g \in Handler PROVE SavedOK(g)'
    BY <1>0, InvBase DEF Inv, SavedOK, PastLinks, Own
  <1>11. ASSUME NEW g \in Handler PROVE TokensOK(g)'
    BY <1>0, InvBase DEF Inv, BusyOK, Steps, TokensOK, PastTokens
  <1>12. ASSUME NEW g \in Handler PROVE FeedbackOK(g)'
    BY <1>0, InvBase DEF Inv, TokensOK, PastTokens, FeedbackOK, PastFeedback
  <1>13. ASSUME NEW g \in Handler PROVE DiffsOK(g)'
    BY <1>0, InvBase DEF Inv, DiffsOK, PastDiffs, DiffsOf
  <1>14. ASSUME NEW g \in Handler PROVE UnlinkOK(g)'
    BY <1>0, InvBase DEF Inv, UnlinkOK, TokensOK, PastTokens
  <1>15. ASSUME NEW g \in Handler PROVE TakesOK(g)'
    BY <1>0, InvBase DEF Inv, TakesOK, Reading, Taking, Kin, Own
  <1>16. ASSUME NEW g \in Handler PROVE LeavesOK(g)'
    BY <1>0, InvBase DEF Inv, LeavesOK, Reading, Kin, Own
  <1>17. ASSUME NEW g \in Handler PROVE LinksOK(g)'
    BY <1>0, InvBase DEF Inv, LinksOK, Reading, Own
  <1>18. ASSUME NEW g \in Handler PROVE TakenOK(g)'
    BY <1>0, InvBase DEF Inv, TakenOK, DraftedBehind, Own
  <1>19. \A e \in Doc : RowOK(e)' /\ GoneOK(e)' /\ LiveOK(e)' /\ MarkedOK(e)'
    BY <1>4, <1>5, <1>6, <1>7
  <1>20. \A g \in Handler : BusyOK(g)' /\ SavedOK(g)' /\ TokensOK(g)' /\ FeedbackOK(g)'
    BY <1>9, <1>10, <1>11, <1>12
  <1>21. \A g \in Handler : DiffsOK(g)' /\ UnlinkOK(g)' /\ TakesOK(g)' /\ LeavesOK(g)'
    BY <1>13, <1>14, <1>15, <1>16
  <1>22. \A g \in Handler : LinksOK(g)' /\ TakenOK(g)'
    BY <1>17, <1>18
  <1> QED
    BY <1>1, <1>2, <1>3, <1>8, <1>19, <1>20, <1>21, <1>22 DEF Inv

\* The marker has the way to the facts by now.
LEMMA UnlinkInv == ASSUME Inv, NEW h \in Handler, Unlink(h) PROVE Inv'
  <1>0. /\ UNCHANGED <<status, saved, ledger, aux, diffs, tokens, posting, feedback,
                       behind, left, late, fails>>
        /\ run[h].pc = "unlink"
        /\ \A g \in Handler \ {h} : run'[g] = run[g]
        /\ run'[h].pc = "document" /\ run'[h].doc = run[h].doc /\ run'[h].links = run[h].links
        /\ linked' = linked \ {run[h].doc} /\ events' = events \ {run[h].doc}
    BY GotoRun, EraseAssumption DEF Inv, TypeOK, Unlink, Steps, facts, reviews, history
  <1>1. TypeOK'
    <2>1. run' \in [Handler -> Runs]
      BY GotoRun, EraseAssumption DEF Steps, Unlink
    <2> QED
      BY <2>1, EraseAssumption DEF Inv, TypeOK, Runs, Links, NoLinks, Unlink, facts, reviews,
         history
  <1>2. OwnOK'
    BY <1>0, InvBase DEF Inv, OwnOK, Own
  <1>3. KeptOK'
    <2> DEFINE d == run[h].doc
               i == Own(d)
    <2>1. d \in Doc /\ run[h].pc = "unlink" /\ linked' = linked \ {d}
      BY <1>0, InvBase
    <2>2. SUFFICES ASSUME NEW j \in ledger \cup aux, ~LeftToEachOther(j), ~DraftedBehind(j),
                          \A e \in linked : e # d => Own(e) # j
                   PROVE  FALSE
      BY <1>0, <2>1 DEF KeptOK, LeftToEachOther, DraftedBehind, Own
    <2>3. j = i /\ d \in linked
      BY <2>1, <2>2 DEF Inv, KeptOK
    <2>4. behind[d] # "taken"
      BY <2>1, <2>2, <2>3 DEF DraftedBehind, Own
    <2>5. CASE \E e \in Doc : <<d, e>> \in left
      <3>1. PICK e \in Doc : <<d, e>> \in left
        BY <2>5
      <3>2. e # d /\ Own(e) = i /\ e \notin linked
        BY <2>2, <2>3, <3>1 DEF Inv, OwnOK
      <3>3. <<e, d>> \in left \/ behind[d] # "no"
        BY <2>1, <2>2, <2>3, <3>1, <3>2 DEF Inv, LeftOK
      <3> QED
        BY <2>1, <2>2, <2>3, <3>1, <3>2, <3>3 DEF LeftToEachOther, DraftedBehind, Own
    <2>6. CASE i \in run[h].links.intakes \cap run[h].links.ledgers
      BY <2>1, <2>2, <2>3, <2>6 DEF Inv, TakenOK
    <2> QED
      BY <2>1, <2>4, <2>5, <2>6 DEF Inv, LinksOK, Reading
  <1>4. ASSUME NEW e \in Doc PROVE RowOK(e)'
    BY <1>0, InvBase DEF Inv, RowOK, DiffsOf, DiffsOK, PastDiffs, BusyOK, Steps
  <1>5. ASSUME NEW e \in Doc PROVE GoneOK(e)'
    BY <1>0, InvBase DEF Inv, GoneOK
  <1>6. ASSUME NEW e \in Doc PROVE LiveOK(e)'
    BY <1>0, InvBase DEF Inv, LiveOK, Own
  <1>7. ASSUME NEW e \in Doc PROVE MarkedOK(e)'
    BY <1>0, InvBase DEF Inv, MarkedOK, Own, SavedOK, PastLinks
  <1>8. ASSUME NEW a \in Doc, NEW b \in Doc PROVE LeftOK(a, b)'
    <2> DEFINE d == run[h].doc
    <2>1. d \in Doc /\ run[h].pc = "unlink" /\ linked' = linked \ {d}
      BY <1>0, InvBase
    <2>2. SUFFICES ASSUME a \in linked, a # d, b = d, <<a, b>> \in left
                   PROVE  <<b, a>> \in left \/ behind[a] # "no"
      BY <1>0, <2>1 DEF Inv, LeftOK
    <2>3. Own(a) = Own(b)
      BY <2>2 DEF Inv, OwnOK
    <2> QED
      BY <2>1, <2>2, <2>3 DEF Inv, LeavesOK, Reading, Kin, Own
  <1>9. ASSUME NEW g \in Handler PROVE BusyOK(g)'
    BY <1>0, InvBase DEF Inv, BusyOK, Steps
  <1>10. ASSUME NEW g \in Handler PROVE SavedOK(g)'
    BY <1>0, InvBase DEF Inv, SavedOK, PastLinks, Own
  <1>11. ASSUME NEW g \in Handler PROVE TokensOK(g)'
    BY <1>0, InvBase DEF Inv, BusyOK, Steps, TokensOK, PastTokens
  <1>12. ASSUME NEW g \in Handler PROVE FeedbackOK(g)'
    BY <1>0, InvBase DEF Inv, TokensOK, PastTokens, FeedbackOK, PastFeedback
  <1>13. ASSUME NEW g \in Handler PROVE DiffsOK(g)'
    BY <1>0, InvBase DEF Inv, DiffsOK, PastDiffs, DiffsOf
  <1>14. ASSUME NEW g \in Handler PROVE UnlinkOK(g)'
    BY <1>0, InvBase DEF Inv, UnlinkOK, TokensOK, PastTokens
  <1>15. ASSUME NEW g \in Handler PROVE TakesOK(g)'
    BY <1>0, InvBase DEF Inv, TakesOK, Reading, Taking, Kin, Own
  <1>16. ASSUME NEW g \in Handler PROVE LeavesOK(g)'
    BY <1>0, InvBase DEF Inv, LeavesOK, Reading, Kin, Own
  <1>17. ASSUME NEW g \in Handler PROVE LinksOK(g)'
    BY <1>0, InvBase DEF Inv, LinksOK, Reading, Own
  <1>18. ASSUME NEW g \in Handler PROVE TakenOK(g)'
    BY <1>0, InvBase DEF Inv, TakenOK, DraftedBehind, Own
  <1>19. \A e \in Doc : RowOK(e)' /\ GoneOK(e)' /\ LiveOK(e)' /\ MarkedOK(e)'
    BY <1>4, <1>5, <1>6, <1>7
  <1>20. \A g \in Handler : BusyOK(g)' /\ SavedOK(g)' /\ TokensOK(g)' /\ FeedbackOK(g)'
    BY <1>9, <1>10, <1>11, <1>12
  <1>21. \A g \in Handler : DiffsOK(g)' /\ UnlinkOK(g)' /\ TakesOK(g)' /\ LeavesOK(g)'
    BY <1>13, <1>14, <1>15, <1>16
  <1>22. \A g \in Handler : LinksOK(g)' /\ TakenOK(g)'
    BY <1>17, <1>18
  <1> QED
    BY <1>1, <1>2, <1>3, <1>8, <1>19, <1>20, <1>21, <1>22 DEF Inv

\* The row goes last.
LEMMA EraseRowInv == ASSUME Inv, NEW h \in Handler, EraseRow(h) PROVE Inv'
  <1>0. /\ UNCHANGED <<linked, ledger, aux, diffs, tokens, posting, feedback, events,
                       behind, left, late, fails>>
        /\ run[h].pc = "document"
        /\ \A g \in Handler \ {h} : run'[g] = run[g]
        /\ run'[h].pc = "done" /\ run'[h].doc = run[h].doc /\ run'[h].links = run[h].links
        /\ status'[run[h].doc] = "gone"
        /\ \A e \in Doc \ {run[h].doc} : status'[e] = status[e]
        /\ saved'[run[h].doc] = NoLinks
        /\ \A e \in Doc \ {run[h].doc} : saved'[e] = saved[e]
    BY GotoRun, EraseAssumption DEF Inv, TypeOK, EraseRow, Steps, facts, reviews, history
  <1>1. TypeOK'
    <2>1. run' \in [Handler -> Runs]
      BY GotoRun, EraseAssumption DEF Steps, EraseRow
    <2> QED
      BY <2>1, EraseAssumption DEF Inv, TypeOK, Runs, Links, NoLinks, EraseRow, facts, reviews,
         history
  <1>2. OwnOK'
    BY <1>0, InvBase DEF Inv, OwnOK, Own, NoLinks
  <1>3. KeptOK'
    BY <1>0, InvBase DEF Inv, KeptOK, LeftToEachOther, DraftedBehind, Own
  <1>4. ASSUME NEW e \in Doc PROVE RowOK(e)'
    BY <1>0, InvBase DEF Inv, RowOK, DiffsOf, UnlinkOK
  <1>5. ASSUME NEW e \in Doc PROVE GoneOK(e)'
    BY <1>0, InvBase DEF Inv, GoneOK, UnlinkOK, TokensOK, PastTokens, FeedbackOK, PastFeedback
  <1>6. ASSUME NEW e \in Doc PROVE LiveOK(e)'
    BY <1>0, InvBase DEF Inv, LiveOK, Own
  <1>7. ASSUME NEW e \in Doc PROVE MarkedOK(e)'
    BY <1>0, InvBase DEF Inv, MarkedOK, Own
  <1>8. ASSUME NEW a \in Doc, NEW b \in Doc PROVE LeftOK(a, b)'
    BY <1>0, InvBase DEF Inv, LeftOK
  <1>9. ASSUME NEW g \in Handler PROVE BusyOK(g)'
    BY <1>0, InvBase DEF Inv, BusyOK, Steps
  <1>10. ASSUME NEW g \in Handler PROVE SavedOK(g)'
    BY <1>0, InvBase DEF Inv, SavedOK, PastLinks, Own
  <1>11. ASSUME NEW g \in Handler PROVE TokensOK(g)'
    BY <1>0, InvBase DEF Inv, BusyOK, Steps, TokensOK, PastTokens
  <1>12. ASSUME NEW g \in Handler PROVE FeedbackOK(g)'
    BY <1>0, InvBase DEF Inv, TokensOK, PastTokens, FeedbackOK, PastFeedback
  <1>13. ASSUME NEW g \in Handler PROVE DiffsOK(g)'
    BY <1>0, InvBase DEF Inv, DiffsOK, PastDiffs, DiffsOf
  <1>14. ASSUME NEW g \in Handler PROVE UnlinkOK(g)'
    BY <1>0, InvBase DEF Inv, UnlinkOK, TokensOK, PastTokens
  <1>15. ASSUME NEW g \in Handler PROVE TakesOK(g)'
    BY <1>0, InvBase DEF Inv, TakesOK, Reading, Taking, Kin, Own
  <1>16. ASSUME NEW g \in Handler PROVE LeavesOK(g)'
    BY <1>0, InvBase DEF Inv, LeavesOK, Reading, Kin, Own
  <1>17. ASSUME NEW g \in Handler PROVE LinksOK(g)'
    BY <1>0, InvBase DEF Inv, LinksOK, Reading, Own
  <1>18. ASSUME NEW g \in Handler PROVE TakenOK(g)'
    BY <1>0, InvBase DEF Inv, TakenOK, DraftedBehind, Own
  <1>19. \A e \in Doc : RowOK(e)' /\ GoneOK(e)' /\ LiveOK(e)' /\ MarkedOK(e)'
    BY <1>4, <1>5, <1>6, <1>7
  <1>20. \A g \in Handler : BusyOK(g)' /\ SavedOK(g)' /\ TokensOK(g)' /\ FeedbackOK(g)'
    BY <1>9, <1>10, <1>11, <1>12
  <1>21. \A g \in Handler : DiffsOK(g)' /\ UnlinkOK(g)' /\ TakesOK(g)' /\ LeavesOK(g)'
    BY <1>13, <1>14, <1>15, <1>16
  <1>22. \A g \in Handler : LinksOK(g)' /\ TakenOK(g)'
    BY <1>17, <1>18
  <1> QED
    BY <1>1, <1>2, <1>3, <1>8, <1>19, <1>20, <1>21, <1>22 DEF Inv

LEMMA FailInv == ASSUME Inv, NEW h \in Handler, Fail(h) PROVE Inv'
  <1>0. /\ UNCHANGED <<status, saved, linked, ledger, aux, diffs, tokens, posting,
                       feedback, events, behind, left, late>>
        /\ fails' \in 0..MaxFails
        /\ run[h].pc \in Steps
        /\ \A g \in Handler \ {h} : run'[g] = run[g]
        /\ run'[h].pc = "pending" /\ run'[h].doc = run[h].doc /\ run'[h].links = run[h].links
    BY GotoRun, EraseAssumption DEF Inv, TypeOK, Fail, Busy, Steps, facts, reviews, history
  <1>1. TypeOK'
    <2>1. run' \in [Handler -> Runs]
      BY GotoRun, EraseAssumption DEF Steps, Fail
    <2> QED
      BY <2>1, EraseAssumption DEF Inv, TypeOK, Runs, Links, NoLinks, Fail, Busy, facts,
         reviews, history
  <1>2. OwnOK'
    BY <1>0, InvBase DEF Inv, OwnOK, Own
  <1>3. KeptOK'
    BY <1>0, InvBase DEF Inv, KeptOK, LeftToEachOther, DraftedBehind, Own
  <1>4. ASSUME NEW e \in Doc PROVE RowOK(e)'
    BY <1>0, InvBase DEF Inv, RowOK, DiffsOf
  <1>5. ASSUME NEW e \in Doc PROVE GoneOK(e)'
    BY <1>0, InvBase DEF Inv, GoneOK
  <1>6. ASSUME NEW e \in Doc PROVE LiveOK(e)'
    BY <1>0, InvBase DEF Inv, LiveOK, Own
  <1>7. ASSUME NEW e \in Doc PROVE MarkedOK(e)'
    BY <1>0, InvBase DEF Inv, MarkedOK, Own
  <1>8. ASSUME NEW a \in Doc, NEW b \in Doc PROVE LeftOK(a, b)'
    BY <1>0, InvBase DEF Inv, LeftOK
  <1>9. ASSUME NEW g \in Handler PROVE BusyOK(g)'
    BY <1>0, InvBase DEF Inv, BusyOK, Steps
  <1>10. ASSUME NEW g \in Handler PROVE SavedOK(g)'
    BY <1>0, InvBase DEF Inv, SavedOK, PastLinks, Own
  <1>11. ASSUME NEW g \in Handler PROVE TokensOK(g)'
    BY <1>0, InvBase DEF Inv, BusyOK, Steps, TokensOK, PastTokens
  <1>12. ASSUME NEW g \in Handler PROVE FeedbackOK(g)'
    BY <1>0, InvBase DEF Inv, TokensOK, PastTokens, FeedbackOK, PastFeedback
  <1>13. ASSUME NEW g \in Handler PROVE DiffsOK(g)'
    BY <1>0, InvBase DEF Inv, DiffsOK, PastDiffs, DiffsOf
  <1>14. ASSUME NEW g \in Handler PROVE UnlinkOK(g)'
    BY <1>0, InvBase DEF Inv, UnlinkOK, TokensOK, PastTokens
  <1>15. ASSUME NEW g \in Handler PROVE TakesOK(g)'
    BY <1>0, InvBase DEF Inv, TakesOK, Reading, Taking, Kin, Own
  <1>16. ASSUME NEW g \in Handler PROVE LeavesOK(g)'
    BY <1>0, InvBase DEF Inv, LeavesOK, Reading, Kin, Own
  <1>17. ASSUME NEW g \in Handler PROVE LinksOK(g)'
    BY <1>0, InvBase DEF Inv, LinksOK, Reading, Own
  <1>18. ASSUME NEW g \in Handler PROVE TakenOK(g)'
    BY <1>0, InvBase DEF Inv, TakenOK, DraftedBehind, Own
  <1>19. \A e \in Doc : RowOK(e)' /\ GoneOK(e)' /\ LiveOK(e)' /\ MarkedOK(e)'
    BY <1>4, <1>5, <1>6, <1>7
  <1>20. \A g \in Handler : BusyOK(g)' /\ SavedOK(g)' /\ TokensOK(g)' /\ FeedbackOK(g)'
    BY <1>9, <1>10, <1>11, <1>12
  <1>21. \A g \in Handler : DiffsOK(g)' /\ UnlinkOK(g)' /\ TakesOK(g)' /\ LeavesOK(g)'
    BY <1>13, <1>14, <1>15, <1>16
  <1>22. \A g \in Handler : LinksOK(g)' /\ TakenOK(g)'
    BY <1>17, <1>18
  <1> QED
    BY <1>1, <1>2, <1>3, <1>8, <1>19, <1>20, <1>21, <1>22 DEF Inv

LEMMA StutterInv == ASSUME Inv, UNCHANGED vars PROVE Inv'
  <1> USE DEF vars, reviews, facts, history
  <1>1. TypeOK' /\ OwnOK'
    BY DEF Inv, TypeOK, OwnOK, Own
  <1>2. KeptOK'
    BY DEF Inv, KeptOK, LeftToEachOther, DraftedBehind, Own
  <1>3. \A d \in Doc : RowOK(d)' /\ GoneOK(d)' /\ LiveOK(d)' /\ MarkedOK(d)'
    BY DEF Inv, RowOK, GoneOK, LiveOK, MarkedOK, DiffsOf, Own
  <1>4. \A d, e \in Doc : LeftOK(d, e)'
    BY DEF Inv, LeftOK
  <1>5. \A h \in Handler : BusyOK(h)' /\ SavedOK(h)' /\ TokensOK(h)' /\ FeedbackOK(h)'
    BY DEF Inv, BusyOK, SavedOK, TokensOK, FeedbackOK, Own
  <1>6. \A h \in Handler : DiffsOK(h)' /\ UnlinkOK(h)' /\ TakesOK(h)' /\ LeavesOK(h)'
    BY DEF Inv, DiffsOK, UnlinkOK, TakesOK, LeavesOK, Taking, Kin, DiffsOf, Own
  <1>7. \A h \in Handler : LinksOK(h)' /\ TakenOK(h)'
    BY DEF Inv, LinksOK, TakenOK, DraftedBehind, Own
  <1> QED
    BY <1>1, <1>2, <1>3, <1>4, <1>5, <1>6, <1>7 DEF Inv

LEMMA InitInv == Init => Inv
  <1> SUFFICES ASSUME Init PROVE Inv
    OBVIOUS
  <1>1. PICK born \in (SUBSET Doc) \ {{}} :
           /\ status = [d \in Doc |-> IF d \in born THEN "live" ELSE "none"]
           /\ linked = born
           /\ ledger = {IntakeOf[d] : d \in born}
           /\ diffs = {<<d, IntakeOf[d]>> : d \in born}
           /\ tokens = [d \in Doc |-> IF d \in born THEN "open" ELSE "none"]
    BY DEF Init
  <1>2. Rest \in [pc : {"rest"}, doc : Doc, links : Links]
    <2>1. \E d \in Doc : TRUE
      <3>1. born # {} /\ born \in SUBSET Doc
        BY <1>1
      <3> QED
        BY <3>1
    <2>2. (CHOOSE d \in Doc : TRUE) \in Doc
      BY <2>1
    <2>3. NoLinks \in Links
      BY DEF Links, NoLinks
    <2> QED
      BY <2>2, <2>3 DEF Rest
  <1>3. TypeOK
    BY <1>1, <1>2, EraseAssumption DEF Init, TypeOK, Links, NoLinks
  <1>4. OwnOK
    BY <1>1, <1>2, EraseAssumption DEF Init, OwnOK, Own, Rest, NoLinks
  <1>5. KeptOK
    BY <1>1 DEF Init, KeptOK, Own
  <1>6. ASSUME NEW d \in Doc PROVE RowOK(d) /\ GoneOK(d) /\ LiveOK(d) /\ MarkedOK(d)
    BY <1>1 DEF Init, RowOK, GoneOK, LiveOK, MarkedOK, DiffsOf, Own
  <1>7. ASSUME NEW d \in Doc, NEW e \in Doc PROVE LeftOK(d, e)
    BY DEF Init, LeftOK
  <1>8. ASSUME NEW h \in Handler 
        PROVE  BusyOK(h) /\ SavedOK(h) /\ TokensOK(h) /\ FeedbackOK(h) /\ DiffsOK(h) /\ UnlinkOK(h)
               /\ TakesOK(h) /\ LeavesOK(h) /\ LinksOK(h) /\ TakenOK(h)
    BY <1>2 DEF Init, BusyOK, SavedOK, TokensOK, FeedbackOK, DiffsOK, UnlinkOK, TakesOK,
       LeavesOK, LinksOK, TakenOK, Steps, PastLinks, PastTokens, PastFeedback, PastDiffs, Reading,
       Taking
  <1> QED
    BY <1>3, <1>4, <1>5, <1>6, <1>7, <1>8 DEF Inv

LEMMA NextInv == Inv /\ [Next]_vars => Inv'
  <1> SUFFICES ASSUME Inv, [Next]_vars PROVE Inv'
    OBVIOUS
  <1>1. ASSUME NEW d \in Doc, Draft(d) \/ BeginPost(d) \/ StoreFeedback(d) \/ EndPost(d)
        PROVE Inv'
    BY <1>1, DraftInv, BeginPostInv, StoreFeedbackInv, EndPostInv
  <1>2. ASSUME NEW d \in Doc, Sweep(d) PROVE Inv'
    BY <1>2, SweepInv
  <1>3. ASSUME NEW h \in Handler, NEW d \in Doc, Delete(h, d) PROVE Inv'
    BY <1>3, DeleteInv
  <1>4. ASSUME NEW h \in Handler, Step(h) PROVE Inv'
    BY <1>4, SaveLinksInv, ErasableInv, EraseTokensInv, EraseFeedbackInv, EraseDiffsInv,
       EraseLedgersInv, EraseAuxInv, UnlinkInv, EraseRowInv DEF Step
  <1>5. ASSUME NEW h \in Handler, Fail(h) PROVE Inv'
    BY <1>5, FailInv
  <1>6. CASE UNCHANGED vars
    BY <1>6, StutterInv
  <1> QED
    BY <1>1, <1>2, <1>3, <1>4, <1>5, <1>6 DEF Next

----------------------------------------------------------------------------
(* The properties.                                                          *)

\* The erase keeps its invariant, failures, repeats and overlaps included.
LEMMA EraseInvariant == Spec => []Inv
  <1>1. Init => Inv
    BY InitInv
  <1>2. Inv /\ [Next]_vars => Inv'
    BY NextInv
  <1> QED
    BY <1>1, <1>2, PTL DEF Spec

\* DELETE /documents/:id and its sweep: a document whose row is gone has left no
\* generation link, review link or fact diff, and no feedback or event but what a
\* post stored after the link was erased, however many runs failed, overlapped
\* and were repeated; 200 is answered only then.
THEOREM EraseSound == Spec => []EraseOK
  <1>1. Inv => EraseOK
    <2> SUFFICES ASSUME Inv PROVE EraseOK
      OBVIOUS
    <2>1. TypeOK
      BY DEF Inv
    <2>2. NothingLeft
      BY DEF Inv, RowOK, GoneOK, LiveOK, MarkedOK, DiffsOf, NothingLeft
    <2>3. DoneMeansGone
      BY DEF Inv, BusyOK, DoneMeansGone
    <2> QED
      BY <2>1, <2>2, <2>3 DEF EraseOK
  <1> QED
    BY <1>1, EraseInvariant, PTL

\* linksOf and erasableLinks: a document the user keeps never loses its ledger,
\* its auxiliary rows or its fact diffs to the erase of a sibling, and the last
\* document of an intake takes them with it, whatever overlaps; but for a
\* document drafted after an erase of a sibling had read what is shared, and for
\* erases that left the facts for each other's document.
THEOREM FactsSound == Spec => []FactsOK
  <1>1. Inv => FactsOK
    <2> SUFFICES ASSUME Inv PROVE FactsOK
      OBVIOUS
    <2>1. LiveKeepsFacts
      BY DEF Inv, RowOK, GoneOK, LiveOK, MarkedOK, Own, LiveKeepsFacts
    <2>2. LastTakesIt
      BY DEF Inv, TypeOK, KeptOK, RowOK, GoneOK, LiveOK, MarkedOK, Own, LastTakesIt
    <2> QED
      BY <2>1, <2>2 DEF FactsOK
  <1> QED
    BY <1>1, EraseInvariant, PTL
=============================================================================

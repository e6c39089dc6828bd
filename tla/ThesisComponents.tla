--------------------------- MODULE ThesisComponents ---------------------------
(* The assumptions of one thesis and the sessions that change them: the       *)
(* investor's edits and accepted recommendations, and the AI review, which    *)
(* applies its own recommendations.  Each ends by computing the score anew;   *)
(* an edit, and the 08:30 expiry of catalysts, then invalidates an ACTIVE     *)
(* thesis of which more than half of the assumptions are invalid.  Sessions   *)
(* lock the rows they write until they commit, and a query sees what is       *)
(* committed by then (READ COMMITTED).                                        *)
EXTENDS Integers, FiniteSets

CONSTANTS
    Assumption,
    Editor       \* database sessions

ASSUME PartsAssumption == IsFiniteSet(Assumption)

\* An assumption is INVALID, has one of the other statuses, or has no row.
Status == {"invalid", "other", "none"}
Sets   == [Assumption -> Status \cup {"keep"}]

VARIABLES
    comp,    \* the committed status of each assumption
    active,  \* the thesis is ACTIVE
    ses,     \* the sessions
    excused  \* history: what Excuse speaks of has happened

editVars == <<comp, active, ses, excused>>

\* sets: the statuses it writes; row: it has written the thesis; drops: to
\* INVALIDATED, or to WEAKENING by a review; met: another session ran beside it.
Sessions == [pc : {"idle", "opening", "writing", "written", "scoring", "scored",
                   "invalidating", "ending"},
             review : BOOLEAN, sets : Sets, row : BOOLEAN, drops : BOOLEAN, met : BOOLEAN]

Keep == [a \in Assumption |-> "keep"]
Free == [pc |-> "idle", review |-> FALSE, sets |-> Keep,
         row |-> FALSE, drops |-> FALSE, met |-> FALSE]

EditTypeOK ==
    /\ comp \in [Assumption -> Status]
    /\ active \in BOOLEAN
    /\ ses \in [Editor -> Sessions]
    /\ excused \in BOOLEAN

PastHalf(c) == 2 * Cardinality({a \in Assumption : c[a] = "invalid"})
                   > Cardinality({a \in Assumption : c[a] # "none"})

EditInit ==
    /\ comp \in [Assumption -> Status] /\ ~PastHalf(comp)
    /\ active = TRUE
    /\ ses = [s \in Editor |-> Free]
    /\ excused = FALSE

-----------------------------------------------------------------------------
Working(s)     == ses[s].pc # "idle"
Uncommitted(s) == IF ses[s].pc \in {"opening", "writing"} THEN Keep ELSE ses[s].sets

Over(c, sets)  == [a \in Assumption |-> IF sets[a] = "keep" THEN c[a] ELSE sets[a]]
Sees(s)        == Over(comp, Uncommitted(s))
SeesActive(s)  == active /\ ~ses[s].drops

RowHeld(s)     == \E r \in Editor \ {s} : ses[r].row
PartHeld(s, a) == \E r \in Editor \ {s} : Uncommitted(r)[a] # "keep"

Moves(s, new) == ses' = [ses EXCEPT ![s] = new]
Still         == UNCHANGED <<comp, active, excused>>

Opened(s, new) ==
    /\ ~Working(s)
    /\ ses' = [r \in Editor |->
                  IF r = s THEN [new EXCEPT !.met = \E o \in Editor : Working(o)]
                  ELSE [ses[r] EXCEPT !.met = Working(r)]]
    /\ Still

\* A row is written if its status changes, among the others perhaps.
EditLoads(s, a, st) ==
    /\ comp[a] # "none" /\ ~(comp[a] = "invalid" /\ st = "invalid")
    /\ Opened(s, [Free EXCEPT !.pc = "writing", !.sets[a] = st])

AddLoads(s, a, st) ==
    /\ comp[a] = "none" /\ ~PartHeld(s, a) /\ st # "none"
    /\ Opened(s, [Free EXCEPT !.pc = "written", !.sets[a] = st])

\* An edit that changes no status of an assumption, or one of a catalyst, which
\* counts for the score alone; the expiry of catalysts.
OtherLoads(s) == Opened(s, [Free EXCEPT !.pc = "written"])

\* Mutant: the guard of the recommendations is dropped.
AnyAssumption == {a \in Assumption : comp[a] # "none"}

\* What was INVALID when the review loaded it is for the investor to restore.
MayApply == {a \in Assumption : comp[a] = "other"}

\* The thesis is loaded, and the language model asked.
ReviewLoads(s, sets) ==
    /\ active
    /\ \A a \in Assumption : sets[a] # "keep" => sets[a] # "none" /\ a \in MayApply
    /\ Opened(s, [Free EXCEPT !.pc = "opening", !.review = TRUE, !.sets = sets])

\* The first flush writes the row of the thesis and the reactor's status; with
\* nothing recommended there may be none before the score.
ReviewOpens(s) ==
    /\ ses[s].pc = "opening"
    /\ \/ /\ ~RowHeld(s)
          /\ \E drops \in BOOLEAN :
                 Moves(s, [ses[s] EXCEPT !.row = TRUE, !.drops = drops, !.pc = "writing"])
       \/ ses[s].sets = Keep /\ Moves(s, [ses[s] EXCEPT !.pc = "written"])
    /\ Still

\* The UPDATEs or the DELETE; a row that is gone fails the session.
Writes(s) ==
    /\ ses[s].pc = "writing"
    /\ \A a \in Assumption : ses[s].sets[a] # "keep" => ~PartHeld(s, a) /\ comp[a] # "none"
    /\ Moves(s, [ses[s] EXCEPT !.pc = "written"])
    /\ Still

\* Mutants: nothing is checked; the next assumption is written after the score.
Unchecked(review)      == "ending"
AnotherFollows(review) == IF review THEN "ending" ELSE "writing"

\* A review checks nothing.
AfterScore(review) == IF review THEN "ending" ELSE "scored"

\* The score of what it sees may differ from the stored one after any edit: a
\* new price of the thesis does not bring it up to date.
Scores(s) ==
    /\ ses[s].pc = "written"
    /\ \E pc \in {AfterScore(ses[s].review), "scoring"} : Moves(s, [ses[s] EXCEPT !.pc = pc])
    /\ Still

Saves(s) ==
    /\ ses[s].pc = "scoring" /\ ~RowHeld(s)
    /\ Moves(s, [ses[s] EXCEPT !.pc = AfterScore(ses[s].review), !.row = TRUE])
    /\ Still

Checks(s) ==
    /\ ses[s].pc = "scored"
    /\ Moves(s, [ses[s] EXCEPT !.pc = IF SeesActive(s) /\ PastHalf(Sees(s))
                                     THEN "invalidating" ELSE "ending"])
    /\ Still

Invalidates(s) ==
    /\ ses[s].pc = "invalidating" /\ ~RowHeld(s)
    /\ Moves(s, [ses[s] EXCEPT !.pc = "ending", !.row = TRUE, !.drops = TRUE])
    /\ Still

\* Nobody checks what a review leaves invalid, nor looks again after an edit
\* that left the score as it was beside another session.
Excuse(s) ==
    IF ses[s].review THEN \E a \in Assumption : ses[s].sets[a] = "invalid"
    ELSE ~ses[s].row /\ ses[s].met

Commits(s) ==
    /\ ses[s].pc = "ending"
    /\ comp' = Sees(s)
    /\ active' = SeesActive(s)
    /\ excused' = /\ (excused \/ Excuse(s))
                  /\ (PastHalf(comp') \/ \E r \in Editor \ {s} : Working(r))
    /\ Moves(s, Free)

\* An exception, a row that is gone, a deadlock that the database resolves.
Fails(s) == Working(s) /\ Moves(s, Free) /\ Still

-----------------------------------------------------------------------------
(* The thesis is closed, or reopened, by others: ThesisLifecycle has the      *)
(* steps.                                                                     *)

Closes ==
    /\ active /\ \A s \in Editor : ~ses[s].row
    /\ active' = FALSE
    /\ UNCHANGED <<comp, ses, excused>>

\* reactivate() looks at no assumption.
Reopens ==
    /\ ~active /\ \A s \in Editor : ~ses[s].row
    /\ active' = TRUE
    /\ excused' = (excused \/ PastHalf(comp))
    /\ ses' = [s \in Editor |-> [ses[s] EXCEPT !.met = Working(s)]]
    /\ UNCHANGED comp

Step(s) == \/ ReviewOpens(s) \/ Writes(s) \/ Scores(s) \/ Saves(s)
           \/ Checks(s) \/ Invalidates(s) \/ Commits(s) \/ Fails(s)

EditNext ==
    \/ \E s \in Editor, a \in Assumption, st \in Status : EditLoads(s, a, st) \/ AddLoads(s, a, st)
    \/ \E s \in Editor, sets \in Sets : ReviewLoads(s, sets)
    \/ \E s \in Editor : OtherLoads(s) \/ Step(s)
    \/ Closes \/ Reopens

EditSpec == EditInit /\ [][EditNext]_editVars

-----------------------------------------------------------------------------
(* Properties.                                                                *)

\* An ACTIVE thesis of which more than half of the assumptions are invalid was
\* left so by a review, by a reactivation, or by an edit that ran beside another
\* session and left the score as it was.  Edits that change the score see each
\* other however they overlap: each waits for the thesis before it checks.
ThresholdKept == active /\ PastHalf(comp) => excused

\* A review makes an INVALID assumption valid again only if it became INVALID
\* while the review ran ("chỉ manual override mới được phép restore").
RestoredByHand ==
    [][\A a \in Assumption : comp[a] = "invalid" /\ comp'[a] = "other" =>
          \E s \in Editor : /\ ses[s].pc = "ending" /\ ses'[s].pc = "idle"
                            /\ (~ses[s].review \/ ses[s].met)]_editVars

Waits(s, r) ==
    /\ s # r
    /\ \/ ses[s].pc = "writing"
          /\ \E a \in Assumption : ses[s].sets[a] # "keep" /\ Uncommitted(r)[a] # "keep"
       \/ ses[s].pc \in {"opening", "scoring", "invalidating"} /\ ses[r].row

\* Edits never wait for each other in a circle: they lock the assumption before
\* the thesis.  (A review locks the thesis first.)
EditsNeverDeadlock ==
    \A S \in SUBSET {s \in Editor : Working(s) /\ ~ses[s].review} :
        S # {} => \E s \in S : \A r \in S : ~Waits(s, r)
=============================================================================

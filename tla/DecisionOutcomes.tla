--------------------------- MODULE DecisionOutcomes ---------------------------
(* What became of the logged decisions (thesis/decision_service.py).  The     *)
(* filler of 15:05, and the replay batch of 15:15 or of a command, evaluate   *)
(* the decisions whose horizon is over; one may be evaluated or replayed by   *)
(* hand at any time.  The language model writes a lesson on an outcome.       *)
(* A session loads a row once, and its UPDATE names the columns that differ   *)
(* from what it loaded: where it had loaded no outcome, all of them.          *)

CONSTANTS
    Decision,
    Unpriced,    \* logged without a price: never evaluated
    Strangers,   \* of another user than scheduler_user_id
    Desk,        \* database sessions
    Called       \* what they are opened for

Jobs  == {"filler", "batch"}
Hands == {"evaluate", "replay"}

ASSUME OutcomeAssumption ==
    /\ Unpriced \subseteq Decision /\ Strangers \subseteq Decision
    /\ Called \subseteq Jobs \cup Hands

\* How far the price moved, for the decision or against it, by the two
\* thresholds in use; an outcome is a move with its verdict.
Shifts   == {"little", "some", "much"}
Nothing  == [move |-> "none", verdict |-> "none"]
Outcomes == [move : Shifts, verdict : {"MIXED", "DECIDED"}] \cup {Nothing}

VARIABLES
    due,      \* the decisions whose horizon is over
    outcome,  \* the committed outcome of each
    lesson,   \* the decisions that have a lesson
    desk,     \* the sessions
    torn      \* history: the decisions whose columns two evaluations wrote

outcomeVars == <<due, outcome, lesson, desk, torn>>

\* todo: the rows listed, or the one in hand, that are not evaluated yet; asked:
\* the row that the language model is asked about; saw: the outcome that was
\* loaded; met: another session ran beside it.
Desks == [job : Jobs \cup Hands \cup {"idle"}, todo : SUBSET Decision,
          asked : SUBSET Decision, saw : Outcomes, met : BOOLEAN]
Away  == [job |-> "idle", todo |-> {}, asked |-> {}, saw |-> Nothing, met |-> FALSE]

OutcomeTypeOK ==
    /\ due \subseteq Decision
    /\ outcome \in [Decision -> Outcomes] /\ \A d \in Unpriced : outcome[d] = Nothing
    /\ lesson \subseteq Decision \ Unpriced
    /\ desk \in [Desk -> Desks]
    /\ torn \subseteq Decision

OutcomeInit ==
    /\ due = {} /\ lesson = {} /\ torn = {}
    /\ outcome = [d \in Decision |-> Nothing]
    /\ desk = [s \in Desk |-> Away]

-----------------------------------------------------------------------------
\* _classify_verdict(), from 2.5 %, and _infer_outcome_verdict(), from 5 %.
FillerJudges(m)  == [move |-> m, verdict |-> IF m = "little" THEN "MIXED" ELSE "DECIDED"]
ServiceJudges(m) == [move |-> m, verdict |-> IF m = "much" THEN "DECIDED" ELSE "MIXED"]

Evaluated(d) == outcome[d] # Nothing

\* Mutant: nothing asks whether there is an outcome.
AllDue == due

Pending == {d \in due : ~Evaluated(d)}

Engaged(s)     == desk[s].job # "idle"
AtWork(s, job) == desk[s].job = job
Sits(s, new)   == desk' = [desk EXCEPT ![s] = new]

Arrives(s, new) ==
    /\ ~Engaged(s) /\ new.job \in Called
    /\ desk' = [r \in Desk |->
                   IF r = s THEN [new EXCEPT !.met = \E o \in Desk : Engaged(o)]
                   ELSE [desk[r] EXCEPT !.met = Engaged(r)]]
    /\ UNCHANGED <<due, outcome, lesson, torn>>

\* Mutant: a verdict that stands is kept.
FirstVerdict(d, saw, new) ==
    [move : {new.move}, verdict : {IF Evaluated(d) THEN outcome[d].verdict ELSE new.verdict}]

\* A column whose value is the loaded one is left alone; moves that are alike
\* may differ in price.
Written(d, saw, new) ==
    [move    : {new.move} \cup (IF new.move = saw.move THEN {outcome[d].move} ELSE {}),
     verdict : {IF new.verdict = saw.verdict THEN outcome[d].verdict ELSE new.verdict}]

\* evaluate_outcome() from the price on.
Evaluates(d, saw) ==
    /\ d \notin Unpriced
    /\ \E m \in Shifts : \E new \in Written(d, saw, ServiceJudges(m)) :
           outcome' = [outcome EXCEPT ![d] = new]
    /\ torn' = IF saw # Nothing /\ saw # outcome[d] THEN torn \cup {d} ELSE torn \ {d}
    /\ UNCHANGED <<due, lesson>>

ComesDue(d) ==
    /\ d \notin due
    /\ due' = due \cup {d}
    /\ UNCHANGED <<outcome, lesson, desk, torn>>

-----------------------------------------------------------------------------
FillerLists(s) ==
    /\ Pending \ (Unpriced \cup Strangers) # {}
    /\ Arrives(s, [Away EXCEPT !.job = "filler", !.todo = Pending \ (Unpriced \cup Strangers)])

\* Prices are asked for one by one, some in vain; one commit writes the rows.
FillerCommits(s) ==
    /\ AtWork(s, "filler")
    /\ \E quoted \in SUBSET desk[s].todo : \E m \in [quoted -> Shifts] :
           /\ outcome' = [d \in Decision |->
                             IF d \in quoted THEN FillerJudges(m[d]) ELSE outcome[d]]
           /\ torn' = torn \ quoted
    /\ Sits(s, Away)
    /\ UNCHANGED <<due, lesson>>

BatchLists(s) == Arrives(s, [Away EXCEPT !.job = "batch", !.todo = Pending])

\* Each row has a commit of its own, and so has its lesson.
BatchEvaluates(s, d) ==
    /\ AtWork(s, "batch") /\ desk[s].asked = {} /\ d \in desk[s].todo
    /\ Evaluates(d, Nothing)
    /\ Sits(s, [desk[s] EXCEPT !.todo = @ \ {d}, !.asked = {d}])

\* Without a price, now or when it was logged.
BatchSkips(s, d) ==
    /\ AtWork(s, "batch") /\ desk[s].asked = {} /\ d \in desk[s].todo
    /\ Sits(s, [desk[s] EXCEPT !.todo = @ \ {d}])
    /\ UNCHANGED <<due, outcome, lesson, torn>>

BatchEnds(s) ==
    /\ AtWork(s, "batch") /\ desk[s].asked = {} /\ desk[s].todo = {}
    /\ Sits(s, Away)
    /\ UNCHANGED <<due, outcome, lesson, torn>>

\* The language model may fail, or find no lesson.
Learns(s) ==
    /\ desk[s].asked # {}
    /\ lesson' \in {lesson, lesson \cup desk[s].asked}
    /\ Sits(s, IF AtWork(s, "batch") THEN [desk[s] EXCEPT !.asked = {}] ELSE Away)
    /\ UNCHANGED <<due, outcome, torn>>

\* By hand nobody asks for the horizon; a replay takes an outcome that is there.
HandLoads(s, d, job) ==
    LET new == [Away EXCEPT !.job = job, !.saw = outcome[d]] IN
    IF job = "replay" /\ Evaluated(d)
    THEN Arrives(s, [new EXCEPT !.asked = {d}])
    ELSE Arrives(s, [new EXCEPT !.todo = {d}])

HandEvaluates(s, d) ==
    /\ desk[s].job \in Hands /\ d \in desk[s].todo
    /\ Evaluates(d, desk[s].saw)
    /\ Sits(s, IF AtWork(s, "replay") THEN [desk[s] EXCEPT !.todo = {}, !.asked = {d}] ELSE Away)

\* No price, an error of the database, a restart.
GivesUp(s) ==
    /\ Engaged(s)
    /\ Sits(s, Away)
    /\ UNCHANGED <<due, outcome, lesson, torn>>

OutcomeNext ==
    \/ \E s \in Desk : \/ FillerLists(s) \/ FillerCommits(s) \/ BatchLists(s) \/ BatchEnds(s)
                       \/ Learns(s) \/ GivesUp(s)
    \/ \E s \in Desk, d \in Decision :
           \/ BatchEvaluates(s, d) \/ BatchSkips(s, d) \/ HandEvaluates(s, d)
           \/ \E job \in Hands : HandLoads(s, d, job)
    \/ \E d \in Decision : ComesDue(d)

OutcomeSpec == OutcomeInit /\ [][OutcomeNext]_outcomeVars

-----------------------------------------------------------------------------
(* Properties.                                                                *)

\* The filler and the batch fill what is empty: an outcome that stands, which
\* lessons and statistics were made of, is replaced by hand only, or by a job
\* beside which another session evaluated the row after the job had listed it.
JobsKeepOutcomes ==
    [][\A s \in Desk : desk[s].job \in Jobs /\ ~desk[s].met /\ desk'[s] # desk[s] =>
           \A d \in Decision : Evaluated(d) => outcome'[d] = outcome[d]]_outcomeVars

\* The verdict is the one of the move beside it, by the filler's threshold or by
\* the service's, although no session writes the columns that it left as loaded:
\* only an evaluation of a row that another one wrote meanwhile can mix the two.
VerdictFits ==
    \A d \in Decision : Evaluated(d) /\ d \notin torn =>
        outcome[d] \in {FillerJudges(outcome[d].move), ServiceJudges(outcome[d].move)}

\* The batch takes up every decision whose horizon is over and that has no
\* lesson yet ("replay always reads fresh outcome_pnl_pct / outcome_verdict
\* data" of the filler, ten minutes before it).
FilledIsReplayed ==
    [][\A s \in Desk : ~Engaged(s) /\ desk'[s].job = "batch" =>
           due \ (lesson \cup Unpriced) \subseteq desk'[s].todo]_outcomeVars
=============================================================================

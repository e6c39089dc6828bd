----------------------------- MODULE MCTradingDay -----------------------------
(* The closing prices, the engine's cycle, the books of a ticker, the edits   *)
(* of a thesis and the outcomes of decisions, for TLC.  The five share no     *)
(* state: a behaviour exercises one of them, and part says which.             *)
EXTENDS ClosingPrices, EngineCycle, ThesisComponents, DecisionOutcomes, MCPositionBooks

VARIABLE part

\* Rows get their ids in order: the first position is opened first.
First == CHOOSE p \in PosId : TRUE

MCInit ==
    /\ part \in {"prices", "engine", "books", "edits", "outcomes"}
    /\ DayInit /\ Init /\ BooksInit /\ EditInit /\ OutcomeInit
    /\ part # "prices" => held = [t \in Ticker |-> FALSE] /\ saved = NoQuotes
    /\ part # "edits" => comp = [a \in Assumption |-> "other"]

\* Bound: two requests refresh a ticker at once only while no quote is fetched or
\* saved.  Refreshes and quotes share no variable.
Crowded == Busy > 0 /\ \E t \in Ticker : UnderWay(t) > 1

MCNext ==
    \/ /\ part = "prices" /\ DayNext /\ ~Crowded'
       /\ UNCHANGED <<vars, bookVars, editVars, outcomeVars, part>>
    \/ /\ part = "engine" /\ Next
       /\ UNCHANGED <<dayVars, bookVars, editVars, outcomeVars, part>>
    \/ /\ part = "books" /\ BooksNext /\ (status'[First] = "none" => status' = status)
       /\ UNCHANGED <<dayVars, vars, editVars, outcomeVars, part>>
    \/ /\ part = "edits" /\ EditNext
       /\ UNCHANGED <<dayVars, vars, bookVars, outcomeVars, part>>
    \/ /\ part = "outcomes" /\ OutcomeNext
       /\ UNCHANGED <<dayVars, vars, bookVars, editVars, part>>

MCSpec == MCInit /\ [][MCNext]_<<dayVars, vars, bookVars, editVars, outcomeVars, part>>

-----------------------------------------------------------------------------
\* All five keep their types, which says among others that no quantity goes
\* below zero (sell()) and that no deleted assumption is written back.  Those
\* that do not move keep those of their first state.
MCTypeOK ==
    /\ part = "prices" => DayTypeOK
    /\ part = "engine" => TypeOK
    /\ part = "books" => BooksTypeOK
    /\ part = "edits" => EditTypeOK
    /\ part = "outcomes" => OutcomeTypeOK
=============================================================================

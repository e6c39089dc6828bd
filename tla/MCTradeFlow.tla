---------------------------- MODULE MCTradeFlow ----------------------------
(* TradeFlow with its refinement and what its comments claim, for TLC.     *)
EXTENDS TradeFlow, FiniteSetsExt

CONSTANT Late    \* requests made when every other one and the worker have ended

VARIABLES rich,   \* one request after the other, those that log a decision of
                  \* one share; or two at a time, of one share, logging nothing
          met     \* history: the requests that ran beside another one

Running == {r \in Req : pc[r] # "new" /\ ~Ended(r)}
MCInit  == Init /\ rich \in BOOLEAN /\ met = {}
Kinds   ==
    \A r \in Req : pc[r] = "new" /\ pc'[r] # "new" =>
        /\ rich \/ r \in Late => Running = {}
        /\ r \in Late => outbox = {} /\ queue = <<>> /\ current = None
        /\ order'[r].qty = 1 \/ ~order'[r].logs
        /\ IF rich THEN r \notin Late ELSE order'[r].qty = 1 /\ ~order'[r].logs
MetNext == Next /\ met' = met \cup {r \in Running' : Running' # {r}}
MCNext  == MetNext /\ Kinds /\ rich' = rich

MCSpec     == MCInit /\ [][MCNext]_<<vars, rich, met>>
MCFairSpec == MCSpec /\ Fairness

\* Requests of any kind, in any order.
MetSpec == Init /\ met = {} /\ [][MetNext]_<<vars, met>>

-----------------------------------------------------------------------------
\* Held is what open positions hold, Moved what each committed trade bought or
\* sold.  Overlapping requests may lose shares; still a request that ran beside
\* no other one, whatever happened before, changes what is held by what it
\* traded, once, and sells only what is there; and nothing but a commit does.
Held   == MapThenSumSet(LAMBDA p : pos[p].qty, OpenPositions)
Moved  == [r \in Req |-> IF r \notin durable THEN 0
                        ELSE IF order[r].side = "BUY" THEN order[r].qty ELSE -order[r].qty]
Ledger == INSTANCE TradeLedger WITH held <- Held, moved <- Moved
ImplementsLedger ==
    Ledger!Init /\ [][(durable' \ durable) \cap met' = {} => Ledger!Next]_<<Held, Moved>>

-----------------------------------------------------------------------------
\* The docstring of trade_usecase.py: "Emit UserActionEvent (BUY/SELL) after
\* trade commits".  A thesis is closed by a sale that never was otherwise.
FeedbackOfCommitted == \A r \in Req : tried[r] # <<>> => r \in durable
=============================================================================

------------------------- MODULE MCThesisLifecycle -------------------------
(* ThesisLifecycle with its refinement and what its comments claim, for    *)
(* TLC.                                                                    *)
EXTENDS ThesisLifecycle

CONSTANTS t1, t2, x

MCTickerOf == [t \in Thesis |-> x]
EveryJob   == AllJobs

\* History: the sessions that ran beside another one.
VARIABLE met

Running    == {s \in Session : pc[s] \notin {"new", "ended"}}
MCInit     == Init /\ met = {}
MCNext     == Next /\ met' = met \cup {s \in Running' : Running' # {s}}
MCSpec     == MCInit /\ [][MCNext]_<<vars, met>>
MCFairSpec == MCSpec /\ Fairness

-----------------------------------------------------------------------------
\* The commit of a session that ran beside no other is a step of the abstract
\* lifecycle, whatever sessions that did overlap have left in the rows.
StatusOf == [t \in Thesis |-> row[t].status]
States  == INSTANCE ThesisStates WITH status <- StatusOf

Committing == {s \in Session : outcome[s] # "committed" /\ outcome'[s] = "committed"}
ImplementsStates ==
    States!Init /\ [][Committing \cap met = {} => States!Next]_StatusOf

\* A ticker keeps at most one open thesis unless create() ran, or sessions that
\* reopen (reactivate(), the reactor over a closing) overlapped with others:
\* pretrade checks, decisions and quick trades resolve a thesis from its ticker.
\* (create() looks for no other open thesis and makes a second one at once.)
Reopening == {"reactivate"} \cup Reviews
OneOpenUnlessCreated ==
    (\A s \in Session : job[s] # "create" /\ (s \in met => job[s] \notin Reopening)) =>
        \A t, u \in Thesis : t # u /\ TickerOf[t] = TickerOf[u] =>
            ~(row[t].status \in Open /\ row[u].status \in Open)

-----------------------------------------------------------------------------
\* The reactor's comment: "never overwrite CLOSED, PAUSED, WEAKENING,
\* INVALIDATED".
ReactorNeverOverwrites ==
    [][\A s \in Session : job[s] \in Reviews /\ outcome[s] = "none"
                             /\ outcome'[s] = "committed" =>
          \A t \in Thesis : row'[t].status # row[t].status
                               => row[t].status = "ACTIVE"]_vars

\* The review's flow: the reactor's changes are "committed together with
\* review".
ReactionIsKept ==
    [][\A s \in Session : job[s] \in Reviews /\ outcome[s] = "none"
                             /\ outcome'[s] = "committed" /\ verdict[s] # "none" =>
          \A t \in todo[s] : row'[t].status = verdict[s]]_vars

\* The listeners' flow: the review is persisted ("AI + persist + scoring").
ReviewIsKept ==
    \A s \in Session : job[s] \in Reviews /\ pc[s] = "ended"
                          => outcome[s] \in {"committed", "failed"}
=============================================================================

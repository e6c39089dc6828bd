------------------------------ MODULE AlertScan ------------------------------
(* The alerts of a watchlist and everything that scans them: the five-minute *)
(* scheduler, the proactive-watch listener, the scan commands and the        *)
(* dashboard page that scans when its snapshot is old.  Each of them loads   *)
(* the ACTIVE alerts, awaits prices, marks what fired as TRIGGERED in its    *)
(* own session, writes one row per signal and only then commits and tells    *)
(* the investor.  Time is kept as ages, so it is not bounded: the age of a   *)
(* row or of a mark stops counting at Cap.                                   *)
EXTENDS Naturals

CONSTANTS
    Alert,      \* the alert rows
    Repeating,  \* those of a type that is re-armed (CHANGE_PCT_*, VOLUME_SPIKE)
    Cool,       \* the cooldown of each of these, in ticks
    Cap,        \* where ages stop counting
    Job         \* the sessions that may be open at once

ASSUME CoolAssumption ==
    /\ Repeating \subseteq Alert
    /\ Cool \in [Repeating -> Nat]
    /\ Cap \in Nat
    /\ \A a \in Repeating : Cool[a] < Cap

VARIABLES
    row,      \* the committed alerts: their status and the age of triggered_at
    notices,  \* how often a message named the alert since it was triggered
    job       \* the open sessions

vars == <<row, notices, job>>

Status  == {"ACTIVE", "TRIGGERED", "gone"}
Row     == [status : Status, age : 0 .. Cap]
Active  == [status |-> "ACTIVE", age |-> 0]
Gone    == [status |-> "gone", age |-> 0]

\* A request is a command, an event for the listener or a page that scans when
\* its snapshot is old; the page tells nobody: its session ends at "tell".
Scanner == {"scheduler", "request"}
Step    == {"idle", "rearm", "rearming", "list", "mark", "commit", "tell"}

\* picked: the alerts the session loaded and goes on with; age: how long ago it
\* marked them; kept: the marks were not rolled back.
Session == [kind : Scanner, pc : Step, picked : SUBSET Alert, age : 0 .. Cap,
            kept : BOOLEAN]
Closed  == [kind |-> "request", pc |-> "idle", picked |-> {}, age |-> 0,
            kept |-> FALSE]

TypeOK ==
    /\ row \in [Alert -> Row]
    /\ notices \in [Alert -> 0 .. 2]
    /\ job \in [Job -> Session]

Init ==
    /\ row = [a \in Alert |-> Active]
    /\ notices = [a \in Alert |-> 0]
    /\ job = [j \in Job |-> Closed]

\* Mutant: an age that counts on.
OlderForEver(n) == n + 1

Older(n) == IF n < Cap THEN n + 1 ELSE n

\* A flushed UPDATE holds its rows until the session commits or rolls back.
Holds(j)  == IF job[j].pc = "commit" /\ job[j].kept
             THEN job[j].picked ELSE {}
Locked(a) == \E j \in Job : a \in Holds(j)

\* An UPDATE waits for the rows another session holds, and raises when one of
\* its rows was deleted.
CanWrite(A) == \A a \in A : ~Locked(a) /\ row[a].status # "gone"

-----------------------------------------------------------------------------
(* A session opens.  The scheduler, which never overlaps itself, first       *)
(* re-arms alerts in a transaction of its own.                               *)

Open(j, k) ==
    /\ job[j].pc = "idle"
    /\ k = "scheduler" =>
          \A i \in Job : job[i].pc # "idle" => job[i].kind # "scheduler"
    /\ job' = [job EXCEPT ![j] = [Closed EXCEPT
                  !.kind = k, !.pc = IF k = "scheduler" THEN "rearm" ELSE "list"]]
    /\ UNCHANGED <<row, notices>>

\* Mutant: the types that must be re-armed by hand are not told apart.
CooledAnyType ==
    {a \in Alert : /\ row[a].status = "TRIGGERED"
                   /\ row[a].age > IF a \in Repeating THEN Cool[a] ELSE 0}

\* Mutant: the cutoff itself is included.
CooledEarly == {a \in Repeating : row[a].status = "TRIGGERED" /\ row[a].age >= Cool[a]}

Cooled == {a \in Repeating : row[a].status = "TRIGGERED" /\ row[a].age > Cool[a]}

RearmReads(j) ==
    /\ job[j].pc = "rearm"
    /\ job' = [job EXCEPT ![j].pc = "rearming", ![j].picked = Cooled]
    /\ UNCHANGED <<row, notices>>

\* Mutant: the session of the re-arming is left without a commit.
RearmUncommitted(j) ==
    /\ job[j].pc = "rearming"
    /\ CanWrite(job[j].picked)
    /\ job' = [job EXCEPT ![j].pc = "list", ![j].picked = {}]
    /\ UNCHANGED <<row, notices>>

RearmCommits(j) ==
    /\ job[j].pc = "rearming"
    /\ CanWrite(job[j].picked)
    /\ row' = [a \in Alert |-> IF a \in job[j].picked THEN Active ELSE row[a]]
    /\ job' = [job EXCEPT ![j].pc = "list", ![j].picked = {}]
    /\ UNCHANGED notices

\* Only an ACTIVE alert is looked at; THESIS_TRIGGER rules never fire.
Watched == {a \in Alert : row[a].status = "ACTIVE"}

\* list_for_user(), then the awaits for prices: whatever the prices will set
\* off among the alerts that were ACTIVE when they were loaded.
List(j) ==
    /\ job[j].pc = "list"
    /\ \E A \in SUBSET Watched :
          job' = [job EXCEPT ![j].pc = "mark", ![j].picked = A]
    /\ UNCHANGED <<row, notices>>

\* process_triggered() marks the alerts as this session loaded them, whatever
\* their rows have become, and flushes; then _emit_events() writes a row per
\* signal, and one that cannot be written rolls the marks back with it.
Mark(j) ==
    /\ job[j].pc = "mark"
    /\ CanWrite(job[j].picked)
    /\ \E ok \in BOOLEAN : job' = [job EXCEPT ![j].pc = "commit", ![j].kept = ok]
    /\ UNCHANGED <<row, notices>>

-----------------------------------------------------------------------------
(* The caller of the scan commits, then the investor is told.               *)

Marked(j) == {a \in job[j].picked : job[j].kept}

Commit(j) ==
    /\ job[j].pc = "commit"
    /\ row' = [a \in Alert |-> IF a \in Marked(j)
                               THEN [status |-> "TRIGGERED", age |-> job[j].age]
                               ELSE row[a]]
    /\ notices' = [a \in Alert |-> IF a \in Marked(j) /\ row[a].status = "ACTIVE"
                                   THEN 0 ELSE notices[a]]
    /\ job' = [job EXCEPT ![j].pc = "tell", ![j].age = 0]

\* The scheduler's message names what the session picked, committed or not; the
\* listener and a command read the alerts once more, which raises when the
\* rollback expired them.
Tell(j) ==
    /\ job[j].pc = "tell"
    /\ job[j].kind = "scheduler" \/ job[j].kept \/ job[j].picked = {}
    /\ notices' = [a \in Alert |-> IF a \in job[j].picked /\ notices[a] < 2
                                   THEN notices[a] + 1 ELSE notices[a]]
    /\ job' = [job EXCEPT ![j] = Closed]
    /\ UNCHANGED row

\* An exception, a message that cannot be sent or the end of the process: the
\* session goes without a commit.  The scheduler scans even so if it could not
\* re-arm.
Fail(j) ==
    /\ job[j].pc # "idle"
    /\ job' = [job EXCEPT ![j] =
                  IF @.pc \in {"rearm", "rearming"}
                  THEN [@ EXCEPT !.pc = "list", !.picked = {}] ELSE Closed]
    /\ UNCHANGED <<row, notices>>

-----------------------------------------------------------------------------
(* Around the scans the investor adds alerts and drops tickers, and time     *)
(* passes.                                                                   *)

Remove(a) ==
    /\ row[a].status # "gone"
    /\ ~Locked(a)
    /\ row' = [row EXCEPT ![a] = Gone]
    /\ notices' = [notices EXCEPT ![a] = 0]
    /\ UNCHANGED job

\* A new row never has the id of one a session still holds.
Create(a) ==
    /\ row[a].status = "gone"
    /\ \A j \in Job : a \notin job[j].picked
    /\ row' = [row EXCEPT ![a] = Active]
    /\ notices' = [notices EXCEPT ![a] = 0]
    /\ UNCHANGED job

Tick ==
    /\ row' = [a \in Alert |-> IF row[a].status = "TRIGGERED"
                               THEN [row[a] EXCEPT !.age = Older(@)] ELSE row[a]]
    /\ job' = [j \in Job |-> IF Holds(j) # {} THEN [job[j] EXCEPT !.age = Older(@)]
                             ELSE job[j]]
    /\ UNCHANGED notices

Proceed(j) ==
    \/ RearmReads(j) \/ RearmCommits(j) \/ List(j) \/ Mark(j)
    \/ Commit(j) \/ Tell(j)

Next ==
    \/ \E j \in Job : Proceed(j) \/ Fail(j) \/ \E k \in Scanner : Open(j, k)
    \/ \E a \in Alert : Remove(a) \/ Create(a)
    \/ Tick

\* The scheduler's loop calls again and again while the market is open, every
\* session goes on or fails, and re-arming does not fail every time.
Fairness ==
    /\ WF_vars(Tick)
    /\ SF_vars(\E j \in Job : Open(j, "scheduler"))
    /\ \A j \in Job : /\ WF_vars(Proceed(j) \/ Fail(j))
                      /\ SF_vars(RearmReads(j))
                      /\ SF_vars(RearmCommits(j))

Spec     == Init /\ [][Next]_vars
FairSpec == Spec /\ Fairness

-----------------------------------------------------------------------------
\* Whatever sessions overlap or fail: an alert of a type that is not re-armed
\* by itself (PRICE_ABOVE, PRICE_BELOW) stays down once it was triggered.
OneShotStaysDown ==
    [][\A a \in Alert \ Repeating :
          row[a].status = "TRIGGERED" => row'[a].status # "ACTIVE"]_vars
=============================================================================

----------------------- MODULE ThesisLifecycleProofs -----------------------
(***************************************************************************)
(* Theorems about ThesisLifecycle for every set of theses and sessions,    *)
(* however they overlap: the types, that closed_at agrees with the status, *)
(* that no closing goes unannounced, that sessions which met no other      *)
(* implement ThesisStates, and when a ticker keeps one open thesis.        *)
(***************************************************************************)
EXTENDS MCThesisLifecycle, TLAPS

\* What a session has set is consistent by itself, so that any order of
\* commits leaves consistent rows.
ChangeOK ==
    \A s \in Session, t \in Thesis :
        LET c == change[s][t] IN
        /\ c.status \in Terminal => c.closedAt = "time"
        /\ c.status \in {"none", "ACTIVE"} => c.closedAt = "null"
        /\ c.status \in {"WEAKENING", "keep"} => c.closedAt = "keep"

-----------------------------------------------------------------------------
\* What the sessions and rows are is kept by the start of a job.
LEMMA TypedBegin ==
    ASSUME TypeOK, NEW s \in Session, NEW j, NEW p, NEW ts \in SUBSET Thesis,
           NEW c \in [Thesis -> Change],
           p \in {"picked", "checking", "thinking", "writing"},
           Begin(s, j, p, ts, c)
    PROVE  TypeOK'
  BY LifecycleAssumption DEF LifecycleAssumption, TypeOK, Begin

\* The changes that a job may start with are changes.
LEMMA ChangeTypes ==
    /\ NoChange \in Change
    /\ \A st \in Terminal : Closing(st) \in Change
    /\ \A t \in Thesis : \A c \in Change : Only(t, c) \in [Thesis -> Change]
    /\ [t \in Thesis |-> NoChange] \in [Thesis -> Change]
  BY DEF NoChange, Change, Closing, Terminal, Status, Only

\* Every initial state has the types.
LEMMA TypedInit == Init => TypeOK
  BY ChangeTypes DEF Init, TypeOK, StampOf, Status, Open, Terminal

\* So has every state after the start of a job,
LEMMA TypedStart ==
    ASSUME TypeOK, NEW s \in Session, Start(s) PROVE TypeOK'
<1>1. ASSUME NEW t \in Thesis, Create(s, t) \/ Delete(s, t) \/ Reactivate(s, t)
      PROVE  TypeOK'
  <2>1. /\ [status |-> "ACTIVE", closedAt |-> "null"] \in Change
        /\ [status |-> "none", closedAt |-> "null"] \in Change
        /\ [status |-> "ACTIVE",
            closedAt |-> IF row[t].closedAt = "time" THEN "null" ELSE "keep"] \in Change
    BY DEF Change, Status, Open
  <2> QED
    BY <1>1, <2>1, ChangeTypes, TypedBegin DEF Create, Delete, Reactivate
<1>2. ASSUME NEW t \in Thesis, NEW st \in Terminal,
             Close(s, t, st) \/ Edit(s, t) \/ SellPicks(s, t)
      PROVE  TypeOK'
  <2>1. "INVALIDATED" \in Terminal
    BY DEF Terminal
  <2> QED
    BY <1>2, <2>1, ChangeTypes, TypedBegin DEF Close, Edit, SellPicks
<1>3. ASSUME NEW t \in Thesis, NEW caller \in Reviews, Review(s, t, caller)
      PROVE  TypeOK'
  BY <1>3, ChangeTypes, TypedBegin DEF Review
<1>4. ASSUME NEW ts \in SUBSET Thesis, Scan(s, ts) PROVE TypeOK'
  BY <1>4, ChangeTypes, TypedBegin DEF Scan
<1>5. "CLOSED" \in Terminal
  BY DEF Terminal
<1> QED
  BY <1>1, <1>2, <1>3, <1>4, <1>5 DEF Start

\* The end of a session keeps the types if the rows have them.
LEMMA TypedEnd ==
    ASSUME TypeOK, NEW s \in Session, NEW how \in {"committed", "discarded", "failed"},
           End(s, how), row' \in [Thesis -> [status : Status, closedAt : {"null", "time"}]]
    PROVE  TypeOK'
  BY DEF TypeOK, End

\* and after a step of a session.
LEMMA TypedStep ==
    ASSUME TypeOK, NEW s \in Session, Step(s) \/ Fail(s) PROVE TypeOK'
<1> USE DEF TypeOK
<1>1. CASE SellLoads(s)
  <2>1. Closing("CLOSED") \in Change
    BY ChangeTypes DEF Terminal
  <2>2. CASE End(s, "failed") /\ UNCHANGED row
    BY <2>2, TypedEnd
  <2>3. ASSUME NEW t \in todo[s],
               change' = [change EXCEPT ![s][t] = Closing("CLOSED")]
        PROVE  change' \in [Session -> [Thesis -> Change]]
    BY <2>1, <2>3
  <2> QED
    BY <1>1, <2>2, <2>3 DEF SellLoads
<1>2. CASE Conflict(s)
  BY <1>2, TypedEnd DEF Conflict, ConflictChecked
<1>3. CASE ScanEnds(s)
  BY <1>3 DEF ScanEnds
<1>4. ASSUME NEW t \in Thesis, Judge(s, t) PROVE TypeOK'
  <2>1. Closing("INVALIDATED") \in Change
    BY ChangeTypes DEF Terminal
  <2>2. CASE change' = [change EXCEPT ![s][t] = Closing("INVALIDATED")]
    <3>1. change' \in [Session -> [Thesis -> Change]]
      BY <2>1, <2>2
    <3> QED
      BY <1>4, <3>1 DEF Judge
  <2>3. CASE UNCHANGED change
    BY <1>4, <2>3 DEF Judge
  <2> QED
    BY <1>4, <2>2, <2>3 DEF Judge
<1>5. ASSUME NEW t \in Thesis, Flush(s, t) PROVE TypeOK'
  BY <1>5 DEF Flush, Flushed
<1>6. ASSUME NEW v \in Status, NEW rec \in BOOLEAN, ReviewSaved(s, v, rec)
      PROVE  TypeOK'
  <2>1. v \in {"none", "WEAKENING"} /\ v \in Status
    BY <1>6 DEF ReviewSaved, Choices
  <2>2. [status |-> v, closedAt |-> "keep"] \in Change
    BY <2>1 DEF Change
  <2>3. change' \in [Session -> [Thesis -> Change]]
    <3>1. ASSUME NEW t \in todo[s],
                 change' = [change EXCEPT ![s][t] = [status |-> v, closedAt |-> "keep"]]
          PROVE  change' \in [Session -> [Thesis -> Change]]
      BY <2>2, <3>1
    <3> QED
      BY <1>6, <3>1 DEF ReviewSaved
  <2> QED
    BY <1>6, <2>1, <2>3 DEF ReviewSaved, Open, Terminal
<1>7. CASE Commit(s)
  <2>1. row' \in [Thesis -> [status : Status, closedAt : {"null", "time"}]]
    BY <1>7 DEF Commit, Overlay, Change
  <2> QED
    BY <1>7, <2>1, TypedEnd DEF Commit
<1>8. CASE LeaveUncommitted(s)
  BY <1>8, TypedEnd DEF LeaveUncommitted
<1>9. CASE Fail(s)
  BY <1>9, TypedEnd DEF Fail
<1> QED
  BY <1>1, <1>2, <1>3, <1>4, <1>5, <1>6, <1>7, <1>8, <1>9 DEF Step

\* The rows and the sessions have their types in every reachable state.
THEOREM TypeCorrect == Spec => []TypeOK
<1>1. TypeOK /\ [Next]_vars => TypeOK'
  <2>1. TypeOK /\ UNCHANGED vars => TypeOK'
    BY DEF TypeOK, vars
  <2> QED
    BY <2>1, TypedStart, TypedStep DEF Next
<1> QED
  BY <1>1, TypedInit, PTL DEF Spec

-----------------------------------------------------------------------------
Consistent == ChangeOK /\ StampAgrees

\* A session in memory stays consistent by itself.
LEMMA ChangeStart ==
    ASSUME TypeOK, Consistent, NEW s \in Session, Start(s) PROVE ChangeOK'
<1> USE DEF TypeOK, Consistent
<1>1. ASSUME NEW c \in [Thesis -> Change], change' = [change EXCEPT ![s] = c],
             \A t \in Thesis :
                 /\ c[t].status \in Terminal => c[t].closedAt = "time"
                 /\ c[t].status \in {"none", "ACTIVE"} => c[t].closedAt = "null"
                 /\ c[t].status \in {"WEAKENING", "keep"} => c[t].closedAt = "keep"
      PROVE  ChangeOK'
  BY <1>1 DEF ChangeOK
<1>2. ASSUME NEW t \in Thesis, NEW c \in Change,
             change' = [change EXCEPT ![s] = Only(t, c)],
             /\ c.status \in Terminal => c.closedAt = "time"
             /\ c.status \in {"none", "ACTIVE"} => c.closedAt = "null"
             /\ c.status \in {"WEAKENING", "keep"} => c.closedAt = "keep"
      PROVE  ChangeOK'
  <2>1. Only(t, c) \in [Thesis -> Change]
    BY ChangeTypes
  <2>2. \A u \in Thesis : Only(t, c)[u] = c \/ Only(t, c)[u] = NoChange
    BY DEF Only
  <2> DEFINE d == Only(t, c)
  <2>3. ASSUME NEW u \in Thesis
        PROVE  /\ d[u].status \in Terminal => d[u].closedAt = "time"
               /\ d[u].status \in {"none", "ACTIVE"} => d[u].closedAt = "null"
               /\ d[u].status \in {"WEAKENING", "keep"} => d[u].closedAt = "keep"
    <3>1. CASE d[u] = c
      <4> HIDE DEF d
      <4> QED
        BY <1>2, <3>1
    <3>2. CASE d[u] = NoChange
      <4> HIDE DEF d
      <4> QED
        BY <3>2 DEF NoChange, Terminal
    <3> QED
      BY <2>2, <3>1, <3>2
  <2> HIDE DEF d
  <2> QED
    BY <1>1, <1>2, <2>1, <2>3 DEF d
<1>3. ASSUME NEW t \in Thesis, Create(s, t) \/ Delete(s, t) \/ Reactivate(s, t)
      PROVE  ChangeOK'
  <2>1. /\ [status |-> "ACTIVE", closedAt |-> "null"] \in Change
        /\ [status |-> "none", closedAt |-> "null"] \in Change
    BY DEF Change, Status, Open
  <2>2. ASSUME Reactivate(s, t) PROVE row[t].closedAt = "time"
    BY <2>2 DEF Reactivate, StampAgrees
  <2> DEFINE active == [status |-> "ACTIVE", closedAt |-> "null"]
             none   == [status |-> "none", closedAt |-> "null"]
  <2>3. \/ change' = [change EXCEPT ![s] = Only(t, active)]
        \/ change' = [change EXCEPT ![s] = Only(t, none)]
    <3>1. CASE Create(s, t) \/ Delete(s, t)
      BY <3>1 DEF Create, Delete, Begin
    <3>2. CASE Reactivate(s, t)
      BY <2>2, <3>2 DEF Reactivate, Begin
    <3> QED
      BY <1>3, <3>1, <3>2
  <2> QED
    BY <1>2, <2>1, <2>3 DEF Terminal
<1>4. ASSUME NEW t \in Thesis, NEW st \in Terminal, Close(s, t, st) \/ Edit(s, t)
      PROVE  ChangeOK'
  <2>1. Closing(st) \in Change /\ Closing("INVALIDATED") \in Change
    BY ChangeTypes DEF Terminal
  <2> QED
    BY <1>2, <1>4, <2>1 DEF Close, Edit, Begin, Closing, Terminal
<1>5. ASSUME NEW t \in Thesis, NEW caller, SellPicks(s, t) \/ Review(s, t, caller)
      PROVE  ChangeOK'
  BY <1>2, <1>5, ChangeTypes DEF SellPicks, Review, Begin, NoChange, Terminal
<1>6. ASSUME NEW ts \in SUBSET Thesis, Scan(s, ts) PROVE ChangeOK'
  BY <1>1, <1>6, ChangeTypes DEF Scan, Begin, NoChange, Terminal
<1> QED
  BY <1>3, <1>4, <1>5, <1>6 DEF Start, Terminal

\* Setting one thesis to closed, or to WEAKENING alone, is consistent.
LEMMA ChangeSet ==
    ASSUME TypeOK, ChangeOK, NEW s \in Session, NEW t \in Thesis,
           NEW c \in {Closing("CLOSED"), Closing("INVALIDATED"),
                      [status |-> "WEAKENING", closedAt |-> "keep"]},
           change' = [change EXCEPT ![s][t] = c]
    PROVE  ChangeOK'
  BY DEF TypeOK, ChangeOK, Closing, Terminal

\* The later steps of a session keep its changes consistent.
LEMMA ChangeStep ==
    ASSUME TypeOK, Consistent, NEW s \in Session, Step(s) \/ Fail(s)
    PROVE  ChangeOK'
<1> USE DEF Consistent
<1>1. ASSUME UNCHANGED change PROVE ChangeOK'
  BY <1>1 DEF ChangeOK
<1>2. CASE SellLoads(s)
  <2>1. todo[s] \subseteq Thesis
    BY DEF TypeOK
  <2> QED
    BY <1>1, <1>2, <2>1, ChangeSet DEF SellLoads, End
<1>3. ASSUME NEW t \in Thesis, Judge(s, t) PROVE ChangeOK'
  BY <1>1, <1>3, ChangeSet DEF Judge
<1>4. ASSUME NEW v \in Status, NEW rec \in BOOLEAN, ReviewSaved(s, v, rec)
      PROVE  ChangeOK'
  <2>1. todo[s] \subseteq Thesis
    BY DEF TypeOK
  <2>2. v \in {"none", "WEAKENING"}
    BY <1>4 DEF ReviewSaved, Choices
  <2> QED
    BY <1>1, <1>4, <2>1, <2>2, ChangeSet DEF ReviewSaved
<1>5. CASE Conflict(s) \/ ScanEnds(s) \/ Commit(s) \/ LeaveUncommitted(s) \/ Fail(s)
  BY <1>1, <1>5 DEF Conflict, ConflictChecked, ScanEnds, Commit, LeaveUncommitted, Fail, End
<1>6. ASSUME NEW t \in Thesis, Flush(s, t) PROVE ChangeOK'
  BY <1>1, <1>6 DEF Flush, Flushed
<1> QED
  BY <1>2, <1>3, <1>4, <1>5, <1>6 DEF Step

\* Whatever is committed over whatever row, closed_at agrees with the status.
LEMMA StampCommit ==
    ASSUME TypeOK, Consistent, NEW s \in Session, Commit(s) PROVE StampAgrees'
<1> SUFFICES ASSUME NEW t \in Thesis
             PROVE  /\ row'[t].status \in Terminal => row'[t].closedAt = "time"
                    /\ row'[t].status \in {"none", "ACTIVE"} => row'[t].closedAt = "null"
  BY DEF StampAgrees
<1> DEFINE c == change[s][t]
<1>1. c \in Change /\ row[t] \in [status : Status, closedAt : {"null", "time"}]
  BY DEF TypeOK
<1>2. /\ c.status \in Terminal => c.closedAt = "time"
      /\ c.status \in {"none", "ACTIVE"} => c.closedAt = "null"
      /\ c.status \in {"WEAKENING", "keep"} => c.closedAt = "keep"
  BY DEF Consistent, ChangeOK
<1>3. row'[t] = row[t] \/ row'[t] = Overlay(row[t], c)
  BY DEF Commit
<1>4. CASE row'[t] = row[t]
  BY <1>4 DEF Consistent, StampAgrees
<1>5. CASE row'[t] = Overlay(row[t], c)
  <2>1. /\ row[t].status \in Terminal => row[t].closedAt = "time"
        /\ row[t].status \in {"none", "ACTIVE"} => row[t].closedAt = "null"
    BY DEF Consistent, StampAgrees
  <2>2. c.status \in {"none", "ACTIVE", "WEAKENING", "keep"} \cup Terminal
    BY <1>1 DEF Change, Status, Open
  <2> HIDE DEF c
  <2> QED
    BY <1>2, <1>5, <2>1, <2>2 DEF Overlay, Terminal
<1> QED
  BY <1>3, <1>4, <1>5

\* closed_at says whether a thesis is closed, for every set of overlapping
\* sessions: no interleaving of stale writes makes an ACTIVE thesis with a
\* closing time or a closed one without.
THEOREM StampAgreesAlways == Spec => []StampAgrees
<1>1. Init => Consistent
  BY DEF Init, Consistent, ChangeOK, StampAgrees, NoChange, StampOf, Terminal
<1>2. TypeOK /\ Consistent /\ [Next]_vars => Consistent'
  <2> SUFFICES ASSUME TypeOK, Consistent, [Next]_vars PROVE Consistent'
    OBVIOUS
  <2>1. ASSUME UNCHANGED row PROVE StampAgrees'
    BY <2>1 DEF Consistent, StampAgrees
  <2>2. ASSUME NEW s \in Session, Start(s) PROVE Consistent'
    <3>1. UNCHANGED row
      BY <2>2 DEF Start, Create, Delete, Reactivate, Close, Edit, SellPicks,
         Review, Scan, Begin
    <3> QED
      BY <2>1, <2>2, <3>1, ChangeStart DEF Consistent
  <2>3. ASSUME NEW s \in Session, Step(s) \/ Fail(s) PROVE Consistent'
    <3>1. Commit(s) \/ UNCHANGED row
      BY <2>3 DEF Step, Fail, SellLoads, Conflict, ConflictChecked, ScanEnds,
         Judge, Flush, Flushed, ReviewSaved, LeaveUncommitted
    <3> QED
      BY <2>1, <2>3, <3>1, ChangeStep, StampCommit DEF Consistent
  <2>4. CASE UNCHANGED vars
    BY <2>1, <2>4 DEF vars, Consistent, ChangeOK
  <2> QED
    BY <2>2, <2>3, <2>4 DEF Next
<1>3. Consistent => StampAgrees
  BY DEF Consistent
<1> QED
  BY <1>1, <1>2, <1>3, TypeCorrect, PTL DEF Spec

-----------------------------------------------------------------------------
\* The jobs whose flush is followed by a ThesisClosedEvent.
Tells == {"close", "sell", "scan"}

\* Between two awaits a session sets one row and flushes it, and until the
\* flush is done a closing may be still to announce.
OneWrite(s) ==
    /\ pc[s] \in {"writing", "checking"} => \A t, u \in Unflushed(s) : t = u
    /\ pc[s] \in {"picked", "thinking"} => Unflushed(s) = {}

Told(s) ==
    /\ job[s] \in Tells => flushed[s] \subseteq announced[s]
    /\ pc[s] = "picked" => job[s] = "sell"
    /\ pc[s] = "new" => flushed[s] = {}
    /\ outcome[s] # "none" => pc[s] = "ended"

Pending(s) ==
    \A t \in Thesis :
        change[s][t].status \in Terminal /\ job[s] # "edit" /\ outcome[s] # "failed"
            => t \in announced[s] \/ (pc[s] = "writing" /\ job[s] \in Tells)

Paired(s) == OneWrite(s) /\ Told(s) /\ Pending(s)

\* What jobs start with: nothing set, or one row set for the writing, checked
\* first for a reactivate.
Starts(s, j, p, ts, t, c) ==
    /\ Begin(s, j, p, ts, Only(t, c))
    /\ p \in {"picked", "checking", "thinking", "writing"}
    /\ p \in {"picked", "thinking"} => c = NoChange
    /\ p = "picked" => j = "sell"
    /\ c.status \in Terminal => p = "writing" /\ j \in Tells \cup {"edit"}

StartsOne(s, t) == \E j, p, ts : \E c \in Change : Starts(s, j, p, ts, t, c)

\* Every start is a scan or has that shape.
LEMMA StartShape ==
    ASSUME TypeOK, NEW s \in Session, Start(s)
    PROVE  \/ \E ts : Begin(s, "scan", "thinking", ts, [t \in Thesis |-> NoChange])
           \/ \E t \in Thesis : StartsOne(s, t)
<1>1. ASSUME NEW t \in Thesis,
             Create(s, t) \/ SellPicks(s, t) \/ Delete(s, t) \/ Reactivate(s, t)
      PROVE  StartsOne(s, t)
  <2>1. /\ [status |-> "ACTIVE", closedAt |-> "null"] \in Change
        /\ [status |-> "none", closedAt |-> "null"] \in Change
        /\ [status |-> "ACTIVE",
            closedAt |-> IF row[t].closedAt = "time" THEN "null" ELSE "keep"] \in Change
    BY DEF Change, Status, Open
  <2>2. CASE Create(s, t)
    BY <2>1, <2>2 DEF Create, StartsOne, Starts, Terminal
  <2>3. CASE Delete(s, t)
    BY <2>1, <2>3 DEF Delete, StartsOne, Starts, Terminal
  <2>4. CASE Reactivate(s, t)
    <3> DEFINE d == [status |-> "ACTIVE",
                     closedAt |-> IF row[t].closedAt = "time" THEN "null" ELSE "keep"]
    <3>1. d.status \notin Terminal
      BY DEF Terminal
    <3>2. d \in Change /\ Begin(s, "reactivate", "checking", {t}, Only(t, d))
      BY <2>1, <2>4 DEF Reactivate
    <3> HIDE DEF d
    <3>3. Starts(s, "reactivate", "checking", {t}, t, d)
      BY <3>1, <3>2 DEF Starts
    <3> QED
      BY <3>2, <3>3 DEF StartsOne
  <2>5. CASE SellPicks(s, t)
    <3>1. Starts(s, "sell", "picked", {t}, t, NoChange)
      BY <2>5 DEF SellPicks, Starts, NoChange, Terminal
    <3> QED
      BY <3>1, ChangeTypes DEF StartsOne
  <2> QED
    BY <1>1, <2>2, <2>3, <2>4, <2>5
<1>2. ASSUME NEW t \in Thesis, NEW st \in Terminal, Close(s, t, st) \/ Edit(s, t)
      PROVE  StartsOne(s, t)
  <2>1. Closing(st) \in Change /\ Closing("INVALIDATED") \in Change
    BY ChangeTypes DEF Terminal
  <2> QED
    BY <1>2, <2>1 DEF Close, Edit, StartsOne, Starts, Tells
<1>3. ASSUME NEW t \in Thesis, NEW caller, Review(s, t, caller)
      PROVE  StartsOne(s, t)
  <2>1. Starts(s, caller, "thinking", {t}, t, NoChange)
    BY <1>3 DEF Review, Starts, NoChange, Terminal
  <2> QED
    BY <2>1, ChangeTypes DEF StartsOne
<1>4. ASSUME NEW ts, Scan(s, ts)
      PROVE  Begin(s, "scan", "thinking", ts, [t \in Thesis |-> NoChange])
  BY <1>4 DEF Scan
<1>5. "CLOSED" \in Terminal
  BY DEF Terminal
<1> QED
  BY <1>1, <1>2, <1>3, <1>4, <1>5 DEF Start

\* A step of one session leaves the others as they were,
LEMMA OthersSame ==
    ASSUME TypeOK, NEW s \in Session, NEW r \in Session \ {s},
           Start(s) \/ Step(s) \/ Fail(s)
    PROVE  /\ pc'[r] = pc[r] /\ job'[r] = job[r] /\ todo'[r] = todo[r]
           /\ change'[r] = change[r] /\ flushed'[r] = flushed[r]
           /\ announced'[r] = announced[r] /\ outcome'[r] = outcome[r]
<1> DEFINE Same == /\ pc'[r] = pc[r] /\ job'[r] = job[r] /\ todo'[r] = todo[r]
                   /\ change'[r] = change[r] /\ flushed'[r] = flushed[r]
                   /\ announced'[r] = announced[r] /\ outcome'[r] = outcome[r]
<1> USE DEF TypeOK
<1>1. CASE Start(s)
  BY <1>1, StartShape DEF StartsOne, Starts, Begin
<1>2. CASE SellLoads(s) \/ Conflict(s) \/ ScanEnds(s) \/ Commit(s)
           \/ LeaveUncommitted(s) \/ Fail(s)
  BY <1>2 DEF SellLoads, Conflict, ConflictChecked, ScanEnds, Commit,
     LeaveUncommitted, Fail, End
<1>3. ASSUME NEW t \in Thesis, Judge(s, t) \/ Flush(s, t)
      PROVE  Same
  BY <1>3 DEF Judge, Flush, Flushed
<1>4. ASSUME NEW v \in Status, NEW rec \in BOOLEAN, ReviewSaved(s, v, rec)
      PROVE  Same
  BY <1>4 DEF ReviewSaved
<1> QED
  BY <1>1, <1>2, <1>3, <1>4 DEF Step

\* their pairing included.
LEMMA OthersKept ==
    ASSUME TypeOK, NEW s \in Session, NEW r \in Session \ {s}, Paired(r),
           Start(s) \/ Step(s) \/ Fail(s)
    PROVE  Paired(r)'
  BY OthersSame DEF Paired, OneWrite, Told, Pending, Unflushed

\* A session starts with one row set at most, and no closing flushed.
LEMMA PairedStart ==
    ASSUME TypeOK, NEW s \in Session, Paired(s), Start(s) PROVE Paired(s)'
<1> USE DEF TypeOK
<1>1. ASSUME NEW j, NEW p, NEW ts, NEW t \in Thesis, NEW c \in Change,
             Starts(s, j, p, ts, t, c)
      PROVE  Paired(s)'
  <2>1. /\ pc[s] = "new" /\ pc'[s] = p /\ job'[s] = j
        /\ flushed'[s] = flushed[s] /\ outcome'[s] = outcome[s] /\ p # "new"
        /\ \A u \in Thesis : change'[s][u] = IF u = t THEN c ELSE NoChange
    BY <1>1 DEF Starts, Begin, Only
  <2>2. OneWrite(s)'
    BY <1>1, <2>1 DEF Starts, OneWrite, Unflushed
  <2>3. Told(s)'
    BY <1>1, <2>1 DEF Starts, Paired, Told
  <2>4. Pending(s)'
    <3>1. c.status \in Terminal => p = "writing" /\ j \in Tells \cup {"edit"}
      BY <1>1 DEF Starts
    <3>2. NoChange.status \notin Terminal
      BY DEF NoChange, Terminal
    <3> QED
      BY <2>1, <3>1, <3>2 DEF Pending
  <2> QED
    BY <2>2, <2>3, <2>4 DEF Paired
<1>2. ASSUME NEW ts, Begin(s, "scan", "thinking", ts, [t \in Thesis |-> NoChange])
      PROVE  Paired(s)'
  BY <1>2 DEF Begin, Paired, OneWrite, Unflushed, Told, Pending, NoChange, Terminal
<1> QED
  BY <1>1, <1>2, StartShape DEF StartsOne

\* Every later step keeps the pairing: what a flush writes is announced with it.
LEMMA PairedStep ==
    ASSUME TypeOK, NEW s \in Session, Paired(s), Step(s) \/ Fail(s) PROVE Paired(s)'
<1> USE DEF TypeOK, Paired
<1>1. ASSUME pc'[s] = "ended", job' = job, change' = change, announced' = announced,
             flushed'[s] = {},
             outcome'[s] = "failed" \/ pc[s] = "committing"
      PROVE  Paired(s)'
  BY <1>1 DEF OneWrite, Told, Pending
<1>2. ASSUME NEW how, End(s, how), how = "failed" \/ pc[s] = "committing"
      PROVE  Paired(s)'
  BY <1>1, <1>2 DEF End
<1>3. ASSUME NEW t \in Thesis, NEW c, pc'[s] = "writing", pc[s] \in {"picked", "thinking"},
             change' = [change EXCEPT ![s][t] = c], job' = job, flushed' = flushed,
             announced' = announced, outcome' = outcome,
             c.status \in Terminal => job[s] \in Tells
      PROVE  Paired(s)'
  <2>1. Unflushed(s) = {}
    BY <1>3 DEF OneWrite
  <2>2. \A u \in Thesis : u # t => change'[s][u] = change[s][u]
    BY <1>3
  <2>3. Unflushed(s)' \subseteq {t}
    BY <1>3, <2>1, <2>2 DEF Unflushed
  <2>4. change'[s][t] = c
    BY <1>3
  <2>5. Pending(s)'
    <3>1. ASSUME NEW u \in Thesis, u # t, change[s][u].status \in Terminal,
                 job[s] # "edit", outcome[s] # "failed"
          PROVE  u \in announced[s]
      BY <1>3, <3>1 DEF Pending
    <3> QED
      BY <1>3, <2>2, <2>4, <3>1 DEF Pending
  <2>6. OneWrite(s)' /\ Told(s)'
    BY <1>3, <2>3 DEF OneWrite, Told
  <2> QED
    BY <2>5, <2>6
<1>4. CASE SellLoads(s)
  <2>1. job[s] \in Tells
    BY <1>4 DEF SellLoads, Told, Tells
  <2> QED
    BY <1>2, <1>3, <1>4, <2>1 DEF SellLoads
<1>5. CASE Conflict(s)
  <2>1. CASE End(s, "failed")
    BY <1>2, <2>1
  <2>2. CASE pc' = [pc EXCEPT ![s] = "writing"]
    BY <1>5, <2>2 DEF Conflict, ConflictChecked, End, OneWrite, Told, Pending, Unflushed
  <2> QED
    BY <1>5, <2>1, <2>2 DEF Conflict, ConflictChecked
<1>6. CASE ScanEnds(s)
  BY <1>6 DEF ScanEnds, OneWrite, Told, Pending
<1>7. ASSUME NEW t \in Thesis, Judge(s, t) PROVE Paired(s)'
  <2>1. CASE UNCHANGED <<change, pc>>
    BY <1>7, <2>1 DEF Judge, OneWrite, Told, Pending, Unflushed
  <2>2. CASE pc' = [pc EXCEPT ![s] = "writing"]
    BY <1>3, <1>7, <2>2 DEF Judge, Tells
  <2> QED
    BY <1>7, <2>1, <2>2 DEF Judge
<1>8. ASSUME NEW t \in Thesis, Flush(s, t) PROVE Paired(s)'
  <2> USE DEF Flush, Flushed
  <2>1. \A u \in Unflushed(s) : u = t
    BY <1>8 DEF OneWrite
  <2>2. Unflushed(s)' = {}
    BY <1>8, <2>1 DEF Unflushed
  <2>3. Told(s)'
    BY <1>8 DEF Told, Tells
  <2>4. Pending(s)'
    <3>1. ASSUME NEW u \in Thesis, change[s][u].status \in Terminal, job[s] \in Tells
          PROVE  u \in announced'[s]
      <4>1. u \in flushed[s] \/ u \in Unflushed(s)
        BY <3>1 DEF Unflushed, NoChange, Terminal
      <4> QED
        BY <1>8, <2>1, <3>1, <4>1 DEF Told, Tells
    <3> QED
      BY <1>8, <3>1 DEF Pending
  <2> QED
    BY <1>8, <2>2, <2>3, <2>4 DEF OneWrite
<1>9. ASSUME NEW v \in Status, NEW rec \in BOOLEAN, ReviewSaved(s, v, rec)
      PROVE  Paired(s)'
  <2>1. CASE pc' = [pc EXCEPT ![s] = "committing"] /\ UNCHANGED change
    BY <1>9, <2>1 DEF ReviewSaved, OneWrite, Told, Pending
  <2>2. ASSUME NEW t \in todo[s], pc' = [pc EXCEPT ![s] = "writing"],
               change' = [change EXCEPT ![s][t] = [status |-> v, closedAt |-> "keep"]]
        PROVE  Paired(s)'
    <3>1. [status |-> v, closedAt |-> "keep"].status \notin Terminal
      BY <1>9 DEF ReviewSaved, Choices, Terminal
    <3> QED
      BY <1>3, <1>9, <2>2, <3>1 DEF ReviewSaved
  <2> QED
    BY <1>9, <2>1, <2>2 DEF ReviewSaved
<1>10. CASE Commit(s)
  BY <1>2, <1>10 DEF Commit
<1>11. CASE LeaveUncommitted(s)
  BY <1>2, <1>11 DEF LeaveUncommitted
<1>12. CASE Fail(s)
  BY <1>2, <1>12 DEF Fail
<1> QED
  BY <1>4, <1>5, <1>6, <1>7, <1>8, <1>9, <1>10, <1>11, <1>12 DEF Step

\* No session commits the closing of a thesis without its ThesisClosedEvent,
\* the automatic invalidation excepted, whatever the other sessions do.
THEOREM ClosingIsAnnouncedAlways == Spec => []ClosingIsAnnounced
<1> DEFINE P == \A s \in Session : Paired(s)
<1>1. Init => P
  BY DEF Init, Paired, OneWrite, Told, Pending, NoChange, Terminal
<1>2. TypeOK /\ P /\ [Next]_vars => P'
  <2>1. TypeOK /\ P /\ Next => P'
    BY OthersKept, PairedStart, PairedStep DEF Next
  <2>2. P /\ UNCHANGED vars => P'
    BY DEF vars, Paired, OneWrite, Told, Pending, Unflushed
  <2> QED
    BY <2>1, <2>2
<1>3. P => ClosingIsAnnounced
  BY DEF Paired, Pending, Told, ClosingIsAnnounced
<1> QED
  BY <1>1, <1>2, <1>3, TypeCorrect, PTL DEF Spec

-----------------------------------------------------------------------------
(* The refinement.  A session decides on rows that it read some awaits      *)
(* before it writes, and nothing looks again.  If it met no other session,  *)
(* what it has set still fits the rows when it commits.                     *)

\* A session with one row set, or, in a scan, with rows that it invalidates.
One(c)     == \E t \in Thesis : \A u \in Thesis \ {t} : c[u] = NoChange
Scanned(c) == \A u \in Thesis : c[u] \in {NoChange, Closing("INVALIDATED")}
Blank(c)   == \A u \in Thesis : c[u] = NoChange

\* What a session at p, for j, with ts to do, may have set.
ShapeOf(p, j, ts, c) ==
    /\ p = "new" => j = "none" /\ Blank(c)
    /\ p = "picked" \/ (p = "thinking" /\ j \in Reviews) => Blank(c)
    /\ One(c) \/ Scanned(c)
    /\ j = "scan" => Scanned(c)
    /\ \A t \in Thesis :
          /\ c[t].status = "ACTIVE" => j \in {"create", "reactivate"}
          /\ c[t].status = "WEAKENING" => j \in Reviews
          /\ p = "checking" /\ c[t].status = "ACTIVE" => ts = {t}

\* Setting c[t] suits the row of t as it is.
Suits(p, j, t, st) ==
    /\ st = "ACTIVE" /\ j = "create" => row[t].status = "none"
    /\ st = "ACTIVE" /\ j = "reactivate" =>
          row[t].status \in Terminal /\ (p # "checking" => ~HasOther(t, Open))
    /\ st = "none" => row[t].status # "none"
    /\ st = "WEAKENING" => row[t].status = "ACTIVE"
    /\ st \in Terminal => row[t].status \in Open

FitsOf(p, j, ts, c) ==
    /\ \A t \in Thesis : Suits(p, j, t, c[t].status)
    /\ j \in Reviews \cup {"scan"} => \A t \in ts : row[t].status = "ACTIVE"

Shaped(s) == ShapeOf(pc[s], job[s], todo[s], change[s])
Fits(s)   == FitsOf(pc[s], job[s], todo[s], change[s])

Meets    == \A r, s \in Running : r # s => s \in met
LoneFits == \A s \in Running \ met : Fits(s)

\* One row set is a good shape,
LEMMA OnlyShape ==
    ASSUME NEW p, NEW j, NEW ts, NEW t \in Thesis, NEW c,
           p # "new", j # "scan",
           p = "picked" \/ (p = "thinking" /\ j \in Reviews) => c = NoChange,
           c.status = "ACTIVE" => j \in {"create", "reactivate"},
           c.status = "WEAKENING" => j \in Reviews,
           p = "checking" => ts = {t}
    PROVE  ShapeOf(p, j, ts, Only(t, c))
<1>1. /\ Only(t, c)[t] = c
      /\ \A u \in Thesis \ {t} : Only(t, c)[u] = NoChange
  BY DEF Only
<1>2. NoChange.status = "keep"
  BY DEF NoChange
<1>3. One(Only(t, c))
  BY <1>1 DEF One
<1>4. c = NoChange => Blank(Only(t, c))
  BY <1>1 DEF Blank
<1>5. ASSUME NEW u \in Thesis
      PROVE  /\ Only(t, c)[u].status = "ACTIVE" => j \in {"create", "reactivate"}
             /\ Only(t, c)[u].status = "WEAKENING" => j \in Reviews
             /\ p = "checking" /\ Only(t, c)[u].status = "ACTIVE" => ts = {u}
  BY <1>1, <1>2
<1> QED
  BY <1>3, <1>4, <1>5 DEF ShapeOf

\* and fits if it suits its row.
LEMMA OnlyFits ==
    ASSUME NEW p, NEW j, NEW ts, NEW t \in Thesis, NEW c, Suits(p, j, t, c.status),
           j \in Reviews \cup {"scan"} => \A u \in ts : row[u].status = "ACTIVE"
    PROVE  FitsOf(p, j, ts, Only(t, c))
<1>1. /\ Only(t, c)[t] = c
      /\ \A u \in Thesis \ {t} : Only(t, c)[u] = NoChange
  BY DEF Only
<1>2. \A u : Suits(p, j, u, "keep")
  BY DEF Suits, Terminal
<1>3. NoChange.status = "keep"
  BY DEF NoChange
<1> QED
  BY <1>1, <1>2, <1>3 DEF FitsOf

\* The start of a job reads the rows as they are.
LEMMA FitsStart ==
    ASSUME TypeOK, NEW s \in Session, Start(s)
    PROVE  Shaped(s)' /\ Fits(s)' /\ row' = row /\ pc'[s] \notin {"new", "ended"}
<1> DEFINE Goal == Shaped(s)' /\ Fits(s)' /\ row' = row /\ pc'[s] \notin {"new", "ended"}
<1>1. ASSUME NEW j, NEW p, NEW ts, NEW c, Begin(s, j, p, ts, c),
             p \notin {"new", "ended"}, ShapeOf(p, j, ts, c), FitsOf(p, j, ts, c)
      PROVE  Goal
  <2>1. /\ pc'[s] = p /\ job'[s] = j /\ todo'[s] = ts /\ change'[s] = c /\ row' = row
    BY <1>1 DEF Begin, TypeOK
  <2> QED
    BY <1>1, <2>1 DEF Shaped, Fits, FitsOf, Suits, HasOther
<1>2. ASSUME NEW j, NEW p, NEW ts, NEW t \in Thesis, NEW c, Begin(s, j, p, ts, Only(t, c)),
             p \in {"picked", "checking", "thinking", "writing"}, j # "scan",
             p = "picked" \/ (p = "thinking" /\ j \in Reviews) => c = NoChange,
             c.status = "ACTIVE" => j \in {"create", "reactivate"},
             c.status = "WEAKENING" => j \in Reviews,
             p = "checking" => ts = {t},
             Suits(p, j, t, c.status),
             j \in Reviews => \A u \in ts : row[u].status = "ACTIVE"
      PROVE  Goal
  <2>1. ShapeOf(p, j, ts, Only(t, c))
    BY <1>2, OnlyShape
  <2>2. FitsOf(p, j, ts, Only(t, c))
    BY <1>2, OnlyFits
  <2> QED
    BY <1>1, <1>2, <2>1, <2>2
<1> USE DEF Suits, Terminal, Open, Reviews
<1>3. ASSUME NEW t \in Thesis, Create(s, t) PROVE Goal
  <2> DEFINE c == [status |-> "ACTIVE", closedAt |-> "null"]
  <2>1. Begin(s, "create", "writing", {}, Only(t, c)) /\ row[t].status = "none"
        /\ c.status = "ACTIVE"
    BY <1>3 DEF Create
  <2> HIDE DEF c, Goal
  <2> QED
    BY <1>2, <2>1
<1>4. ASSUME NEW t \in Thesis, Delete(s, t) PROVE Goal
  <2> DEFINE c == [status |-> "none", closedAt |-> "null"]
  <2>1. Begin(s, "delete", "writing", {}, Only(t, c)) /\ row[t].status # "none"
        /\ c.status = "none"
    BY <1>4 DEF Delete
  <2> HIDE DEF c, Goal
  <2> QED
    BY <1>2, <2>1
<1>5. ASSUME NEW t \in Thesis, NEW st \in Terminal, Close(s, t, st) PROVE Goal
  <2> DEFINE c == Closing(st)
  <2>1. Begin(s, "close", "writing", {}, Only(t, c)) /\ row[t].status \in Open
        /\ c.status \in Terminal
    BY <1>5 DEF Close, Closing
  <2> HIDE DEF c, Goal
  <2> QED
    BY <1>2, <2>1
<1>6. ASSUME NEW t \in Thesis, Edit(s, t) PROVE Goal
  <2> DEFINE c == Closing("INVALIDATED")
  <2>1. Begin(s, "edit", "writing", {}, Only(t, c)) /\ row[t].status = "ACTIVE"
        /\ c.status = "INVALIDATED"
    BY <1>6 DEF Edit, Closing
  <2> HIDE DEF c, Goal
  <2> QED
    BY <1>2, <2>1
<1>7. ASSUME NEW t \in Thesis, SellPicks(s, t) PROVE Goal
  <2>1. Begin(s, "sell", "picked", {t}, Only(t, NoChange)) /\ NoChange.status = "keep"
    BY <1>7 DEF SellPicks, NoChange
  <2> HIDE DEF Goal
  <2> QED
    BY <1>2, <2>1
<1>8. ASSUME NEW t \in Thesis, Reactivate(s, t) PROVE Goal
  <2> DEFINE c == [status |-> "ACTIVE",
                   closedAt |-> IF row[t].closedAt = "time" THEN "null" ELSE "keep"]
  <2>1. Begin(s, "reactivate", "checking", {t}, Only(t, c)) /\ row[t].status \in Terminal
        /\ c.status = "ACTIVE"
    BY <1>8 DEF Reactivate
  <2> HIDE DEF c, Goal
  <2> QED
    BY <1>2, <2>1
<1>9. ASSUME NEW t \in Thesis, NEW caller \in Reviews, Review(s, t, caller) PROVE Goal
  <2>1. /\ Begin(s, caller, "thinking", {t}, Only(t, NoChange)) /\ NoChange.status = "keep"
        /\ row[t].status = "ACTIVE" /\ caller # "scan"
    BY <1>9 DEF Review, NoChange
  <2> HIDE DEF Goal
  <2> QED
    BY <1>2, <1>9, <2>1
<1>10. ASSUME NEW ts, Scan(s, ts) PROVE Goal
  <2> DEFINE c == [t \in Thesis |-> NoChange]
  <2>1. Begin(s, "scan", "thinking", ts, c) /\ \A t \in ts : row[t].status = "ACTIVE"
    BY <1>10 DEF Scan
  <2>2. \A t \in Thesis : c[t] = NoChange /\ c[t].status = "keep"
    BY DEF NoChange
  <2> HIDE DEF c, Goal
  <2>3. ShapeOf("thinking", "scan", ts, c)
    BY <2>2 DEF ShapeOf, Scanned
  <2>4. FitsOf("thinking", "scan", ts, c)
    BY <2>1, <2>2 DEF FitsOf
  <2> QED
    BY <1>1, <2>1, <2>3, <2>4
<1> QED
  BY <1>3, <1>4, <1>5, <1>6, <1>7, <1>8, <1>9, <1>10 DEF Start

\* The later steps of a session keep its shape, and, until it ends, its fit.
LEMMA FitsStep ==
    ASSUME TypeOK, NEW s \in Session, Shaped(s), Told(s), Step(s) \/ Fail(s)
    PROVE  /\ Shaped(s)'
           /\ Fits(s) /\ pc'[s] # "ended" => Fits(s)' /\ row' = row
           /\ pc[s] \notin {"new", "ended"} /\ pc'[s] # "new"
           /\ Commit(s) \/ row' = row
<1> DEFINE Goal == /\ Shaped(s)'
                   /\ Fits(s) /\ pc'[s] # "ended" => Fits(s)' /\ row' = row
                   /\ pc[s] \notin {"new", "ended"} /\ pc'[s] # "new"
                   /\ Commit(s) \/ row' = row
<1>0. /\ todo[s] \subseteq Thesis
      /\ Shaped(s) <=> ShapeOf(pc[s], job[s], todo[s], change[s])
      /\ Shaped(s)' <=> ShapeOf(pc'[s], job'[s], todo'[s], change'[s])
  BY DEF TypeOK, Shaped
<1>1. ASSUME NEW how, End(s, how), pc[s] \notin {"new", "ended"}, Commit(s) \/ row' = row
      PROVE  Goal
  <2>1. /\ pc'[s] = "ended" /\ job'[s] = job[s] /\ todo'[s] = {} /\ change'[s] = change[s]
    BY <1>1 DEF TypeOK, End
  <2>2. ShapeOf("ended", job[s], {}, change[s])
    BY <1>0 DEF ShapeOf
  <2> QED
    BY <1>0, <1>1, <2>1, <2>2
\* A step that sets nothing.
<1>2. ASSUME pc[s] \notin {"new", "ended"}, pc'[s] \notin {"new", "picked", "ended", "checking"},
             pc'[s] = "thinking" => job[s] = "scan" \/ pc[s] = "thinking",
             job' = job, change' = change, row' = row, todo'[s] \subseteq todo[s],
             pc[s] = "checking" => \A t \in todo[s] : ~HasOther(t, Open)
      PROVE  Goal
  <2>1. ShapeOf(pc'[s], job[s], todo'[s], change[s])
    BY <1>0, <1>2 DEF ShapeOf, Reviews
  <2>2. ASSUME Fits(s) PROVE Fits(s)'
    <3>1. ASSUME NEW t \in Thesis PROVE Suits(pc'[s], job[s], t, change[s][t].status)
      <4>1. Suits(pc[s], job[s], t, change[s][t].status)
        BY <2>2 DEF Fits, FitsOf
      <4>2. CASE pc[s] = "checking" /\ change[s][t].status = "ACTIVE"
        <5>1. todo[s] = {t}
          BY <1>0, <4>2 DEF ShapeOf
        <5> QED
          BY <1>2, <4>1, <4>2, <5>1 DEF Suits, Terminal
      <4>3. CASE ~(pc[s] = "checking" /\ change[s][t].status = "ACTIVE")
        BY <4>1, <4>3 DEF Suits
      <4> QED
        BY <4>2, <4>3
    <3>2. job[s] \in Reviews \cup {"scan"} => \A t \in todo'[s] : row[t].status = "ACTIVE"
      BY <1>2, <2>2 DEF Fits, FitsOf
    <3>3. FitsOf(pc'[s], job[s], todo'[s], change[s])
      BY <3>1, <3>2 DEF FitsOf
    <3> QED
      BY <1>2, <3>3 DEF Fits, FitsOf, Suits, HasOther
  <2> QED
    BY <1>0, <1>2, <2>1, <2>2
\* A step that sets the status of one thesis.
<1>3. ASSUME NEW t \in Thesis, NEW c \in Change, pc[s] \in {"picked", "thinking"},
             pc'[s] = "writing", job' = job, row' = row, todo'[s] \subseteq todo[s],
             change' = [change EXCEPT ![s][t] = c],
             c.status \in {"WEAKENING"} \cup Terminal,
             c.status = "WEAKENING" => job[s] \in Reviews /\ (Fits(s) => row[t].status = "ACTIVE"),
             c.status \in Terminal => (Fits(s) => row[t].status \in Open),
             job[s] = "scan" => c = Closing("INVALIDATED"),
             job[s] # "scan" => Blank(change[s])
      PROVE  Goal
  <2>1. /\ change'[s][t] = c
        /\ \A u \in Thesis \ {t} : change'[s][u] = change[s][u]
    BY <1>3 DEF TypeOK
  <2>2. c.status \notin {"ACTIVE", "none"}
    BY <1>3 DEF Terminal
  <2>3. job[s] # "scan" => One(change'[s])
    BY <1>3, <2>1 DEF One, Blank
  <2>4. job[s] = "scan" => Scanned(change'[s])
    BY <1>0, <1>3, <2>1 DEF ShapeOf, Scanned
  <2>5. ASSUME NEW u \in Thesis
        PROVE  /\ change'[s][u].status = "ACTIVE" => job[s] \in {"create", "reactivate"}
               /\ change'[s][u].status = "WEAKENING" => job[s] \in Reviews
    <3>1. CASE u = t
      BY <1>3, <2>1, <2>2, <3>1
    <3>2. CASE u # t
      BY <1>0, <2>1, <3>2 DEF ShapeOf
    <3> QED
      BY <3>1, <3>2
  <2>6. ShapeOf("writing", job[s], todo'[s], change'[s])
    BY <2>3, <2>4, <2>5 DEF ShapeOf
  <2>7. ASSUME Fits(s) PROVE Fits(s)'
    <3>1. ASSUME NEW u \in Thesis PROVE Suits("writing", job[s], u, change'[s][u].status)
      <4>1. CASE u = t
        BY <1>3, <2>1, <2>2, <2>7, <4>1 DEF Suits, Terminal
      <4>2. CASE u # t
        <5>1. Suits(pc[s], job[s], u, change[s][u].status) /\ pc[s] # "checking"
          BY <1>3, <2>7 DEF Fits, FitsOf
        <5> QED
          BY <2>1, <4>2, <5>1 DEF Suits
      <4> QED
        BY <4>1, <4>2
    <3>2. job[s] \in Reviews \cup {"scan"} => \A u \in todo'[s] : row[u].status = "ACTIVE"
      BY <1>3, <2>7 DEF Fits, FitsOf
    <3>3. FitsOf("writing", job[s], todo'[s], change'[s])
      BY <3>1, <3>2 DEF FitsOf
    <3> QED
      BY <1>3, <3>3 DEF Fits, FitsOf, Suits, HasOther
  <2> QED
    BY <1>0, <1>3, <2>6, <2>7
<1> HIDE DEF Goal
<1>4. CASE SellLoads(s)
  <2>1. PICK t \in todo[s] :
         \/ /\ row[t].status \in Open
            /\ change' = [change EXCEPT ![s][t] = Closing("CLOSED")]
            /\ pc' = [pc EXCEPT ![s] = "writing"]
            /\ todo' = [todo EXCEPT ![s] = {}]
            /\ UNCHANGED <<row, job, flushed, announced, verdict, outcome>>
         \/ End(s, "failed") /\ UNCHANGED row
    BY <1>4 DEF SellLoads
  <2>2. pc[s] = "picked" /\ job[s] = "sell" /\ t \in Thesis
    BY <1>0, <1>4 DEF SellLoads, Told
  <2>3. CASE End(s, "failed") /\ row' = row
    <3>1. pc[s] \notin {"new", "ended"}
      BY <2>2
    <3>2. End(s, "failed")
      BY <2>3
    <3>3. Commit(s) \/ row' = row
      BY <2>3
    <3> QED
      BY <1>1, <3>1, <3>2, <3>3 DEF Goal
  <2>4. CASE /\ row[t].status \in Open
             /\ change' = [change EXCEPT ![s][t] = Closing("CLOSED")]
             /\ pc' = [pc EXCEPT ![s] = "writing"]
             /\ todo' = [todo EXCEPT ![s] = {}]
             /\ UNCHANGED <<row, job, flushed, announced, verdict, outcome>>
    <3>1. Closing("CLOSED") \in Change /\ Closing("CLOSED").status = "CLOSED"
      BY ChangeTypes DEF Terminal, Closing
    <3>2. pc'[s] = "writing" /\ todo'[s] \subseteq todo[s]
      BY <2>4 DEF TypeOK
    <3>3. Blank(change[s])
      BY <1>0, <2>2 DEF ShapeOf
    <3>4. /\ Closing("CLOSED").status \in {"WEAKENING"} \cup Terminal
          /\ Closing("CLOSED").status # "WEAKENING"
      BY <3>1 DEF Terminal
    <3>5. pc[s] \in {"picked", "thinking"} /\ job[s] # "scan"
      BY <2>2
    <3>6. job' = job /\ row' = row
      BY <2>4
    <3> QED
      BY <1>3, <2>2, <2>4, <3>1, <3>2, <3>3, <3>4, <3>5, <3>6 DEF Goal
  <2> QED
    BY <2>1, <2>3, <2>4
<1>5. CASE Conflict(s)
  <2>1. PICK t \in todo[s] :
         \/ /\ ~HasOther(t, Open)
            /\ pc' = [pc EXCEPT ![s] = "writing"]
            /\ todo' = [todo EXCEPT ![s] = {}]
            /\ UNCHANGED <<row, job, change, flushed, announced, verdict, outcome>>
         \/ End(s, "failed") /\ UNCHANGED row
    BY <1>5 DEF Conflict, ConflictChecked
  <2>2. pc[s] = "checking"
    BY <1>5 DEF Conflict, ConflictChecked
  <2>3. CASE End(s, "failed") /\ row' = row
    <3>1. pc[s] \notin {"new", "ended"}
      BY <2>2
    <3>2. End(s, "failed")
      BY <2>3
    <3>3. Commit(s) \/ row' = row
      BY <2>3
    <3> QED
      BY <1>1, <3>1, <3>2, <3>3 DEF Goal
  <2>4. CASE /\ ~HasOther(t, Open)
             /\ pc' = [pc EXCEPT ![s] = "writing"]
             /\ todo' = [todo EXCEPT ![s] = {}]
             /\ UNCHANGED <<row, job, change, flushed, announced, verdict, outcome>>
    <3>1. pc'[s] = "writing" /\ todo'[s] = {}
      BY <2>4 DEF TypeOK
    <3>2. ShapeOf("writing", job[s], {}, change[s])
      BY <1>0, <2>2 DEF ShapeOf
    <3>3. ASSUME Fits(s) PROVE Fits(s)'
      <4>1. ASSUME NEW u \in Thesis PROVE Suits("writing", job[s], u, change[s][u].status)
        <5>1. Suits("checking", job[s], u, change[s][u].status)
          BY <2>2, <3>3 DEF Fits, FitsOf
        <5>2. change[s][u].status = "ACTIVE" => u = t
          BY <1>0, <2>1, <2>2 DEF ShapeOf
        <5> QED
          BY <2>4, <5>1, <5>2 DEF Suits, Terminal
      <4>2. FitsOf("writing", job[s], {}, change[s])
        BY <4>1 DEF FitsOf
      <4> QED
        BY <2>4, <3>1, <4>2 DEF Fits, FitsOf, Suits, HasOther
    <3> QED
      BY <1>0, <2>2, <2>4, <3>1, <3>2, <3>3 DEF Goal
  <2> QED
    BY <2>1, <2>3, <2>4
<1>6. CASE ScanEnds(s)
  <2>1. /\ pc[s] = "thinking" /\ pc'[s] = "committing" /\ todo'[s] \subseteq todo[s]
        /\ job' = job /\ change' = change /\ row' = row
    BY <1>6 DEF ScanEnds, TypeOK
  <2>2. /\ pc[s] \notin {"new", "ended"} /\ pc[s] # "checking"
        /\ pc'[s] \notin {"new", "picked", "ended", "checking"}
        /\ pc'[s] # "thinking"
    BY <2>1
  <2> QED
    BY <1>2, <2>1, <2>2 DEF Goal
<1>7. ASSUME NEW t \in Thesis, Judge(s, t) PROVE Goal
  <2>1. /\ pc[s] = "thinking" /\ job[s] = "scan" /\ t \in todo[s] /\ todo'[s] \subseteq todo[s]
        /\ job' = job /\ row' = row
    BY <1>7 DEF Judge, TypeOK
  <2>2. CASE UNCHANGED <<change, pc>>
    BY <1>2, <2>1, <2>2
  <2>3. CASE /\ change' = [change EXCEPT ![s][t] = Closing("INVALIDATED")]
             /\ pc' = [pc EXCEPT ![s] = "writing"]
    <3>1. Closing("INVALIDATED") \in Change /\ Closing("INVALIDATED").status = "INVALIDATED"
      BY ChangeTypes DEF Terminal, Closing
    <3>2. pc'[s] = "writing"
      BY <2>3 DEF TypeOK
    <3>3. Fits(s) => row[t].status \in Open
      BY <2>1 DEF Fits, FitsOf, Open
    <3> QED
      BY <1>3, <2>1, <2>3, <3>1, <3>2, <3>3 DEF Terminal
  <2> QED
    BY <1>7, <2>2, <2>3 DEF Judge
<1>8. ASSUME NEW t \in Thesis, Flush(s, t) PROVE Goal
  <2>1. /\ pc[s] = "writing" /\ todo'[s] = todo[s] /\ job' = job /\ change' = change
        /\ row' = row /\ pc'[s] = IF job[s] = "scan" THEN "thinking" ELSE "committing"
    BY <1>8 DEF Flush, Flushed, TypeOK
  <2> QED
    BY <1>2, <2>1
<1>9. ASSUME NEW v \in Status, NEW rec \in BOOLEAN, ReviewSaved(s, v, rec) PROVE Goal
  <2>1. /\ pc[s] = "thinking" /\ job[s] \in Reviews /\ v \in {"none", "WEAKENING"}
        /\ job' = job /\ row' = row /\ todo' = todo /\ job[s] # "scan"
    BY <1>9 DEF ReviewSaved, Choices, Reviews
  <2>2. CASE pc' = [pc EXCEPT ![s] = "committing"] /\ UNCHANGED change
    <3>1. pc'[s] = "committing"
      BY <2>2 DEF TypeOK
    <3> QED
      BY <1>2, <2>1, <2>2, <3>1
  <2>3. ASSUME NEW t \in todo[s], v # "none", pc' = [pc EXCEPT ![s] = "writing"],
               change' = [change EXCEPT ![s][t] = [status |-> v, closedAt |-> "keep"]]
        PROVE  Goal
    <3> DEFINE c == [status |-> v, closedAt |-> "keep"]
    <3>1. c \in Change /\ c.status = "WEAKENING"
      BY <2>1, <2>3 DEF Change
    <3>2. pc'[s] = "writing" /\ t \in Thesis /\ todo'[s] \subseteq todo[s]
      BY <1>0, <2>1, <2>3 DEF TypeOK
    <3>3. Fits(s) => row[t].status = "ACTIVE"
      BY <2>1, <2>3 DEF Fits, FitsOf
    <3>4. Blank(change[s])
      BY <1>0, <2>1 DEF ShapeOf
    <3>5. change' = [change EXCEPT ![s][t] = c]
      BY <2>3
    <3> HIDE DEF c
    <3> QED
      BY <1>3, <2>1, <3>1, <3>2, <3>3, <3>4, <3>5 DEF Terminal
  <2> QED
    BY <1>9, <2>2, <2>3 DEF ReviewSaved
<1>10. CASE Commit(s)
  <2>1. End(s, "committed") /\ pc[s] \notin {"new", "ended"}
    BY <1>10 DEF Commit
  <2> QED
    BY <1>1, <1>10, <2>1 DEF Goal
<1>11. CASE LeaveUncommitted(s)
  <2>1. End(s, "discarded") /\ pc[s] \notin {"new", "ended"} /\ row' = row
    BY <1>11 DEF LeaveUncommitted
  <2> QED
    BY <1>1, <2>1 DEF Goal
<1>12. CASE Fail(s)
  <2>1. End(s, "failed") /\ pc[s] \notin {"new", "ended"} /\ row' = row
    BY <1>12 DEF Fail
  <2> QED
    BY <1>1, <2>1 DEF Goal
<1> QED
  BY <1>4, <1>5, <1>6, <1>7, <1>8, <1>9, <1>10, <1>11, <1>12 DEF Step, Goal

\* The commit of a session whose changes fit the rows is one change of the
\* lifecycle, or changes no status.
LEMMA CommitImplements ==
    ASSUME TypeOK, NEW s \in Session, Shaped(s), Fits(s), Commit(s)
    PROVE  [States!Next]_StatusOf
<1> DEFINE c == change[s]
           To(t) == IF t \in flushed[s] /\ c[t].status # "keep" THEN c[t].status
                    ELSE row[t].status
<1>1. pc[s] = "committing"
  BY DEF Commit
<1>2. StatusOf' = [t \in Thesis |-> To(t)]
  BY DEF Commit, StatusOf, Overlay
<1>3. \A t \in Thesis : Suits("committing", job[s], t, c[t].status)
  BY <1>1 DEF Fits, FitsOf
<1>4. ShapeOf("committing", job[s], todo[s], c)
  BY <1>1 DEF Shaped
<1>5. \A t \in Thesis : c[t].status \in Status \cup {"keep"}
  BY DEF TypeOK, Change
<1>6. NoChange.status = "keep" /\ Closing("INVALIDATED").status = "INVALIDATED"
  BY DEF NoChange, Closing
<1> HIDE DEF c
<1>7. CASE One(c)
  <2>1. PICK t \in Thesis : \A u \in Thesis \ {t} : c[u] = NoChange
    BY <1>7 DEF One
  <2>2. \A u \in Thesis \ {t} : To(u) = row[u].status
    BY <1>6, <2>1
  <2>3. StatusOf' = [StatusOf EXCEPT ![t] = To(t)] /\ StatusOf[t] = row[t].status
    BY <1>2, <2>2 DEF StatusOf
  <2>4. CASE To(t) = row[t].status
    <3>1. StatusOf' = StatusOf
      BY <2>3, <2>4 DEF StatusOf
    <3> QED
      BY <3>1
  <2>5. CASE To(t) # row[t].status
    <3>1. To(t) = c[t].status /\ c[t].status \in Status
      BY <1>5, <2>5
    <3>2. CASE To(t) = "ACTIVE"
      <4>1. job[s] \in {"create", "reactivate"}
        BY <1>4, <3>1, <3>2 DEF ShapeOf
      <4>2. CASE job[s] = "create"
        <5>1. States!Create(t)
          BY <1>3, <2>3, <3>1, <3>2, <4>2 DEF Suits, States!Create, States!Set
        <5> QED
          BY <5>1 DEF States!Next
      <4>3. CASE job[s] = "reactivate"
        <5>1. row[t].status \in Terminal /\ ~HasOther(t, Open)
          BY <1>3, <3>1, <3>2, <4>3 DEF Suits
        <5>2. States!Reopen(t)
          BY <2>3, <3>2, <5>1 DEF HasOther, Open, Terminal, States!Reopen, States!Set,
             States!Open, States!Terminal, StatusOf
        <5> QED
          BY <5>2 DEF States!Next
      <4> QED
        BY <4>1, <4>2, <4>3
    <3>3. CASE To(t) = "none"
      <4>1. States!Delete(t)
        BY <1>3, <2>3, <3>1, <3>3 DEF Suits, States!Delete, States!Set
      <4> QED
        BY <4>1 DEF States!Next
    <3>4. CASE To(t) = "WEAKENING"
      <4>1. States!Weaken(t)
        BY <1>3, <2>3, <3>1, <3>4 DEF Suits, States!Weaken, States!Set
      <4> QED
        BY <4>1 DEF States!Next
    <3>5. CASE To(t) \in Terminal
      <4>1. row[t].status \in Open
        BY <1>3, <3>1, <3>5 DEF Suits
      <4>2. States!Close({t}, To(t))
        BY <2>3, <4>1 DEF Open, States!Close, States!Open, StatusOf
      <4>3. To(t) \in States!Terminal
        BY <3>5 DEF Terminal, States!Terminal
      <4> QED
        BY <4>2, <4>3 DEF States!Next
    <3> QED
      BY <3>1, <3>2, <3>3, <3>4, <3>5 DEF Status, Open
  <2> QED
    BY <2>4, <2>5
<1>8. CASE Scanned(c)
  <2> DEFINE W == {t \in Thesis : t \in flushed[s] /\ c[t].status = "INVALIDATED"}
  <2>1. \A t \in Thesis : To(t) = IF t \in W THEN "INVALIDATED" ELSE row[t].status
    BY <1>6, <1>8 DEF Scanned
  <2>2. \A t \in W : row[t].status \in Open
    BY <1>3 DEF Suits, Terminal
  <2>3. StatusOf' = [t \in Thesis |-> IF t \in W THEN "INVALIDATED" ELSE StatusOf[t]]
    BY <1>2, <2>1 DEF StatusOf
  <2>4. \A t \in W : StatusOf[t] \in States!Open
    BY <2>2 DEF StatusOf, Open, States!Open
  <2>5. W \in SUBSET Thesis /\ "INVALIDATED" \in States!Terminal
    BY DEF States!Terminal
  <2> HIDE DEF W
  <2>6. States!Close(W, "INVALIDATED")
    BY <2>3, <2>4 DEF States!Close
  <2> QED
    BY <2>5, <2>6 DEF States!Next
<1> QED
  BY <1>4, <1>7, <1>8 DEF ShapeOf

\* Sessions keep their shape and pairing, those that overlap have met, and
\* what a session that met no other has set fits the rows.
LoneInv == /\ TypeOK
           /\ \A s \in Session : Paired(s) /\ Shaped(s)
           /\ Meets /\ LoneFits

\* It holds before the first job,
LEMMA LoneInit == MCInit => LoneInv
<1> SUFFICES ASSUME MCInit PROVE LoneInv
  OBVIOUS
<1> USE DEF MCInit, Init
<1>1. TypeOK
  BY TypedInit
<1>2. ASSUME NEW s \in Session PROVE Paired(s) /\ Shaped(s)
  <2>1. /\ pc[s] = "new" /\ job[s] = "none" /\ flushed[s] = {} /\ outcome[s] = "none"
        /\ \A t \in Thesis : change[s][t] = NoChange
    OBVIOUS
  <2>2. Paired(s)
    BY <2>1 DEF Paired, OneWrite, Told, Pending, NoChange, Terminal
  <2>3. Shaped(s)
    BY <2>1 DEF Shaped, ShapeOf, Blank, Scanned, Reviews, NoChange
  <2> QED
    BY <2>2, <2>3
<1>3. Running = {}
  BY DEF Running
<1> QED
  BY <1>1, <1>2, <1>3 DEF LoneInv, Meets, LoneFits

\* and every step of a session keeps it: while a session runs beside no other,
\* the rows are those it read.
LEMMA LoneStep ==
    ASSUME LoneInv, MCNext PROVE LoneInv'
<1> USE DEF LoneInv
<1>1. PICK s \in Session : Start(s) \/ Step(s) \/ Fail(s)
  BY DEF MCNext, Next
<1>2. TypeOK'
  BY <1>1, TypedStart, TypedStep
<1>3. \A r \in Session : Paired(r)'
  BY <1>1, OthersKept, PairedStart, PairedStep
<1>4. \A r \in Session \ {s} :
          /\ pc'[r] = pc[r] /\ job'[r] = job[r] /\ todo'[r] = todo[r]
          /\ change'[r] = change[r]
  BY <1>1, OthersSame
<1>5. Told(s)
  BY DEF Paired
<1>6. ASSUME NEW r \in Session PROVE Shaped(r)'
  <2>1. CASE r = s
    BY <1>1, <1>5, <2>1, FitsStart, FitsStep
  <2>2. CASE r # s
    BY <1>4, <2>2 DEF Shaped
  <2> QED
    BY <2>1, <2>2
<1>7. met' = met \cup {r \in Running' : Running' # {r}}
  BY DEF MCNext
<1>8. Meets'
  <2> SUFFICES ASSUME NEW q \in Running', NEW r \in Running', q # r
               PROVE  r \in met'
    BY DEF Meets
  <2> QED
    BY <1>7
<1>9. ASSUME NEW r \in Running', r \notin met' PROVE Fits(r)'
  <2>1. Running' = {r} /\ r \in Session /\ r \notin met
    BY <1>7, <1>9 DEF Running
  <2>2. CASE Start(s)
    <3>1. s \in Running' /\ Fits(s)'
      BY <2>2, FitsStart DEF Running
    <3> QED
      BY <2>1, <3>1
  <2>3. CASE Step(s) \/ Fail(s)
    <3>1. s \in Running /\ (Fits(s) /\ pc'[s] # "ended" => Fits(s)')
      BY <1>5, <2>3, FitsStep DEF Running
    <3>2. r = s
      <4>1. CASE r # s
        <5>1. r \in Running
          BY <1>4, <1>9, <2>1, <4>1 DEF Running
        <5> QED
          BY <2>1, <3>1, <4>1, <5>1 DEF Meets
      <4> QED
        BY <4>1
    <3>3. pc'[s] # "ended"
      BY <1>9, <3>2 DEF Running
    <3> QED
      BY <2>1, <3>1, <3>2, <3>3 DEF LoneFits
  <2> QED
    BY <1>1, <2>2, <2>3
<1>10. LoneFits'
  BY <1>9 DEF LoneFits
<1> QED
  BY <1>2, <1>3, <1>6, <1>8, <1>10

\* A step that changes nothing changes nothing of it.
LEMMA LoneStutter ==
    ASSUME LoneInv, UNCHANGED <<vars, met>> PROVE LoneInv'
<1> USE DEF LoneInv, vars
<1>1. TypeOK' /\ Running' = Running /\ Meets'
  BY DEF TypeOK, Running, Meets
<1>2. ASSUME NEW s \in Session
      PROVE  Paired(s)' /\ Shaped(s)' /\ (Fits(s) => Fits(s)')
  BY DEF Paired, OneWrite, Told, Pending, Unflushed, Shaped, Fits, FitsOf, Suits,
     HasOther
<1>3. LoneFits'
  BY <1>1, <1>2 DEF LoneFits, Running
<1> QED
  BY <1>1, <1>2, <1>3

\* It is an invariant.
LEMMA LoneInvAlways == MCSpec => []LoneInv
<1>1. LoneInv /\ [MCNext]_<<vars, met>> => LoneInv'
  BY LoneStep, LoneStutter
<1> QED
  BY <1>1, LoneInit, PTL DEF MCSpec

\* The commit of a session that ran beside no other is a step of ThesisStates,
\* whatever the sessions that did overlap, lost races, failed or were never
\* committed have left in the rows.
THEOREM ImplementsStatesAlways == MCSpec => ImplementsStates
<1>1. MCInit => States!Init
  <2> SUFFICES ASSUME MCInit PROVE States!Init
    OBVIOUS
  <2>1. TypeOK
    BY TypedInit DEF MCInit
  <2> QED
    BY <2>1 DEF TypeOK, StatusOf, Status, Open, Terminal, States!Init, States!Open,
       States!Terminal
<1>2. LoneInv /\ [MCNext]_<<vars, met>>
          => [Committing \cap met = {} => States!Next]_StatusOf
  <2> SUFFICES ASSUME LoneInv, [MCNext]_<<vars, met>>
               PROVE  [Committing \cap met = {} => States!Next]_StatusOf
    OBVIOUS
  <2>1. row' = row => StatusOf' = StatusOf
    BY DEF StatusOf
  <2>2. CASE UNCHANGED <<vars, met>>
    BY <2>1, <2>2 DEF vars
  <2>3. CASE MCNext
    <3>1. PICK s \in Session : Start(s) \/ Step(s) \/ Fail(s)
      BY <2>3 DEF MCNext, Next
    <3>2. CASE Start(s)
      BY <2>1, <3>2, FitsStart DEF LoneInv
    <3>3. CASE Step(s) \/ Fail(s)
      <4>1. (Commit(s) \/ row' = row) /\ pc[s] \notin {"new", "ended"}
        BY <3>3, FitsStep DEF LoneInv, Paired
      <4>2. ASSUME Commit(s), Committing \cap met = {} PROVE [States!Next]_StatusOf
        <5>1. outcome[s] # "committed" /\ outcome'[s] = "committed"
          BY <4>1, <4>2 DEF LoneInv, Paired, Told, Commit, End, TypeOK
        <5>2. s \in Running \ met
          BY <4>1, <4>2, <5>1 DEF Committing, Running
        <5> QED
          BY <4>2, <5>2, CommitImplements DEF LoneInv, LoneFits
      <4> QED
        BY <2>1, <4>1, <4>2
    <3> QED
      BY <3>1, <3>2, <3>3
  <2> QED
    BY <2>2, <2>3
<1> QED
  BY <1>1, <1>2, LoneInvAlways, PTL DEF MCSpec, ImplementsStates

-----------------------------------------------------------------------------
(* At most one open thesis of a ticker.  Both parts of the premise can only  *)
(* become false: a session keeps its job and, once met, stays so.            *)

Quiet == \A s \in Session : job[s] # "create" /\ (s \in met => job[s] \notin Reopening)

\* A commit opens no thesis beside another, if its session did not create and,
\* where it reopens, ran beside no other.
LEMMA CommitOpensOne ==
    ASSUME LoneInv, NEW s \in Session, Commit(s), Quiet, OneOpenUnlessCreated,
           NEW t \in Thesis, NEW u \in Thesis, t # u, TickerOf[t] = TickerOf[u]
    PROVE  ~(row'[t].status \in Open /\ row'[u].status \in Open)
<1> USE DEF LoneInv
<1>1. pc[s] = "committing" /\ s \in Running
  BY DEF Commit, Running
<1>2. ASSUME NEW w \in Thesis, row[w].status \notin Open, row'[w].status \in Open
      PROVE  /\ change[s][w].status = "ACTIVE"
             /\ \A v \in Thesis \ {w} : TickerOf[v] = TickerOf[w] => row[v].status \notin Open
  <2>1. change[s][w].status \in Open /\ row'[w].status = change[s][w].status
    BY <1>2 DEF Commit, Overlay
  <2>2. job[s] \in {"create", "reactivate"} \cup Reviews
    BY <2>1 DEF Shaped, ShapeOf, Open
  <2>3. Fits(s)
    BY <1>1, <2>2 DEF Quiet, Reopening, LoneFits
  <2>4. Suits(pc[s], job[s], w, change[s][w].status)
    BY <2>3 DEF Fits, FitsOf
  <2>5. change[s][w].status = "ACTIVE"
    BY <1>2, <2>1, <2>4 DEF Suits, Open
  <2>6. job[s] = "reactivate"
    BY <2>5 DEF Quiet, Shaped, ShapeOf
  <2>7. ~HasOther(w, Open)
    BY <1>1, <2>4, <2>5, <2>6 DEF Suits
  <2> QED
    BY <2>5, <2>7 DEF HasOther
<1>3. ~(row[t].status \in Open /\ row[u].status \in Open)
  BY DEF OneOpenUnlessCreated, Quiet
<1>4. ~(change[s][t].status = "ACTIVE" /\ change[s][u].status = "ACTIVE")
  BY DEF Shaped, ShapeOf, One, Scanned, NoChange, Closing
<1> QED
  BY <1>2, <1>3, <1>4

\* A ticker has at most one open thesis, in every reachable state in which no
\* session created one and every session that reopens ran beside no other.
THEOREM OneOpenUnlessCreatedAlways == MCSpec => []OneOpenUnlessCreated
<1>1. MCInit => OneOpenUnlessCreated
  BY DEF MCInit, Init, OneOpenUnlessCreated
<1>2. LoneInv /\ OneOpenUnlessCreated /\ [MCNext]_<<vars, met>> => OneOpenUnlessCreated'
  <2> SUFFICES ASSUME LoneInv, OneOpenUnlessCreated, [MCNext]_<<vars, met>>
               PROVE  OneOpenUnlessCreated'
    OBVIOUS
  <2>1. CASE UNCHANGED <<vars, met>>
    BY <2>1 DEF vars, OneOpenUnlessCreated
  <2>2. CASE MCNext
    <3>1. PICK s \in Session : Start(s) \/ Step(s) \/ Fail(s)
      BY <2>2 DEF MCNext, Next
    <3>2. met \subseteq met'
      BY <2>2 DEF MCNext
    <3>3. ASSUME NEW r \in Session PROVE job[r] = "none" \/ job'[r] = job[r]
      <4>1. CASE r # s
        BY <3>1, <4>1, OthersSame DEF LoneInv
      <4>2. CASE r = s /\ Start(s)
        BY <4>2, StartShape DEF StartsOne, Starts, Begin, LoneInv, Shaped, ShapeOf
      <4>3. CASE r = s /\ (Step(s) \/ Fail(s))
        BY <4>3 DEF Step, Fail, SellLoads, Conflict, ConflictChecked, ScanEnds, Judge,
           Flush, Flushed, ReviewSaved, Commit, LeaveUncommitted, End
      <4> QED
        BY <3>1, <4>1, <4>2, <4>3
    <3>4. Quiet' => Quiet
      BY <3>2, <3>3 DEF Quiet, Reopening, Reviews
    <3>5. Commit(s) \/ row' = row
      BY <3>1, FitsStart, FitsStep DEF LoneInv, Paired
    <3>6. CASE row' = row
      BY <3>4, <3>6 DEF OneOpenUnlessCreated, Quiet
    <3>7. CASE Commit(s)
      BY <3>4, <3>7, CommitOpensOne DEF OneOpenUnlessCreated, Quiet
    <3> QED
      BY <3>5, <3>6, <3>7
  <2> QED
    BY <2>1, <2>2
<1> QED
  BY <1>1, <1>2, LoneInvAlways, PTL DEF MCSpec

-----------------------------------------------------------------------------
(* What a review may do to rows at all.  Two comments of the reactor are      *)
(* refuted by runs; this is what holds of every review in their place.        *)

Weakening == [status |-> "WEAKENING", closedAt |-> "keep"]

\* A review that runs is about one thesis, and what it sets, if it sets
\* anything, is the status that its reactor chose, of that thesis.
ReviewOK(s) ==
    job[s] \in Reviews /\ pc[s] # "ended" =>
        /\ pc[s] \in {"thinking", "writing", "committing"}
        /\ \E t \in Thesis : todo[s] = {t}
        /\ \A t \in Thesis : change[s][t] # NoChange =>
              /\ change[s][t] = Weakening /\ verdict[s] = "WEAKENING"
              /\ todo[s] = {t} /\ job[s] # "api"

ReviewsOK == \A s \in Session : ReviewOK(s)

\* A commit of a review leaves all rows as they are, or is a command's review
\* that writes its verdict, WEAKENING, as the status of its thesis and nothing
\* else.  What it writes over was ACTIVE if it ran beside no other session.
Reaction ==
    \A s \in Session :
        job[s] \in Reviews /\ outcome[s] = "none" /\ outcome'[s] = "committed" =>
            \/ row' = row
            \/ \E t \in todo[s] :
                  /\ job[s] = "command" /\ verdict[s] = "WEAKENING"
                  /\ row' = [row EXCEPT ![t].status = verdict[s]]
                  /\ s \notin met => row[t].status = "ACTIVE"

\* Reviews keep that while they run, whatever runs beside them.
LEMMA ReviewStep ==
    ASSUME LoneInv, ReviewsOK, [MCNext]_<<vars, met>>
    PROVE  ReviewsOK'
<1>0. CASE UNCHANGED <<vars, met>>
  BY <1>0 DEF vars, ReviewsOK, ReviewOK
<1> SUFFICES ASSUME MCNext PROVE ReviewsOK'
  BY <1>0
<1>1. PICK s \in Session : Start(s) \/ Step(s) \/ Fail(s)
  BY DEF MCNext, Next
<1>2. ASSUME NEW r \in Session \ {s} PROVE ReviewOK(r)'
  <2>1. verdict'[r] = verdict[r]
    <3>1. ASSUME NEW v \in Status, NEW rec \in BOOLEAN, ReviewSaved(s, v, rec)
          PROVE  verdict'[r] = verdict[r]
      BY <3>1 DEF ReviewSaved, LoneInv, TypeOK
    <3> QED
      BY <1>1, <3>1 DEF Start, Create, SellPicks, Delete, Reactivate, Edit, Close, Review, Scan,
         Begin, Step, SellLoads, Conflict, ConflictChecked, ScanEnds, Judge, Flush, Flushed,
         Commit, LeaveUncommitted, Fail, End
  <2>2. /\ pc'[r] = pc[r] /\ job'[r] = job[r] /\ todo'[r] = todo[r]
        /\ change'[r] = change[r]
    BY <1>1, OthersSame DEF LoneInv
  <2> QED
    BY <2>1, <2>2 DEF ReviewsOK, ReviewOK
<1>3. CASE Start(s)
  <2>1. ASSUME NEW t \in Thesis, NEW caller \in Reviews, Review(s, t, caller)
        PROVE  ReviewOK(s)'
    <3>1. /\ pc'[s] = "thinking" /\ todo'[s] = {t} /\ change'[s] = Only(t, NoChange)
      BY <2>1 DEF Review, Begin, LoneInv, TypeOK
    <3> QED
      BY <3>1 DEF ReviewOK, Only
  <2>2. ASSUME NEW j, NEW p, NEW ts, NEW c, Begin(s, j, p, ts, c), j \notin Reviews
        PROVE  ReviewOK(s)'
    <3>1. job'[s] = j
      BY <2>2 DEF Begin, LoneInv, TypeOK
    <3> QED
      BY <2>2, <3>1 DEF ReviewOK
  <2>3. {"create", "close", "sell", "reactivate", "delete", "edit", "scan"} \cap Reviews = {}
    BY DEF Reviews
  <2>4. (\E ts \in SUBSET Thesis : Scan(s, ts)) => ReviewOK(s)'
    BY <2>2, <2>3 DEF Scan
  <2>5. ASSUME NEW t \in Thesis,
               \/ Create(s, t) \/ SellPicks(s, t) \/ Delete(s, t) \/ Reactivate(s, t)
               \/ Edit(s, t) \/ \E st \in Terminal : Close(s, t, st)
        PROVE  ReviewOK(s)'
    BY <2>2, <2>3, <2>5 DEF Create, SellPicks, Delete, Reactivate, Edit, Close
  <2>6. ReviewOK(s)'
    BY <1>3, <2>1, <2>4, <2>5 DEF Start
  <2> QED
    BY <1>2, <2>6 DEF ReviewsOK
<1>4. CASE Step(s) \/ Fail(s)
  <2>0. ReviewOK(s) /\ TypeOK /\ Shaped(s) /\ (pc[s] = "picked" => job[s] = "sell")
    BY DEF ReviewsOK, LoneInv, Paired, Told
  <2>1. CASE \E how : End(s, how)
    <3>1. pc'[s] = "ended"
      BY <2>0, <2>1 DEF End, TypeOK
    <3> QED
      BY <1>2, <3>1 DEF ReviewsOK, ReviewOK
  <2>2. ASSUME NEW v \in Status, NEW rec \in BOOLEAN, ReviewSaved(s, v, rec)
        PROVE  ReviewOK(s)'
    <3>1. /\ job[s] \in Reviews /\ pc[s] = "thinking" /\ job' = job /\ todo' = todo
          /\ v \in Choices(job[s]) /\ verdict'[s] = v /\ Blank(change[s])
          /\ pc'[s] \in {"committing", "writing"}
      BY <2>0, <2>2 DEF ReviewSaved, Shaped, ShapeOf, TypeOK
    <3>2. PICK t \in Thesis : todo[s] = {t}
      BY <2>0, <3>1 DEF ReviewOK
    <3>3. \/ change'[s] = change[s]
          \/ v # "none" /\ change'[s] = [change[s] EXCEPT ![t] = [status |-> v, closedAt |-> "keep"]]
      <4>1. CASE change' = change
        BY <4>1
      <4>2. CASE /\ v # "none"
                 /\ change' = [change EXCEPT ![s][t] = [status |-> v, closedAt |-> "keep"]]
        BY <2>0, <4>2 DEF TypeOK
      <4> QED
        BY <2>2, <3>2, <4>1, <4>2 DEF ReviewSaved
    <3>4. v # "none" => v = "WEAKENING" /\ job[s] # "api"
      BY <3>1 DEF Choices
    <3>5. \A u \in Thesis : change'[s][u] # NoChange => u = t /\ v # "none" /\ change'[s][u] = Weakening
      BY <2>0, <3>1, <3>3, <3>4 DEF Blank, Weakening, TypeOK
    <3> QED
      BY <3>1, <3>2, <3>4, <3>5 DEF ReviewOK
  <2>3. ASSUME NEW t \in Thesis, Flush(s, t) PROVE ReviewOK(s)'
    <3>1. /\ UNCHANGED <<job, todo, change, verdict>>
          /\ pc'[s] = IF job[s] = "scan" THEN "thinking" ELSE "committing"
          /\ pc[s] = "writing"
      BY <2>0, <2>3 DEF Flush, Flushed, TypeOK
    <3> QED
      BY <2>0, <3>1 DEF ReviewOK
  <2>4. ASSUME SellLoads(s) \/ Conflict(s) \/ ScanEnds(s) \/ \E t \in Thesis : Judge(s, t),
               \A how : ~End(s, how)
        PROVE  ReviewOK(s)'
    <3>1. /\ job' = job
          /\ pc[s] \in {"picked", "checking"} \/ job[s] = "scan"
          /\ pc[s] # "ended"
      BY <2>4 DEF SellLoads, Conflict, ConflictChecked, ScanEnds, Judge
    <3>2. job[s] \notin Reviews
      BY <2>0, <3>1 DEF ReviewOK, Reviews
    <3> QED
      BY <3>1, <3>2 DEF ReviewOK
  <2>5. Commit(s) \/ LeaveUncommitted(s) \/ Fail(s) => \E how : End(s, how)
    BY DEF Commit, LeaveUncommitted, Fail
  <2>6. CASE \A how : ~End(s, how)
    <3>1. ReviewOK(s)'
      BY <1>4, <2>2, <2>3, <2>4, <2>5, <2>6 DEF Step
    <3> QED
      BY <1>2, <3>1 DEF ReviewsOK
  <2> QED
    BY <2>1, <2>6
<1> QED
  BY <1>1, <1>3, <1>4

\* A review never writes over more than it says, for any number of sessions: it
\* writes WEAKENING or nothing, never a closing or a time, and over a status
\* other than ACTIVE only when another session ran beside it.
THEOREM ReviewReacts == MCSpec => [][Reaction]_<<vars, met>>
<1>1. MCInit => ReviewsOK
  BY DEF MCInit, Init, ReviewsOK, ReviewOK, Reviews
<1>2. ASSUME LoneInv, ReviewsOK, MCNext PROVE Reaction
  <2> SUFFICES ASSUME NEW s \in Session, job[s] \in Reviews, outcome[s] = "none",
                      outcome'[s] = "committed"
               PROVE  \/ row' = row
                      \/ \E t \in todo[s] :
                            /\ job[s] = "command" /\ verdict[s] = "WEAKENING"
                            /\ row' = [row EXCEPT ![t].status = verdict[s]]
                            /\ s \notin met => row[t].status = "ACTIVE"
    BY DEF Reaction
  <2>0. TypeOK /\ ReviewOK(s)
    BY <1>2 DEF LoneInv, ReviewsOK
  <2>1. PICK r \in Session : Start(r) \/ Step(r) \/ Fail(r)
    BY <1>2 DEF MCNext, Next
  <2>2. r = s
    BY <2>0, <2>1, OthersSame
  <2>3. Commit(s)
    <3>1. ~Start(s)
      BY <1>2, FitsStart DEF LoneInv, Start, Create, SellPicks, Delete, Reactivate, Edit, Close,
         Review, Scan, Begin
    <3>2. CASE SellLoads(s) \/ Conflict(s) \/ LeaveUncommitted(s) \/ Fail(s)
      BY <2>0, <3>2 DEF SellLoads, Conflict, ConflictChecked, LeaveUncommitted, Fail, End, TypeOK
    <3>3. CASE ScanEnds(s) \/ \E t \in Thesis : Judge(s, t) \/ Flush(s, t)
      BY <3>3 DEF ScanEnds, Judge, Flush, Flushed
    <3>4. CASE \E v \in Status, rec \in BOOLEAN : ReviewSaved(s, v, rec)
      BY <3>4 DEF ReviewSaved
    <3> QED
      BY <2>1, <2>2, <3>1, <3>2, <3>3, <3>4 DEF Step
  <2>4. /\ pc[s] = "committing" /\ job[s] # "listener"
        /\ row' = [t \in Thesis |-> IF t \in flushed[s] THEN Overlay(row[t], change[s][t])
                                    ELSE row[t]]
    BY <2>3 DEF Commit
  <2>5. \A t \in Thesis : row[t] = [status |-> row[t].status, closedAt |-> row[t].closedAt]
    BY <2>0 DEF TypeOK
  <2>6. CASE \A t \in flushed[s] : change[s][t] = NoChange
    <3>1. \A t \in Thesis : row'[t] = row[t]
      BY <2>4, <2>5, <2>6 DEF Overlay, NoChange
    <3> QED
      BY <2>0, <2>4, <3>1 DEF TypeOK
  <2>7. CASE \E t \in flushed[s] : change[s][t] # NoChange
    <3>1. PICK t \in flushed[s] : change[s][t] # NoChange
      BY <2>7
    <3>2. /\ t \in Thesis /\ todo[s] = {t} /\ change[s][t] = Weakening
          /\ verdict[s] = "WEAKENING" /\ job[s] = "command"
      BY <2>0, <2>4, <3>1 DEF ReviewOK, TypeOK, Reviews
    <3>3. \A u \in Thesis \ {t} : change[s][u] = NoChange
      BY <2>0, <2>4, <3>2 DEF ReviewOK
    <3>4. row'[t] = [row[t] EXCEPT !.status = "WEAKENING"]
      BY <2>0, <2>4, <3>1, <3>2 DEF Overlay, Weakening, TypeOK
    <3>5. \A u \in Thesis \ {t} : row'[u] = row[u]
      BY <2>4, <2>5, <3>3 DEF Overlay, NoChange
    <3>6. row' = [row EXCEPT ![t].status = verdict[s]]
      BY <2>0, <2>4, <3>2, <3>4, <3>5 DEF TypeOK
    <3>7. s \notin met => row[t].status = "ACTIVE"
      <4>1. SUFFICES ASSUME s \notin met PROVE row[t].status = "ACTIVE"
        OBVIOUS
      <4>2. Fits(s)
        BY <1>2, <2>4, <4>1 DEF LoneInv, LoneFits, Running
      <4> QED
        BY <3>2, <4>2 DEF Fits, FitsOf
    <3> QED
      BY <3>2, <3>6, <3>7
  <2> QED
    BY <2>6, <2>7
<1>3. LoneInv /\ ReviewsOK /\ [MCNext]_<<vars, met>> => ReviewsOK'
  BY ReviewStep
<1> QED
  BY <1>1, <1>2, <1>3, LoneInvAlways, PTL DEF MCSpec

-----------------------------------------------------------------------------
(* Sessions that wait.  A session holds rows only while it runs, so if all   *)
(* that run wait, each waits for another of them.                            *)

Live(s) ==
    /\ pc[s] \in {"picked", "checking"} => todo[s] # {}
    /\ pc[s] = "thinking" => job[s] \in Reviews \cup {"scan"}
    /\ pc[s] \in {"checking", "writing"} => Unflushed(s) # {}
    /\ pc[s] \in {"new", "picked", "ended"} => flushed[s] = {}
    /\ pc[s] = "thinking" /\ job[s] \in Reviews => flushed[s] = {}
    /\ job[s] = "scan" => \A t \in todo[s] : change[s][t] = NoChange /\ t \notin flushed[s]

\* What a job sets differs from what it read, and only the session's own
\* flush takes it off the rows to write.
LEMMA SetChanges ==
    /\ \A st : Closing(st) # NoChange
    /\ \A st, at : st # "keep" => [status |-> st, closedAt |-> at] # NoChange
<1>1. \A st : Closing(st).closedAt = "time"
  BY DEF Closing
<1>2. \A st, at : [status |-> st, closedAt |-> at].status = st
  OBVIOUS
<1>3. NoChange.status = "keep" /\ NoChange.closedAt = "keep"
  BY DEF NoChange
<1> QED
  BY <1>1, <1>2, <1>3

\* A session starts with something to do.
LEMMA LiveStart ==
    ASSUME TypeOK, NEW s \in Session, Live(s), Start(s) PROVE Live(s)'
<1>1. ASSUME NEW j, NEW p, NEW ts, NEW t \in Thesis, NEW c, Begin(s, j, p, ts, Only(t, c)),
             p \in {"picked", "checking", "thinking", "writing"}, j # "scan",
             p \in {"picked", "checking"} => ts # {},
             p = "thinking" => j \in Reviews,
             p \in {"checking", "writing"} => c # NoChange
      PROVE  Live(s)'
  <2>1. /\ pc[s] = "new" /\ pc'[s] = p /\ job'[s] = j /\ todo'[s] = ts
        /\ flushed'[s] = flushed[s] /\ change'[s][t] = c
    BY <1>1 DEF Begin, Only, TypeOK
  <2>2. flushed'[s] = {}
    BY <2>1 DEF Live
  <2>3. p \in {"checking", "writing"} => t \in Unflushed(s)'
    BY <1>1, <2>1, <2>2 DEF Unflushed
  <2> QED
    BY <1>1, <2>1, <2>2, <2>3 DEF Live
<1>2. ASSUME NEW t \in Thesis, Create(s, t) \/ Delete(s, t) PROVE Live(s)'
  BY <1>1, <1>2, SetChanges DEF Create, Delete
<1>3. ASSUME NEW t \in Thesis, NEW st \in Terminal, Close(s, t, st) \/ Edit(s, t)
      PROVE  Live(s)'
  BY <1>1, <1>3, SetChanges DEF Close, Edit
<1>4. ASSUME NEW t \in Thesis, SellPicks(s, t) PROVE Live(s)'
  BY <1>1, <1>4 DEF SellPicks
<1>5. ASSUME NEW t \in Thesis, Reactivate(s, t) PROVE Live(s)'
  <2> DEFINE c == [status |-> "ACTIVE",
                   closedAt |-> IF row[t].closedAt = "time" THEN "null" ELSE "keep"]
  <2>1. Begin(s, "reactivate", "checking", {t}, Only(t, c)) /\ c # NoChange
    BY <1>5, SetChanges DEF Reactivate
  <2> HIDE DEF c
  <2> QED
    BY <1>1, <2>1
<1>6. ASSUME NEW t \in Thesis, NEW caller \in Reviews, Review(s, t, caller)
      PROVE  Live(s)'
  BY <1>1, <1>6 DEF Review, Reviews
<1>7. ASSUME NEW ts \in SUBSET Thesis, Scan(s, ts) PROVE Live(s)'
  <2>1. /\ pc[s] = "new" /\ pc'[s] = "thinking" /\ job'[s] = "scan" /\ todo'[s] = ts
        /\ flushed'[s] = flushed[s] /\ \A t \in Thesis : change'[s][t] = NoChange
    BY <1>7 DEF Scan, Begin, TypeOK
  <2> QED
    BY <2>1 DEF Live, Reviews
<1>8. "CLOSED" \in Terminal
  BY DEF Terminal
<1> QED
  BY <1>2, <1>3, <1>4, <1>5, <1>6, <1>7, <1>8 DEF Start

\* A step leaves it something to do, or ends it and gives its rows back.
LEMMA LiveStep ==
    ASSUME TypeOK, NEW s \in Session, Live(s), Step(s) \/ Fail(s) PROVE Live(s)'
<1> USE DEF TypeOK
<1>1. ASSUME NEW how, End(s, how) PROVE Live(s)'
  BY <1>1 DEF End, Live
<1>2. CASE SellLoads(s)
  <2>1. ASSUME NEW t \in todo[s], change' = [change EXCEPT ![s][t] = Closing("CLOSED")],
               pc' = [pc EXCEPT ![s] = "writing"], todo' = [todo EXCEPT ![s] = {}],
               pc[s] = "picked", UNCHANGED flushed
        PROVE  Live(s)'
    <3>1. pc'[s] = "writing" /\ todo'[s] = {} /\ flushed'[s] = {} /\ t \in Thesis
      BY <2>1 DEF Live
    <3>2. change'[s][t] = Closing("CLOSED")
      BY <2>1, <3>1
    <3>3. t \in Unflushed(s)'
      BY <3>1, <3>2, SetChanges DEF Unflushed
    <3> QED
      BY <3>1, <3>3 DEF Live
  <2> QED
    BY <1>1, <1>2, <2>1 DEF SellLoads
<1>3. CASE Conflict(s)
  <2>1. ASSUME pc[s] = "checking", pc' = [pc EXCEPT ![s] = "writing"],
               todo' = [todo EXCEPT ![s] = {}], UNCHANGED <<change, flushed>>
        PROVE  Live(s)'
    <3>1. Unflushed(s)' = Unflushed(s)
      BY <2>1 DEF Unflushed
    <3> QED
      BY <2>1, <3>1 DEF Live
  <2> QED
    BY <1>1, <1>3, <2>1 DEF Conflict, ConflictChecked
<1>4. CASE ScanEnds(s)
  BY <1>4 DEF ScanEnds, Live
<1>5. ASSUME NEW t \in Thesis, Judge(s, t) PROVE Live(s)'
  <2>1. /\ pc[s] = "thinking" /\ job[s] = "scan" /\ t \in todo[s]
        /\ todo'[s] = todo[s] \ {t} /\ job'[s] = job[s] /\ flushed'[s] = flushed[s]
        /\ t \notin flushed[s]
    BY <1>5 DEF Judge, Live
  <2>2. CASE UNCHANGED <<change, pc>>
    BY <2>1, <2>2 DEF Live, Reviews
  <2>3. CASE /\ change' = [change EXCEPT ![s][t] = Closing("INVALIDATED")]
             /\ pc' = [pc EXCEPT ![s] = "writing"]
    <3>1. /\ pc'[s] = "writing" /\ change'[s][t] = Closing("INVALIDATED")
          /\ \A u \in Thesis \ {t} : change'[s][u] = change[s][u]
      BY <2>3
    <3>2. t \in Unflushed(s)'
      BY <2>1, <3>1, SetChanges DEF Unflushed
    <3>3. \A u \in todo'[s] : change'[s][u] = NoChange /\ u \notin flushed'[s]
      BY <2>1, <3>1 DEF Live
    <3> QED
      BY <2>1, <3>1, <3>2, <3>3 DEF Live
  <2> QED
    BY <1>5, <2>2, <2>3 DEF Judge
<1>6. ASSUME NEW t \in Thesis, Flush(s, t) PROVE Live(s)'
  <2>1. /\ pc[s] = "writing" /\ change[s][t] # NoChange
        /\ pc'[s] = IF job[s] = "scan" THEN "thinking" ELSE "committing"
        /\ todo' = todo /\ job' = job /\ change' = change
        /\ flushed'[s] = flushed[s] \cup {t}
    BY <1>6 DEF Flush, Flushed, Unflushed
  <2>2. job[s] = "scan" => \A u \in todo[s] : change[s][u] = NoChange /\ u \notin flushed'[s]
    BY <2>1 DEF Live
  <2> QED
    BY <2>1, <2>2 DEF Live, Reviews
<1>7. ASSUME NEW v \in Status, NEW rec \in BOOLEAN, ReviewSaved(s, v, rec) PROVE Live(s)'
  <2>1. /\ pc[s] = "thinking" /\ job[s] \in Reviews /\ v \in {"none", "WEAKENING"}
        /\ job' = job /\ flushed' = flushed /\ flushed[s] = {} /\ job[s] # "scan"
    BY <1>7 DEF ReviewSaved, Choices, Reviews, Live
  <2>2. CASE pc' = [pc EXCEPT ![s] = "committing"]
    <3>1. pc'[s] = "committing"
      BY <2>2
    <3> QED
      BY <2>1, <3>1 DEF Live
  <2>3. ASSUME NEW t \in todo[s], pc' = [pc EXCEPT ![s] = "writing"],
               change' = [change EXCEPT ![s][t] = [status |-> v, closedAt |-> "keep"]]
        PROVE  Live(s)'
    <3>1. pc'[s] = "writing" /\ t \in Thesis
      BY <2>3
    <3>2. change'[s][t] = [status |-> v, closedAt |-> "keep"]
      BY <2>3, <3>1
    <3>3. [status |-> v, closedAt |-> "keep"] # NoChange
      BY <2>1, SetChanges
    <3>4. t \in Unflushed(s)'
      BY <2>1, <3>1, <3>2, <3>3 DEF Unflushed
    <3> QED
      BY <2>1, <3>1, <3>4 DEF Live
  <2> QED
    BY <1>7, <2>2, <2>3 DEF ReviewSaved
<1>8. CASE Commit(s) \/ LeaveUncommitted(s) \/ Fail(s)
  BY <1>1, <1>8 DEF Commit, LeaveUncommitted, Fail
<1> QED
  BY <1>2, <1>3, <1>4, <1>5, <1>6, <1>7, <1>8 DEF Step

\* If every session that runs waits for a row, each waits for another that
\* runs: the sessions that run are a cycle or hold one.
LEMMA WaitersAreStuck ==
    ASSUME TypeOK, \A s \in Session : Live(s) PROVE NeverAllWait
<1> SUFFICES ASSUME NEW s \in Running, \A r \in Session : ~CanStep(r),
                    \A r \in Session : ~RowGone(r)
             PROVE  Stuck(s)
  BY DEF NeverAllWait, Running, Stuck
<1>1. ASSUME NEW r \in Running PROVE \E q \in Running : Waits(r, q)
  <2>1. r \in Session /\ pc[r] = "writing"
    <3>1. r \in Session /\ pc[r] \in {"picked", "checking", "thinking", "writing", "committing"}
      BY DEF Running, TypeOK
    <3> QED
      BY <3>1 DEF CanStep, Live
  <2>2. PICK t \in Thesis : t \in Unflushed(r)
    BY <2>1 DEF Live, Unflushed
  <2>3. row[t].status # "none" \/ job[r] = "create"
    BY <2>1, <2>2 DEF RowGone
  <2>4. Locked(r, t)
    BY <2>1, <2>2, <2>3 DEF CanStep
  <2>5. PICK q \in Session \ {r} : t \in flushed[q]
    BY <2>4 DEF Locked
  <2>6. q \in Running
    BY <2>5 DEF Live, Running
  <2> QED
    BY <2>1, <2>2, <2>5, <2>6 DEF Waits
<1>2. Running \in SUBSET Session
  BY DEF Running
<1> QED
  BY <1>1, <1>2 DEF Stuck

\* Whatever order sessions take rows in, and however many wait: as long as
\* one runs, one can take its next step or is for the database to end.
THEOREM NeverAllWaitAlways == Spec => []NeverAllWait
<1> DEFINE P == \A s \in Session : Live(s)
<1>1. Init => P
  BY DEF Init, Live, Reviews
<1>2. TypeOK /\ P /\ [Next]_vars => P'
  <2> SUFFICES ASSUME TypeOK, P, [Next]_vars, NEW r \in Session PROVE Live(r)'
    OBVIOUS
  <2>1. CASE UNCHANGED vars
    BY <2>1 DEF vars, Live, Unflushed
  <2>2. ASSUME NEW s \in Session, Start(s) \/ Step(s) \/ Fail(s) PROVE Live(r)'
    <3>1. CASE r = s
      BY <2>2, <3>1, LiveStart, LiveStep
    <3>2. CASE r # s
      BY <2>2, <3>2, OthersSame DEF Live, Unflushed
    <3> QED
      BY <3>1, <3>2
  <2> QED
    BY <2>1, <2>2 DEF Next
<1>3. TypeOK /\ P => NeverAllWait
  BY WaitersAreStuck
<1> QED
  BY <1>1, <1>2, <1>3, TypeCorrect, PTL DEF Spec

=============================================================================

--------------------------- MODULE TradingDayProofs ---------------------------
(* Theorems about what sessions do to the rows of a thesis: its assumptions,  *)
(* of ThesisComponents, and after them the decisions of DecisionOutcomes.     *)
(* They hold for every finite set of assumptions, for all decisions and for   *)
(* any number of sessions.  Last, what the five parts that MCTradingDay puts  *)
(* together keep, each by the theorems of its own.                            *)
EXTENDS MCTradingDay, ClosingPricesProofs, EngineCycleProofs, PositionBooksProofs,
        FiniteSetTheorems, TLAPS

\* One session at a time has written the thesis; an edit not before the score.
RowIsOne == \A s, r \in Editor : ses[s].row /\ ses[r].row => s = r

SessionOK(s) ==
    /\ ses[s].pc = "idle" => ~ses[s].row /\ ~ses[s].review
    /\ ses[s].pc = "opening" => ses[s].review
    /\ ses[s].row /\ ~ses[s].review => ses[s].pc \in {"scored", "invalidating", "ending"}
    \* A review writes the thesis before anything else, and deletes nothing.
    /\ ses[s].review /\ ses[s].pc # "opening" /\ ~ses[s].row => ses[s].sets = Keep
    /\ ses[s].review => \A a \in Assumption : ses[s].sets[a] # "none"

SessionsOK == \A s \in Editor : SessionOK(s)

\* Sessions that work at the same time know it.
MetBoth == \A s, r \in Editor : s # r /\ Working(s) /\ Working(r) => ses[s].met

SesInv == EditTypeOK /\ RowIsOne /\ SessionsOK /\ MetBoth

-----------------------------------------------------------------------------
\* A session that has ended may be used again.
LEMMA FreeIsSession == Free \in Sessions
<1>1. Keep \in Sets
  BY DEF Keep, Sets
<1>2. FALSE \in BOOLEAN
  OBVIOUS
<1> QED
  BY <1>1, <1>2 DEF Free, Sessions

\* The flags of a session may be set to anything.
LEMMA FlagsOfSession ==
    ASSUME NEW x \in Sessions, NEW b \in BOOLEAN
    PROVE  /\ [x EXCEPT !.met = b] \in Sessions
           /\ [x EXCEPT !.row = TRUE, !.drops = b] \in Sessions
<1>1. TRUE \in BOOLEAN
  OBVIOUS
<1> QED
  BY <1>1 DEF Sessions

\* A session that starts disturbs no type.
LEMMA OpenedType ==
    ASSUME EditTypeOK, NEW s \in Editor, NEW new \in Sessions, Opened(s, new)
    PROVE  EditTypeOK'
<1>1. \A r \in Editor : Working(r) \in BOOLEAN
  BY DEF Working
<1>2. (\E o \in Editor : Working(o)) \in BOOLEAN
  OBVIOUS
<1>3. [new EXCEPT !.met = \E o \in Editor : Working(o)] \in Sessions
  BY <1>2, FlagsOfSession
<1>4. \A r \in Editor : [ses[r] EXCEPT !.met = Working(r)] \in Sessions
  BY <1>1, FlagsOfSession DEF EditTypeOK
<1>5. ses' \in [Editor -> Sessions]
  BY <1>3, <1>4, Zenon DEF Opened
<1> QED
  BY <1>5 DEF EditTypeOK, Opened, Still

\* Type correctness: whatever sessions overlap, statuses and sessions keep their
\* types, and no column is committed without a value.
THEOREM EditTypeCorrect == EditSpec => []EditTypeOK
<1>1. EditInit => EditTypeOK
  <2> SUFFICES ASSUME EditInit PROVE EditTypeOK
    OBVIOUS
  <2>1. /\ ses \in [Editor -> Sessions]
        /\ comp \in [Assumption -> Status]
    BY FreeIsSession DEF EditInit
  <2>2. active \in BOOLEAN /\ excused \in BOOLEAN
    BY DEF EditInit
  <2> QED
    BY <2>1, <2>2 DEF EditTypeOK
<1>2. EditTypeOK /\ [EditNext]_editVars => EditTypeOK'
  <2> SUFFICES ASSUME EditTypeOK, [EditNext]_editVars PROVE EditTypeOK'
    OBVIOUS
  <2> USE DEF EditTypeOK
  <2>0. Free \in Sessions
    BY FreeIsSession
  <2>1. ASSUME NEW s \in Editor, NEW new \in Sessions, Opened(s, new) PROVE EditTypeOK'
    BY <2>1, OpenedType
  <2>2. ASSUME NEW s \in Editor, NEW a \in Assumption, NEW st \in Status,
               EditLoads(s, a, st) \/ AddLoads(s, a, st)
        PROVE  EditTypeOK'
    <3>1. /\ [Free EXCEPT !.pc = "writing", !.sets[a] = st] \in Sessions
          /\ [Free EXCEPT !.pc = "written", !.sets[a] = st] \in Sessions
      BY <2>0 DEF Free, Sessions, Keep, Sets
    <3> QED
      BY <2>1, <2>2, <3>1 DEF EditLoads, AddLoads
  <2>3. ASSUME NEW s \in Editor, NEW sets \in Sets, ReviewLoads(s, sets) PROVE EditTypeOK'
    <3>1. [Free EXCEPT !.pc = "opening", !.review = TRUE, !.sets = sets] \in Sessions
      BY <2>0 DEF Free, Sessions
    <3> QED
      BY <2>1, <2>3, <3>1 DEF ReviewLoads
  <2>4. ASSUME NEW s \in Editor, OtherLoads(s) PROVE EditTypeOK'
    <3>1. [Free EXCEPT !.pc = "written"] \in Sessions
      BY <2>0 DEF Free, Sessions
    <3> QED
      BY <2>1, <2>4, <3>1 DEF OtherLoads
  <2>5. ASSUME NEW s \in Editor, Step(s) PROVE EditTypeOK'
    <3>1. ses[s] \in Sessions
      OBVIOUS
    <3>2. ASSUME NEW new \in Sessions, Moves(s, new), Still PROVE EditTypeOK'
      BY <3>2 DEF Moves, Still
    <3>3. CASE ReviewOpens(s)
      <4>1. \A drops \in BOOLEAN :
                [ses[s] EXCEPT !.row = TRUE, !.drops = drops, !.pc = "writing"] \in Sessions
        BY <3>1 DEF Sessions
      <4>2. [ses[s] EXCEPT !.pc = "written"] \in Sessions
        BY <3>1 DEF Sessions
      <4> QED
        BY <3>2, <3>3, <4>1, <4>2 DEF ReviewOpens
    <3>4. CASE Writes(s)
      BY <3>1, <3>2, <3>4 DEF Writes, Sessions
    <3>5. CASE Scores(s)
      BY <3>1, <3>2, <3>5 DEF Scores, AfterScore, Sessions
    <3>6. CASE Saves(s)
      BY <3>1, <3>2, <3>6 DEF Saves, AfterScore, Sessions
    <3>7. CASE Checks(s)
      BY <3>1, <3>2, <3>7 DEF Checks, Sessions
    <3>8. CASE Invalidates(s)
      BY <3>1, <3>2, <3>8 DEF Invalidates, Sessions
    <3>9. CASE Commits(s)
      <4>1. ses' \in [Editor -> Sessions]
        BY <2>0, <3>9 DEF Commits, Moves
      <4>2. comp' \in [Assumption -> Status]
        BY <3>1, <3>9 DEF Commits, Sees, Over, Uncommitted, Keep, Sessions, Sets
      <4>3. active' \in BOOLEAN
        BY <3>1, <3>9 DEF Commits, SeesActive, Sessions
      <4>4. excused' \in BOOLEAN
        BY <3>9 DEF Commits
      <4> QED
        BY <4>1, <4>2, <4>3, <4>4
    <3>10. CASE Fails(s)
      BY <2>0, <3>2, <3>10 DEF Fails
    <3> QED
      BY <2>5, <3>3, <3>4, <3>5, <3>6, <3>7, <3>8, <3>9, <3>10 DEF Step
  <2>6. CASE Closes
    BY <2>6 DEF Closes
  <2>7. CASE Reopens
    <3>1. excused' \in BOOLEAN
      BY <2>7 DEF Reopens
    <3> QED
      BY <2>7, <3>1 DEF Reopens, Working, Sessions
  <2>8. CASE UNCHANGED editVars
    BY <2>8 DEF editVars
  <2> QED
    BY <2>2, <2>3, <2>4, <2>5, <2>6, <2>7, <2>8 DEF EditNext
<1> QED
  BY <1>1, <1>2, PTL DEF EditSpec

-----------------------------------------------------------------------------
(* The sessions.                                                              *)

\* A step of a session at work leaves the others alone, and writes the thesis
\* only while nobody else holds its row.
LEMMA StepOK ==
    ASSUME SesInv, NEW s \in Editor, Step(s)
    PROVE  /\ \A r \in Editor \ {s} : ses'[r] = ses[r]
           /\ SessionOK(s)'
           /\ ses'[s].row => ses[s].row \/ ~RowHeld(s)
           /\ Working(s)' => Working(s) /\ ses'[s].met = ses[s].met
<1>0. ses \in [Editor -> Sessions] /\ ses[s] \in Sessions /\ SessionOK(s)
  BY DEF SesInv, EditTypeOK, SessionsOK
<1> USE DEF Moves, Working, SessionOK
<1>1. CASE ReviewOpens(s)
  <2>0. ses[s].pc = "opening"
    BY <1>1, Zenon DEF ReviewOpens
  <2>1. CASE ses[s].sets = Keep /\ Moves(s, [ses[s] EXCEPT !.pc = "written"])
    BY <1>0, <2>0, <2>1 DEF Sessions
  <2> DEFINE RowRead(b) == Moves(s, [ses[s] EXCEPT !.row = TRUE, !.drops = b, !.pc = "writing"])
  <2>2. CASE ~RowHeld(s) /\ RowRead(TRUE)
    BY <1>0, <2>0, <2>2 DEF Sessions
  <2>3. CASE ~RowHeld(s) /\ RowRead(FALSE)
    BY <1>0, <2>0, <2>3 DEF Sessions
  <2> QED
    BY <1>1, <2>1, <2>2, <2>3, Zenon DEF ReviewOpens
<1>2. CASE Writes(s)
  BY <1>0, <1>2 DEF Writes, Sessions
<1>3. CASE Scores(s)
  BY <1>0, <1>3 DEF Scores, AfterScore, Sessions
<1>4. CASE Saves(s)
  BY <1>0, <1>4 DEF Saves, AfterScore, Sessions
<1>5. CASE Checks(s)
  BY <1>0, <1>5 DEF Checks, Sessions
<1>6. CASE Invalidates(s)
  BY <1>0, <1>6 DEF Invalidates, Sessions
<1>7. CASE Commits(s) \/ Fails(s)
  <2>1. ses' = [ses EXCEPT ![s] = Free]
    BY <1>7 DEF Commits, Fails
  <2>2. Free.pc = "idle" /\ ~Free.row /\ ~Free.review
    BY DEF Free
  <2> QED
    BY <1>0, <2>1, <2>2
<1> QED
  BY <1>1, <1>2, <1>3, <1>4, <1>5, <1>6, <1>7 DEF Step

Begun(s, new) ==
    /\ Opened(s, new)
    /\ new \in Sessions /\ ~new.row
    /\ new.pc \in {"opening", "writing", "written"}
    /\ new.pc = "opening" <=> new.review
    /\ new.review => \A a \in Assumption : new.sets[a] # "none"
    /\ new.review => \A a \in Assumption : new.sets[a] # "keep" => comp[a] = "other"

\* What a session starts with.
LEMMA LoadsAre ==
    ASSUME NEW s \in Editor, EditTypeOK,
           \/ \E a \in Assumption, st \in Status : EditLoads(s, a, st) \/ AddLoads(s, a, st)
           \/ \E sets \in Sets : ReviewLoads(s, sets)
           \/ OtherLoads(s)
    PROVE  \E new : Begun(s, new)
<1>0. Free \in Sessions /\ ~Free.row /\ ~Free.review
  BY FreeIsSession DEF Free
<1>1. ASSUME NEW a \in Assumption, NEW st \in Status, NEW pc \in {"writing", "written"},
             Opened(s, [Free EXCEPT !.pc = pc, !.sets[a] = st])
      PROVE  Begun(s, [Free EXCEPT !.pc = pc, !.sets[a] = st])
  BY <1>0, <1>1 DEF Sessions, Sets, Begun
<1>2. CASE \E a \in Assumption, st \in Status : EditLoads(s, a, st) \/ AddLoads(s, a, st)
  BY <1>1, <1>2, Zenon DEF EditLoads, AddLoads
<1>3. ASSUME NEW sets \in Sets, ReviewLoads(s, sets)
      PROVE  Begun(s, [Free EXCEPT !.pc = "opening", !.review = TRUE, !.sets = sets])
  BY <1>0, <1>3 DEF ReviewLoads, MayApply, Sessions, Begun
<1>4. CASE OtherLoads(s)
  <2>1. Begun(s, [Free EXCEPT !.pc = "written"])
    BY <1>0, <1>4 DEF OtherLoads, Sessions, Begun
  <2> QED
    BY <2>1
<1> QED
  BY <1>2, <1>3, <1>4

Alike(x, y) == /\ x.pc = y.pc /\ x.sets = y.sets /\ (x.review <=> y.review)
               /\ (x.row <=> y.row) /\ (x.drops <=> y.drops)

\* To note that another session was met changes nothing else.
LEMMA MetSet ==
    ASSUME NEW x \in Sessions, NEW b \in BOOLEAN
    PROVE  Alike([x EXCEPT !.met = b], x) /\ ([x EXCEPT !.met = b]).met = b
BY Zenon DEF Sessions, Alike

\* A session that starts, and the others at work, know of each other.
LEMMA OpenedIs ==
    ASSUME EditTypeOK, NEW s \in Editor, NEW new, Begun(s, new)
    PROVE  /\ ~Working(s)
           /\ Alike(ses'[s], new) /\ ses'[s].met = \E o \in Editor : Working(o)
           /\ \A r \in Editor \ {s} : Alike(ses'[r], ses[r]) /\ ses'[r].met = Working(r)
           /\ UNCHANGED <<comp, active, excused>>
<1>1. ses'[s] = [new EXCEPT !.met = \E o \in Editor : Working(o)]
  BY DEF Begun, Opened
<1>2. \A r \in Editor \ {s} : ses'[r] = [ses[r] EXCEPT !.met = Working(r)]
  BY DEF Begun, Opened
<1>3. ~Working(s) /\ UNCHANGED <<comp, active, excused>>
  BY DEF Begun, Opened, Still
<1>4. new \in Sessions /\ \A r \in Editor : ses[r] \in Sessions
  BY DEF Begun, EditTypeOK
<1>5. Alike(ses'[s], new) /\ ses'[s].met = \E o \in Editor : Working(o)
  <2>1. (\E o \in Editor : Working(o)) \in BOOLEAN
    OBVIOUS
  <2> QED
    BY <1>1, <1>4, <2>1, MetSet
<1>6. ASSUME NEW r \in Editor \ {s} PROVE Alike(ses'[r], ses[r]) /\ ses'[r].met = Working(r)
  <2>1. ses[r] \in Sessions
    BY <1>4
  <2>2. ses'[r] = [ses[r] EXCEPT !.met = Working(r)]
    BY <1>2
  <2>3. Working(r) \in BOOLEAN
    BY DEF Working
  <2> QED
    BY <2>1, <2>2, <2>3, MetSet
<1> QED
  BY <1>3, <1>5, <1>6, Zenon

\* Whatever starts, stops or goes on, one session at a time has the thesis.
LEMMA SesInvAlways == EditSpec => []SesInv
<1> DEFINE Kept == RowIsOne /\ SessionsOK /\ MetBoth
<1>1. EditInit => Kept
  <2> SUFFICES ASSUME EditInit PROVE Kept
    OBVIOUS
  <2>1. Free.pc = "idle" /\ ~Free.row /\ ~Free.review
    BY DEF Free
  <2>2. \A s \in Editor : ses[s] = Free
    BY DEF EditInit
  <2> QED
    BY <2>1, <2>2 DEF RowIsOne, SessionsOK, SessionOK, MetBoth, Working
<1>2. EditTypeOK /\ EditTypeOK' /\ Kept /\ [EditNext]_editVars => Kept'
  <2> SUFFICES ASSUME EditTypeOK, EditTypeOK', Kept, [EditNext]_editVars PROVE Kept'
    OBVIOUS
  <2>1. ASSUME NEW s \in Editor, NEW new, Begun(s, new) PROVE Kept'
    <3>1. /\ ~Working(s)
          /\ Alike(ses'[s], new) /\ ses'[s].met = \E o \in Editor : Working(o)
          /\ \A r \in Editor \ {s} : Alike(ses'[r], ses[r]) /\ ses'[r].met = Working(r)
      BY <2>1, OpenedIs, Zenon
    <3>2. ~ses'[s].row /\ SessionOK(s)'
      BY <2>1, <3>1 DEF Begun, Alike, SessionOK
    <3>3. \A r \in Editor \ {s} : SessionOK(r)' /\ (ses'[r].row <=> ses[r].row)
      BY <3>1 DEF Alike, SessionsOK, SessionOK
    <3>4. RowIsOne' /\ SessionsOK'
      BY <3>2, <3>3 DEF RowIsOne, SessionsOK
    <3>5. \A r \in Editor \ {s} : Working(r)' = Working(r)
      BY <3>1 DEF Alike, Working
    <3>6. MetBoth'
      <4> SUFFICES ASSUME NEW r \in Editor, NEW o \in Editor, r # o, Working(r)', Working(o)'
                   PROVE  ses'[r].met
        BY DEF MetBoth
      <4>1. CASE r = s
        BY <3>1, <3>5, <4>1
      <4>2. CASE r # s
        BY <3>1, <3>5, <4>2
      <4> QED
        BY <4>1, <4>2
    <3> QED
      BY <3>4, <3>6
  <2>2. ASSUME NEW s \in Editor, Step(s) PROVE Kept'
    <3>1. /\ \A r \in Editor \ {s} : ses'[r] = ses[r]
          /\ SessionOK(s)'
          /\ ses'[s].row => ses[s].row \/ ~RowHeld(s)
          /\ Working(s)' => Working(s) /\ ses'[s].met = ses[s].met
      BY <2>2, StepOK DEF SesInv
    <3>2. RowIsOne'
      BY <3>1 DEF RowIsOne, RowHeld
    <3>3. SessionsOK'
      BY <3>1 DEF SessionsOK, SessionOK
    <3>4. MetBoth'
      BY <3>1 DEF MetBoth, Working
    <3> QED
      BY <3>2, <3>3, <3>4
  <2>3. CASE Closes
    BY <2>3 DEF Closes, RowIsOne, SessionsOK, SessionOK, MetBoth, Working
  <2>4. CASE Reopens
    <3>1. \A s \in Editor : Alike(ses'[s], ses[s]) /\ ses'[s].met = Working(s)
      <4> TAKE s \in Editor
      <4>1. ses'[s] = [ses[s] EXCEPT !.met = Working(s)]
        BY <2>4 DEF Reopens
      <4>2. Working(s) \in BOOLEAN /\ ses[s] \in Sessions
        BY DEF Working, EditTypeOK
      <4> QED
        BY <4>1, <4>2, MetSet
    <3>2. RowIsOne' /\ SessionsOK'
      BY <3>1 DEF Alike, RowIsOne, SessionsOK, SessionOK
    <3>3. MetBoth'
      BY <3>1 DEF Alike, MetBoth, Working
    <3> QED
      BY <3>2, <3>3
  <2>5. CASE UNCHANGED editVars
    BY <2>5 DEF editVars, RowIsOne, SessionsOK, SessionOK, MetBoth, Working
  <2> QED
    BY <2>1, <2>2, <2>3, <2>4, <2>5, LoadsAre DEF EditNext
<1> QED
  BY <1>1, <1>2, EditTypeCorrect, PTL DEF EditSpec, SesInv

\* Edits lock an assumption, then the thesis: one that waits for an assumption
\* waits for one that waits, at most, for the thesis, and who has it goes on.
THEOREM EditsNeverDeadlockAlways == EditSpec => []EditsNeverDeadlock
<1>1. SesInv => EditsNeverDeadlock
  <2> SUFFICES ASSUME SesInv,
                      NEW S \in SUBSET {s \in Editor : Working(s) /\ ~ses[s].review},
                      NEW first \in S,
                      \A s \in S : \E r \in S : Waits(s, r)
               PROVE  FALSE
    BY DEF EditsNeverDeadlock
  <2>1. \A s \in S : s \in Editor /\ ~ses[s].review /\ SessionOK(s) /\ ses[s].pc # "opening"
    BY DEF SesInv, SessionsOK, SessionOK
  <2>2. ASSUME NEW s \in S, NEW r \in S, Waits(s, r), ses[r].row PROVE FALSE
    <3>1. ses[r].pc \in {"scored", "invalidating", "ending"}
      BY <2>1, <2>2 DEF SessionOK
    <3>2. PICK o \in S : Waits(r, o)
      OBVIOUS
    <3>3. ses[o].row /\ r # o
      BY <3>1, <3>2 DEF Waits
    <3> QED
      BY <2>1, <2>2, <3>3 DEF SesInv, RowIsOne
  <2>3. PICK r \in S : Waits(first, r)
    OBVIOUS
  <2>4. ~ses[r].row
    BY <2>2, <2>3
  <2>5. ses[r].pc # "writing"
    BY <2>3, <2>4 DEF Waits, Uncommitted, Keep
  <2>6. PICK o \in S : Waits(r, o)
    OBVIOUS
  <2>7. ses[o].row
    BY <2>5, <2>6 DEF Waits
  <2> QED
    BY <2>2, <2>6, <2>7
<1> QED
  BY <1>1, SesInvAlways, PTL

-----------------------------------------------------------------------------
(* The threshold.                                                             *)

\* What is not invalidated further cannot pass the threshold.
LEMMA PastHalfBefore ==
    ASSUME NEW c \in [Assumption -> Status], NEW sets \in Sets,
           \A a \in Assumption : sets[a] \notin {"invalid", "none"},
           PastHalf(Over(c, sets))
    PROVE  PastHalf(c)
<1> DEFINE d == Over(c, sets)
           I(f) == {a \in Assumption : f[a] = "invalid"}
           P(f) == {a \in Assumption : f[a] # "none"}
<1>1. \A a \in Assumption : d[a] \in {c[a], "other"}
  BY DEF Over, Sets, Status
<1>2. I(d) \subseteq I(c) /\ P(c) \subseteq P(d)
  BY <1>1
<1>3. IsFiniteSet(I(c)) /\ IsFiniteSet(P(d)) /\ IsFiniteSet(I(d)) /\ IsFiniteSet(P(c))
  BY PartsAssumption, FS_Subset
<1>4. /\ Cardinality(I(c)) \in Nat /\ Cardinality(I(d)) \in Nat
      /\ Cardinality(P(c)) \in Nat /\ Cardinality(P(d)) \in Nat
  BY <1>3, FS_CardinalityType
<1>5. Cardinality(I(d)) <= Cardinality(I(c)) /\ Cardinality(P(c)) <= Cardinality(P(d))
  BY <1>2, <1>3, FS_Subset
<1>6. 2 * Cardinality(I(d)) > Cardinality(P(d))
  BY DEF PastHalf
<1>7. 2 * Cardinality(I(c)) > Cardinality(P(c))
  BY <1>4, <1>5, <1>6
<1> QED
  BY <1>7 DEF PastHalf

\* A session sees the same as long as nothing is committed or written.
LEMMA SeesAgain ==
    ASSUME NEW s \in Editor, comp' = comp, ses'[s].sets = ses[s].sets,
           \/ ses'[s].pc = ses[s].pc
           \/ ses[s].pc = "scored" /\ ses'[s].pc = "ending"
    PROVE  Sees(s)' = Sees(s)
BY DEF Sees, Uncommitted, Over

\* An edit about to commit has seen that the threshold is kept, and nothing it
\* has not seen can have come since, unless it is excused.
CheckedFor(s) ==
    /\ ses[s].pc = "ending" /\ ~ses[s].review /\ ~ses[s].drops
    /\ ses[s].row \/ ~ses[s].met
    /\ active /\ PastHalf(Sees(s))
    => excused

\* An ACTIVE thesis past the threshold has an excuse, whatever sessions overlap.
THEOREM ThresholdKeptAlways == EditSpec => []ThresholdKept
<1> DEFINE Kept == (\A s \in Editor : CheckedFor(s)) /\ ThresholdKept
<1>1. EditInit => Kept
  BY DEF EditInit, CheckedFor, ThresholdKept, Free
<1>2. SesInv /\ SesInv' /\ Kept /\ [EditNext]_editVars => Kept'
  <2> SUFFICES ASSUME SesInv, SesInv', Kept, [EditNext]_editVars PROVE Kept'
    OBVIOUS
  <2>0. EditTypeOK
    BY DEF SesInv
  <2>1. ASSUME NEW s \in Editor, NEW new, Begun(s, new) PROVE Kept'
    <3>1. /\ Alike(ses'[s], new)
          /\ \A r \in Editor \ {s} : Alike(ses'[r], ses[r]) /\ ses'[r].met = Working(r)
          /\ UNCHANGED <<comp, active, excused>>
      BY <2>0, <2>1, OpenedIs, Zenon
    <3>2. CheckedFor(s)'
      BY <2>1, <3>1 DEF Begun, Alike, CheckedFor
    <3>3. ASSUME NEW r \in Editor \ {s} PROVE CheckedFor(r)'
      <4>1. Sees(r)' = Sees(r)
        BY <3>1, SeesAgain DEF Alike
      <4>2. ses'[r].pc = "ending" => ses'[r].met
        BY <3>1 DEF Alike, Working
      <4> QED
        BY <3>1, <4>1, <4>2 DEF Alike, CheckedFor
    <3> QED
      BY <3>1, <3>2, <3>3 DEF ThresholdKept
  <2>2. ASSUME NEW s \in Editor, Moves(s, ses'[s]), Still, CheckedFor(s)' PROVE Kept'
    <3>1. ASSUME NEW r \in Editor \ {s} PROVE CheckedFor(r)'
      <4>1. ses'[r] = ses[r] /\ UNCHANGED <<comp, active, excused>>
        BY <2>0, <2>2 DEF Moves, Still, EditTypeOK
      <4>2. Sees(r)' = Sees(r)
        BY <4>1, SeesAgain
      <4> QED
        BY <4>1, <4>2 DEF CheckedFor
    <3> QED
      BY <2>2, <3>1 DEF Still, ThresholdKept
  <2>3. ASSUME NEW s \in Editor, Step(s), ~Commits(s) PROVE Kept'
    <3>0. ses[s] \in Sessions /\ ses \in [Editor -> Sessions]
      BY <2>0 DEF EditTypeOK
    <3>1. CASE ReviewOpens(s)
      <4>1. ses'[s].pc # "ending" /\ Moves(s, ses'[s]) /\ Still
        BY <3>0, <3>1 DEF ReviewOpens, Moves, Sessions
      <4> QED
        BY <2>2, <4>1 DEF CheckedFor
    <3>2. CASE Writes(s)
      <4>1. ses'[s].pc # "ending" /\ Moves(s, ses'[s]) /\ Still
        BY <3>0, <3>2 DEF Writes, Moves, Sessions
      <4> QED
        BY <2>2, <4>1 DEF CheckedFor
    <3>3. CASE Scores(s)
      <4>1. /\ ses'[s].pc = "ending" => ses'[s].review
            /\ Moves(s, ses'[s]) /\ Still
        BY <3>0, <3>3 DEF Scores, AfterScore, Moves, Sessions
      <4> QED
        BY <2>2, <4>1 DEF CheckedFor
    <3>4. CASE Saves(s)
      <4>1. /\ ses'[s].pc = "ending" => ses'[s].review
            /\ Moves(s, ses'[s]) /\ Still
        BY <3>0, <3>4 DEF Saves, AfterScore, Moves, Sessions
      <4> QED
        BY <2>2, <4>1 DEF CheckedFor
    <3>5. CASE Checks(s)
      <4>1. Moves(s, ses'[s]) /\ Still
        BY <3>0, <3>5 DEF Checks, Moves
      <4>2. /\ ses'[s].pc = "ending" => ~(SeesActive(s) /\ PastHalf(Sees(s)))
            /\ ses[s].pc = "scored" /\ ses'[s].sets = ses[s].sets
            /\ ses'[s].drops <=> ses[s].drops
        BY <3>0, <3>5 DEF Checks, Moves, Sessions
      <4>3. ses'[s].pc = "ending" => Sees(s)' = Sees(s)
        BY <4>1, <4>2, SeesAgain DEF Still
      <4>4. CheckedFor(s)'
        BY <4>1, <4>2, <4>3 DEF CheckedFor, SeesActive, Still
      <4> QED
        BY <2>2, <4>1, <4>4
    <3>6. CASE Invalidates(s)
      <4>1. ses'[s].drops /\ Moves(s, ses'[s]) /\ Still
        BY <3>0, <3>6 DEF Invalidates, Moves, Sessions
      <4> QED
        BY <2>2, <4>1 DEF CheckedFor
    <3>7. CASE Fails(s)
      <4>1. ses'[s].pc # "ending" /\ Moves(s, ses'[s]) /\ Still
        BY <3>0, <3>7 DEF Fails, Moves, Free
      <4> QED
        BY <2>2, <4>1 DEF CheckedFor
    <3> QED
      BY <2>3, <3>1, <3>2, <3>3, <3>4, <3>5, <3>6, <3>7 DEF Step
  <2>4. ASSUME NEW s \in Editor, Commits(s) PROVE Kept'
    <3>0. /\ ses[s] \in Sessions /\ SessionOK(s) /\ CheckedFor(s) /\ Working(s)
          /\ comp \in [Assumption -> Status]
      BY <2>0, <2>4 DEF SesInv, SessionsOK, EditTypeOK, Commits, Working
    <3>1. /\ ses'[s].pc = "idle"
          /\ \A r \in Editor \ {s} : ses'[r] = ses[r]
          /\ comp' = Over(comp, ses[s].sets)
          /\ active' = SeesActive(s)
          /\ ses[s].pc = "ending"
      BY <2>0, <2>4 DEF Commits, Moves, Free, EditTypeOK, Sees, Uncommitted
    <3>2. excused' <=> /\ excused \/ Excuse(s)
                       /\ PastHalf(comp') \/ \E r \in Editor \ {s} : Working(r)
      BY <2>4 DEF Commits
    <3>3. ASSUME active', PastHalf(comp') PROVE excused'
      <4>1. active /\ ~ses[s].drops
        BY <3>1, <3>3 DEF SeesActive
      <4>2. CASE ses[s].review
        <5>1. CASE \E a \in Assumption : ses[s].sets[a] = "invalid"
          BY <3>2, <3>3, <4>2, <5>1 DEF Excuse
        <5>2. CASE ~ \E a \in Assumption : ses[s].sets[a] = "invalid"
          <6>1. \A a \in Assumption : ses[s].sets[a] \notin {"invalid", "none"}
            BY <3>0, <4>2, <5>2 DEF SessionOK
          <6>2. ses[s].sets \in Sets
            BY <3>0 DEF Sessions
          <6>3. PastHalf(comp)
            BY <3>0, <3>1, <3>3, <6>1, <6>2, PastHalfBefore
          <6> QED
            BY <3>2, <3>3, <4>1, <6>3 DEF ThresholdKept
        <5> QED
          BY <5>1, <5>2
      <4>3. CASE ~ses[s].review /\ (ses[s].row \/ ~ses[s].met)
        <5>1. comp' = Sees(s)
          BY <2>4 DEF Commits
        <5> QED
          BY <3>0, <3>1, <3>2, <3>3, <4>1, <4>3, <5>1 DEF CheckedFor
      <4>4. CASE ~ses[s].review /\ ~ses[s].row /\ ses[s].met
        BY <3>2, <3>3, <4>4 DEF Excuse
      <4> QED
        BY <4>2, <4>3, <4>4
    <3>4. ASSUME NEW r \in Editor \ {s} PROVE CheckedFor(r)'
      <4> SUFFICES ASSUME ses[r].pc = "ending", ~ses[r].review, ~ses[r].drops,
                          ses[r].row \/ ~ses[r].met, active', PastHalf(Sees(r)')
                   PROVE  excused'
        BY <3>1 DEF CheckedFor
      <4>1. Working(r) /\ ses[r].met /\ ses[s].met
        BY <3>0 DEF Working, SesInv, MetBoth
      <4>2. ~ses[s].row
        BY <4>1 DEF SesInv, RowIsOne
      <4>3. CASE ~ses[s].review
        BY <3>2, <4>1, <4>2, <4>3 DEF Excuse
      <4>4. CASE ses[s].review
        <5>1. ses[s].sets = Keep
          BY <3>0, <3>1, <4>2, <4>4 DEF SessionOK
        <5>2. comp' = comp
          BY <3>0, <3>1, <5>1 DEF Over, Keep
        <5>3. Sees(r)' = Sees(r)
          BY <3>1, <5>2, SeesAgain
        <5>4. active
          BY <3>1 DEF SeesActive
        <5> QED
          BY <3>2, <4>1, <5>3, <5>4 DEF CheckedFor
      <4> QED
        BY <4>3, <4>4
    <3>5. CheckedFor(s)'
      BY <3>1 DEF CheckedFor
    <3> QED
      BY <3>3, <3>4, <3>5 DEF ThresholdKept
  <2>5. CASE Closes
    BY <2>5 DEF Closes, CheckedFor, ThresholdKept
  <2>6. CASE Reopens
    <3>1. ASSUME NEW s \in Editor PROVE CheckedFor(s)'
      <4>1. ses'[s] = [ses[s] EXCEPT !.met = Working(s)] /\ ~ses[s].row
        BY <2>6 DEF Reopens
      <4>2. Working(s) \in BOOLEAN /\ ses[s] \in Sessions
        BY <2>0 DEF Working, EditTypeOK
      <4>3. Alike(ses'[s], ses[s]) /\ ses'[s].met = Working(s)
        BY <4>1, <4>2, MetSet
      <4> QED
        BY <4>1, <4>3 DEF Alike, CheckedFor, Working
    <3> QED
      BY <2>6, <3>1 DEF Reopens, ThresholdKept
  <2>7. CASE UNCHANGED editVars
    BY <2>7 DEF editVars, CheckedFor, ThresholdKept, Sees, Uncommitted, Over
  <2> QED
    BY <2>0, <2>1, <2>3, <2>4, <2>5, <2>6, <2>7, LoadsAre DEF EditNext
<1> QED
  BY <1>1, <1>2, SesInvAlways, PTL DEF EditSpec

-----------------------------------------------------------------------------
(* The recommendations.                                                       *)

\* What a review that is alone has read is still so.
ReadsStill(s) ==
    ses[s].review /\ ~ses[s].met =>
        \A a \in Assumption : ses[s].sets[a] # "keep" => comp[a] = "other"

Moved(s) == /\ ses'[s].review <=> ses[s].review
            /\ ses'[s].sets = ses[s].sets
            /\ ses'[s].met <=> ses[s].met

\* At work a review keeps what it is to write, and what it has met.
LEMMA MovedBy ==
    ASSUME EditTypeOK, NEW s \in Editor, Step(s), ~Commits(s)
    PROVE  ~ses'[s].review \/ Moved(s)
<1>0. ses[s] \in Sessions /\ ses \in [Editor -> Sessions]
  BY DEF EditTypeOK
<1>1. CASE ReviewOpens(s)
  <2> DEFINE RowRead(b) == Moves(s, [ses[s] EXCEPT !.row = TRUE, !.drops = b, !.pc = "writing"])
  <2>1. CASE Moves(s, [ses[s] EXCEPT !.pc = "written"])
    BY <1>0, <2>1 DEF Moves, Moved, Sessions
  <2>2. CASE RowRead(TRUE)
    BY <1>0, <2>2 DEF Moves, Moved, Sessions
  <2>3. CASE RowRead(FALSE)
    BY <1>0, <2>3 DEF Moves, Moved, Sessions
  <2> QED
    BY <1>1, <2>1, <2>2, <2>3, Zenon DEF ReviewOpens
<1>2. CASE Writes(s)
  BY <1>0, <1>2 DEF Writes, Moves, Moved, Sessions
<1>3. CASE Scores(s)
  BY <1>0, <1>3 DEF Scores, Moves, Moved, Sessions
<1>4. CASE Saves(s)
  BY <1>0, <1>4 DEF Saves, Moves, Moved, Sessions
<1>5. CASE Checks(s)
  BY <1>0, <1>5 DEF Checks, Moves, Moved, Sessions
<1>6. CASE Invalidates(s)
  BY <1>0, <1>6 DEF Invalidates, Moves, Moved, Sessions
<1>7. CASE Fails(s)
  BY <1>0, <1>7 DEF Fails, Moves, Free
<1> QED
  BY <1>1, <1>2, <1>3, <1>4, <1>5, <1>6, <1>7 DEF Step

\* A review restores only what became INVALID behind its back.
THEOREM RestoredByHandAlways == EditSpec => RestoredByHand
<1> DEFINE Kept == \A s \in Editor : ReadsStill(s)
<1>1. EditInit => Kept
  BY DEF EditInit, ReadsStill, Free
<1>2. SesInv /\ Kept /\ [EditNext]_editVars => Kept'
  <2> SUFFICES ASSUME SesInv, Kept, [EditNext]_editVars PROVE Kept'
    OBVIOUS
  <2>0. EditTypeOK
    BY DEF SesInv
  <2>1. ASSUME NEW s \in Editor, NEW new, Begun(s, new) PROVE Kept'
    <3>1. /\ Alike(ses'[s], new)
          /\ \A r \in Editor \ {s} : Alike(ses'[r], ses[r]) /\ ses'[r].met = Working(r)
          /\ comp' = comp
      BY <2>0, <2>1, OpenedIs, Zenon
    <3>2. ReadsStill(s)'
      BY <2>1, <3>1 DEF Begun, Alike, ReadsStill
    <3>3. ASSUME NEW r \in Editor \ {s} PROVE ReadsStill(r)'
      <4>1. ses'[r].review => Working(r)
        BY <3>1 DEF Alike, Working, SesInv, SessionsOK, SessionOK
      <4> QED
        BY <3>1, <4>1 DEF ReadsStill
    <3> QED
      BY <3>2, <3>3
  <2>2. ASSUME NEW s \in Editor, Step(s) PROVE Kept'
    <3>1. /\ \A r \in Editor \ {s} : ses'[r] = ses[r]
          /\ Working(s)' => Working(s) /\ ses'[s].met = ses[s].met
      BY <2>2, StepOK
    <3>2. CASE Commits(s)
      <4>1. ~ses'[s].review
        BY <2>0, <3>2 DEF Commits, Moves, Free, EditTypeOK
      <4>2. ASSUME NEW r \in Editor \ {s}, ses[r].review PROVE ses[r].met
        BY <3>2, <4>2 DEF Commits, SesInv, SessionsOK, SessionOK, MetBoth, Working
      <4> QED
        BY <3>1, <4>1, <4>2 DEF ReadsStill
    <3>3. CASE ~Commits(s)
      <4>1. comp' = comp
        BY <2>2, <3>3 DEF Step, Still, ReviewOpens, Writes, Scores, Saves, Checks, Invalidates, Fails
      <4>2. ses'[s].review => ses'[s].sets = ses[s].sets /\ ses[s].review /\ (ses'[s].met <=> ses[s].met)
        <5>1. ~ses'[s].review \/ Moved(s)
          BY <2>0, <2>2, <3>3, MovedBy
        <5> QED
          BY <5>1 DEF Moved
      <4> QED
        BY <3>1, <4>1, <4>2 DEF ReadsStill
    <3> QED
      BY <3>2, <3>3
  <2>3. CASE Closes
    BY <2>3 DEF Closes, ReadsStill
  <2>4. CASE Reopens
    <3> SUFFICES ASSUME NEW s \in Editor PROVE ReadsStill(s)'
      OBVIOUS
    <3>1. ses'[s] = [ses[s] EXCEPT !.met = Working(s)]
      BY <2>4 DEF Reopens
    <3>2. Working(s) \in BOOLEAN /\ ses[s] \in Sessions
      BY <2>0 DEF Working, EditTypeOK
    <3>3. Alike(ses'[s], ses[s]) /\ ses'[s].met = Working(s)
      BY <3>1, <3>2, MetSet
    <3>4. ses'[s].review => Working(s)
      BY <3>3 DEF Alike, Working, SesInv, SessionsOK, SessionOK
    <3> QED
      BY <3>3, <3>4 DEF ReadsStill
  <2>5. CASE UNCHANGED editVars
    BY <2>5 DEF editVars, ReadsStill
  <2> QED
    BY <2>0, <2>1, <2>2, <2>3, <2>4, <2>5, LoadsAre DEF EditNext
<1>3. SesInv /\ Kept /\ [EditNext]_editVars =>
      [\A a \in Assumption : comp[a] = "invalid" /\ comp'[a] = "other" =>
          \E s \in Editor : /\ ses[s].pc = "ending" /\ ses'[s].pc = "idle"
                            /\ (~ses[s].review \/ ses[s].met)]_editVars
  <2> SUFFICES ASSUME SesInv, Kept, EditNext,
                      NEW a \in Assumption, comp[a] = "invalid", comp'[a] = "other"
               PROVE  \E s \in Editor : /\ ses[s].pc = "ending" /\ ses'[s].pc = "idle"
                                        /\ (~ses[s].review \/ ses[s].met)
    BY DEF editVars
  <2>1. comp' # comp
    OBVIOUS
  <2>2. PICK s \in Editor : Commits(s)
    BY <2>1 DEF EditNext, EditLoads, AddLoads, ReviewLoads, OtherLoads, Opened, Still, Step,
                ReviewOpens, Writes, Scores, Saves, Checks, Invalidates, Fails, Closes, Reopens
  <2>3. ses[s].pc = "ending" /\ ses'[s].pc = "idle" /\ comp' = Over(comp, ses[s].sets)
    BY <2>2 DEF Commits, Moves, Free, SesInv, EditTypeOK, Sees, Uncommitted
  <2>4. ses[s].sets[a] # "keep"
    BY <2>3 DEF Over
  <2>5. ~ses[s].review \/ ses[s].met
    BY <2>4 DEF ReadsStill
  <2> QED
    BY <2>3, <2>5
<1> QED
  BY <1>1, <1>2, <1>3, SesInvAlways, PTL DEF EditSpec, RestoredByHand

-----------------------------------------------------------------------------
\* The two ways to judge give outcomes.
LEMMA JudgedIsOutcome ==
    ASSUME NEW m \in Shifts
    PROVE  /\ FillerJudges(m) \in Outcomes /\ FillerJudges(m) # Nothing
           /\ ServiceJudges(m) \in Outcomes /\ ServiceJudges(m) # Nothing
           /\ FillerJudges(m).move = m /\ ServiceJudges(m).move = m
<1>1. m # "none"
  BY DEF Shifts
<1> QED
  BY <1>1 DEF FillerJudges, ServiceJudges, Outcomes, Nothing

\* Whatever was loaded, what is written is an outcome; and it is the new one if
\* what was loaded is nothing, or what still stands.
LEMMA WrittenIsOutcome ==
    ASSUME OutcomeTypeOK, NEW d \in Decision, NEW saw \in Outcomes, NEW m \in Shifts,
           saw # Nothing => Evaluated(d),
           NEW new \in Written(d, saw, ServiceJudges(m))
    PROVE  /\ new \in Outcomes /\ new # Nothing
           /\ saw = Nothing \/ saw = outcome[d] => new = ServiceJudges(m)
<1> DEFINE judged == ServiceJudges(m)
<1>1. judged \in [move : Shifts, verdict : {"MIXED", "DECIDED"}]
  BY DEF ServiceJudges
<1>2. outcome[d] \in Outcomes
  BY DEF OutcomeTypeOK
<1>3. CASE saw = Nothing
  <2>1. judged.move # saw.move /\ judged.verdict # saw.verdict
    BY <1>1, <1>3 DEF Nothing, Shifts
  <2>2. new = judged
    BY <1>1, <2>1 DEF Written
  <2> QED
    BY <2>2, JudgedIsOutcome
<1>4. CASE saw # Nothing
  <2>1. /\ saw \in [move : Shifts, verdict : {"MIXED", "DECIDED"}]
        /\ outcome[d] \in [move : Shifts, verdict : {"MIXED", "DECIDED"}]
    BY <1>2, <1>4 DEF Evaluated, Outcomes
  <2>2. /\ new \in [move : Shifts, verdict : {"MIXED", "DECIDED"}]
        /\ saw = outcome[d] => new = judged
    BY <1>1, <2>1 DEF Written
  <2>3. new # Nothing
    BY <2>2 DEF Nothing, Shifts
  <2> QED
    BY <1>4, <2>2, <2>3 DEF Outcomes
<1> QED
  BY <1>3, <1>4


\* What a session has loaded is not taken away, the language model is asked
\* about decisions that have a price, the filler lists no others, and a job
\* beside which nobody worked listed what is still empty.
DeskOK(s) ==
    /\ desk[s].saw # Nothing => \A d \in desk[s].todo : Evaluated(d)
    /\ desk[s].asked \cap Unpriced = {} /\ (~Engaged(s) => desk[s].asked = {})
    /\ desk[s].job = "filler" => desk[s].todo \cap Unpriced = {}
    /\ desk[s].job \in Jobs /\ ~desk[s].met => \A d \in desk[s].todo : ~Evaluated(d)

\* Sessions that are at work at the same time know it.
MetTogether == \A s, r \in Desk : s # r /\ Engaged(s) /\ Engaged(r) => desk[s].met

OutInv == OutcomeTypeOK /\ VerdictFits /\ MetTogether /\ \A s \in Desk : DeskOK(s)

\* A session that starts with rows of the table keeps the invariant.
LEMMA ArrivesKeeps ==
    ASSUME OutInv, NEW s \in Desk, NEW new \in Desks, Arrives(s, new),
           new.job # "idle",
           new.saw # Nothing => \A d \in new.todo : Evaluated(d),
           new.asked \cap Unpriced = {},
           new.job = "filler" => new.todo \cap Unpriced = {},
           new.job \in Jobs => \A d \in new.todo : ~Evaluated(d)
    PROVE  OutInv'
<1>1. /\ UNCHANGED <<due, outcome, lesson, torn>>
      /\ desk[s].job = "idle"
      /\ desk' = [r \in Desk |->
                     IF r = s THEN [new EXCEPT !.met = \E o \in Desk : Engaged(o)]
                     ELSE [desk[r] EXCEPT !.met = Engaged(r)]]
  BY DEF Arrives, Engaged
<1>2. \A r \in Desk : desk[r] \in Desks
  BY DEF OutInv, OutcomeTypeOK
<1>3. \A x \in Desks, b \in BOOLEAN :
          /\ [x EXCEPT !.met = b] \in Desks
          /\ [x EXCEPT !.met = b].job = x.job /\ [x EXCEPT !.met = b].todo = x.todo
          /\ [x EXCEPT !.met = b].asked = x.asked /\ [x EXCEPT !.met = b].saw = x.saw
          /\ [x EXCEPT !.met = b].met = b
  BY DEF Desks
<1>4. /\ (\E o \in Desk : Engaged(o)) \in BOOLEAN
      /\ \A r \in Desk : Engaged(r) \in BOOLEAN
  BY DEF Engaged
<1>5. /\ desk'[s] = [new EXCEPT !.met = \E o \in Desk : Engaged(o)]
      /\ desk'[s] \in Desks /\ desk'[s].job = new.job /\ desk'[s].todo = new.todo
      /\ desk'[s].asked = new.asked /\ desk'[s].saw = new.saw
      /\ desk'[s].met = \E o \in Desk : Engaged(o)
  BY <1>1, <1>3, <1>4, Zenon
<1>6. ASSUME NEW r \in Desk \ {s}
      PROVE  /\ desk'[r] \in Desks /\ desk'[r].job = desk[r].job /\ desk'[r].todo = desk[r].todo
             /\ desk'[r].asked = desk[r].asked /\ desk'[r].saw = desk[r].saw
             /\ desk'[r].met = Engaged(r)
  <2>1. desk'[r] = [desk[r] EXCEPT !.met = Engaged(r)]
    BY <1>1, Zenon
  <2>2. desk[r] \in Desks /\ Engaged(r) \in BOOLEAN
    BY <1>2, <1>4
  <2>3. /\ [desk[r] EXCEPT !.met = Engaged(r)] \in Desks
        /\ [desk[r] EXCEPT !.met = Engaged(r)].job = desk[r].job
        /\ [desk[r] EXCEPT !.met = Engaged(r)].todo = desk[r].todo
        /\ [desk[r] EXCEPT !.met = Engaged(r)].asked = desk[r].asked
        /\ [desk[r] EXCEPT !.met = Engaged(r)].saw = desk[r].saw
        /\ [desk[r] EXCEPT !.met = Engaged(r)].met = Engaged(r)
    BY <2>2 DEF Desks
  <2> QED
    BY <2>1, <2>3, Zenon
<1>7. \A r \in Desk : DeskOK(r)'
  <2>1. DeskOK(s)'
    BY <1>1, <1>5 DEF DeskOK, Evaluated, Engaged
  <2>2. ASSUME NEW r \in Desk \ {s} PROVE DeskOK(r)'
    <3>1. DeskOK(r)
      BY DEF OutInv
    <3>2. desk[r].job \in Jobs => desk'[r].met
      BY <1>6 DEF Engaged, Jobs
    <3> QED
      BY <1>1, <1>6, <3>1, <3>2 DEF DeskOK, Evaluated, Engaged
  <2> QED
    BY <2>1, <2>2
<1>8. MetTogether'
  <2> SUFFICES ASSUME NEW p \in Desk, NEW r \in Desk, p # r,
                      Engaged(p)', Engaged(r)'
               PROVE  desk'[p].met
    BY DEF MetTogether
  <2>1. CASE p = s
    BY <1>5, <1>6, <2>1 DEF Engaged
  <2>2. CASE p # s
    BY <1>6, <2>2 DEF Engaged
  <2> QED
    BY <2>1, <2>2
<1>9. OutcomeTypeOK' /\ VerdictFits'
  <2>1. desk' \in [Desk -> Desks]
    BY <1>1, <1>5, <1>6, Zenon
  <2> QED
    BY <1>1, <2>1 DEF OutInv, OutcomeTypeOK, VerdictFits, Evaluated
<1> QED
  BY <1>7, <1>8, <1>9 DEF OutInv


\* A session at work that goes on or leaves keeps what the invariant says of
\* sessions, if outcomes are not taken away.
LEMMA SitsKeeps ==
    ASSUME OutInv, NEW s \in Desk, NEW new \in Desks, Engaged(s), Sits(s, new),
           \A d \in Decision : Evaluated(d) => Evaluated(d)',
           new.job = "idle" \/ new.met = desk[s].met,
           new.saw # Nothing => \A d \in new.todo : Evaluated(d)',
           new.asked \cap Unpriced = {}, new.job = "idle" => new.asked = {},
           new.job = "filler" => new.todo \cap Unpriced = {},
           new.job \in Jobs /\ ~new.met => \A d \in new.todo : ~Evaluated(d)'
    PROVE  desk' \in [Desk -> Desks] /\ MetTogether' /\ \A r \in Desk : DeskOK(r)'
<1>1. /\ desk \in [Desk -> Desks] /\ desk' = [desk EXCEPT ![s] = new]
      /\ desk'[s] = new /\ \A r \in Desk \ {s} : desk'[r] = desk[r]
  BY DEF OutInv, OutcomeTypeOK, Sits
<1>2. \A r \in Desk : desk[r] \in Desks
  BY <1>1
<1>3. DeskOK(s)'
  BY <1>1 DEF DeskOK, Engaged
<1>4. ASSUME NEW r \in Desk \ {s} PROVE DeskOK(r)'
  <2>1. DeskOK(r) /\ desk[r].todo \subseteq Decision
    BY <1>2 DEF OutInv, Desks
  <2>2. desk[r].job \in Jobs => desk[r].met
    BY DEF OutInv, MetTogether, Engaged, Jobs
  <2> QED
    BY <1>1, <2>1, <2>2 DEF DeskOK, Engaged
<1>5. MetTogether'
  BY <1>1 DEF OutInv, MetTogether, Engaged
<1> QED
  BY <1>1, <1>3, <1>4, <1>5

\* evaluate_outcome() gives a decision a proper outcome, and the new one with a
\* verdict that fits, unless the row was written since it was loaded.
LEMMA EvaluatesKeeps ==
    ASSUME OutInv, NEW d \in Decision, NEW saw \in Outcomes, Evaluates(d, saw),
           saw # Nothing => Evaluated(d)
    PROVE  /\ outcome' \in [Decision -> Outcomes] /\ torn' \subseteq Decision
           /\ \A c \in Unpriced : outcome'[c] = Nothing
           /\ Evaluated(d)' /\ d \notin Unpriced
           /\ \A c \in Decision \ {d} : outcome'[c] = outcome[c]
           /\ VerdictFits'
<1>0. PICK m \in Shifts : \E new \in Written(d, saw, ServiceJudges(m)) :
          outcome' = [outcome EXCEPT ![d] = new]
  BY DEF Evaluates
<1>1. PICK new \in Written(d, saw, ServiceJudges(m)) : outcome' = [outcome EXCEPT ![d] = new]
  BY <1>0
<1>2. /\ new \in Outcomes /\ new # Nothing
      /\ saw = Nothing \/ saw = outcome[d] => new = ServiceJudges(m)
  BY WrittenIsOutcome DEF OutInv
<1>3. /\ outcome \in [Decision -> Outcomes] /\ torn \subseteq Decision
      /\ d \notin Unpriced /\ \A c \in Unpriced : outcome[c] = Nothing
      /\ Unpriced \subseteq Decision
  BY OutcomeAssumption DEF OutInv, OutcomeTypeOK, Evaluates
<1>4. outcome'[d] = new /\ \A c \in Decision \ {d} : outcome'[c] = outcome[c]
  BY <1>1, <1>3
<1>5. /\ torn' = IF saw # Nothing /\ saw # outcome[d] THEN torn \cup {d} ELSE torn \ {d}
  BY DEF Evaluates
<1>6. VerdictFits'
  <2> SUFFICES ASSUME NEW c \in Decision, outcome'[c] # Nothing, c \notin torn'
               PROVE  outcome'[c] \in {FillerJudges(outcome'[c].move), ServiceJudges(outcome'[c].move)}
    BY DEF VerdictFits, Evaluated
  <2>1. CASE c = d
    <3>1. new = ServiceJudges(m)
      BY <1>2, <1>5, <2>1
    <3> QED
      BY <1>4, <2>1, <3>1, JudgedIsOutcome
  <2>2. CASE c # d
    <3>1. c \notin torn /\ outcome'[c] = outcome[c]
      BY <1>4, <1>5, <2>2
    <3> QED
      BY <3>1 DEF OutInv, VerdictFits, Evaluated
  <2> QED
    BY <2>1, <2>2
<1> QED
  BY <1>1, <1>2, <1>3, <1>4, <1>5, <1>6 DEF Evaluated

\* OutInv is an invariant.
LEMMA OutInvAlways == OutcomeSpec => []OutInv
<1>1. OutcomeInit => OutInv
  <2> SUFFICES ASSUME OutcomeInit PROVE OutInv
    OBVIOUS
  <2>1. Away \in Desks /\ Nothing \in Outcomes
    BY DEF Away, Desks, Outcomes
  <2> QED
    BY <2>1, OutcomeAssumption DEF OutcomeInit, OutInv, OutcomeTypeOK, VerdictFits, MetTogether, DeskOK,
       Evaluated, Engaged, Away, Jobs
<1>2. OutInv /\ [OutcomeNext]_outcomeVars => OutInv'
  <2> SUFFICES ASSUME OutInv, [OutcomeNext]_outcomeVars PROVE OutInv'
    OBVIOUS
  <2>1. ASSUME NEW s \in Desk
        PROVE  desk[s] \in Desks /\ desk[s].todo \subseteq Decision /\ desk[s].saw \in Outcomes
               /\ desk[s].asked \subseteq Decision /\ DeskOK(s)
               /\ Away \in Desks /\ Nothing \in Outcomes
    BY DEF OutInv, OutcomeTypeOK, Desks, Away, Outcomes
  <2>2. ASSUME NEW s \in Desk, FillerLists(s) \/ BatchLists(s) PROVE OutInv'
    <3>1. PICK taken \in SUBSET Pending, job \in Jobs :
              /\ job = "filler" => taken \cap Unpriced = {}
              /\ Arrives(s, [Away EXCEPT !.job = job, !.todo = taken])
      BY <2>2 DEF FillerLists, BatchLists, Jobs
    <3> DEFINE new == [Away EXCEPT !.job = job, !.todo = taken]
    <3>2. \A d \in taken : d \in Decision /\ ~Evaluated(d)
      BY DEF Pending, OutInv, OutcomeTypeOK
    <3>3. /\ new \in Desks /\ new.job = job /\ new.todo = taken
          /\ new.saw = Nothing /\ new.asked = {}
      BY <2>1, <3>2 DEF Away, Desks
    <3>4. job # "idle"
      BY DEF Jobs
    <3> HIDE DEF new
    <3> QED
      BY <3>1, <3>2, <3>3, <3>4, ArrivesKeeps DEF new
  <2>3. ASSUME NEW s \in Desk, FillerCommits(s) PROVE OutInv'
    <3>0. PICK quoted \in SUBSET desk[s].todo : \E m \in [quoted -> Shifts] :
              /\ outcome' = [d \in Decision |->
                                IF d \in quoted THEN FillerJudges(m[d]) ELSE outcome[d]]
              /\ torn' = torn \ quoted
      BY <2>3 DEF FillerCommits
    <3>1. PICK m \in [quoted -> Shifts] :
              /\ outcome' = [d \in Decision |->
                                IF d \in quoted THEN FillerJudges(m[d]) ELSE outcome[d]]
              /\ torn' = torn \ quoted
      BY <3>0
    <3>2. /\ Engaged(s) /\ Sits(s, Away) /\ UNCHANGED <<due, lesson>>
          /\ Away.job = "idle" /\ Away.saw = Nothing /\ Away.asked = {}
      BY <2>3 DEF FillerCommits, AtWork, Engaged, Away
    <3>3. \A d \in quoted : outcome'[d] = FillerJudges(m[d]) /\ m[d] \in Shifts /\ d \in Decision
      BY <2>1, <3>1
    <3>4. \A d \in Decision \ quoted : outcome'[d] = outcome[d]
      BY <3>1
    <3>5. /\ outcome' \in [Decision -> Outcomes]
          /\ \A d \in Decision : Evaluated(d) => Evaluated(d)'
      BY <3>1, <3>3, <3>4, JudgedIsOutcome DEF OutInv, OutcomeTypeOK, Evaluated
    <3>6. desk' \in [Desk -> Desks] /\ MetTogether' /\ \A r \in Desk : DeskOK(r)'
      BY <2>1, <3>2, <3>5, SitsKeeps DEF Jobs
    <3>7. VerdictFits'
      <4> SUFFICES ASSUME NEW d \in Decision, outcome'[d] # Nothing, d \notin torn'
                   PROVE  outcome'[d] \in {FillerJudges(outcome'[d].move), ServiceJudges(outcome'[d].move)}
        BY DEF VerdictFits, Evaluated
      <4>1. CASE d \in quoted
        BY <3>3, <4>1, JudgedIsOutcome
      <4>2. CASE d \notin quoted
        BY <3>1, <3>4, <4>2 DEF OutInv, VerdictFits, Evaluated
      <4> QED
        BY <4>1, <4>2
    <3>8. \A d \in Unpriced : outcome'[d] = Nothing
      <4>1. quoted \cap Unpriced = {}
        BY <2>1, <2>3, <3>0 DEF FillerCommits, AtWork, DeskOK
      <4> QED
        BY <3>4, <4>1, OutcomeAssumption DEF OutInv, OutcomeTypeOK
    <3> QED
      BY <3>1, <3>2, <3>5, <3>6, <3>7, <3>8 DEF OutInv, OutcomeTypeOK
  <2>4. ASSUME NEW s \in Desk, BatchEnds(s) \/ GivesUp(s) PROVE OutInv'
    <3>1. /\ Engaged(s) /\ Sits(s, Away) /\ UNCHANGED <<due, outcome, lesson, torn>>
          /\ Away.job = "idle" /\ Away.saw = Nothing /\ Away.asked = {}
      BY <2>4 DEF BatchEnds, GivesUp, AtWork, Engaged, Away
    <3>2. desk' \in [Desk -> Desks] /\ MetTogether' /\ \A r \in Desk : DeskOK(r)'
      BY <2>1, <3>1, SitsKeeps DEF Evaluated, Jobs
    <3> QED
      BY <3>1, <3>2 DEF OutInv, OutcomeTypeOK, VerdictFits, Evaluated
  <2>5. ASSUME NEW s \in Desk, Learns(s) PROVE OutInv'
    <3>1. PICK new \in {[desk[s] EXCEPT !.asked = {}], Away} :
              Sits(s, new) /\ (new = Away \/ AtWork(s, "batch"))
      BY <2>5 DEF Learns
    <3>2. /\ Engaged(s) /\ UNCHANGED <<due, outcome, torn>>
          /\ lesson' \in {lesson, lesson \cup desk[s].asked}
          /\ Away.job = "idle" /\ Away.saw = Nothing /\ Away.asked = {}
      BY <2>1, <2>5 DEF Learns, DeskOK, Away
    <3>3. lesson' \subseteq Decision \ Unpriced
      BY <2>1, <3>2 DEF DeskOK, OutInv, OutcomeTypeOK
    <3>4. CASE new = Away
      <4>1. desk' \in [Desk -> Desks] /\ MetTogether' /\ \A r \in Desk : DeskOK(r)'
        BY <2>1, <3>1, <3>2, <3>4, SitsKeeps DEF Evaluated, Jobs
      <4> QED
        BY <3>2, <3>3, <4>1 DEF OutInv, OutcomeTypeOK, VerdictFits, Evaluated
    <3>5. CASE new = [desk[s] EXCEPT !.asked = {}] /\ AtWork(s, "batch")
      <4>1. /\ new \in Desks /\ new.job = "batch" /\ new.todo = desk[s].todo
            /\ new.saw = desk[s].saw /\ new.asked = {} /\ new.met = desk[s].met
            /\ desk[s].job = "batch"
        BY <2>1, <3>5 DEF AtWork, Desks
      <4>2. desk' \in [Desk -> Desks] /\ MetTogether' /\ \A r \in Desk : DeskOK(r)'
        BY <2>1, <3>1, <3>2, <4>1, SitsKeeps DEF Evaluated, DeskOK
      <4> QED
        BY <3>2, <3>3, <4>2 DEF OutInv, OutcomeTypeOK, VerdictFits, Evaluated
    <3> QED
      BY <3>1, <3>4, <3>5
  <2>6. ASSUME NEW s \in Desk, NEW d \in Decision, BatchEvaluates(s, d) PROVE OutInv'
    <3> DEFINE new == [desk[s] EXCEPT !.todo = @ \ {d}, !.asked = {d}]
    <3>1. /\ new \in Desks /\ new.job = "batch" /\ new.todo = desk[s].todo \ {d}
          /\ new.saw = desk[s].saw /\ new.asked = {d} /\ new.met = desk[s].met
          /\ desk[s].job = "batch"
      BY <2>1, <2>6 DEF BatchEvaluates, AtWork, Desks
    <3>2. Engaged(s) /\ Sits(s, new) /\ Evaluates(d, Nothing) /\ UNCHANGED <<due, lesson>>
      BY <2>6, <3>1 DEF BatchEvaluates, Engaged, Evaluates
    <3>3. /\ outcome' \in [Decision -> Outcomes] /\ torn' \subseteq Decision
          /\ \A c \in Unpriced : outcome'[c] = Nothing
          /\ Evaluated(d)' /\ d \notin Unpriced
          /\ \A c \in Decision \ {d} : outcome'[c] = outcome[c]
          /\ VerdictFits'
      BY <2>1, <3>2, EvaluatesKeeps
    <3>4. desk' \in [Desk -> Desks] /\ MetTogether' /\ \A r \in Desk : DeskOK(r)'
      <4>1. \A c \in Decision : Evaluated(c) => Evaluated(c)'
        BY <3>3 DEF Evaluated
      <4>2. new.saw # Nothing => \A c \in new.todo : Evaluated(c)'
        BY <2>1, <3>1, <4>1 DEF DeskOK
      <4>3. ~new.met => \A c \in new.todo : ~Evaluated(c)'
        BY <2>1, <3>1, <3>3 DEF DeskOK, Jobs, Evaluated
      <4> HIDE DEF new
      <4> QED
        BY <3>1, <3>2, <3>3, <4>1, <4>2, <4>3, SitsKeeps
    <3> QED
      BY <3>2, <3>3, <3>4 DEF OutInv, OutcomeTypeOK
  <2>7. ASSUME NEW s \in Desk, NEW d \in Decision, BatchSkips(s, d) PROVE OutInv'
    <3> DEFINE new == [desk[s] EXCEPT !.todo = @ \ {d}]
    <3>1. /\ new \in Desks /\ new.job = "batch" /\ new.todo = desk[s].todo \ {d}
          /\ new.saw = desk[s].saw /\ new.asked = desk[s].asked /\ new.met = desk[s].met
          /\ desk[s].job = "batch"
      BY <2>1, <2>7 DEF BatchSkips, AtWork, Desks
    <3>2. Engaged(s) /\ Sits(s, new) /\ UNCHANGED <<due, outcome, lesson, torn>>
      BY <2>7, <3>1 DEF BatchSkips, Engaged
    <3>3. desk' \in [Desk -> Desks] /\ MetTogether' /\ \A r \in Desk : DeskOK(r)'
      <4> HIDE DEF new
      <4> QED
        BY <2>1, <3>1, <3>2, SitsKeeps DEF Evaluated, DeskOK
    <3> QED
      BY <3>2, <3>3 DEF OutInv, OutcomeTypeOK, VerdictFits, Evaluated
  <2>8. ASSUME NEW s \in Desk, NEW d \in Decision, HandEvaluates(s, d) PROVE OutInv'
    <3>1. PICK new \in {[desk[s] EXCEPT !.todo = {}, !.asked = {d}], Away} : Sits(s, new)
      BY <2>8 DEF HandEvaluates
    <3>a. desk[s].job \in Hands /\ Engaged(s)
      BY <2>8 DEF HandEvaluates, Hands, Engaged
    <3>2. /\ new \in Desks /\ new.job \in Hands \cup {"idle"}
          /\ new.job = "idle" \/ new.met = desk[s].met
          /\ new.todo = {} /\ new.asked \subseteq {d} /\ (new.job = "idle" => new.asked = {})
          /\ Engaged(s) /\ (new.job = "idle" => new.saw = Nothing)
      <4>1. CASE new = Away
        BY <2>1, <3>a, <4>1 DEF Away
      <4>2. CASE new = [desk[s] EXCEPT !.todo = {}, !.asked = {d}]
        <5>1. new.job = desk[s].job /\ new.met = desk[s].met /\ new.todo = {}
              /\ new.asked = {d} /\ new \in Desks
          BY <2>1, <4>2 DEF Desks
        <5> QED
          BY <3>a, <5>1 DEF Hands
      <4> QED
        BY <3>1, <4>1, <4>2
    <3>3. /\ outcome' \in [Decision -> Outcomes] /\ torn' \subseteq Decision
          /\ \A c \in Unpriced : outcome'[c] = Nothing
          /\ Evaluated(d)' /\ d \notin Unpriced
          /\ \A c \in Decision \ {d} : outcome'[c] = outcome[c]
          /\ VerdictFits'
      BY <2>1, <2>8, EvaluatesKeeps DEF HandEvaluates, DeskOK
    <3>4. desk' \in [Desk -> Desks] /\ MetTogether' /\ \A r \in Desk : DeskOK(r)'
      <4>1. \A c \in Decision : Evaluated(c) => Evaluated(c)'
        BY <3>3 DEF Evaluated
      <4> QED
        BY <3>1, <3>2, <3>3, <4>1, SitsKeeps DEF Hands
    <3> QED
      BY <2>8, <3>3, <3>4 DEF HandEvaluates, Evaluates, OutInv, OutcomeTypeOK
  <2>9. ASSUME NEW s \in Desk, NEW d \in Decision, NEW job \in Hands, HandLoads(s, d, job)
        PROVE  OutInv'
    <3> DEFINE loads == [Away EXCEPT !.job = job, !.saw = outcome[d]]
    <3>1. PICK new \in {[loads EXCEPT !.asked = {d}], [loads EXCEPT !.todo = {d}]} :
              Arrives(s, new) /\ (new = [loads EXCEPT !.asked = {d}] => Evaluated(d))
      <4>1. CASE job = "replay" /\ Evaluated(d)
        BY <2>9, <4>1 DEF HandLoads
      <4>2. CASE ~(job = "replay" /\ Evaluated(d))
        <5>1. Arrives(s, [loads EXCEPT !.todo = {d}])
          BY <2>9, <4>2 DEF HandLoads
        <5>2. [loads EXCEPT !.todo = {d}] # [loads EXCEPT !.asked = {d}]
          BY DEF Away
        <5> QED
          BY <5>1, <5>2
      <4> QED
        BY <4>1, <4>2
    <3>2. job \notin Jobs /\ job # "idle" /\ job # "filler" /\ outcome[d] \in Outcomes
      BY DEF Hands, Jobs, OutInv, OutcomeTypeOK
    <3>3. Evaluated(d) => d \notin Unpriced
      BY DEF OutInv, OutcomeTypeOK, Evaluated
    <3>4. /\ new \in Desks /\ new.job = job /\ new.saw = outcome[d]
          /\ new.todo \subseteq {d} /\ new.asked \subseteq {d}
          /\ new.asked # {} => Evaluated(d)
      <4>1. CASE new = [loads EXCEPT !.asked = {d}]
        BY <3>1, <3>2, <4>1 DEF Away, Desks
      <4>2. CASE new = [loads EXCEPT !.todo = {d}]
        BY <3>2, <4>2 DEF Away, Desks
      <4> QED
        BY <3>1, <4>1, <4>2
    <3>5. /\ new.saw # Nothing => \A c \in new.todo : Evaluated(c)
          /\ new.asked \cap Unpriced = {}
      BY <3>3, <3>4 DEF Evaluated
    <3> HIDE DEF loads
    <3> QED
      BY <3>1, <3>2, <3>4, <3>5, ArrivesKeeps
  <2>10. ASSUME NEW d \in Decision, ComesDue(d) PROVE OutInv'
    BY <2>10 DEF ComesDue, OutInv, OutcomeTypeOK, VerdictFits, MetTogether, DeskOK, Evaluated, Engaged
  <2>11. CASE UNCHANGED outcomeVars
    BY <2>11 DEF outcomeVars, OutInv, OutcomeTypeOK, VerdictFits, MetTogether, DeskOK, Evaluated, Engaged
  <2> QED
    BY <2>2, <2>3, <2>4, <2>5, <2>6, <2>7, <2>8, <2>9, <2>10, <2>11 DEF OutcomeNext
<1> QED
  BY <1>1, <1>2, PTL DEF OutcomeSpec

\* The rows of decisions keep their shape.
THEOREM OutcomeTypeCorrect == OutcomeSpec => []OutcomeTypeOK
<1>1. OutInv => OutcomeTypeOK
  BY DEF OutInv
<1> QED
  BY <1>1, OutInvAlways, PTL

\* A verdict is the one of the move beside it, whoever wrote it.
THEOREM VerdictFitsAlways == OutcomeSpec => []VerdictFits
<1>1. OutInv => VerdictFits
  BY DEF OutInv
<1> QED
  BY <1>1, OutInvAlways, PTL

\* The filler and the batch never replace an outcome, unless another session
\* worked beside them.
THEOREM JobsKeepOutcomesAlways == OutcomeSpec => JobsKeepOutcomes
<1>1. ASSUME OutInv, [OutcomeNext]_outcomeVars, NEW s \in Desk,
             desk[s].job \in Jobs, ~desk[s].met, desk'[s] # desk[s],
             NEW d \in Decision, Evaluated(d)
      PROVE  outcome'[d] = outcome[d]
  <2>1. /\ desk \in [Desk -> Desks] /\ outcome \in [Decision -> Outcomes]
        /\ d \notin desk[s].todo /\ Engaged(s)
    BY <1>1 DEF OutInv, OutcomeTypeOK, DeskOK, Engaged, Jobs
  <2>2. \A r \in Desk \ {s} : ~Engaged(r)
    BY <1>1, <2>1 DEF OutInv, MetTogether
  <2>3. ASSUME NEW r \in Desk, FillerCommits(r) PROVE outcome'[d] = outcome[d]
    <3>1. r = s
      BY <2>2, <2>3 DEF FillerCommits, AtWork, Engaged
    <3> QED
      BY <2>1, <2>3, <3>1 DEF FillerCommits
  <2>4. ASSUME NEW r \in Desk, NEW c \in Decision, BatchEvaluates(r, c)
        PROVE  outcome'[d] = outcome[d]
    <3>1. r = s
      BY <2>2, <2>4 DEF BatchEvaluates, AtWork, Engaged
    <3>2. c # d /\ Evaluates(c, Nothing)
      BY <2>1, <2>4, <3>1 DEF BatchEvaluates
    <3> QED
      BY <2>1, <3>2 DEF Evaluates
  <2>5. ASSUME NEW r \in Desk, NEW c \in Decision, HandEvaluates(r, c) PROVE FALSE
    <3>1. Engaged(r) /\ desk[r].job \notin Jobs
      BY <2>5 DEF HandEvaluates, Engaged, Hands, Jobs
    <3> QED
      BY <1>1, <2>2, <3>1
  <2>6. ASSUME NEW r \in Desk,
               FillerLists(r) \/ BatchLists(r) \/ BatchEnds(r) \/ Learns(r) \/ GivesUp(r)
        PROVE  outcome' = outcome
    BY <2>6 DEF FillerLists, BatchLists, BatchEnds, Learns, GivesUp, Arrives
  <2>7. ASSUME NEW r \in Desk, NEW c \in Decision, BatchSkips(r, c) \/ \E job \in Hands : HandLoads(r, c, job)
        PROVE  outcome' = outcome
    BY <2>7 DEF BatchSkips, HandLoads, Arrives
  <2>8. ASSUME NEW c \in Decision, ComesDue(c) PROVE outcome' = outcome
    BY <2>8 DEF ComesDue
  <2>9. CASE UNCHANGED outcomeVars
    BY <2>9 DEF outcomeVars
  <2> QED
    BY <1>1, <2>3, <2>4, <2>5, <2>6, <2>7, <2>8, <2>9 DEF OutcomeNext
<1>2. OutInv /\ [OutcomeNext]_outcomeVars =>
          [\A s \in Desk : desk[s].job \in Jobs /\ ~desk[s].met /\ desk'[s] # desk[s] =>
               \A d \in Decision : Evaluated(d) => outcome'[d] = outcome[d]]_outcomeVars
  BY <1>1
<1> QED
  BY <1>2, OutInvAlways, PTL DEF OutcomeSpec, JobsKeepOutcomes

\* An outcome that is there may be replaced, and is never taken away.
OutcomesStay == \A d \in Decision : Evaluated(d) => Evaluated(d)'

\* A lesson is of a decision that has an outcome, and so is every row that the
\* language model is being asked about.
LessonsAreOfOutcomes == \A d \in lesson : Evaluated(d)
Asked == \A s \in Desk : \A d \in desk[s].asked : Evaluated(d)

\* No step takes an outcome away.
LEMMA StaysStep ==
    ASSUME OutInv, [OutcomeNext]_outcomeVars
    PROVE  OutcomesStay
<1>1. ASSUME NEW s \in Desk, FillerCommits(s) PROVE OutcomesStay
  <2>1. PICK quoted \in SUBSET desk[s].todo : \E m \in [quoted -> Shifts] :
            outcome' = [d \in Decision |-> IF d \in quoted THEN FillerJudges(m[d]) ELSE outcome[d]]
    BY <1>1 DEF FillerCommits
  <2>2. PICK m \in [quoted -> Shifts] :
            outcome' = [d \in Decision |-> IF d \in quoted THEN FillerJudges(m[d]) ELSE outcome[d]]
    BY <2>1
  <2>3. \A d \in quoted : m[d] \in Shifts
    BY <2>2
  <2> QED
    BY <2>2, <2>3, JudgedIsOutcome DEF OutcomesStay, Evaluated
<1>2. ASSUME NEW s \in Desk, NEW d \in Decision, BatchEvaluates(s, d) \/ HandEvaluates(s, d)
      PROVE  OutcomesStay
  <2>1. DeskOK(s) /\ desk[s].saw \in Outcomes /\ Nothing \in Outcomes
    BY DEF OutInv, OutcomeTypeOK, Desks, Outcomes
  <2>2. Evaluated(d)' /\ \A c \in Decision \ {d} : outcome'[c] = outcome[c]
    BY <1>2, <2>1, EvaluatesKeeps DEF BatchEvaluates, HandEvaluates, DeskOK
  <2> QED
    BY <2>2 DEF OutcomesStay, Evaluated
<1>3. ASSUME outcome' = outcome PROVE OutcomesStay
  BY <1>3 DEF OutcomesStay, Evaluated
<1>4. ASSUME NEW s \in Desk,
             FillerLists(s) \/ BatchLists(s) \/ BatchEnds(s) \/ Learns(s) \/ GivesUp(s)
      PROVE  outcome' = outcome
  BY <1>4 DEF FillerLists, BatchLists, BatchEnds, Learns, GivesUp, Arrives
<1>5. ASSUME NEW s \in Desk, NEW d \in Decision,
             BatchSkips(s, d) \/ \E job \in Hands : HandLoads(s, d, job)
      PROVE  outcome' = outcome
  BY <1>5 DEF BatchSkips, HandLoads, Arrives
<1>6. (\E d \in Decision : ComesDue(d)) \/ UNCHANGED outcomeVars => outcome' = outcome
  BY DEF ComesDue, outcomeVars
<1> QED
  BY <1>1, <1>2, <1>3, <1>4, <1>5, <1>6 DEF OutcomeNext

\* Who arrives has asked about nothing, or about a row that has an outcome.
LEMMA ArrivesAsks ==
    ASSUME OutInv, Asked, NEW s \in Desk, NEW new \in Desks, Arrives(s, new),
           \A d \in new.asked : Evaluated(d)
    PROVE  Asked' /\ lesson' = lesson
<1>1. /\ UNCHANGED <<outcome, lesson>> /\ \A r \in Desk : desk[r] \in Desks
      /\ desk' = [r \in Desk |->
                     IF r = s THEN [new EXCEPT !.met = \E o \in Desk : Engaged(o)]
                     ELSE [desk[r] EXCEPT !.met = Engaged(r)]]
  BY DEF Arrives, OutInv, OutcomeTypeOK
<1>2. \A x \in Desks : \A b : [x EXCEPT !.met = b].asked = x.asked
  BY DEF Desks
<1>3. desk'[s].asked = new.asked
  BY <1>1, <1>2, Zenon
<1>4. ASSUME NEW r \in Desk \ {s} PROVE desk'[r].asked = desk[r].asked
  <2>1. desk'[r] = [desk[r] EXCEPT !.met = Engaged(r)]
    BY <1>1, Zenon
  <2> QED
    BY <1>1, <1>2, <2>1, Zenon
<1> QED
  BY <1>1, <1>3, <1>4 DEF Asked, Evaluated

\* Each step asks about, and learns from, decisions that have an outcome.
LEMMA AsksStep ==
    ASSUME OutInv, Asked, LessonsAreOfOutcomes, [OutcomeNext]_outcomeVars
    PROVE  Asked' /\ LessonsAreOfOutcomes'
<1>1. OutcomesStay /\ lesson \subseteq Decision /\ desk \in [Desk -> Desks]
  BY StaysStep DEF OutInv, OutcomeTypeOK
<1>2. \A s \in Desk : desk[s].asked \subseteq Decision
  BY <1>1 DEF Desks
\* A session that goes on, having asked about nothing or what now has an outcome.
<1>3. ASSUME NEW s \in Desk, NEW new, Sits(s, new), \A d \in new.asked : Evaluated(d)',
             lesson' \subseteq lesson \cup desk[s].asked
      PROVE  Asked' /\ LessonsAreOfOutcomes'
  <2>1. desk'[s] = new /\ \A r \in Desk \ {s} : desk'[r] = desk[r]
    BY <1>1, <1>3 DEF Sits
  <2>2. Asked'
    BY <1>1, <1>2, <1>3, <2>1 DEF Asked, OutcomesStay
  <2>3. LessonsAreOfOutcomes'
    BY <1>1, <1>2, <1>3 DEF LessonsAreOfOutcomes, Asked, OutcomesStay
  <2> QED
    BY <2>2, <2>3
<1>4. ASSUME NEW s \in Desk, NEW new \in Desks, Arrives(s, new), \A d \in new.asked : Evaluated(d)
      PROVE  Asked' /\ LessonsAreOfOutcomes'
  <2>1. Asked' /\ lesson' = lesson
    BY <1>4, ArrivesAsks
  <2> QED
    BY <1>1, <2>1 DEF LessonsAreOfOutcomes, OutcomesStay
<1>5. Away \in Desks /\ Away.asked = {}
  BY DEF Away, Desks, Outcomes
<1>6. ASSUME NEW s \in Desk, FillerLists(s) \/ BatchLists(s) PROVE Asked' /\ LessonsAreOfOutcomes'
  <2>1. PICK taken \in SUBSET Decision, job \in Jobs :
            Arrives(s, [Away EXCEPT !.job = job, !.todo = taken])
    BY <1>6 DEF FillerLists, BatchLists, Jobs, Pending, OutInv, OutcomeTypeOK
  <2> DEFINE new == [Away EXCEPT !.job = job, !.todo = taken]
  <2>2. new \in Desks /\ new.asked = {}
    BY <1>5 DEF Away, Desks
  <2> HIDE DEF new
  <2> QED
    BY <1>4, <2>1, <2>2 DEF new
<1>7. ASSUME NEW s \in Desk, NEW d \in Decision, NEW job \in Hands, HandLoads(s, d, job)
      PROVE  Asked' /\ LessonsAreOfOutcomes'
  <2> DEFINE loads == [Away EXCEPT !.job = job, !.saw = outcome[d]]
             asks  == [loads EXCEPT !.asked = {d}]
             judges == [loads EXCEPT !.todo = {d}]
  <2>1. outcome[d] \in Outcomes
    BY DEF OutInv, OutcomeTypeOK
  <2>2. asks \in Desks /\ asks.asked = {d} /\ judges \in Desks /\ judges.asked = {}
    BY <1>5, <2>1 DEF Away, Desks
  <2>3. (Arrives(s, asks) /\ Evaluated(d)) \/ Arrives(s, judges)
    BY <1>7 DEF HandLoads
  <2> HIDE DEF asks, judges
  <2> QED
    BY <1>4, <2>2, <2>3
<1>8. ASSUME NEW s \in Desk, FillerCommits(s) \/ BatchEnds(s) \/ GivesUp(s)
      PROVE  Asked' /\ LessonsAreOfOutcomes'
  <2>1. Sits(s, Away) /\ lesson' = lesson
    BY <1>8 DEF FillerCommits, BatchEnds, GivesUp
  <2> QED
    BY <1>3, <1>5, <2>1
<1>9. ASSUME NEW s \in Desk, Learns(s) PROVE Asked' /\ LessonsAreOfOutcomes'
  <2>1. [desk[s] EXCEPT !.asked = {}].asked = {}
    BY <1>1 DEF Desks
  <2>2. PICK new \in {[desk[s] EXCEPT !.asked = {}], Away} : Sits(s, new)
    BY <1>9 DEF Learns
  <2>3. lesson' \subseteq lesson \cup desk[s].asked /\ new.asked = {}
    BY <1>5, <1>9, <2>1, <2>2 DEF Learns
  <2> QED
    BY <1>3, <2>2, <2>3
<1>10. ASSUME NEW s \in Desk, NEW d \in Decision, BatchEvaluates(s, d) \/ HandEvaluates(s, d)
       PROVE  Asked' /\ LessonsAreOfOutcomes'
  <2>1. DeskOK(s) /\ desk[s].saw \in Outcomes /\ Nothing \in Outcomes
    BY DEF OutInv, OutcomeTypeOK, Desks, Outcomes
  <2>2. Evaluated(d)' /\ lesson' = lesson
    BY <1>10, <2>1, EvaluatesKeeps DEF BatchEvaluates, HandEvaluates, DeskOK, Evaluates
  <2>3. PICK new \in {[desk[s] EXCEPT !.todo = @ \ {d}, !.asked = {d}],
                      [desk[s] EXCEPT !.todo = {}, !.asked = {d}], Away} : Sits(s, new)
    BY <1>10 DEF BatchEvaluates, HandEvaluates
  <2>4. new.asked \subseteq {d}
    BY <1>1, <1>5, <2>3 DEF Desks
  <2> QED
    BY <1>3, <2>2, <2>3, <2>4
<1>11. ASSUME NEW s \in Desk, NEW d \in Decision, BatchSkips(s, d)
       PROVE  Asked' /\ LessonsAreOfOutcomes'
  <2> DEFINE new == [desk[s] EXCEPT !.todo = @ \ {d}]
  <2>1. new.asked = desk[s].asked
    BY <1>1 DEF Desks
  <2>2. Sits(s, new) /\ lesson' = lesson
    BY <1>11 DEF BatchSkips
  <2>3. \A c \in new.asked : Evaluated(c)'
    BY <1>1, <1>2, <2>1 DEF Asked, OutcomesStay
  <2> HIDE DEF new
  <2> QED
    BY <1>3, <2>2, <2>3
<1>12. CASE (\E d \in Decision : ComesDue(d)) \/ UNCHANGED outcomeVars
  BY <1>12 DEF ComesDue, outcomeVars, Asked, LessonsAreOfOutcomes, Evaluated
<1> QED
  BY <1>6, <1>7, <1>8, <1>9, <1>10, <1>11, <1>12 DEF OutcomeNext

\* However sessions overlap, fail and give up, no outcome is ever taken away,
\* and a decision that has a lesson has the outcome that it is a lesson on.
THEOREM LessonsHaveOutcomes ==
    OutcomeSpec => []LessonsAreOfOutcomes /\ [][OutcomesStay]_outcomeVars
<1>1. OutcomeInit => Asked /\ LessonsAreOfOutcomes
  BY DEF OutcomeInit, Asked, LessonsAreOfOutcomes, Away
<1>2. OutInv /\ Asked /\ LessonsAreOfOutcomes /\ [OutcomeNext]_outcomeVars
          => Asked' /\ LessonsAreOfOutcomes' /\ OutcomesStay
  BY AsksStep, StaysStep
<1> QED
  BY <1>1, <1>2, OutInvAlways, PTL DEF OutcomeSpec

-----------------------------------------------------------------------------
\* The five parts share no state: each moves as if it were alone.
LEMMA MCSpecIsEach == MCSpec => DaySpec /\ Spec /\ BooksSpec /\ EditSpec /\ OutcomeSpec
<1>1. MCInit => DayInit /\ Init /\ BooksInit /\ EditInit /\ OutcomeInit
  BY DEF MCInit
<1>2. [MCNext]_<<dayVars, vars, bookVars, editVars, outcomeVars, part>>
        => /\ [DayNext]_dayVars /\ [Next]_vars /\ [BooksNext]_bookVars
           /\ [EditNext]_editVars /\ [OutcomeNext]_outcomeVars
  BY DEF MCNext
<1> QED
  BY <1>1, <1>2, PTL DEF MCSpec, DaySpec, Spec, BooksSpec, EditSpec, OutcomeSpec

\* The behaviours that the run looks at keep the types of all five parts, for
\* every value of the constants, as they keep whatever is proved of each part.
THEOREM TradingDayTypes == MCSpec => []MCTypeOK
<1>1. DayTypeOK /\ TypeOK /\ BooksTypeOK /\ EditTypeOK /\ OutcomeTypeOK => MCTypeOK
  BY DEF MCTypeOK
<1> QED
  BY <1>1, MCSpecIsEach, DayTypeCorrect, TypeCorrect, BooksTypeCorrect, EditTypeCorrect,
     OutcomeTypeCorrect, PTL
=============================================================================

--------------------------- MODULE AlertScanProofs ---------------------------
(* Theorems about AlertScan for every set of alerts, every cooldown and any  *)
(* number of sessions that overlap or fail as they like.  With the history   *)
(* of which sessions met another one: those that did not implement           *)
(* AlertStates.                                                              *)
EXTENDS MCAlertScan, TLAPS

\* A session that re-arms holds only alerts of the types that are re-armed.
RearmsRepeating == \A j \in Job : job[j].pc = "rearming" => job[j].picked \subseteq Repeating

Inv == TypeOK /\ RearmsRepeating

-----------------------------------------------------------------------------
\* An age that gets older is an age.
LEMMA OlderIsAge == \A n \in 0 .. Cap : Older(n) \in 0 .. Cap
  BY CoolAssumption DEF CoolAssumption, Older

\* The rows and sessions that the actions build have their types.
LEMMA Built ==
    /\ Active \in Row
    /\ Gone \in Row
    /\ Closed \in Session
    /\ \A n \in 0 .. Cap : [status |-> "TRIGGERED", age |-> n] \in Row
  BY CoolAssumption DEF CoolAssumption, Active, Gone, Closed, Row, Session, Status,
     Scanner, Step

\* A session that is given other fields of the right types is a session.
LEMMA Changed ==
    ASSUME NEW s \in Session, NEW p \in Step
    PROVE  /\ \A A \in SUBSET Alert : [s EXCEPT !.pc = p, !.picked = A] \in Session
           /\ \A b \in BOOLEAN : [s EXCEPT !.pc = p, !.kept = b] \in Session
           /\ \A n \in 0 .. Cap : [s EXCEPT !.pc = p, !.age = n] \in Session
           /\ \A k \in Scanner : [s EXCEPT !.kind = k, !.pc = p] \in Session
  BY DEF Session

\* The steps other than the re-arming itself, and the age of a new mark.
LEMMA Steps ==
    /\ {"rearm", "list", "mark", "commit", "tell"} \subseteq Step \ {"rearming"}
    /\ "rearming" \in Step
    /\ {} \in SUBSET Alert
    /\ 0 \in 0 .. Cap
  BY CoolAssumption DEF CoolAssumption, Step

\* The first state satisfies the invariant.
LEMMA InvInit == Init => Inv
  BY Built DEF Init, Inv, TypeOK, RearmsRepeating, Closed

\* Every step of a session keeps the invariant.
LEMMA InvSession ==
    ASSUME Inv, NEW j \in Job,
           Proceed(j) \/ Fail(j) \/ \E k \in Scanner : Open(j, k)
    PROVE  Inv'
<1> USE DEF Inv, TypeOK
<1>1. job[j] \in Session
  OBVIOUS
<1>2. ASSUME NEW k \in Scanner, Open(j, k) PROVE Inv'
  <2>1. (IF k = "scheduler" THEN "rearm" ELSE "list") \in Step \ {"rearming"}
    BY DEF Step
  <2>2. 0 \in 0 .. Cap
    BY CoolAssumption DEF CoolAssumption
  <2> DEFINE s == [Closed EXCEPT !.kind = k,
                                 !.pc = IF k = "scheduler" THEN "rearm" ELSE "list"]
  <2>3. s \in Session /\ s.pc # "rearming"
    BY <2>1, <2>2, Built, Changed DEF Closed, Session
  <2> HIDE DEF s
  <2>4. job' = [job EXCEPT ![j] = s] /\ UNCHANGED <<row, notices>>
    BY <1>2 DEF Open, s
  <2> QED
    BY <2>3, <2>4 DEF RearmsRepeating
<1>3. CASE RearmReads(j)
  <2>1. Cooled \subseteq Repeating /\ Cooled \in SUBSET Alert /\ "rearming" \in Step
    BY CoolAssumption DEF CoolAssumption, Cooled, Step
  <2> DEFINE s == [job[j] EXCEPT !.pc = "rearming", !.picked = Cooled]
  <2>2. s \in Session /\ s.picked \subseteq Repeating
    BY <1>1, <2>1, Changed DEF Session
  <2>3. job' = [job EXCEPT ![j] = s] /\ UNCHANGED <<row, notices>>
    BY <1>3 DEF RearmReads
  <2> HIDE DEF s
  <2> QED
    BY <2>2, <2>3 DEF RearmsRepeating
<1>4. CASE RearmCommits(j)
  <2> DEFINE s == [job[j] EXCEPT !.pc = "list", !.picked = {}]
  <2>1. s \in Session /\ s.pc # "rearming"
    BY <1>1, Changed, Steps DEF Session
  <2>2. job' = [job EXCEPT ![j] = s]
    BY <1>4 DEF RearmCommits
  <2> HIDE DEF s
  <2>3. row' \in [Alert -> Row] /\ notices' = notices
    BY <1>4, Built DEF RearmCommits
  <2> QED
    BY <2>1, <2>2, <2>3 DEF RearmsRepeating
<1>5. CASE List(j)
  <2>1. PICK A \in SUBSET Alert :
           job' = [job EXCEPT ![j] = [job[j] EXCEPT !.pc = "mark", !.picked = A]]
    BY <1>5 DEF List, Watched
  <2> DEFINE s == [job[j] EXCEPT !.pc = "mark", !.picked = A]
  <2>2. s \in Session /\ s.pc # "rearming"
    BY <1>1, Changed, Steps DEF Session
  <2>3. job' = [job EXCEPT ![j] = s] /\ UNCHANGED <<row, notices>>
    BY <1>5, <2>1 DEF List
  <2> HIDE DEF s
  <2> QED
    BY <2>2, <2>3 DEF RearmsRepeating
<1>6. CASE Mark(j)
  <2>1. PICK ok \in BOOLEAN :
           job' = [job EXCEPT ![j].pc = "commit", ![j].kept = ok]
    BY <1>6 DEF Mark
  <2> DEFINE s == [job[j] EXCEPT !.pc = "commit", !.kept = ok]
  <2>2. s \in Session /\ s.pc # "rearming"
    BY <1>1, Changed, Steps DEF Session
  <2>3. job' = [job EXCEPT ![j] = s] /\ UNCHANGED <<row, notices>>
    BY <1>6, <2>1 DEF Mark
  <2> HIDE DEF s
  <2> QED
    BY <2>2, <2>3 DEF RearmsRepeating
<1>7. CASE Commit(j)
  <2> DEFINE s == [job[j] EXCEPT !.pc = "tell", !.age = 0]
  <2>1. s \in Session /\ s.pc # "rearming"
    BY <1>1, Changed, Steps DEF Session
  <2>2. job' = [job EXCEPT ![j] = s]
    BY <1>7 DEF Commit
  <2> HIDE DEF s
  <2>3. job[j].age \in 0 .. Cap
    BY <1>1 DEF Session
  <2>4. row' \in [Alert -> Row] /\ notices' \in [Alert -> 0 .. 2]
    BY <1>7, <2>3, Built DEF Commit
  <2> QED
    BY <2>1, <2>2, <2>4 DEF RearmsRepeating
<1>8. CASE Tell(j)
  <2>1. notices' \in [Alert -> 0 .. 2] /\ row' = row
    BY <1>8 DEF Tell
  <2>2. job' = [job EXCEPT ![j] = Closed]
    BY <1>8 DEF Tell
  <2> QED
    BY <2>1, <2>2, Built DEF RearmsRepeating, Closed
<1>9. CASE Fail(j)
  <2> DEFINE s == [job[j] EXCEPT !.pc = "list", !.picked = {}]
  <2>1. s \in Session /\ s.pc # "rearming"
    BY <1>1, Changed, Steps DEF Session
  <2>2. Closed \in Session /\ Closed.pc # "rearming"
    BY Built DEF Closed
  <2>3. /\ job' = [job EXCEPT ![j] = s] \/ job' = [job EXCEPT ![j] = Closed]
        /\ UNCHANGED <<row, notices>>
    BY <1>9 DEF Fail
  <2> HIDE DEF s
  <2> QED
    BY <2>1, <2>2, <2>3 DEF RearmsRepeating
<1> QED
  BY <1>2, <1>3, <1>4, <1>5, <1>6, <1>7, <1>8, <1>9 DEF Proceed

\* So does everything else that happens.
LEMMA InvAround ==
    ASSUME Inv, (\E a \in Alert : Remove(a) \/ Create(a)) \/ Tick
    PROVE  Inv'
<1> USE DEF Inv, TypeOK
<1>1. ASSUME NEW a \in Alert, Remove(a) \/ Create(a) PROVE Inv'
  BY <1>1, Built DEF Remove, Create, RearmsRepeating
<1>2. CASE Tick
  <2>1. \A a \in Alert : [row[a] EXCEPT !.age = Older(@)] \in Row
    BY OlderIsAge DEF Row
  <2>2. row' \in [Alert -> Row] /\ notices' = notices
    BY <1>2, <2>1 DEF Tick
  <2>3. \A j \in Job : Older(job[j].age) \in 0 .. Cap
    BY OlderIsAge DEF Session
  <2>4. \A j \in Job : /\ [job[j] EXCEPT !.age = Older(@)] \in Session
                       /\ [job[j] EXCEPT !.age = Older(@)].pc = job[j].pc
                       /\ [job[j] EXCEPT !.age = Older(@)].picked = job[j].picked
    BY <2>3 DEF Session
  <2>5. /\ job' \in [Job -> Session]
        /\ \A j \in Job : job'[j].pc = job[j].pc /\ job'[j].picked = job[j].picked
    BY <1>2, <2>4 DEF Tick
  <2> QED
    BY <2>2, <2>5 DEF RearmsRepeating
<1> QED
  BY <1>1, <1>2

\* Every step keeps the invariant.
LEMMA InvNext == ASSUME Inv, [Next]_vars PROVE Inv'
<1>1. CASE UNCHANGED vars
  BY <1>1 DEF vars, Inv, TypeOK, RearmsRepeating
<1>2. CASE Next
  BY <1>2, InvSession, InvAround DEF Next
<1> QED
  BY <1>1, <1>2

\* The alerts and the sessions keep their types.
THEOREM TypeCorrect == Spec => []TypeOK
<1>1. Inv => TypeOK
  BY DEF Inv
<1> QED
  BY <1>1, InvInit, InvNext, PTL DEF Spec

-----------------------------------------------------------------------------
\* No step takes an alert that is not re-armed by itself from TRIGGERED to ACTIVE.
LEMMA StaysDown ==
    ASSUME Inv, [Next]_vars, NEW a \in Alert \ Repeating, row[a].status = "TRIGGERED"
    PROVE  row'[a].status # "ACTIVE"
<1> USE DEF Inv, TypeOK
<1>0. row[a] \in Row
  OBVIOUS
<1>1. CASE UNCHANGED vars
  BY <1>1 DEF vars
<1>2. ASSUME NEW j \in Job, RearmCommits(j) PROVE row'[a].status # "ACTIVE"
  <2>1. a \notin job[j].picked
    BY <1>2 DEF RearmCommits, RearmsRepeating
  <2> QED
    BY <1>2, <2>1 DEF RearmCommits
<1>3. ASSUME NEW j \in Job, Commit(j) PROVE row'[a].status # "ACTIVE"
  BY <1>3 DEF Commit
<1>4. ASSUME NEW b \in Alert, Remove(b) \/ Create(b) PROVE row'[a].status # "ACTIVE"
  BY <1>4 DEF Remove, Create, Gone
<1>5. CASE Tick
  BY <1>0, <1>5 DEF Tick, Row
<1>6. ASSUME NEW j \in Job,
             \/ RearmReads(j) \/ List(j) \/ Mark(j) \/ Tell(j) \/ Fail(j)
             \/ \E k \in Scanner : Open(j, k)
      PROVE  row'[a].status # "ACTIVE"
  BY <1>6 DEF RearmReads, List, Mark, Tell, Fail, Open
<1> QED
  BY <1>1, <1>2, <1>3, <1>4, <1>5, <1>6 DEF Next, Proceed

\* A price alert never fires a second time by itself, however many scans overlap.
THEOREM OneShotStaysDownAlways == Spec => OneShotStaysDown
<1>1. ASSUME Inv, [Next]_vars
      PROVE  [\A a \in Alert \ Repeating :
                 row[a].status = "TRIGGERED" => row'[a].status # "ACTIVE"]_vars
  BY <1>1, StaysDown
<1> QED
  BY <1>1, InvInit, InvNext, PTL DEF Spec, OneShotStaysDown

-----------------------------------------------------------------------------
(* The refinement.  A session reads alerts and writes them several awaits    *)
(* later, and nothing checks again what it read.  If it met no other session, *)
(* what it read still holds when it writes, up to removed alerts.            *)

IsGone(a) == row[a].status = "gone"
Due(a)    == a \in Repeating /\ row[a].status = "TRIGGERED" /\ row[a].age > Cool[a]

\* What session j picked is as it saw it.
Sees(j) ==
    /\ job[j].pc = "rearming" => \A a \in job[j].picked : Due(a) \/ IsGone(a)
    /\ job[j].pc = "mark" =>
          \A a \in job[j].picked : row[a].status = "ACTIVE" \/ IsGone(a)
    /\ job[j].pc = "commit" /\ job[j].kept =>
          \A a \in job[j].picked : row[a].status = "ACTIVE"
    /\ job[j].pc = "tell" /\ job[j].kept =>
          \A a \in job[j].picked : /\ row[a].status = "TRIGGERED" \/ IsGone(a)
                                   /\ notices[a] = 0

\* Sessions that are open together met.
Meets == \A i, j \in Job : i # j /\ Opened(i) /\ Opened(j) => j \in met

LoneSees  == \A j \in Job : j \notin met => Sees(j)
GoneIsNew == \A a \in Alert : IsGone(a) => row[a] = Gone

LoneInv == Inv /\ Meets /\ LoneSees /\ GoneIsNew

\* No session is open at first.
LEMMA LoneInit == MCInit => LoneInv
<1> SUFFICES ASSUME MCInit PROVE LoneInv
  OBVIOUS
<1>1. Inv
  BY InvInit DEF MCInit
<1>2. \A j \in Job : job[j].pc = "idle"
  BY DEF MCInit, Init, Closed
<1>3. \A a \in Alert : row[a].status = "ACTIVE"
  BY DEF MCInit, Init, Active
<1> QED
  BY <1>1, <1>2, <1>3 DEF LoneInv, Meets, LoneSees, GoneIsNew, Sees, Opened, IsGone

\* Who is open together after a step has met.
LEMMA MeetsNext == ASSUME LoneInv, [MCNext]_<<vars, met>> PROVE Meets'
<1>1. CASE MCNext
  BY <1>1 DEF MCNext, Meets
<1>2. CASE UNCHANGED <<vars, met>>
  BY <1>2 DEF LoneInv, Meets, Opened, vars
<1> QED
  BY <1>1, <1>2

\* The step of a session: what it does to the session, and that it saw right.
LEMMA SeesSession ==
    ASSUME LoneInv, NEW j \in Job,
           Proceed(j) \/ Fail(j) \/ \E k \in Scanner : Open(j, k)
    PROVE  /\ \A i \in Job \ {j} : job'[i] = job[i]
           /\ job'[j].pc # job[j].pc
           /\ Sees(j) => Sees(j)'
           /\ GoneIsNew'
<1> DEFINE Goal == /\ \A i \in Job \ {j} : job'[i] = job[i]
                   /\ job'[j].pc # job[j].pc
                   /\ Sees(j) => Sees(j)'
                   /\ GoneIsNew'
<1>1. /\ TypeOK /\ GoneIsNew /\ job \in [Job -> Session] /\ job[j] \in Session
      /\ row \in [Alert -> Row] /\ notices \in [Alert -> 0 .. 2]
      /\ job[j].picked \subseteq Alert
  BY DEF LoneInv, Inv, TypeOK, Session
<1>2. ASSUME NEW s, job' = [job EXCEPT ![j] = s]
      PROVE  job'[j] = s /\ \A i \in Job \ {j} : job'[i] = job[i]
  BY <1>1, <1>2
<1>3. ASSUME row' = row PROVE GoneIsNew'
  BY <1>1, <1>3 DEF GoneIsNew, IsGone
<1>4. ASSUME NEW k \in Scanner, Open(j, k) PROVE Goal
  <2> DEFINE s == [Closed EXCEPT !.kind = k,
                                 !.pc = IF k = "scheduler" THEN "rearm" ELSE "list"]
  <2>1. s.pc \in {"rearm", "list"}
    BY DEF Closed
  <2>2. job' = [job EXCEPT ![j] = s] /\ row' = row /\ job[j].pc = "idle"
    BY <1>4 DEF Open
  <2> HIDE DEF s
  <2> QED
    BY <1>2, <1>3, <2>1, <2>2 DEF Sees
<1>5. CASE RearmReads(j)
  <2> DEFINE s == [job[j] EXCEPT !.pc = "rearming", !.picked = Cooled]
  <2>1. s.pc = "rearming" /\ s.picked = Cooled
    BY <1>1 DEF Session
  <2>2. job' = [job EXCEPT ![j] = s] /\ row' = row /\ job[j].pc = "rearm"
    BY <1>5 DEF RearmReads
  <2> HIDE DEF s
  <2>3. \A a \in Cooled : Due(a)'
    BY <2>2 DEF Cooled, Due
  <2> QED
    BY <1>2, <1>3, <2>1, <2>2, <2>3 DEF Sees
<1>6. CASE RearmCommits(j)
  <2> DEFINE s == [job[j] EXCEPT !.pc = "list", !.picked = {}]
  <2>1. s.pc = "list"
    BY <1>1 DEF Session
  <2>2. job' = [job EXCEPT ![j] = s] /\ job[j].pc = "rearming"
    BY <1>6 DEF RearmCommits
  <2> HIDE DEF s
  <2>3. GoneIsNew'
    BY <1>1, <1>6 DEF RearmCommits, GoneIsNew, IsGone, Active
  <2> QED
    BY <1>2, <2>1, <2>2, <2>3 DEF Sees
<1>7. CASE List(j)
  <2>1. PICK A \in SUBSET Watched :
           job' = [job EXCEPT ![j] = [job[j] EXCEPT !.pc = "mark", !.picked = A]]
    BY <1>7 DEF List
  <2> DEFINE s == [job[j] EXCEPT !.pc = "mark", !.picked = A]
  <2>2. s.pc = "mark" /\ s.picked = A
    BY <1>1 DEF Session
  <2>3. job' = [job EXCEPT ![j] = s] /\ row' = row /\ job[j].pc = "list"
    BY <1>7, <2>1 DEF List
  <2> HIDE DEF s
  <2>4. \A a \in A : row'[a].status = "ACTIVE"
    BY <2>3 DEF Watched
  <2> QED
    BY <1>2, <1>3, <2>2, <2>3, <2>4 DEF Sees
<1>8. CASE Mark(j)
  <2>1. PICK ok \in BOOLEAN :
           job' = [job EXCEPT ![j] = [job[j] EXCEPT !.pc = "commit", !.kept = ok]]
    BY <1>8 DEF Mark
  <2> DEFINE s == [job[j] EXCEPT !.pc = "commit", !.kept = ok]
  <2>2. s.pc = "commit" /\ s.picked = job[j].picked
    BY <1>1 DEF Session
  <2>3. job' = [job EXCEPT ![j] = s] /\ row' = row /\ job[j].pc = "mark"
    BY <1>8, <2>1 DEF Mark
  <2>4. \A a \in job[j].picked : row[a].status # "gone"
    BY <1>8 DEF Mark, CanWrite
  <2> HIDE DEF s
  <2>5. Sees(j) => \A a \in job[j].picked : row'[a].status = "ACTIVE"
    BY <2>3, <2>4 DEF Sees, IsGone
  <2> QED
    BY <1>2, <1>3, <2>2, <2>3, <2>5 DEF Sees
<1>9. CASE Commit(j)
  <2> DEFINE s == [job[j] EXCEPT !.pc = "tell", !.age = 0]
  <2>1. s.pc = "tell" /\ s.picked = job[j].picked /\ s.kept = job[j].kept
    BY <1>1 DEF Session
  <2>2. job' = [job EXCEPT ![j] = s] /\ job[j].pc = "commit"
    BY <1>9 DEF Commit
  <2> HIDE DEF s
  <2>3. GoneIsNew'
    BY <1>1, <1>9 DEF Commit, GoneIsNew, IsGone
  <2>4. Sees(j) /\ job[j].kept => \A a \in job[j].picked :
            row'[a].status = "TRIGGERED" /\ notices'[a] = 0
    BY <1>1, <1>9, <2>2 DEF Sees, Commit, Marked
  <2>5. job'[j] = s /\ \A i \in Job \ {j} : job'[i] = job[i]
    BY <1>2, <2>2
  <2>6. ASSUME Sees(j) PROVE Sees(j)'
    <3>1. job'[j].pc = "tell" /\ job'[j].picked = job[j].picked /\ job'[j].kept = job[j].kept
      BY <2>1, <2>5
    <3> QED
      BY <2>4, <2>6, <3>1 DEF Sees
  <2> QED
    BY <2>1, <2>2, <2>3, <2>5, <2>6
<1>10. CASE Tell(j)
  <2>1. job' = [job EXCEPT ![j] = Closed] /\ row' = row /\ job[j].pc = "tell"
    BY <1>10 DEF Tell
  <2>2. Closed.pc = "idle"
    BY DEF Closed
  <2> QED
    BY <1>2, <1>3, <2>1, <2>2 DEF Sees
<1>11. CASE Fail(j)
  <2> DEFINE s == [job[j] EXCEPT !.pc = "list", !.picked = {}]
  <2>1. s.pc = "list" /\ Closed.pc = "idle"
    BY <1>1 DEF Session, Closed
  <2>2. /\ \/ job' = [job EXCEPT ![j] = s] /\ job[j].pc # "list"
           \/ job' = [job EXCEPT ![j] = Closed]
        /\ row' = row /\ job[j].pc # "idle"
    BY <1>11 DEF Fail
  <2> HIDE DEF s
  <2> QED
    BY <1>2, <1>3, <2>1, <2>2 DEF Sees
<1> QED
  BY <1>4, <1>5, <1>6, <1>7, <1>8, <1>9, <1>10, <1>11 DEF Proceed

\* What happens around a session does not change what it saw.
LEMMA SeesAround ==
    ASSUME LoneInv, (\E a \in Alert : Remove(a) \/ Create(a)) \/ Tick
    PROVE  /\ \A i \in Job : job'[i].pc = job[i].pc /\ (Sees(i) => Sees(i)')
           /\ GoneIsNew'
<1>1. /\ TypeOK /\ GoneIsNew /\ job \in [Job -> Session] /\ row \in [Alert -> Row]
      /\ notices \in [Alert -> 0 .. 2]
      /\ \A i \in Job : job[i].picked \subseteq Alert
  BY DEF LoneInv, Inv, TypeOK, Session
<1>2. ASSUME NEW b \in Alert, Remove(b)
      PROVE  /\ \A i \in Job : job'[i].pc = job[i].pc /\ (Sees(i) => Sees(i)')
             /\ GoneIsNew'
  <2>1. /\ job' = job /\ row'[b] = Gone /\ notices'[b] = 0
        /\ \A a \in Alert \ {b} : row'[a] = row[a] /\ notices'[a] = notices[a]
    BY <1>1, <1>2 DEF Remove
  <2>2. GoneIsNew'
    BY <1>1, <2>1 DEF GoneIsNew, IsGone
  <2>3. IsGone(b)' /\ \A a \in Alert \ {b} : (Due(a) => Due(a)') /\ (IsGone(a) => IsGone(a)')
    BY <2>1 DEF IsGone, Due, Gone
  <2>4. ASSUME NEW i \in Job, job[i].pc = "commit", job[i].kept PROVE b \notin job[i].picked
    BY <1>2, <2>4 DEF Remove, Locked, Holds
  <2>5. ASSUME NEW i \in Job, Sees(i) PROVE Sees(i)'
    BY <1>1, <2>1, <2>3, <2>4, <2>5 DEF Sees
  <2> QED
    BY <2>1, <2>2, <2>5
<1>3. ASSUME NEW b \in Alert, Create(b)
      PROVE  /\ \A i \in Job : job'[i].pc = job[i].pc /\ (Sees(i) => Sees(i)')
             /\ GoneIsNew'
  <2>1. /\ job' = job /\ row'[b] = Active
        /\ \A a \in Alert \ {b} : row'[a] = row[a] /\ notices'[a] = notices[a]
        /\ \A i \in Job : b \notin job[i].picked
    BY <1>1, <1>3 DEF Create
  <2>2. GoneIsNew'
    BY <1>1, <2>1 DEF GoneIsNew, IsGone, Active
  <2>3. \A a \in Alert \ {b} : (Due(a) => Due(a)') /\ (IsGone(a) => IsGone(a)')
    BY <2>1 DEF IsGone, Due
  <2>4. ASSUME NEW i \in Job, Sees(i) PROVE Sees(i)'
    BY <1>1, <2>1, <2>3, <2>4 DEF Sees
  <2> QED
    BY <2>1, <2>2, <2>4
<1>4. CASE Tick
  <2>1. \A a \in Alert : /\ row'[a] = IF row[a].status = "TRIGGERED"
                                      THEN [row[a] EXCEPT !.age = Older(row[a].age)] ELSE row[a]
                         /\ row[a] \in Row
    BY <1>1, <1>4 DEF Tick
  <2>2. \A a \in Alert : /\ row'[a].status = row[a].status
                         /\ row[a].status # "TRIGGERED" => row'[a] = row[a]
                         /\ row'[a].age = row[a].age \/ row'[a].age = row[a].age + 1
                         /\ row[a].age \in Nat
    <3>1. ASSUME NEW a \in Alert
          PROVE  /\ row[a].age \in Nat
                 /\ [row[a] EXCEPT !.age = Older(row[a].age)].status = row[a].status
                 /\ [row[a] EXCEPT !.age = Older(row[a].age)].age = Older(row[a].age)
      <4>1. row[a] \in Row /\ Cap \in Nat
        BY <2>1, CoolAssumption DEF CoolAssumption
      <4>2. row[a].age \in Nat
        BY <4>1 DEF Row
      <4>3. ASSUME NEW n PROVE /\ [row[a] EXCEPT !.age = n].status = row[a].status
                               /\ [row[a] EXCEPT !.age = n].age = n
        BY <4>1 DEF Row
      <4> QED
        BY <4>2, <4>3
    <3>2. \A n \in Nat : Older(n) = n \/ Older(n) = n + 1
      BY DEF Older
    <3> QED
      BY <2>1, <3>1, <3>2
  <2>3. \A i \in Job : /\ job'[i].pc = job[i].pc /\ job'[i].picked = job[i].picked
                       /\ job'[i].kept = job[i].kept
    BY <1>1, <1>4 DEF Tick, Session
  <2>4. notices' = notices
    BY <1>4 DEF Tick
  <2>5. \A a \in Alert : (Due(a) => Due(a)') /\ (IsGone(a) => IsGone(a)')
    BY <2>2, CoolAssumption DEF Due, IsGone, CoolAssumption
  <2>6. ASSUME NEW i \in Job, Sees(i) PROVE Sees(i)'
    BY <1>1, <2>2, <2>3, <2>4, <2>5, <2>6 DEF Sees
  <2>7. GoneIsNew'
    BY <1>1, <2>2 DEF GoneIsNew, IsGone
  <2> QED
    BY <2>3, <2>6, <2>7
<1> QED
  BY <1>2, <1>3, <1>4

\* A session that met no other sees the rows as they are, in every step.
LEMMA LoneNext == ASSUME LoneInv, [MCNext]_<<vars, met>> PROVE LoneInv'
<1>1. Meets'
  BY MeetsNext
<1>2. Inv'
  <2>1. [Next]_vars
    BY DEF MCNext, vars
  <2> QED
    BY <2>1, InvNext DEF LoneInv
<1>3. CASE UNCHANGED <<vars, met>>
  <2>1. LoneSees' /\ GoneIsNew'
    BY <1>3 DEF LoneInv, vars, LoneSees, GoneIsNew, Sees, Due, IsGone
  <2> QED
    BY <1>1, <1>2, <2>1 DEF LoneInv
<1>4. ASSUME MCNext, NEW i \in Job, i \notin met', Opened(i), Opened(i)' PROVE Sees(i)
  BY <1>4 DEF MCNext, LoneInv, LoneSees
<1>5. ASSUME MCNext, NEW j \in Job, Proceed(j) \/ Fail(j) \/ \E k \in Scanner : Open(j, k)
      PROVE  LoneSees' /\ GoneIsNew'
  <2>1. /\ \A i \in Job \ {j} : job'[i] = job[i]
        /\ job'[j].pc # job[j].pc
        /\ Sees(j) => Sees(j)'
        /\ GoneIsNew'
    BY <1>5, SeesSession DEF LoneInv
  <2>2. ASSUME NEW i \in Job, i \notin met', ~Opened(i)' PROVE Sees(i)'
    BY <2>2 DEF Opened, Sees
  <2>3. ASSUME j \notin met', Opened(j)' PROVE Sees(j)'
    <3>1. Opened(j) => Sees(j)
      BY <1>4, <1>5, <2>3
    <3>2. ~Opened(j) => Sees(j)
      BY DEF Opened, Sees
    <3> QED
      BY <2>1, <3>1, <3>2
  <2>4. ASSUME NEW i \in Job \ {j}, i \notin met', Opened(i)' PROVE Sees(i)'
    <3>1. Opened(i)
      BY <2>1, <2>4 DEF Opened
    <3>2. i \notin met
      BY <1>5, <2>4 DEF MCNext
    <3>3. ~Opened(j) /\ ~Opened(j)'
      BY <1>1, <2>4, <3>1, <3>2 DEF LoneInv, Meets
    <3> QED
      BY <2>1, <3>3 DEF Opened
  <2> QED
    BY <2>1, <2>2, <2>3, <2>4 DEF LoneSees
<1>6. ASSUME MCNext, (\E a \in Alert : Remove(a) \/ Create(a)) \/ Tick
      PROVE  LoneSees' /\ GoneIsNew'
  <2>1. /\ \A i \in Job : job'[i].pc = job[i].pc /\ (Sees(i) => Sees(i)')
        /\ GoneIsNew'
    BY <1>6, SeesAround
  <2>2. ASSUME NEW i \in Job, i \notin met' PROVE Sees(i)'
    <3>1. CASE Opened(i)
      BY <1>4, <1>6, <2>1, <2>2, <3>1 DEF Opened
    <3>2. CASE ~Opened(i)
      BY <2>1, <3>2 DEF Opened, Sees
    <3> QED
      BY <3>1, <3>2
  <2> QED
    BY <2>1, <2>2 DEF LoneSees
<1> QED
  BY <1>1, <1>2, <1>3, <1>5, <1>6 DEF LoneInv, MCNext, Next

-----------------------------------------------------------------------------
\* A step of a session that met no other is a step of the abstract alerts.
LEMMA SessionImplements ==
    ASSUME LoneInv, NEW j \in Job, j \notin met, Proceed(j), job[j].pc = "tell" => job[j].kept
    PROVE  [States!Next]_<<row, notices>>
<1>1. /\ TypeOK /\ RearmsRepeating /\ Sees(j) /\ job[j] \in Session
      /\ row \in [Alert -> Row] /\ notices \in [Alert -> 0 .. 2]
      /\ job[j].picked \subseteq Alert /\ job[j].age \in 0 .. Cap
  BY DEF LoneInv, Inv, TypeOK, LoneSees, Session
<1>2. CASE RearmReads(j) \/ List(j) \/ Mark(j)
  BY <1>2 DEF RearmReads, List, Mark
<1>3. CASE RearmCommits(j)
  <2>1. \A a \in job[j].picked : Due(a)
    BY <1>1, <1>3 DEF RearmCommits, CanWrite, Sees, IsGone
  <2>2. States!Rearm(job[j].picked)
    BY <1>3, <2>1 DEF RearmCommits, States!Rearm, Due, Active, States!Active
  <2> QED
    BY <1>1, <2>2 DEF States!Next
<1>4. CASE Commit(j)
  <2>1. \A a \in Marked(j) : row[a].status = "ACTIVE"
    BY <1>1, <1>4 DEF Commit, Marked, Sees
  <2>2. States!Trigger(Marked(j), job[j].age)
    BY <1>4, <2>1 DEF Commit, States!Trigger
  <2>3. Marked(j) \in SUBSET Alert
    BY <1>1 DEF Marked
  <2> QED
    BY <1>1, <2>2, <2>3 DEF States!Next
<1>5. CASE Tell(j)
  <2>1. \A a \in job[j].picked : row[a].status \in {"TRIGGERED", "gone"} /\ notices[a] = 0
    BY <1>1, <1>5 DEF Tell, Sees, IsGone
  <2>2. States!Notify(job[j].picked)
    BY <1>5, <2>1 DEF Tell, States!Notify
  <2> QED
    BY <1>1, <2>2 DEF States!Next
<1> QED
  BY <1>2, <1>3, <1>4, <1>5 DEF Proceed

\* So is what happens around the sessions.
LEMMA AroundImplements ==
    ASSUME LoneInv, (\E a \in Alert : Remove(a) \/ Create(a)) \/ Tick
    PROVE  States!Next
<1>1. row \in [Alert -> Row] /\ GoneIsNew
  BY DEF LoneInv, Inv, TypeOK
<1>2. ASSUME NEW a \in Alert, Remove(a) PROVE States!Replace(a)
  <2>1. row[a] # States!Gone /\ Gone = States!Gone
    BY <1>2 DEF Remove, Gone, States!Gone
  <2>2. row' = [row EXCEPT ![a] = Gone] /\ notices' = [notices EXCEPT ![a] = 0]
    BY <1>2 DEF Remove
  <2> HIDE DEF Gone, States!Gone
  <2> QED
    BY <2>1, <2>2 DEF States!Replace
<1>3. ASSUME NEW a \in Alert, Create(a) PROVE States!Replace(a)
  BY <1>1, <1>3 DEF Create, States!Replace, GoneIsNew, IsGone, Gone, States!Gone,
     Active, States!Active
<1>4. ASSUME Tick PROVE States!Tick
  <2>1. ASSUME NEW a \in Alert
        PROVE  row'[a] = IF row[a].status = "TRIGGERED" /\ row[a].age < Cap
                         THEN [row[a] EXCEPT !.age = @ + 1] ELSE row[a]
    <3>1. row[a] \in Row /\ row'[a] = IF row[a].status = "TRIGGERED"
                            THEN [row[a] EXCEPT !.age = Older(row[a].age)] ELSE row[a]
      BY <1>1, <1>4 DEF Tick
    <3>2. CASE row[a].age < Cap
      BY <3>1, <3>2 DEF Older
    <3>3. CASE ~(row[a].age < Cap)
      <4>1. [row[a] EXCEPT !.age = row[a].age] = row[a]
        BY <3>1 DEF Row
      <4> QED
        BY <3>1, <3>3, <4>1 DEF Older
    <3> QED
      BY <3>2, <3>3
  <2>2. row' = [a \in Alert |-> row'[a]] /\ notices' = notices
    BY <1>4 DEF Tick
  <2>3. row' = [a \in Alert |-> IF row[a].status = "TRIGGERED" /\ row[a].age < Cap
                                THEN [row[a] EXCEPT !.age = @ + 1] ELSE row[a]]
    BY <2>1, <2>2
  <2> QED
    BY <2>2, <2>3 DEF States!Tick
<1> QED
  BY <1>2, <1>3, <1>4 DEF States!Next

\* Every step of the model, the sessions that met others excepted.
LEMMA StepImplements ==
    ASSUME LoneInv, [MCNext]_<<vars, met>>
    PROVE  [Alone => States!Next]_<<row, notices>>
<1>1. CASE UNCHANGED <<vars, met>>
  BY <1>1 DEF vars
<1>2. ASSUME NEW j \in Job, Fail(j) \/ \E k \in Scanner : Open(j, k)
      PROVE  UNCHANGED <<row, notices>>
  BY <1>2 DEF Fail, Open
<1>3. ASSUME NEW j \in Job, Proceed(j), Alone PROVE [States!Next]_<<row, notices>>
  <2>1. job'[j].pc # job[j].pc
    BY <1>3, SeesSession
  <2>2. j \notin met /\ (job[j].pc = "tell" => job[j].kept)
    BY <1>3, <2>1 DEF Alone
  <2> QED
    BY <1>3, <2>2, SessionImplements
<1>4. ASSUME (\E a \in Alert : Remove(a) \/ Create(a)) \/ Tick PROVE States!Next
  BY <1>4, AroundImplements
<1> QED
  BY <1>1, <1>2, <1>3, <1>4 DEF MCNext, Next

\* For every set of alerts, cooldowns and sessions: scans that do not overlap
\* trigger an alert once, tell the investor once and re-arm it only if its type
\* allows it and after its cooldown, whatever the sessions that did overlap left
\* in the rows.
THEOREM ImplementsStatesAlways == MCSpec => ImplementsStates
<1>1. MCInit => States!Init
  BY DEF MCInit, Init, States!Init, Active, States!Active
<1> QED
  BY <1>1, LoneInit, LoneNext, StepImplements, PTL DEF MCSpec, ImplementsStates

-----------------------------------------------------------------------------
(* What Rearmed rests on, besides fairness: the next re-arming that reads    *)
(* finds the alert, since nothing but a re-arming makes one that is due      *)
(* undue.                                                                    *)

\* An alert past its cooldown stays so until a session re-arms it, or it is
\* dropped, or a session that ran beside another one marks it a second time,
\* which starts its cooldown again.
DueStays ==
    \A a \in Alert : Due(a) /\ ~Due(a)' =>
        \/ IsGone(a)'
        \/ \E j \in Job : /\ a \in job[j].picked
                          /\ RearmCommits(j) \/ (j \in met /\ Commit(j))

\* Time alone does not take an alert back before its cooldown.
LEMMA DueTick ==
    ASSUME TypeOK, Tick, NEW a \in Alert, Due(a)
    PROVE  Due(a)'
<1>1. /\ a \in Repeating /\ Cool[a] \in Nat /\ Cap \in Nat
      /\ row[a] \in Row /\ row[a].age \in 0 .. Cap
      /\ row[a].status = "TRIGGERED" /\ row[a].age > Cool[a]
  BY CoolAssumption DEF CoolAssumption, TypeOK, Row, Due
<1>2. row'[a] = [row[a] EXCEPT !.age = Older(row[a].age)]
  BY <1>1 DEF Tick
<1>3. row'[a].status = "TRIGGERED" /\ row'[a].age = Older(row[a].age)
  BY <1>1, <1>2 DEF Row
<1>4. Older(row[a].age) > Cool[a]
  BY <1>1 DEF Older
<1> QED
  BY <1>1, <1>3, <1>4 DEF Due

\* However scans overlap, fail and roll back, a due alert waits for the next
\* re-arming; only an overlap puts it off.
THEOREM DueStaysAlways == MCSpec => [][DueStays]_<<vars, met>>
<1>1. ASSUME LoneInv, MCNext, NEW a \in Alert, Due(a), ~Due(a)'
      PROVE  \/ IsGone(a)'
             \/ \E j \in Job : /\ a \in job[j].picked
                               /\ RearmCommits(j) \/ (j \in met /\ Commit(j))
  <2>1. row \in [Alert -> Row] /\ TypeOK
    BY <1>1 DEF LoneInv, Inv, TypeOK
  <2>2. row'[a] # row[a]
    BY <1>1 DEF Due
  <2>3. ASSUME NEW j \in Job, RearmCommits(j) PROVE a \in job[j].picked
    BY <2>1, <2>2, <2>3 DEF RearmCommits
  <2>4. ASSUME NEW j \in Job, Commit(j) PROVE a \in job[j].picked /\ j \in met
    <3>1. a \in Marked(j)
      BY <2>1, <2>2, <2>4 DEF Commit
    <3>2. a \in job[j].picked /\ job[j].kept /\ job[j].pc = "commit"
      BY <2>4, <3>1 DEF Commit, Marked
    <3>3. j \notin met => row[a].status = "ACTIVE"
      BY <1>1, <3>2 DEF LoneInv, LoneSees, Sees
    <3> QED
      BY <1>1, <3>2, <3>3 DEF Due
  <2>5. ASSUME NEW b \in Alert, Remove(b) \/ Create(b) PROVE IsGone(a)'
    <3>1. b = a
      BY <2>1, <2>2, <2>5 DEF Remove, Create
    <3> QED
      BY <1>1, <2>1, <2>5, <3>1 DEF Remove, Create, Due, IsGone, Gone
  <2>6. ~Tick
    BY <1>1, <2>1, DueTick
  <2>7. ASSUME NEW j \in Job,
               \/ RearmReads(j) \/ List(j) \/ Mark(j) \/ Tell(j) \/ Fail(j)
               \/ \E k \in Scanner : Open(j, k)
        PROVE  FALSE
    BY <2>2, <2>7 DEF RearmReads, List, Mark, Tell, Fail, Open
  <2> QED
    BY <1>1, <2>3, <2>4, <2>5, <2>6, <2>7 DEF MCNext, Next, Proceed
<1>2. LoneInv /\ [MCNext]_<<vars, met>> => [DueStays]_<<vars, met>>
  BY <1>1 DEF DueStays
<1> QED
  BY <1>2, LoneInit, LoneNext, PTL DEF MCSpec
=============================================================================

-------------------------- MODULE AttemptLogProofs --------------------------
(***************************************************************************)
(* Theorems about record_attempt, for any number of overlapping calls.       *)
(***************************************************************************)
EXTENDS AttemptLog, FiniteSetTheorems, TLAPS

\* The numbers taken so far, and those any call has seen, are 1..m for some m:
\* what a call sees is what was there when it started.
Prefix(numbers) == \E m \in Nat : numbers = 1..m

SnapshotsStale ==
    /\ Prefix(rows)
    /\ \A c \in Recorders : Prefix(snapshot[c])
    /\ exists => \A c \in Running : snapshot[c] \subseteq rows
    /\ ~exists => rows = {}

\* Two running calls have met, and one that has met nobody has an up-to-date
\* snapshot.
OverlapsKnown ==
    /\ \A c, d \in Running : c # d => c \in beside
    /\ exists => \A c \in Running : c \notin beside => snapshot[c] = rows

\* The number after 1..m is m + 1.
LEMMA NextNumber ==
    ASSUME NEW m \in Nat
    PROVE  NextAttempt(1..m) = m + 1
<1>1. CASE m = 0
    BY <1>1 DEF NextAttempt
<1>2. CASE m # 0
  <2>1. m \in 1..m /\ 1..m # {}
      BY <1>2
  <2>2. m + 1 \in {k + 1 : k \in 1..m} /\ \A k \in 1..m : k < m + 1
      BY <2>1
  <2>3. \A n \in {k + 1 : k \in 1..m} : (\A k \in 1..m : k < n) => n = m + 1
      BY <2>1
  <2> QED BY <2>1, <2>2, <2>3 DEF NextAttempt
<1> QED BY <1>1, <1>2

\* What holds in every state: the types, the two invariants above, and that
\* nothing is lost without a race.
Inv == TypeOK /\ SnapshotsStale /\ OverlapsKnown /\ LostOnlyInRace

LEMMA InitInv == Init => Inv
<1> SUFFICES ASSUME Init PROVE Inv
    OBVIOUS
<1>1. Running = {}
    BY DEF Init, Running
<1>2. Prefix({})
    BY DEF Prefix
<1> QED BY <1>1, <1>2, AttemptLogAssumption
       DEF Init, Inv, TypeOK, SnapshotsStale, OverlapsKnown, LostOnlyInRace

LEMMA BeginInv ==
    ASSUME Inv, NEW c \in Recorders, Begin(c)
    PROVE  Inv'
<1> USE DEF Inv
<1>1. TypeOK'
    BY AttemptLogAssumption DEF Begin, TypeOK, Running
<1>2. Running' = Running \cup {c} /\ c \notin Running /\ Running \subseteq Recorders
    BY DEF Begin, Running, TypeOK
<1>3. /\ snapshot'[c] = rows
      /\ \A d \in Recorders \ {c} : snapshot'[d] = snapshot[d]
      /\ UNCHANGED <<rows, exists>>
    BY DEF Begin, TypeOK
<1>4. beside' = beside \cup (IF Running = {} THEN {} ELSE Running \cup {c})
    BY DEF Begin
<1>5. SnapshotsStale'
  <2>1. \A d \in Recorders : snapshot'[d] = rows \/ snapshot'[d] = snapshot[d]
      BY <1>3
  <2>2. Prefix(rows') /\ \A d \in Recorders : Prefix(snapshot'[d])
      BY <1>3, <2>1 DEF SnapshotsStale, Prefix
  <2>3. exists' => \A d \in Running' : snapshot'[d] \subseteq rows'
      BY <1>2, <1>3 DEF SnapshotsStale
  <2> QED BY <1>3, <2>2, <2>3 DEF SnapshotsStale, Prefix
<1>6. \A d, f \in Running' : d # f => d \in beside'
  <2> SUFFICES ASSUME NEW d \in Running', NEW f \in Running', d # f
               PROVE  d \in beside'
      OBVIOUS
  <2>1. Running # {}
      BY <1>2
  <2> QED BY <1>2, <1>4, <2>1
<1>7. exists' => \A d \in Running' : d \notin beside' => snapshot'[d] = rows'
  <2> SUFFICES ASSUME exists', NEW d \in Running', d \notin beside'
               PROVE  snapshot'[d] = rows'
      OBVIOUS
  <2>1. Running = {} /\ d = c
      BY <1>2, <1>4
  <2> QED BY <1>3, <2>1
<1>8. OverlapsKnown'
    BY <1>6, <1>7 DEF OverlapsKnown
<1>9. LostOnlyInRace'
    BY <1>3, <1>4 DEF Begin, LostOnlyInRace, TypeOK
<1> QED BY <1>1, <1>5, <1>8, <1>9

LEMMA AcquireLockInv ==
    ASSUME Inv, NEW c \in Recorders, AcquireLock(c)
    PROVE  Inv'
<1> USE DEF Inv
<1>1. TypeOK'
    BY AttemptLogAssumption DEF AcquireLock, TypeOK
<1>2. Running' = Running /\ UNCHANGED <<rows, exists, snapshot, beside>>
    BY DEF AcquireLock, Running, TypeOK
<1>3. LostOnlyInRace'
    BY DEF AcquireLock, LostOnlyInRace, TypeOK
<1> QED BY <1>1, <1>2, <1>3 DEF SnapshotsStale, OverlapsKnown, Prefix

\* The number a call takes is the next one or is taken already.
LEMMA InsertInv ==
    ASSUME Inv, NEW c \in Recorders, Insert(c)
    PROVE  Inv'
<1> USE DEF Inv
<1>1. PICK k \in Nat : snapshot[c] = 1..k
    BY DEF SnapshotsStale, Prefix
<1>2. NextAttempt(snapshot[c]) = k + 1
    BY <1>1, NextNumber
<1>3. PICK m \in Nat : rows = 1..m
    BY DEF SnapshotsStale, Prefix
<1>4. Running' = Running \ {c} /\ c \in Running /\ UNCHANGED <<exists, snapshot, beside>>
    BY DEF Insert, Running, TypeOK
<1>5. UNCHANGED rows \/ (exists /\ rows' = 1..(m + 1))
  <2>1. SUFFICES ASSUME exists, k + 1 \notin rows, rows' = rows \cup {k + 1}
                 PROVE  rows' = 1..(m + 1)
      BY <1>2 DEF Insert
  <2>2. 1..k \subseteq 1..m
      BY <1>1, <1>3, <1>4, <2>1 DEF SnapshotsStale
  <2>3. k <= m
    <3>1. k = 0 \/ k \in 1..k
        OBVIOUS
    <3> QED BY <2>2, <3>1
  <2>4. k = m
      BY <1>3, <2>1, <2>3
  <2> QED BY <1>3, <2>1, <2>4
<1>6. TypeOK'
  <2>1. rows' \subseteq Nat
      BY <1>3, <1>5 DEF TypeOK
  <2> QED BY <2>1, AttemptLogAssumption DEF Insert, TypeOK
<1>7. SnapshotsStale'
  <2>1. Prefix(rows') /\ rows \subseteq rows'
      BY <1>3, <1>5 DEF Prefix
  <2> QED BY <1>4, <1>5, <2>1 DEF SnapshotsStale, Prefix
<1>8. OverlapsKnown'
  <2>2. \A d \in Running' : d \in beside
      BY <1>4 DEF OverlapsKnown
  <2> QED BY <1>4, <2>2 DEF OverlapsKnown
<1>9. LostOnlyInRace'
  <2> SUFFICES ASSUME NEW d \in Recorders, pc'[d] = "refused", exists'
               PROVE  d \in beside'
      BY DEF LostOnlyInRace
  <2>1. CASE d # c
      BY <1>4, <2>1 DEF Insert, LostOnlyInRace, TypeOK
  <2>2. CASE d = c
    <3>1. k + 1 \in rows
        BY <1>2, <1>4, <2>2 DEF Insert, TypeOK
    <3>2. snapshot[c] # rows
        BY <1>1, <3>1
    <3> QED BY <1>4, <2>2, <3>2 DEF OverlapsKnown
  <2> QED BY <2>1, <2>2
<1> QED BY <1>6, <1>7, <1>8, <1>9

LEMMA DeleteEventInv ==
    ASSUME Inv, DeleteEvent
    PROVE  Inv'
<1>1. Running' = Running
    BY DEF DeleteEvent, Running
<1>2. Prefix({})
    BY DEF Prefix
<1> QED BY <1>1, <1>2 DEF Inv, DeleteEvent, TypeOK, SnapshotsStale, OverlapsKnown,
       LostOnlyInRace, Prefix

\* The inductive invariant of the attempt log holds in every state.
THEOREM Invariance == Spec => []Inv
<1>1. Inv /\ [Next]_vars => Inv'
  <2> SUFFICES ASSUME Inv, [Next]_vars PROVE Inv'
      OBVIOUS
  <2>1. CASE UNCHANGED vars
      BY <2>1 DEF vars, Inv, TypeOK, SnapshotsStale, OverlapsKnown, LostOnlyInRace,
                  Prefix, Running
  <2> QED BY <2>1, BeginInv, AcquireLockInv, InsertInv, DeleteEventInv DEF Next
<1> QED BY <1>1, InitInv, PTL DEF Spec

\* The variables of record_attempt keep their types, and only the call that
\* holds the advisory lock is past it.
THEOREM TimelineTypes == Spec => []TypeOK
<1>1. Inv => TypeOK
    BY DEF Inv
<1> QED BY <1>1, Invariance, PTL

\* The attempts of an event are numbered without holes or repetitions, however
\* many tasks record at once.
THEOREM TimelineDense == Spec => []NumbersDense
<1>1. Inv => NumbersDense
  <2> SUFFICES ASSUME Inv PROVE NumbersDense
      OBVIOUS
  <2>1. PICK m \in Nat : rows = 1..m
      BY DEF Inv, SnapshotsStale, Prefix
  <2>2. Cardinality(1..m) = m
      BY FS_Interval
  <2> QED BY <2>1, <2>2 DEF NumbersDense
<1> QED BY <1>1, Invariance, PTL

\* An attempt of an existing event is lost only if two tasks record at once.
THEOREM NothingLostAlone == Spec => []LostOnlyInRace
<1>1. Inv => LostOnlyInRace
    BY DEF Inv
<1> QED BY <1>1, Invariance, PTL
=============================================================================

--------------------------- MODULE DeliveryProofs ---------------------------
(***************************************************************************)
(* Theorems about the delivery engine, for any number of events, workers     *)
(* and admin requests, any retry limit, and any combination of faults.       *)
(***************************************************************************)
EXTENDS Delivery, WellFoundedInduction, TLAPS

-----------------------------------------------------------------------------
(***************************************************************************)
(* What LPUSH, BRPOP and LREM do to a list of ids, for lists of any length.  *)
(*                                                                         *)
(* Lrem is a recursive function, and an induction theorem that takes a       *)
(* predicate cannot be instantiated by the provers at hand; the inductions   *)
(* below take the least number at which a claim fails instead.              *)
(***************************************************************************)
\* f is the table of the prefixes of q scrubbed of e, up to length n.
KeptTo(q, e, n, f) ==
    [i \in 0..n |-> IF i = 0 THEN << >>
                    ELSE IF q[i] = e THEN f[i - 1]
                    ELSE Append(f[i - 1], q[i])]

\* r holds, of the first m ids of q, all but e, and nothing else.
NothingElse(q, e, m, r) ==
    \A j \in 1..Len(r) : \E i \in 1..m : q[i] # e /\ r[j] = q[i]
AllOthers(q, e, m, r) ==
    \A i \in 1..m : q[i] # e => \E j \in 1..Len(r) : r[j] = q[i]
Scrubbed(S, q, e, m, r) ==
    /\ r \in Seq(S)
    /\ NothingElse(q, e, m, r)
    /\ AllOthers(q, e, m, r)
    /\ Distinct(q) => Distinct(r)

\* A nonempty set of numbers has a least one.
LEMMA LeastNumber ==
    ASSUME NEW T \in SUBSET Nat, T # {}
    PROVE  \E m \in T : \A k \in 0..(m - 1) : k \notin T
<1>1. PICK m \in T : \A k \in T : ~(<<k, m>> \in OpToRel(<, Nat))
    BY WFMin, NatLessThanWellFounded
<1>2. \A k \in 0..(m - 1) : k \in T => <<k, m>> \in OpToRel(<, Nat)
    BY DEF OpToRel
<1> QED BY <1>1, <1>2

\* The recursion Lrem is defined by has a solution.
LEMMA KeptExists ==
    ASSUME NEW q, NEW e, NEW n \in Nat
    PROVE  \E f : f = KeptTo(q, e, n, f)
<1> DEFINE T == {m \in Nat : ~ \E f : f = KeptTo(q, e, m, f)}
<1>1. SUFFICES ASSUME T # {} PROVE FALSE
    OBVIOUS
<1>2. PICK m \in T : \A k \in 0..(m - 1) : k \notin T
    BY <1>1, LeastNumber
<1>3. CASE m = 0
  <2> DEFINE g == [i \in 0..0 |-> << >>]
  <2>1. g = KeptTo(q, e, 0, g)
    BY DEF KeptTo
  <2> QED BY <1>2, <1>3, <2>1
<1>4. CASE m # 0
  <2>1. m \in Nat /\ m - 1 \in Nat /\ m - 1 \in 0..(m - 1)
    BY <1>2, <1>4
  <2>2. PICK f : f = KeptTo(q, e, m - 1, f)
    BY <1>2, <2>1
  <2> DEFINE g == [i \in 0..m |-> IF i = m THEN (IF q[m] = e THEN f[m - 1]
                                   ELSE Append(f[m - 1], q[m])) ELSE f[i]]
  <2>3. \A i \in 0..m : g[i] = IF i = 0 THEN << >>
                         ELSE IF q[i] = e THEN g[i - 1]
                         ELSE Append(g[i - 1], q[i])
    <3> TAKE i \in 0..m
    <3>1. CASE i = m
       BY <3>1, <2>1, <1>4
    <3>2. CASE i # m
       <4>1. i \in 0..(m-1) /\ (i # 0 => i - 1 \in 0..(m-1) /\ i-1 # m)
         BY <3>2, <2>1
       <4>2. f[i] = IF i = 0 THEN << >>
                         ELSE IF q[i] = e THEN f[i - 1]
                         ELSE Append(f[i - 1], q[i])
         BY <2>2, <4>1 DEF KeptTo
       <4>3. g[i] = f[i] /\ (i # 0 => g[i-1] = f[i-1])
         BY <4>1, <3>2, <2>1
       <4> QED BY <4>2, <4>3
    <3> QED BY <3>1, <3>2
  <2>4. g = KeptTo(q, e, m, g)
    BY <2>3 DEF KeptTo
  <2> QED BY <2>4, <1>2
<1> QED BY <1>3, <1>4

\* Lrem is the last entry of such a table.
LEMMA LremUnfold == ASSUME NEW S, NEW q \in Seq(S), NEW e
           PROVE \E f : f = KeptTo(q,e,Len(q),f) /\ Lrem(q,e) = f[Len(q)]
<1>1. Len(q) \in Nat
    OBVIOUS
<1>2. \E f : f = KeptTo(q, e, Len(q), f)
    BY <1>1, KeptExists, Zenon
<1> QED BY <1>2 DEF Lrem, KeptTo

\* One step of the recursion: an id that is scrubbed ...
LEMMA ScrubSkip ==
    ASSUME NEW S, NEW q \in Seq(S), NEW e, NEW m \in 1..Len(q), NEW r,
           Scrubbed(S, q, e, m - 1, r), q[m] = e
    PROVE  Scrubbed(S, q, e, m, r)
<1>1. m \in Nat /\ m - 1 \in Nat /\ \A i \in 1..m : i \in 1..(m - 1) \/ i = m
    OBVIOUS
<1>2. \A i \in 1..(m - 1) : i \in 1..m
    OBVIOUS
<1>3. NothingElse(q, e, m, r)
    BY <1>2 DEF Scrubbed, NothingElse
<1>4. AllOthers(q, e, m, r)
    BY <1>1 DEF Scrubbed, AllOthers
<1> QED BY <1>3, <1>4 DEF Scrubbed

\* ... and one that is kept.
LEMMA ScrubKeep ==
    ASSUME NEW S, NEW q \in Seq(S), NEW e, NEW m \in 1..Len(q), NEW r,
           Scrubbed(S, q, e, m - 1, r), q[m] # e
    PROVE  Scrubbed(S, q, e, m, Append(r, q[m]))
<1> DEFINE t == Append(r, q[m])
<1>1. r \in Seq(S) /\ q[m] \in S /\ Len(r) \in Nat
    BY DEF Scrubbed
<1>2. /\ t \in Seq(S)
      /\ Len(t) = Len(r) + 1
      /\ t[Len(r) + 1] = q[m]
      /\ \A j \in 1..Len(r) : t[j] = r[j]
    BY <1>1
<1>3. \A j \in 1..Len(t) : j \in 1..Len(r) \/ j = Len(r) + 1
    BY <1>1, <1>2
<1>4. \A j \in 1..Len(r) : j \in 1..Len(t)
    BY <1>1, <1>2
<1>5. Len(r) + 1 \in 1..Len(t)
    BY <1>1, <1>2
<1>6. \A i \in 1..m : i \in 1..(m - 1) \/ i = m
    OBVIOUS
<1>7. \A i \in 1..(m - 1) : i \in 1..m /\ i \in 1..Len(q) /\ i # m
    OBVIOUS
<1>8. m \in 1..m
    OBVIOUS
<1> HIDE DEF t
<1>9. NothingElse(q, e, m, t)
  <2> SUFFICES ASSUME NEW j \in 1..Len(t)
               PROVE  \E i \in 1..m : q[i] # e /\ t[j] = q[i]
      BY DEF NothingElse
  <2>1. CASE j = Len(r) + 1
      BY <2>1, <1>2, <1>8
  <2>2. CASE j \in 1..Len(r)
    <3>1. PICK i \in 1..(m - 1) : q[i] # e /\ r[j] = q[i]
        BY <2>2 DEF Scrubbed, NothingElse
    <3> QED BY <3>1, <2>2, <1>2, <1>7
  <2> QED BY <2>1, <2>2, <1>3
<1>10. AllOthers(q, e, m, t)
  <2> SUFFICES ASSUME NEW i \in 1..m, q[i] # e
               PROVE  \E j \in 1..Len(t) : t[j] = q[i]
      BY DEF AllOthers
  <2>1. CASE i = m
      BY <2>1, <1>2, <1>5
  <2>2. CASE i \in 1..(m - 1)
    <3>1. PICK j \in 1..Len(r) : r[j] = q[i]
        BY <2>2 DEF Scrubbed, AllOthers
    <3> QED BY <3>1, <1>2, <1>4
  <2> QED BY <2>1, <2>2, <1>6
<1>11. ASSUME Distinct(q) PROVE Distinct(t)
  <2>1. \A j \in 1..Len(r) : r[j] # q[m]
    <3> SUFFICES ASSUME NEW j \in 1..Len(r) PROVE r[j] # q[m]
        OBVIOUS
    <3>1. PICK i \in 1..(m - 1) : r[j] = q[i]
        BY DEF Scrubbed, NothingElse
    <3>2. q[i] # q[m]
        BY <1>7, <1>11 DEF Distinct
    <3> QED BY <3>1, <3>2
  <2>2. \A i, j \in 1..Len(r) : r[i] = r[j] => i = j
      BY <1>11 DEF Scrubbed, Distinct
  <2> SUFFICES ASSUME NEW i \in 1..Len(t), NEW j \in 1..Len(t), t[i] = t[j]
               PROVE  i = j
      BY DEF Distinct
  <2>3. CASE i \in 1..Len(r) /\ j \in 1..Len(r)
      BY <2>2, <2>3, <1>2
  <2>4. CASE i \in 1..Len(r) /\ j = Len(r) + 1
      BY <2>1, <2>4, <1>2
  <2>5. CASE i = Len(r) + 1 /\ j \in 1..Len(r)
      BY <2>1, <2>5, <1>2
  <2> QED BY <2>3, <2>4, <2>5, <1>3
<1> QED BY <1>2, <1>9, <1>10, <1>11 DEF Scrubbed, t

\* LREM leaves exactly the other ids, and no duplicate that was not there.
LEMMA LremScrubs ==
    ASSUME NEW S, NEW q \in Seq(S), NEW e
    PROVE  Scrubbed(S, q, e, Len(q), Lrem(q, e))
<1>1. PICK f : f = KeptTo(q, e, Len(q), f) /\ Lrem(q, e) = f[Len(q)]
    BY LremUnfold
<1>2. Len(q) \in Nat
    OBVIOUS
<1> DEFINE T == {m \in 0..Len(q) : ~Scrubbed(S, q, e, m, f[m])}
<1>3. SUFFICES ASSUME T # {} PROVE FALSE
  <2>1. Len(q) \in 0..Len(q)
      BY <1>2
  <2> QED BY <1>1, <2>1, <1>3
<1>4. PICK m \in T : \A k \in 0..(m - 1) : k \notin T
  <2>1. T \in SUBSET Nat
      BY <1>2
  <2> HIDE DEF T
  <2> QED BY <2>1, <1>3, LeastNumber, Zenon
<1>5. m \in 0..Len(q) /\ ~Scrubbed(S, q, e, m, f[m])
    BY <1>4
<1> HIDE DEF T
<1>6. /\ f[0] = << >>
      /\ \A i \in 1..Len(q) : f[i] = IF q[i] = e THEN f[i - 1]
                                     ELSE Append(f[i - 1], q[i])
  <2>1. \A i \in 0..Len(q) : f[i] = IF i = 0 THEN << >>
                                    ELSE IF q[i] = e THEN f[i - 1]
                                    ELSE Append(f[i - 1], q[i])
    <3> SUFFICES ASSUME NEW i \in 0..Len(q)
                 PROVE  f[i] = KeptTo(q, e, Len(q), f)[i]
        BY DEF KeptTo
    <3> QED BY <1>1
  <2>2. 0 \in 0..Len(q) /\ \A i \in 1..Len(q) : i \in 0..Len(q) /\ i # 0
      BY <1>2
  <2> QED BY <2>1, <2>2
<1>7. m # 0
  <2>1. << >> \in Seq(S) /\ Len(<< >>) = 0
      OBVIOUS
  <2>2. Scrubbed(S, q, e, 0, << >>)
      BY <2>1 DEF Scrubbed, NothingElse, AllOthers, Distinct
  <2> QED BY <2>2, <1>5, <1>6
<1>8. m \in 1..Len(q) /\ m - 1 \in 0..(m - 1) /\ m - 1 \in 0..Len(q)
    BY <1>2, <1>5, <1>7
<1>9. Scrubbed(S, q, e, m - 1, f[m - 1])
    BY <1>4, <1>8 DEF T
<1>10. CASE q[m] = e
    BY <1>5, <1>6, <1>8, <1>9, <1>10, ScrubSkip
<1>11. CASE q[m] # e
    BY <1>5, <1>6, <1>8, <1>9, <1>11, ScrubKeep
<1> QED BY <1>10, <1>11

-----------------------------------------------------------------------------
(***************************************************************************)
(* The three commands in terms of Members and Distinct.                     *)
(***************************************************************************)

\* LREM removes the id and nothing else.
LEMMA LremList ==
    ASSUME NEW S, NEW q \in Seq(S), NEW e
    PROVE  /\ Lrem(q, e) \in Seq(S)
           /\ Members(Lrem(q, e)) = Members(q) \ {e}
           /\ Distinct(q) => Distinct(Lrem(q, e))
<1>1. Scrubbed(S, q, e, Len(q), Lrem(q, e))
    BY LremScrubs
<1>2. Members(Lrem(q, e)) \subseteq Members(q) \ {e}
    BY <1>1 DEF Scrubbed, NothingElse, Members
<1>3. Members(q) \ {e} \subseteq Members(Lrem(q, e))
    BY <1>1 DEF Scrubbed, AllOthers, Members
<1> QED BY <1>1, <1>2, <1>3 DEF Scrubbed

\* LPUSH adds the id.
LEMMA LpushList ==
    ASSUME NEW S, NEW q \in Seq(S), NEW e \in S
    PROVE  /\ Lpush(q, e) \in Seq(S)
           /\ Members(Lpush(q, e)) = Members(q) \cup {e}
           /\ Distinct(q) /\ e \notin Members(q) => Distinct(Lpush(q, e))
<1> DEFINE t == Lpush(q, e)
<1>1. /\ t \in Seq(S)
      /\ Len(t) = Len(q) + 1
      /\ t[1] = e
      /\ \A i \in 1..Len(q) : t[i + 1] = q[i]
    BY DEF Lpush
<1>2. \A i \in 1..Len(t) : i = 1 \/ (i - 1 \in 1..Len(q) /\ t[i] = q[i - 1])
  <2> SUFFICES ASSUME NEW i \in 1..Len(t), i # 1
               PROVE  i - 1 \in 1..Len(q) /\ t[i] = q[i - 1]
      OBVIOUS
  <2>1. i - 1 \in 1..Len(q) /\ (i - 1) + 1 = i
      BY <1>1
  <2> QED BY <2>1, <1>1
<1>3. 1 \in 1..Len(t) /\ \A i \in 1..Len(q) : i + 1 \in 1..Len(t)
    BY <1>1
<1> HIDE DEF t
<1>4. Members(t) = Members(q) \cup {e}
  <2>1. Members(t) \subseteq Members(q) \cup {e}
      BY <1>1, <1>2 DEF Members
  <2>2. Members(q) \subseteq Members(t)
      BY <1>1, <1>3 DEF Members
  <2>3. e \in Members(t)
      BY <1>1, <1>3 DEF Members
  <2> QED BY <2>1, <2>2, <2>3
<1>5. ASSUME Distinct(q), e \notin Members(q) PROVE Distinct(t)
  <2>1. \A i \in 1..Len(q) : q[i] # e
      BY <1>5 DEF Members
  <2> SUFFICES ASSUME NEW i \in 1..Len(t), NEW j \in 1..Len(t), t[i] = t[j]
               PROVE  i = j
      BY DEF Distinct
  <2>2. CASE i = 1 \/ j = 1
      BY <2>1, <2>2, <1>1, <1>2
  <2>3. CASE i # 1 /\ j # 1
    <3>1. i - 1 \in 1..Len(q) /\ j - 1 \in 1..Len(q) /\ q[i - 1] = q[j - 1]
        BY <2>3, <1>2
    <3>2. i - 1 = j - 1
        BY <3>1, <1>5 DEF Distinct
    <3> QED BY <3>2
  <2> QED BY <2>2, <2>3
<1> QED BY <1>1, <1>4, <1>5 DEF t

\* BRPOP of a non-empty list takes one id from it.
LEMMA BrpopList ==
    ASSUME NEW S, NEW q \in Seq(S), q # << >>
    PROVE  /\ BrpopId(q) \in S /\ BrpopId(q) \in Members(q)
           /\ BrpopRest(q) \in Seq(S)
           /\ Members(q) = Members(BrpopRest(q)) \cup {BrpopId(q)}
           /\ Distinct(q) => /\ Distinct(BrpopRest(q))
                             /\ BrpopId(q) \notin Members(BrpopRest(q))
<1> DEFINE t == BrpopRest(q)
<1>1. Len(q) \in Nat /\ Len(q) # 0 /\ Len(q) \in 1..Len(q)
    OBVIOUS
<1>2. /\ t \in Seq(S)
      /\ Len(t) = Len(q) - 1
      /\ \A i \in 1..Len(t) : t[i] = q[i]
  <2>1. t = [i \in 1..(Len(q) - 1) |-> q[i]]
      BY <1>1 DEF BrpopRest
  <2>2. Len(q) - 1 \in Nat /\ \A i \in 1..(Len(q) - 1) : q[i] \in S
      BY <1>1
  <2> QED BY <2>1, <2>2
<1>3. \A i \in 1..Len(q) : i \in 1..Len(t) \/ i = Len(q)
    BY <1>1, <1>2
<1>4. \A i \in 1..Len(t) : i \in 1..Len(q) /\ i # Len(q)
    BY <1>1, <1>2
<1> HIDE DEF t
<1>5. BrpopId(q) \in S /\ BrpopId(q) \in Members(q)
    BY <1>1 DEF BrpopId, Members
<1>6. Members(q) = Members(t) \cup {BrpopId(q)}
  <2>1. Members(q) \subseteq Members(t) \cup {BrpopId(q)}
      BY <1>2, <1>3 DEF Members, BrpopId
  <2>2. Members(t) \subseteq Members(q)
      BY <1>2, <1>4 DEF Members
  <2> QED BY <2>1, <2>2, <1>5
<1>7. ASSUME Distinct(q) PROVE Distinct(t) /\ BrpopId(q) \notin Members(t)
  <2>1. Distinct(t)
      BY <1>2, <1>4, <1>7 DEF Distinct
  <2>2. \A i \in 1..Len(t) : t[i] # q[Len(q)]
      BY <1>1, <1>2, <1>4, <1>7 DEF Distinct
  <2> QED BY <2>1, <2>2 DEF Members, BrpopId
<1> QED BY <1>2, <1>5, <1>6, <1>7 DEF t

-----------------------------------------------------------------------------
(***************************************************************************)
(* Type correctness.  First what the building blocks of the actions do.      *)
(***************************************************************************)

\* What HandsOK says of one task.
LEMMA HandIs ==
    ASSUME HandsOK, NEW h \in Hands
    PROVE  /\ hand[h] \in HandStates
           /\ hand[h].pc \in HandPcs /\ hand[h].tries \in Nat
           /\ hand[h].verdict \in Verdicts
           /\ hand[h].pc # "idle" => hand[h].job \in Events
BY DEF HandStates, HandsOK

\* Replacing the state of one task by one that is well-formed.
LEMMA SetHandType ==
    ASSUME HandsOK, NEW h \in Hands, NEW r,
           r \in HandStates,
           r.pc # "idle" => r.job \in Events,
           hand' = [hand EXCEPT ![h] = r]
    PROVE  HandsOK'
<1>1. hand' \in [Hands -> HandStates]
    BY DEF HandsOK
<1>2. \A g \in Hands : hand'[g].pc # "idle" => hand'[g].job \in Events
    BY DEF HandsOK
<1> QED BY <1>1, <1>2 DEF HandsOK

\* A task that moves on, or lets go of its id, stays well-formed.
LEMMA GotoType ==
    ASSUME HandsOK, NEW h \in Hands, NEW pc \in HandPcs,
           hand[h].pc # "idle", Goto(h, pc)
    PROVE  HandsOK'
<1> DEFINE r == [hand[h] EXCEPT !.pc = pc]
<1>1. r \in HandStates
    BY HandIs DEF HandStates
<1>2. r.job \in Events
    BY HandIs
<1>3. hand' = [hand EXCEPT ![h] = r]
    BY DEF Goto
<1> QED BY <1>1, <1>2, <1>3, SetHandType

LEMMA ReleaseType ==
    ASSUME HandsOK, NEW h \in Hands, Release(h)
    PROVE  HandsOK'
<1>1. /\ IdleHand \in HandStates
      /\ IdleHand.pc = "idle"
    BY DEF HandStates, IdleHand, HandPcs, Verdicts
<1> QED BY <1>1, SetHandType DEF Release

\* Redis and Postgres writes of well-formed values, lost or not.
LEMMA RedisWriteType ==
    ASSUME RedisOK, NEW list \in Seq(Events), NEW set \in SUBSET Events,
           RedisWrite(list, set)
    PROVE  queue' \in Seq(Events) /\ retrySet' \subseteq Events
BY DEF RedisWrite, RedisOK, redisVars

LEMMA UpdateRowType ==
    ASSUME RowsOK, NEW e \in Events, NEW guarded \in BOOLEAN, NEW s \in Statuses,
           NEW n \in Nat, UpdateRow(e, guarded, s, n)
    PROVE  status' \in [Events -> Statuses] /\ retries' \in [Events -> Nat]
BY DEF UpdateRow, RowsOK

LEMMA DropRowType ==
    ASSUME RowsOK, NEW e \in Events, DropRow(e)
    PROVE  RowsOK'
BY DEF DropRow, RowsOK, Statuses

\* The same for the admin requests.
LEMMA AdminAtType ==
    ASSUME AdminsOK, NEW a \in Admins, NEW pc \in AdminPcs, NEW e \in Events,
           AdminAt(a, pc, e), calls' \in Nat
    PROVE  AdminsOK'
BY DEF AdminsOK, AdminAt

LEMMA AdminDoneType ==
    ASSUME AdminsOK, NEW a \in Admins, AdminDone(a), calls' \in Nat
    PROVE  AdminsOK'
BY DEF AdminsOK, AdminDone, IdleAdmin, AdminPcs

\* Every action keeps every variable in its type.
LEMMA TypeStep ==
    ASSUME TypeOK, [Next]_vars
    PROVE  TypeOK'
<1> USE DEF TypeOK, rowVars, redisVars, history
<1>1. ASSUME NEW e \in Events, Accept(e) PROVE TypeOK'
  <2>1. RowsOK'
      BY <1>1 DEF Accept, RowsOK, Statuses
  <2>2. ingest' \in [Events -> {"new", "pushing", "done"}]
      BY <1>1 DEF Accept
  <2> QED BY <1>1, <2>1, <2>2 DEF Accept, RedisOK, HandsOK, AdminsOK, HistoryOK
<1>2. ASSUME NEW e \in Events, Enqueue(e) PROVE TypeOK'
  <2>1. queue' \in Seq(Events) /\ retrySet' \subseteq Events
      BY <1>2, LpushList, RedisWriteType DEF Enqueue, RedisOK
  <2>2. ingest' \in [Events -> {"new", "pushing", "done"}]
      BY <1>2 DEF Enqueue
  <2> QED BY <1>2, <2>1, <2>2 DEF Enqueue, RowsOK, RedisOK, HandsOK, AdminsOK,
             HistoryOK
<1>3. ASSUME NEW e \in Events, BecomeDue(e) PROVE TypeOK'
  <2>1. RedisOK'
      BY <1>3 DEF BecomeDue, RedisOK, redisVars
  <2> QED BY <1>3, <2>1 DEF BecomeDue, RowsOK, HandsOK, AdminsOK, HistoryOK
<1>4. ASSUME NEW e \in Events, Expire(e) PROVE TypeOK'
  <2>1. RowsOK'
      BY <1>4, DropRowType DEF Expire
  <2> QED BY <1>4, <2>1 DEF Expire, RedisOK, HandsOK, AdminsOK, HistoryOK
<1>5. ASSUME NEW w \in Workers, Brpop(w) PROVE TypeOK'
  <2>1. /\ BrpopId(queue) \in Events
           /\ BrpopRest(queue) \in Seq(Events)
      BY <1>5, BrpopList DEF Brpop, RedisOK
  <2>2. [IdleHand EXCEPT !.pc = "fetch", !.job = BrpopId(queue)]
           \in HandStates
      BY <1>5, <2>1 DEF HandStates, IdleHand, HandPcs, Verdicts
  <2>3. [IdleHand EXCEPT !.pc = "fetch", !.job = BrpopId(queue)].job \in Events
      BY <1>5, <2>1 DEF IdleHand
  <2>4. HandsOK'
      BY <1>5, <2>2, <2>3, SetHandType DEF Brpop, Hands, HandsOK
  <2>5. RedisOK'
      BY <1>5, <2>1 DEF Brpop, RedisOK
  <2> QED BY <1>5, <2>1, <2>2, <2>3, <2>4, <2>5 DEF Brpop, RowsOK, AdminsOK,
             HistoryOK
<1>6. ASSUME Zpopmin PROVE TypeOK'
  <2>1. Retrier \in Hands
      BY <1>6 DEF Hands
  <2>2. ASSUME NEW e \in Events, NEW pc \in HandPcs,
                  hand' = [hand EXCEPT ![Retrier] = [IdleHand EXCEPT !.pc = pc, !.job = e]]
           PROVE  HandsOK'
    <3>1. [IdleHand EXCEPT !.pc = pc, !.job = e]
             \in HandStates
        BY DEF HandStates, IdleHand, Verdicts
    <3>2. [IdleHand EXCEPT !.pc = pc, !.job = e].job \in Events
        BY DEF IdleHand
    <3> QED BY <2>1, <2>2, <3>1, <3>2, SetHandType
  <2>3. HandsOK'
      BY <1>6, <2>2 DEF Zpopmin, HandPcs, HandsOK, RedisOK
  <2>4. RedisOK'
      BY <1>6 DEF Zpopmin, RedisOK
  <2> QED BY <1>6, <2>1, <2>2, <2>3, <2>4 DEF Zpopmin, RowsOK, AdminsOK,
             HistoryOK
<1>7. ASSUME PutBack PROVE TypeOK'
  <2>1. hand[Retrier].job \in Events
      BY <1>7, HandIs DEF PutBack, Hands
  <2>2. queue' \in Seq(Events) /\ retrySet' \subseteq Events
      BY <1>7, <2>1, RedisWriteType DEF PutBack, RedisOK
  <2>3. HandsOK'
      BY <1>7, ReleaseType DEF PutBack, Hands
  <2> QED BY <1>7, <2>1, <2>2, <2>3 DEF PutBack, RowsOK, RedisOK, AdminsOK,
             HistoryOK
<1>8. ASSUME NEW h \in Hands, FetchNothing(h) PROVE TypeOK'
  <2>1. HandsOK'
      BY <1>8, ReleaseType DEF FetchNothing
  <2> QED BY <1>8, <2>1 DEF FetchNothing, RowsOK, RedisOK, AdminsOK, HistoryOK
<1>9. ASSUME NEW h \in Hands, FetchRow(h) PROVE TypeOK'
  <2>1. retries[hand[h].job] \in Nat /\ hand[h].job \in Events
      BY <1>9, HandIs DEF FetchRow, RowsOK
  <2>2. ASSUME NEW pc \in HandPcs, NEW v \in Verdicts,
                  hand' = [hand EXCEPT ![h].pc = pc, ![h].verdict = v,
                                       ![h].tries = retries[hand[h].job]]
           PROVE  HandsOK'
    <3> DEFINE r == [hand[h] EXCEPT !.pc = pc, !.verdict = v,
                                    !.tries = retries[hand[h].job]]
    <3>1. r \in HandStates
             /\ r.job = hand[h].job
        BY <2>1, HandIs DEF HandStates
    <3>2. hand' = [hand EXCEPT ![h] = r]
        BY <2>2
    <3> HIDE DEF r
    <3> QED BY <2>1, <3>1, <3>2, SetHandType
  <2>3. HandsOK'
      BY <1>9, <2>2 DEF FetchRow, HandPcs, Verdicts, Refusals
  <2> QED BY <1>9, <2>1, <2>2, <2>3 DEF FetchRow, RowsOK, RedisOK, AdminsOK,
             HistoryOK
<1>10. ASSUME NEW h \in Hands, Post(h) PROVE TypeOK'
  <2>1. hand[h].job \in Events
      BY <1>10, HandIs DEF Post
  <2>2. ASSUME NEW pc \in HandPcs, NEW v \in Verdicts,
                  hand' = [hand EXCEPT ![h].verdict = v, ![h].pc = pc]
           PROVE  HandsOK'
    <3> DEFINE r == [hand[h] EXCEPT !.verdict = v, !.pc = pc]
    <3>1. r \in HandStates
             /\ r.job = hand[h].job
        BY <2>1, HandIs DEF HandStates
    <3>2. hand' = [hand EXCEPT ![h] = r]
        BY <2>2
    <3> HIDE DEF r
    <3> QED BY <2>1, <3>1, <3>2, SetHandType
  <2>3. HandsOK'
      BY <1>10, <2>2 DEF Post, HandPcs, Verdicts
  <2>4. HistoryOK'
      BY <1>10, <2>1 DEF Post, HistoryOK
  <2> QED BY <1>10, <2>1, <2>2, <2>3, <2>4 DEF Post, RowsOK, RedisOK, AdminsOK
<1>11. ASSUME NEW h \in Hands, CheckDelivered(h) PROVE TypeOK'
  <2>1. HandsOK'
      BY <1>11, GotoType, ReleaseType DEF CheckDelivered, HandPcs
  <2> QED BY <1>11, <2>1 DEF CheckDelivered, RowsOK, RedisOK, AdminsOK,
             HistoryOK
<1>12. ASSUME NEW h \in Hands, Record(h) PROVE TypeOK'
  <2>1. HandsOK'
      BY <1>12, GotoType DEF Record, HandPcs
  <2>2. RowsOK'
      BY <1>12, HandIs DEF Record, RowsOK
  <2> QED BY <1>12, <2>1, <2>2 DEF Record, RedisOK, AdminsOK, HistoryOK
<1>13. ASSUME NEW h \in Hands, MarkDelivered(h) PROVE TypeOK'
  <2>1. /\ hand[h].job \in Events /\ hand[h].tries \in Nat
           /\ hand[h].tries + 1 \in Nat /\ retries[hand[h].job] \in Nat
      BY <1>13, HandIs DEF MarkDelivered, RowsOK
  <2>2. status' \in [Events -> Statuses] /\ retries' \in [Events -> Nat]
      BY <1>13, <2>1, UpdateRowType DEF MarkDelivered, Statuses
  <2>3. HandsOK'
      BY <1>13, GotoType DEF MarkDelivered, HandPcs
  <2> QED BY <1>13, <2>1, <2>2, <2>3 DEF MarkDelivered, RowsOK, RedisOK,
             AdminsOK, HistoryOK
<1>14. ASSUME NEW h \in Hands, MarkRetrying(h) PROVE TypeOK'
  <2>1. /\ hand[h].job \in Events /\ hand[h].tries \in Nat
           /\ hand[h].tries + 1 \in Nat /\ retries[hand[h].job] \in Nat
      BY <1>14, HandIs DEF MarkRetrying, RowsOK
  <2>2. status' \in [Events -> Statuses] /\ retries' \in [Events -> Nat]
      BY <1>14, <2>1, UpdateRowType DEF MarkRetrying, Statuses
  <2>3. HandsOK'
      BY <1>14, GotoType DEF MarkRetrying, HandPcs
  <2> QED BY <1>14, <2>1, <2>2, <2>3 DEF MarkRetrying, RowsOK, RedisOK,
             AdminsOK, HistoryOK
<1>15. ASSUME NEW h \in Hands, MarkFailed(h) PROVE TypeOK'
  <2>1. /\ hand[h].job \in Events /\ hand[h].tries \in Nat
           /\ hand[h].tries + 1 \in Nat /\ retries[hand[h].job] \in Nat
      BY <1>15, HandIs DEF MarkFailed, RowsOK
  <2>2. status' \in [Events -> Statuses] /\ retries' \in [Events -> Nat]
      BY <1>15, <2>1, UpdateRowType DEF MarkFailed, Statuses
  <2>3. HandsOK'
      BY <1>15, GotoType DEF MarkFailed, HandPcs
  <2> QED BY <1>15, <2>1, <2>2, <2>3 DEF MarkFailed, RowsOK, RedisOK,
             AdminsOK, HistoryOK
<1>16. ASSUME NEW h \in Hands, MarkRefused(h) PROVE TypeOK'
  <2>1. /\ hand[h].job \in Events /\ hand[h].tries \in Nat
           /\ hand[h].tries + 1 \in Nat /\ retries[hand[h].job] \in Nat
      BY <1>16, HandIs DEF MarkRefused, RowsOK
  <2>2. status' \in [Events -> Statuses] /\ retries' \in [Events -> Nat]
      BY <1>16, <2>1, UpdateRowType DEF MarkRefused, Statuses
  <2>3. HandsOK'
      BY <1>16, GotoType DEF MarkRefused, HandPcs
  <2> QED BY <1>16, <2>1, <2>2, <2>3 DEF MarkRefused, RowsOK, RedisOK,
             AdminsOK, HistoryOK
<1>17. ASSUME NEW h \in Hands, Schedule(h) PROVE TypeOK'
  <2>1. hand[h].job \in Events
      BY <1>17, HandIs DEF Schedule
  <2>2. queue' \in Seq(Events) /\ retrySet' \subseteq Events
      BY <1>17, <2>1, RedisWriteType DEF Schedule, RedisOK
  <2>3. HandsOK'
      BY <1>17, ReleaseType DEF Schedule
  <2> QED BY <1>17, <2>1, <2>2, <2>3 DEF Schedule, RowsOK, RedisOK, AdminsOK,
             HistoryOK
<1>18. ASSUME NEW h \in Hands, Notify(h) PROVE TypeOK'
  <2>1. hand[h].job \in Events
      BY <1>18, HandIs DEF Notify
  <2>2. HistoryOK'
      BY <1>18, <2>1 DEF Notify, HistoryOK
  <2>3. HandsOK'
      BY <1>18, ReleaseType DEF Notify
  <2> QED BY <1>18, <2>1, <2>2, <2>3 DEF Notify, RowsOK, RedisOK, AdminsOK
<1>19. ASSUME NEW a \in Admins, RetryReset(a) PROVE TypeOK'
  <2>1. admin[a].job \in Events
      BY <1>19 DEF RetryReset, AdminsOK
  <2>2. RowsOK'
      BY <1>19, <2>1 DEF RetryReset, RowsOK, Statuses
  <2>3. AdminsOK'
      BY <1>19, <2>1, AdminAtType, AdminDoneType DEF RetryReset, AdminPcs,
         AdminsOK
  <2> QED BY <1>19, <2>1, <2>2, <2>3 DEF RetryReset, RedisOK, HandsOK, HistoryOK
<1>20. ASSUME NEW a \in Admins, RetryUnschedule(a) PROVE TypeOK'
  <2>1. admin[a].job \in Events
      BY <1>20 DEF RetryUnschedule, AdminsOK
  <2>2. queue' \in Seq(Events) /\ retrySet' \subseteq Events
      BY <1>20, <2>1, RedisWriteType DEF RetryUnschedule, RedisOK
  <2>3. AdminsOK'
      BY <1>20, <2>1, AdminAtType DEF RetryUnschedule, AdminPcs, AdminsOK
  <2> QED BY <1>20, <2>1, <2>2, <2>3 DEF RetryUnschedule, RowsOK, RedisOK,
             HandsOK, HistoryOK
<1>21. ASSUME NEW a \in Admins, RetryPush(a) PROVE TypeOK'
  <2>1. admin[a].job \in Events
      BY <1>21 DEF RetryPush, AdminsOK
  <2>2. queue' \in Seq(Events) /\ retrySet' \subseteq Events
      BY <1>21, <2>1, LpushList, RedisWriteType DEF RetryPush, RedisOK
  <2>3. AdminsOK'
      BY <1>21, <2>1, AdminDoneType DEF RetryPush, AdminsOK
  <2> QED BY <1>21, <2>1, <2>2, <2>3 DEF RetryPush, RowsOK, RedisOK, HandsOK,
             HistoryOK
<1>22. ASSUME NEW a \in Admins, ScrubQueue(a) PROVE TypeOK'
  <2>1. admin[a].job \in Events
      BY <1>22 DEF ScrubQueue, AdminsOK
  <2>2. queue' \in Seq(Events) /\ retrySet' \subseteq Events
      BY <1>22, <2>1, LremList, RedisWriteType DEF ScrubQueue, RedisOK
  <2>3. AdminsOK'
      BY <1>22, <2>1, AdminAtType DEF ScrubQueue, AdminPcs, AdminsOK
  <2> QED BY <1>22, <2>1, <2>2, <2>3 DEF ScrubQueue, RowsOK, RedisOK, HandsOK,
             HistoryOK
<1>23. ASSUME NEW a \in Admins, ScrubRetry(a) PROVE TypeOK'
  <2>1. admin[a].job \in Events
      BY <1>23 DEF ScrubRetry, AdminsOK
  <2>2. queue' \in Seq(Events) /\ retrySet' \subseteq Events
      BY <1>23, <2>1, RedisWriteType DEF ScrubRetry, RedisOK
  <2>3. AdminsOK'
      BY <1>23, <2>1, AdminDoneType DEF ScrubRetry, AdminsOK
  <2> QED BY <1>23, <2>1, <2>2, <2>3 DEF ScrubRetry, RowsOK, RedisOK, HandsOK,
             HistoryOK
<1>24. ASSUME NEW a \in Admins, NEW e \in Events, RetryFind(a, e) PROVE TypeOK'
  <2>1. calls' \in Nat
      BY <1>24 DEF RetryFind, Call, AdminsOK
  <2>2. RowsOK'
      BY <1>24 DEF RetryFind, RowsOK, rowVars
  <2>3. AdminsOK'
      BY <1>24, <2>1, AdminAtType DEF RetryFind, AdminPcs
  <2> QED BY <1>24, <2>1, <2>2, <2>3 DEF RetryFind, RedisOK, HandsOK, HistoryOK
<1>25. ASSUME NEW a \in Admins, NEW e \in Events, BulkReset(a, e) PROVE TypeOK'
  <2>1. calls' \in Nat
      BY <1>25 DEF BulkReset, Call, AdminsOK
  <2>2. RowsOK'
      BY <1>25 DEF BulkReset, RowsOK, Statuses
  <2>3. AdminsOK'
      BY <1>25, <2>1, AdminAtType DEF BulkReset, AdminPcs
  <2> QED BY <1>25, <2>1, <2>2, <2>3 DEF BulkReset, RedisOK, HandsOK, HistoryOK
<1>26. ASSUME NEW a \in Admins, NEW e \in Events, Ack(a, e) PROVE TypeOK'
  <2>1. calls' \in Nat
      BY <1>26 DEF Ack, Call, AdminsOK
  <2>2. RowsOK'
    <3>1. retries[e] \in Nat
        BY DEF RowsOK
    <3>2. status' \in [Events -> Statuses] /\ retries' \in [Events -> Nat]
        BY <1>26, <3>1, UpdateRowType DEF Ack, Statuses
    <3> QED BY <1>26, <3>2 DEF Ack, RowsOK
  <2>3. AdminsOK'
      BY <1>26, <2>1, AdminAtType DEF Ack, AdminPcs
  <2> QED BY <1>26, <2>1, <2>2, <2>3 DEF Ack, RedisOK, HandsOK, HistoryOK
<1>27. ASSUME NEW a \in Admins, NEW e \in Events, Delete(a, e) PROVE TypeOK'
  <2>1. calls' \in Nat
      BY <1>27 DEF Delete, Call, AdminsOK
  <2>2. RowsOK'
      BY <1>27, DropRowType DEF Delete
  <2>3. AdminsOK'
      BY <1>27, <2>1, AdminAtType DEF Delete, AdminPcs
  <2> QED BY <1>27, <2>1, <2>2, <2>3 DEF Delete, RedisOK, HandsOK, HistoryOK
<1>28. ASSUME Crash PROVE TypeOK'
  <2>1. HandsOK'
      BY <1>28 DEF HandStates, Crash, HandsOK, IdleHand, HandPcs, Verdicts
  <2>2. AdminsOK'
      BY <1>28 DEF Crash, AdminsOK, IdleAdmin, AdminPcs
  <2>3. ingest' \in [Events -> {"new", "pushing", "done"}]
      BY <1>28 DEF Crash
  <2> QED BY <1>28, <2>1, <2>2, <2>3 DEF Crash, RowsOK, RedisOK, HistoryOK
<1>29. ASSUME NEW e \in Events, AbandonIngest(e) PROVE TypeOK'
  <2>1. ingest' \in [Events -> {"new", "pushing", "done"}]
      BY <1>29 DEF AbandonIngest
  <2> QED BY <1>29, <2>1 DEF AbandonIngest, RowsOK, RedisOK, HandsOK, AdminsOK, HistoryOK
<1>30. ASSUME NEW a \in Admins, AbandonAdmin(a) PROVE TypeOK'
  <2>1. AdminsOK'
      BY <1>30, AdminDoneType DEF AbandonAdmin, AdminsOK
  <2>2. HistoryOK'
      BY <1>30 DEF AbandonAdmin, AdminsOK, HistoryOK
  <2> QED BY <1>30, <2>1, <2>2 DEF AbandonAdmin, RowsOK, RedisOK, HandsOK
<1>31. CASE UNCHANGED vars
    BY <1>31 DEF vars, RowsOK, RedisOK, HandsOK, AdminsOK, HistoryOK
<1> QED BY <1>1, <1>2, <1>3, <1>4, <1>5, <1>6, <1>7, <1>8, <1>9, <1>10, <1>11,
           <1>12, <1>13, <1>14, <1>15, <1>16, <1>17, <1>18, <1>19, <1>20,
           <1>21, <1>22, <1>23, <1>24, <1>25, <1>26, <1>27, <1>28, <1>29,
           <1>30, <1>31 DEF Next, Deliver, Administer

\* The model is type-correct; in particular BRPOP and ZPOPMIN only ever hand
\* out ids of events, and a task that is at work holds one.
THEOREM TypeCorrect == Spec => []TypeOK
<1>1. Init => TypeOK
    BY DEF HandStates, Init, TypeOK, RowsOK, RedisOK, HandsOK, AdminsOK, HistoryOK,
       IdleHand, IdleAdmin, Statuses, HandPcs, AdminPcs, Verdicts
<1>2. TypeOK /\ [Next]_vars => TypeOK'
    BY TypeStep
<1> QED BY <1>1, <1>2, PTL DEF Spec

-----------------------------------------------------------------------------
(***************************************************************************)
(* OneOwner.  An id moves between ingest, terusin:queue, terusin:retry and   *)
(* the tasks; every step either makes no place hold more than before, or     *)
(* takes an id from Redis, or gives it back.                                *)
(***************************************************************************)

\* No request is replaying an event; what makes OneOwner inductive.
NoReplay == \A a \in Admins : admin[a].pc \notin {"reset", "unschedule", "push"}

\* A step after which no place holds an id it did not hold before.
LEMMA NothingGained ==
    ASSUME TypeOK, OneOwner,
           Distinct(queue'), Members(queue') \subseteq Members(queue),
           retrySet' \subseteq retrySet,
           \A h \in Hands : hand'[h].job \in {hand[h].job, None},
           \A e \in Events : ingest'[e] # "done" => ingest[e] # "done"
    PROVE  OneOwner'
<1>1. None \notin Members(queue) \cup retrySet
    BY DeliveryAssumption DEF TypeOK, RedisOK, Members
<1>2. Members(queue') \cap retrySet' = {}
    BY DEF OneOwner
<1>3. \A h \in Hands : hand'[h].job \notin Members(queue') \cup retrySet'
    BY <1>1 DEF OneOwner
<1>4. \A g, h \in Hands : hand'[g].job = hand'[h].job /\ hand'[g].job # None => g = h
    BY DEF OneOwner
<1>5. \A e \in Events : ingest'[e] # "done" =>
          /\ e \notin Members(queue') \cup retrySet'
          /\ \A h \in Hands : hand'[h].job # e
    BY DeliveryAssumption DEF OneOwner
<1> QED BY <1>2, <1>3, <1>4, <1>5 DEF OneOwner

\* A step that takes an id out of Redis into the hands of one task.
LEMMA Taken ==
    ASSUME TypeOK, OneOwner, NEW h \in Hands, NEW e \in Events,
           e \in Members(queue) \cup retrySet,
           Distinct(queue'), Members(queue') \subseteq Members(queue),
           retrySet' \subseteq retrySet,
           e \notin Members(queue') \cup retrySet',
           \A g \in Hands : hand'[g].job = IF g = h THEN e ELSE hand[g].job,
           ingest' = ingest
    PROVE  OneOwner'
<1>2. Members(queue') \cap retrySet' = {}
    BY DEF OneOwner
<1>3. \A g \in Hands : hand'[g].job \notin Members(queue') \cup retrySet'
    BY DEF OneOwner
<1>4. \A g \in Hands : hand[g].job # e
    BY DEF OneOwner
<1>5. \A g, k \in Hands : hand'[g].job = hand'[k].job /\ hand'[g].job # None => g = k
    BY <1>4 DEF OneOwner
<1>6. \A f \in Events : ingest'[f] # "done" =>
          /\ f \notin Members(queue') \cup retrySet'
          /\ \A g \in Hands : hand'[g].job # f
    BY DEF OneOwner
<1> QED BY <1>2, <1>3, <1>5, <1>6 DEF OneOwner

\* A step in which a task hands its id over to terusin:retry.
LEMMA Rescheduled ==
    ASSUME TypeOK, OneOwner, NEW h \in Hands, hand[h].job \in Events,
           queue' = queue, retrySet' = retrySet \cup {hand[h].job},
           Release(h), ingest' = ingest
    PROVE  OneOwner'
<1>1. \A g \in Hands : hand'[g].job = IF g = h THEN None ELSE hand[g].job
    BY DEF Release, IdleHand, TypeOK, HandsOK
<1>2. hand[h].job # None /\ None \notin Members(queue) \cup retrySet
    BY DeliveryAssumption DEF TypeOK, RedisOK, Members
<1>3. Members(queue') \cap retrySet' = {}
    BY DEF OneOwner
<1>4. \A g \in Hands : hand'[g].job \notin Members(queue') \cup retrySet'
    BY <1>1, <1>2 DEF OneOwner
<1>5. \A g, k \in Hands : hand'[g].job = hand'[k].job /\ hand'[g].job # None => g = k
    BY <1>1 DEF OneOwner
<1>6. \A f \in Events : ingest'[f] # "done" =>
          /\ f \notin Members(queue') \cup retrySet'
          /\ \A g \in Hands : hand'[g].job # f
    BY <1>1, <1>2, DeliveryAssumption DEF OneOwner
<1>7. Distinct(queue')
    BY DEF OneOwner
<1> QED BY <1>3, <1>4, <1>5, <1>6, <1>7 DEF OneOwner

\* A step after which the Redis keys hold no id they did not hold before, and
\* every task has kept or dropped its id.
LEMMA JobsKept ==
    ASSUME TypeOK, OneOwner, UNCHANGED redisVars, ingest' = ingest,
           \A h \in Hands : hand'[h].job \in {hand[h].job, None}
    PROVE  OneOwner'
BY NothingGained DEF OneOwner, redisVars

\* Moving on and letting go are of that kind.
LEMMA GotoKeepsJobs ==
    ASSUME TypeOK, NEW h \in Hands, NEW pc, Goto(h, pc)
    PROVE  \A g \in Hands : hand'[g].job \in {hand[g].job, None}
BY DEF Goto, TypeOK, HandsOK

LEMMA ReleaseKeepsJobs ==
    ASSUME TypeOK, NEW h \in Hands, Release(h)
    PROVE  \A g \in Hands : hand'[g].job \in {hand[g].job, None}
BY DEF Release, IdleHand, TypeOK, HandsOK

\* Without the retry operation no request ever replays an event.
LEMMA NoReplayStep ==
    ASSUME "retry" \notin Operations, TypeOK, NoReplay, [Next]_vars
    PROVE  NoReplay'
<1>1. ASSUME NEW a \in Admins, NEW pc \in AdminPcs, NEW e \in Events,
             pc \notin {"reset", "unschedule", "push"}, AdminAt(a, pc, e)
      PROVE  NoReplay'
    BY <1>1 DEF AdminAt, NoReplay, TypeOK, AdminsOK
<1>2. ASSUME NEW a \in Admins, AdminDone(a) PROVE NoReplay'
    BY <1>2 DEF AdminDone, IdleAdmin, NoReplay, TypeOK, AdminsOK
<1>3. CASE UNCHANGED admin
    BY <1>3 DEF NoReplay
<1>4. ASSUME NEW a \in Admins, Administer(a) PROVE NoReplay'
  <2>1. admin[a].pc # "idle" => admin[a].job \in Events
      BY DEF TypeOK, AdminsOK
  <2>2. ~ (RetryReset(a) \/ RetryUnschedule(a) \/ RetryPush(a))
      BY DEF NoReplay, RetryReset, RetryUnschedule, RetryPush
  <2>3. \A e \in Events : ~ (RetryFind(a, e) \/ BulkReset(a, e))
      BY DEF RetryFind, BulkReset, Call
  <2>4. CASE ScrubQueue(a)
      BY <1>1, <2>1, <2>4 DEF ScrubQueue, AdminPcs
  <2>5. CASE ScrubRetry(a)
      BY <1>2, <2>5 DEF ScrubRetry
  <2>6. ASSUME NEW e \in Events, Ack(a, e) \/ Delete(a, e) PROVE NoReplay'
      BY <1>1, <2>6 DEF Ack, Delete, AdminPcs
  <2> QED BY <1>4, <2>2, <2>3, <2>4, <2>5, <2>6 DEF Administer
<1>5. CASE Crash
    BY <1>5 DEF Crash, IdleAdmin, NoReplay
<1>6. ASSUME NEW h \in Hands, Deliver(h) PROVE UNCHANGED admin
    BY <1>6 DEF Deliver, FetchNothing, FetchRow, Post, CheckDelivered, Record,
       MarkDelivered,
       MarkRetrying, MarkFailed, MarkRefused, Schedule, Notify
<1>7. ASSUME \/ Zpopmin \/ PutBack \/ UNCHANGED vars
             \/ \E w \in Workers : Brpop(w)
             \/ \E e \in Events : \/ Accept(e) \/ Enqueue(e) \/ AbandonIngest(e)
                                \/ BecomeDue(e) \/ Expire(e)
      PROVE  UNCHANGED admin
    BY <1>7 DEF Zpopmin, PutBack, Brpop, Accept, Enqueue, AbandonIngest, BecomeDue,
       Expire, vars
<1>8. ASSUME NEW a \in Admins, AbandonAdmin(a) PROVE NoReplay'
    BY <1>2, <1>8 DEF AbandonAdmin
<1> QED BY <1>3, <1>4, <1>5, <1>6, <1>7, <1>8 DEF Next

\* Every step keeps the places of an id apart.
LEMMA OwnerStep ==
    ASSUME TypeOK, OneOwner, NoReplay, [Next]_vars
    PROVE  OneOwner'
<1>0. /\ queue \in Seq(Events) /\ retrySet \subseteq Events
      /\ None \notin Events
      /\ Retrier \in Hands /\ Workers \subseteq Hands
    BY DeliveryAssumption DEF TypeOK, RedisOK, Hands
<1>1. ASSUME NEW e \in Events, Accept(e) PROVE OneOwner'
  <2>1. \A f \in Events : ingest'[f] # "done" => ingest[f] # "done"
      BY <1>1 DEF Accept, TypeOK
  <2> QED BY <1>1, <2>1, NothingGained DEF Accept, OneOwner, redisVars
<1>2. ASSUME NEW e \in Events, Enqueue(e) PROVE OneOwner'
  <2>1. /\ e \notin Members(queue) \cup retrySet
        /\ \A h \in Hands : hand[h].job # e
      BY <1>2 DEF Enqueue, OneOwner
  <2>2. /\ ingest'[e] = "done"
        /\ \A f \in Events : f # e => ingest'[f] = ingest[f]
      BY <1>2 DEF Enqueue, TypeOK
  <2>3. CASE UNCHANGED redisVars
      BY <1>2, <2>2, <2>3, NothingGained DEF Enqueue, OneOwner, redisVars
  <2>4. CASE queue' = Lpush(queue, e) /\ retrySet' = retrySet
    <3>1. Distinct(queue') /\ Members(queue') = Members(queue) \cup {e}
        BY <1>0, <2>1, <2>4, LpushList DEF OneOwner
    <3>2. hand' = hand
        BY <1>2 DEF Enqueue
    <3> QED BY <2>1, <2>2, <2>4, <3>1, <3>2 DEF OneOwner
  <2> QED BY <1>2, <2>3, <2>4 DEF Enqueue, RedisWrite
<1>3. ASSUME NEW w \in Workers, Brpop(w) PROVE OneOwner'
  <2>1. /\ BrpopId(queue) \in Events /\ BrpopId(queue) \in Members(queue)
        /\ Members(queue') \subseteq Members(queue)
        /\ Distinct(queue') /\ BrpopId(queue) \notin Members(queue')
      BY <1>0, <1>3, BrpopList DEF Brpop, OneOwner
  <2>2. retrySet' = retrySet /\ ingest' = ingest
      BY <1>3 DEF Brpop
  <2>3. CASE UNCHANGED hand
      BY <2>1, <2>2, <2>3, NothingGained
  <2>4. CASE hand' = [hand EXCEPT ![w] = [IdleHand EXCEPT !.pc = "fetch",
                                                          !.job = BrpopId(queue)]]
    <3>1. \A g \in Hands : hand'[g].job = IF g = w THEN BrpopId(queue) ELSE hand[g].job
        BY <1>0, <2>4 DEF IdleHand, TypeOK, HandsOK
    <3>2. BrpopId(queue) \notin retrySet'
        BY <2>1, <2>2 DEF OneOwner
    <3> QED BY <1>0, <2>1, <2>2, <3>1, <3>2, Taken
  <2> QED BY <1>3, <2>3, <2>4 DEF Brpop
<1>4. ASSUME Zpopmin PROVE OneOwner'
  <2>1. PICK e \in retrySet :
           /\ retrySet' = retrySet \ {e}
           /\ \/ hand' = [hand EXCEPT ![Retrier] =
                            [IdleHand EXCEPT
                                !.pc = IF e \in due THEN "fetch" ELSE "putback",
                                !.job = e]]
              \/ UNCHANGED hand
      BY <1>4 DEF Zpopmin
  <2>2. queue' = queue /\ ingest' = ingest /\ Distinct(queue)
      BY <1>4 DEF Zpopmin, OneOwner
  <2>3. CASE UNCHANGED hand
      BY <2>1, <2>2, <2>3, NothingGained
  <2>4. CASE hand' = [hand EXCEPT ![Retrier] =
                        [IdleHand EXCEPT
                            !.pc = IF e \in due THEN "fetch" ELSE "putback",
                            !.job = e]]
    <3>1. \A g \in Hands : hand'[g].job = IF g = Retrier THEN e ELSE hand[g].job
        BY <1>0, <2>4 DEF IdleHand, TypeOK, HandsOK
    <3>2. e \in Events /\ e \notin Members(queue')
        BY <1>0, <2>1, <2>2 DEF OneOwner
    <3> QED BY <1>0, <2>1, <2>2, <3>1, <3>2, Taken
  <2> QED BY <2>1, <2>3, <2>4
<1>5. ASSUME PutBack PROVE OneOwner'
  <2>1. hand[Retrier].job \in Events /\ Release(Retrier) /\ ingest' = ingest
      BY <1>0, <1>5, HandIs DEF PutBack, TypeOK
  <2>2. CASE UNCHANGED redisVars
      BY <1>0, <2>1, <2>2, ReleaseKeepsJobs, JobsKept
  <2>3. CASE queue' = queue /\ retrySet' = retrySet \cup {hand[Retrier].job}
      BY <1>0, <2>1, <2>3, Rescheduled
  <2> QED BY <1>5, <2>2, <2>3 DEF PutBack, RedisWrite
<1>6. ASSUME NEW h \in Hands, Schedule(h) PROVE OneOwner'
  <2>1. hand[h].job \in Events /\ Release(h) /\ ingest' = ingest
      BY <1>6, HandIs DEF Schedule, TypeOK
  <2>2. CASE UNCHANGED redisVars
      BY <2>1, <2>2, ReleaseKeepsJobs, JobsKept
  <2>3. CASE queue' = queue /\ retrySet' = retrySet \cup {hand[h].job}
      BY <2>1, <2>3, Rescheduled
  <2> QED BY <1>6, <2>2, <2>3 DEF Schedule, RedisWrite
<1>7. ASSUME NEW h \in Hands,
             \/ FetchNothing(h) \/ CheckDelivered(h) \/ Record(h) \/ MarkDelivered(h)
             \/ MarkRetrying(h) \/ MarkFailed(h) \/ MarkRefused(h) \/ Notify(h)
      PROVE  OneOwner'
  <2>1. \/ Release(h) \/ \E pc \in HandPcs : Goto(h, pc)
      BY <1>7 DEF FetchNothing, CheckDelivered, Record, MarkDelivered,
         MarkRetrying,
                  MarkFailed, MarkRefused, Notify, HandPcs
  <2>2. UNCHANGED redisVars /\ ingest' = ingest
      BY <1>7 DEF FetchNothing, CheckDelivered, Record, MarkDelivered,
         MarkRetrying,
                  MarkFailed, MarkRefused, Notify
  <2> QED BY <2>1, <2>2, GotoKeepsJobs, ReleaseKeepsJobs, JobsKept
<1>8. ASSUME NEW h \in Hands, FetchRow(h) \/ Post(h) PROVE OneOwner'
  <2>1. UNCHANGED redisVars /\ ingest' = ingest
      BY <1>8 DEF FetchRow, Post
  <2>2. \A g \in Hands : hand'[g].job \in {hand[g].job, None}
    <3>1. CASE FetchRow(h)
        BY <3>1 DEF HandStates, FetchRow, TypeOK, HandsOK
    <3>2. CASE Post(h)
        BY <3>2 DEF Post, TypeOK, HandsOK
    <3> QED BY <1>8, <3>1, <3>2
  <2> QED BY <2>1, <2>2, JobsKept
<1>9. ASSUME NEW a \in Admins, ScrubQueue(a) \/ ScrubRetry(a) PROVE OneOwner'
  <2>1. /\ Members(queue') \subseteq Members(queue) /\ Distinct(queue')
        /\ retrySet' \subseteq retrySet
    <3>1. CASE ScrubQueue(a)
        BY <1>0, <3>1, LremList DEF ScrubQueue, RedisWrite, redisVars, OneOwner
    <3>2. CASE ScrubRetry(a)
        BY <1>0, <3>2 DEF ScrubRetry, RedisWrite, redisVars, OneOwner
    <3> QED BY <1>9, <3>1, <3>2
  <2>2. hand' = hand /\ ingest' = ingest
      BY <1>9 DEF ScrubQueue, ScrubRetry
  <2> QED BY <2>1, <2>2, NothingGained
<1>10. ASSUME NEW a \in Admins, RetryReset(a) \/ RetryUnschedule(a) \/ RetryPush(a)
       PROVE  OneOwner'
    BY <1>10 DEF NoReplay, RetryReset, RetryUnschedule, RetryPush
<1>11. ASSUME UNCHANGED <<redisVars, hand, ingest>> PROVE OneOwner'
    BY <1>11, JobsKept
<1>12. ASSUME NEW a \in Admins, NEW e \in Events,
              RetryFind(a, e) \/ BulkReset(a, e) \/ Ack(a, e) \/ Delete(a, e)
       PROVE  OneOwner'
    BY <1>11, <1>12 DEF RetryFind, BulkReset, Ack, Delete
<1>13. ASSUME NEW e \in Events, BecomeDue(e) \/ Expire(e) PROVE OneOwner'
    BY <1>11, <1>13 DEF BecomeDue, Expire
<1>14. CASE Crash
  <2>1. \A h \in Hands : hand'[h].job \in {hand[h].job, None}
      BY <1>14 DEF Crash, IdleHand
  <2>2. \A e \in Events : ingest'[e] # "done" => ingest[e] # "done"
      BY <1>14 DEF Crash
  <2> QED BY <1>14, <2>1, <2>2, NothingGained DEF Crash, redisVars, OneOwner
<1>15. ASSUME NEW e \in Events, AbandonIngest(e) PROVE OneOwner'
  <2>1. \A f \in Events : ingest'[f] # "done" => ingest[f] # "done"
      BY <1>15 DEF AbandonIngest
  <2> QED BY <1>15, <2>1, NothingGained DEF AbandonIngest, redisVars, OneOwner
<1>16. ASSUME UNCHANGED vars \/ \E a \in Admins : AbandonAdmin(a) PROVE OneOwner'
    BY <1>11, <1>16 DEF vars, AbandonAdmin
<1> QED BY <1>1, <1>2, <1>3, <1>4, <1>5, <1>6, <1>7, <1>8, <1>9, <1>10, <1>12,
           <1>13, <1>14, <1>15, <1>16 DEF Next, Deliver, Administer

LEMMA InitOwner == Init => OneOwner /\ NoReplay
<1> SUFFICES ASSUME Init PROVE OneOwner /\ NoReplay
    OBVIOUS
<1>1. Distinct(queue) /\ Members(queue) = {} /\ retrySet = {}
    BY DEF Init, Distinct, Members
<1>2. \A h \in Hands : hand[h].job = None
    BY DEF Init, IdleHand
<1>3. OneOwner
    BY <1>1, <1>2, DeliveryAssumption DEF OneOwner
<1>4. NoReplay
    BY DEF Init, NoReplay, IdleAdmin
<1> QED BY <1>3, <1>4

\* Unless an admin replays events by hand, an id is in one place at a time:
\* two tasks never deliver the same event concurrently, whatever crashes,
\* Redis and database errors, deletions and acknowledgements happen.
THEOREM OwnerUnique ==
    ASSUME "retry" \notin Operations
    PROVE  Spec => []OneOwner
<1>1. TypeOK /\ OneOwner /\ NoReplay /\ [Next]_vars => OneOwner' /\ NoReplay'
    BY OwnerStep, NoReplayStep
<1> QED BY <1>1, InitOwner, TypeCorrect, PTL DEF Spec

-----------------------------------------------------------------------------
(***************************************************************************)
(* DeliveredSticks.  Every UPDATE of a worker is guarded by status !=        *)
(* 'delivered' but the one for a refused URL; the theorem holds for events   *)
(* with several owners too.                                                 *)
(***************************************************************************)

\* A task has a refusal in hand only for an event whose URL can be refused, and
\* an event nobody has sent yet has no row.
Refusable(e) == e \in NoTarget \cup Blocked \/ "dns" \in Faults
RefusalsFounded ==
    \A h \in Hands : hand[h].verdict \in Refusals => Refusable(hand[h].job)
UnsentHaveNoRow == \A e \in Events : ingest[e] = "new" => status[e] = "none"

\* Refusals stay founded.
LEMMA RefusalsFoundedStep ==
    ASSUME TypeOK, RefusalsFounded, [Next]_vars
    PROVE  RefusalsFounded'
<1>1. ASSUME UNCHANGED hand PROVE RefusalsFounded'
    BY <1>1 DEF RefusalsFounded, Refusable
<1>2. ASSUME NEW h \in Hands, NEW pc, Goto(h, pc) PROVE RefusalsFounded'
    BY <1>2 DEF Goto, RefusalsFounded, Refusable, TypeOK, HandsOK, HandStates
<1>3. ASSUME NEW h \in Hands, NEW r, hand' = [hand EXCEPT ![h] = r],
             r.verdict \notin Refusals
      PROVE  RefusalsFounded'
    BY <1>3 DEF RefusalsFounded, Refusable, TypeOK, HandsOK
<1>4. ASSUME NEW h \in Hands, Release(h) PROVE RefusalsFounded'
  <2>1. IdleHand.verdict \notin Refusals
      BY DEF IdleHand, Refusals
  <2> QED BY <1>3, <1>4, <2>1 DEF Release
<1>5. ASSUME NEW h \in Hands, FetchRow(h) PROVE RefusalsFounded'
  <2>1. \A g \in Hands \ {h} : hand'[g] = hand[g]
      BY <1>5 DEF FetchRow, TypeOK, HandsOK
  <2>2. hand'[h].verdict \in Refusals => Refusable(hand'[h].job)
      BY <1>5 DEF FetchRow, Refusable, Refusals, TypeOK, HandsOK, HandStates
  <2> QED BY <2>1, <2>2 DEF RefusalsFounded, Refusable
<1>6. ASSUME NEW h \in Hands, Post(h) PROVE RefusalsFounded'
  <2>1. \A g \in Hands \ {h} : hand'[g] = hand[g]
      BY <1>6 DEF Post, TypeOK, HandsOK
  <2>2. hand'[h].verdict \notin Refusals
      BY <1>6 DEF Post, Answers, Refusals, TypeOK, HandsOK, HandStates
  <2> QED BY <2>1, <2>2 DEF RefusalsFounded, Refusable
<1>7. ASSUME NEW h \in Hands,
             \/ FetchNothing(h) \/ CheckDelivered(h) \/ Record(h) \/ MarkDelivered(h)
             \/ MarkRetrying(h) \/ MarkFailed(h) \/ MarkRefused(h)
             \/ Schedule(h) \/ Notify(h)
      PROVE  RefusalsFounded'
  <2>1. Release(h) \/ \E pc \in HandPcs : Goto(h, pc)
      BY <1>7 DEF FetchNothing, CheckDelivered, Record, MarkDelivered, MarkRetrying,
                  MarkFailed, MarkRefused, Schedule, Notify, HandPcs
  <2> QED BY <1>2, <1>4, <2>1
<1>8. ASSUME NEW w \in Workers, Brpop(w) PROVE RefusalsFounded'
  <2>1. [IdleHand EXCEPT !.pc = "fetch", !.job = BrpopId(queue)].verdict \notin Refusals
      BY DEF IdleHand, Refusals
  <2> QED BY <1>1, <1>3, <1>8, <2>1 DEF Brpop, Hands
<1>9. CASE Zpopmin
  <2>1. ASSUME NEW e \in retrySet, NEW pc
        PROVE  [IdleHand EXCEPT !.pc = pc, !.job = e].verdict \notin Refusals
      BY DEF IdleHand, Refusals
  <2> QED BY <1>1, <1>3, <1>9, <2>1 DEF Zpopmin, Hands
<1>10. CASE PutBack
    BY <1>4, <1>10 DEF PutBack, Hands
<1>11. CASE Crash
    BY <1>11 DEF Crash, IdleHand, Refusals, RefusalsFounded, Refusable
<1>12. ASSUME NEW a \in Admins, Administer(a) PROVE UNCHANGED hand
    BY <1>12 DEF Administer, RetryReset, RetryUnschedule, RetryPush, ScrubQueue,
                 ScrubRetry, RetryFind, BulkReset, Ack, Delete
<1>13. ASSUME \/ UNCHANGED vars
              \/ \E a \in Admins : AbandonAdmin(a)
              \/ \E e \in Events : \/ Accept(e) \/ Enqueue(e) \/ AbandonIngest(e)
                                   \/ BecomeDue(e) \/ Expire(e)
       PROVE  UNCHANGED hand
    BY <1>13 DEF Accept, Enqueue, BecomeDue, Expire, AbandonIngest, AbandonAdmin, vars
<1> QED BY <1>1, <1>5, <1>6, <1>7, <1>8, <1>9, <1>10, <1>11, <1>12, <1>13
           DEF Next, Deliver

\* What each action does to the status of an event that is there, and that
\* only ingest brings a row into being.
LEMMA StatusStep ==
    ASSUME TypeOK, RefusalsFounded, UnsentHaveNoRow, [Next]_vars
    PROVE  KeepsDelivered /\ UnsentHaveNoRow'
<1> USE DEF KeepsDelivered, UnsentHaveNoRow, rowVars
<1>1. ASSUME NEW e \in Events, NEW s \in Statuses, NEW n \in Nat,
             UpdateRow(e, TRUE, s, n), UNCHANGED ingest
      PROVE  KeepsDelivered /\ UnsentHaveNoRow'
    BY <1>1 DEF UpdateRow, TypeOK, RowsOK
<1>2. ASSUME NEW e \in Events, NEW s \in Statuses, NEW n \in Nat,
             UpdateRow(e, FALSE, s, n), UNCHANGED ingest, s = "delivered" \/ Refusable(e)
      PROVE  KeepsDelivered /\ UnsentHaveNoRow'
    BY <1>2 DEF UpdateRow, Refusable, TypeOK, RowsOK
<1>3. ASSUME NEW e \in Events, DropRow(e), UNCHANGED ingest
      PROVE  KeepsDelivered /\ UnsentHaveNoRow'
    BY <1>3 DEF DropRow, TypeOK, RowsOK
<1>4. ASSUME UNCHANGED <<status, ingest>> PROVE KeepsDelivered /\ UnsentHaveNoRow'
    BY <1>4
<1>5. ASSUME NEW h \in Hands,
             MarkDelivered(h) \/ MarkRetrying(h) \/ MarkFailed(h) \/ MarkRefused(h)
      PROVE  KeepsDelivered /\ UnsentHaveNoRow'
  <2>0. hand[h].pc = "update"
      BY <1>5 DEF MarkDelivered, MarkRetrying, MarkFailed, MarkRefused
  <2>1. /\ hand[h].job \in Events /\ hand[h].tries \in Nat
        /\ hand[h].tries + 1 \in Nat /\ retries[hand[h].job] \in Nat
      BY <2>0, HandIs DEF TypeOK, RowsOK
  <2>2. {"delivered", "retrying", "failed"} \subseteq Statuses
      BY DEF Statuses
  <2>3. CASE MarkDelivered(h)
      BY <1>1, <2>1, <2>2, <2>3 DEF MarkDelivered
  <2>4. CASE MarkRetrying(h)
      BY <1>1, <2>1, <2>2, <2>4 DEF MarkRetrying
  <2>5. CASE MarkFailed(h)
      BY <1>1, <2>1, <2>2, <2>5 DEF MarkFailed
  <2>6. CASE MarkRefused(h)
      BY <1>2, <2>1, <2>2, <2>6 DEF MarkRefused, RefusalsFounded
  <2> QED BY <1>5, <2>3, <2>4, <2>5, <2>6
<1>6. ASSUME NEW a \in Admins, NEW e \in Events,
             RetryFind(a, e) \/ BulkReset(a, e) \/ Ack(a, e) \/ Delete(a, e)
      PROVE  KeepsDelivered /\ UnsentHaveNoRow'
  <2>1. CASE RetryFind(a, e)
      BY <1>4, <2>1 DEF RetryFind
  <2>2. CASE BulkReset(a, e)
    <3>1. admin'[a] = [pc |-> "unschedule", job |-> e]
        BY <2>2 DEF BulkReset, AdminAt, TypeOK, AdminsOK
    <3>2. /\ status[e] # "none" /\ UNCHANGED ingest
          /\ \A f \in Events \ {e} : status'[f] = status[f]
        BY <2>2 DEF BulkReset, TypeOK, RowsOK
    <3> QED BY <3>1, <3>2
  <2>3. CASE Ack(a, e)
    <3>1. retries[e] \in Nat /\ "delivered" \in Statuses
        BY DEF TypeOK, RowsOK, Statuses
    <3> QED BY <1>2, <2>3, <3>1 DEF Ack
  <2>4. CASE Delete(a, e)
      BY <1>3, <2>4 DEF Delete
  <2> QED BY <1>6, <2>1, <2>2, <2>3, <2>4
<1>7. ASSUME NEW a \in Admins, RetryReset(a) PROVE KeepsDelivered /\ UnsentHaveNoRow'
  <2> DEFINE e == admin[a].job
  <2>1. e \in Events /\ UNCHANGED ingest
      BY <1>7 DEF RetryReset, TypeOK, AdminsOK
  <2>2. CASE UNCHANGED status
      BY <1>4, <2>1, <2>2
  <2>3. CASE status[e] # "none" /\ status' = [status EXCEPT ![e] = "queued"]
             /\ AdminAt(a, "unschedule", e)
    <3>1. admin'[a] = [pc |-> "unschedule", job |-> e]
        BY <2>3 DEF AdminAt, TypeOK, AdminsOK
    <3>2. \A f \in Events \ {e} : status'[f] = status[f]
        BY <2>3 DEF TypeOK, RowsOK
    <3> QED BY <2>1, <2>3, <3>1, <3>2
  <2> QED BY <1>7, <2>2, <2>3 DEF RetryReset
<1>8. ASSUME NEW a \in Admins,
             \/ RetryUnschedule(a) \/ RetryPush(a) \/ ScrubQueue(a) \/ ScrubRetry(a)
             \/ AbandonAdmin(a)
      PROVE  KeepsDelivered /\ UnsentHaveNoRow'
    BY <1>4, <1>8 DEF RetryUnschedule, RetryPush, ScrubQueue, ScrubRetry, AbandonAdmin
<1>9. ASSUME NEW e \in Events, Accept(e) PROVE KeepsDelivered /\ UnsentHaveNoRow'
    BY <1>9 DEF Accept, TypeOK, RowsOK
<1>10. ASSUME NEW e \in Events, Enqueue(e) \/ AbandonIngest(e)
       PROVE  KeepsDelivered /\ UnsentHaveNoRow'
    BY <1>10 DEF Enqueue, AbandonIngest, TypeOK
<1>11. ASSUME NEW e \in Events, BecomeDue(e) \/ Expire(e)
       PROVE  KeepsDelivered /\ UnsentHaveNoRow'
    BY <1>3, <1>4, <1>11 DEF BecomeDue, Expire
<1>12. ASSUME NEW h \in Hands,
              \/ FetchNothing(h) \/ FetchRow(h) \/ Post(h) \/ CheckDelivered(h)
              \/ Record(h) \/ Schedule(h) \/ Notify(h)
       PROVE  KeepsDelivered /\ UnsentHaveNoRow'
    BY <1>4, <1>12 DEF FetchNothing, FetchRow, Post, CheckDelivered, Record, Schedule,
                       Notify
<1>13. ASSUME Zpopmin \/ PutBack \/ UNCHANGED vars \/ \E w \in Workers : Brpop(w)
       PROVE  KeepsDelivered /\ UnsentHaveNoRow'
    BY <1>4, <1>13 DEF Zpopmin, PutBack, Brpop, vars
<1>14. CASE Crash
    BY <1>14 DEF Crash, TypeOK
<1> QED BY <1>5, <1>6, <1>7, <1>8, <1>9, <1>10, <1>11, <1>12, <1>13, <1>14
           DEF Next, Deliver, Administer

\* A delivered event stays delivered until it is replayed by hand or deleted,
\* however many tasks still hold what they read before (except where an URL may
\* be refused), with any number of duplicated ids and of concurrent replays.
THEOREM DeliveredIsFinal == Spec => DeliveredSticks
<1>1. Init => RefusalsFounded /\ UnsentHaveNoRow
    BY DEF Init, RefusalsFounded, UnsentHaveNoRow, IdleHand, Refusals
<1>2. TypeOK /\ RefusalsFounded /\ UnsentHaveNoRow /\ [Next]_vars
        => RefusalsFounded' /\ UnsentHaveNoRow' /\ [KeepsDelivered]_vars
    BY RefusalsFoundedStep, StatusStep
<1> QED BY <1>1, <1>2, TypeCorrect, PTL DEF Spec, DeliveredSticks
=============================================================================

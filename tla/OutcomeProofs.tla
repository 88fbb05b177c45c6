--------------------------- MODULE OutcomeProofs ----------------------------
(***************************************************************************)
(* Theorems about how a delivery ends, for any number of events, workers and *)
(* requests and any retry limit: without replays a target gets a bounded   *)
(* number of POSTs, the hooks hear one outcome and the engine implements   *)
(* EventLifecycle; and with replays, as long as nothing crashes, an open   *)
(* event is not forgotten.  Each theorem names the faults it excludes.     *)
(***************************************************************************)
EXTENDS DeliveryProofs, FiniteSetTheorems

-----------------------------------------------------------------------------
(***************************************************************************)
(* The invariant of the budget and of the verdict: what is known of an event *)
(* by the place its id is in and the step its task is at.                  *)
(***************************************************************************)

\* The id of e waits for another POST: as long as there is a row, fewer POSTs
\* than the budget have been made, and an open row has counted them.
Waiting(e) ==
    status[e] # "none" =>
        /\ sent[e] <= MaxRetries
        /\ status[e] # "delivered" => sent[e] <= retries[e]

\* What a task knows of the event it holds.  A worker got it fresh from ingest,
\* the retry worker from the retry set.  The retry_count it read has counted
\* the earlier POSTs, unless the row is gone, or delivered by somebody else.
TaskFits(h) ==
    LET e == hand[h].job
    IN  /\ hand[h].pc \in {"fetch", "post"} /\ h # Retrier => sent[e] = 0
        /\ hand[h].pc \in {"putback", "fetch", "zadd"} => Waiting(e)
        /\ hand[h].pc = "post" =>
              /\ sent[e] <= MaxRetries
              /\ status[e] \notin {"none", "delivered"} => sent[e] <= hand[h].tries
        /\ hand[h].pc = "check" /\ status[e] \notin {"none", "delivered"} =>
              sent[e] <= hand[h].tries + 1
        /\ hand[h].pc \in {"record", "update"} /\ hand[h].verdict \in Answers =>
              status[e] = "none" \/ sent[e] <= hand[h].tries + 1
        /\ hand[h].pc = "notify" => status[e] \notin {"queued", "retrying"}
        /\ hand[h].verdict = "ok" => e \in accepted

\* What holds of an event by where its id is: nothing was posted before it
\* leaves terusin:queue, and after its hooks were told it is nowhere.
EventFits(e) ==
    /\ sent[e] <= MaxRetries + 1
    /\ ingest[e] # "done" \/ e \in Members(queue) => sent[e] = 0
    /\ e \in retrySet => Waiting(e)
    /\ hooks[e] # << >> =>
          /\ \/ hooks[e] = <<"success">> /\ e \in accepted
             \/ hooks[e] = <<"failure">>
          /\ status[e] \notin {"queued", "retrying"}
          /\ ingest[e] = "done"
          /\ e \notin Members(queue) \cup retrySet
          /\ \A h \in Hands : hand[h].job # e

Fits == /\ \A e \in Events : EventFits(e)
        /\ \A h \in Hands : hand[h].pc # "idle" => TaskFits(h)

-----------------------------------------------------------------------------
(***************************************************************************)
(* What a step may do to an event it does not work on.                     *)
(***************************************************************************)

\* The row is left alone, acknowledged or deleted, and nobody else is told.
Eased(e) ==
    /\ sent'[e] = sent[e]
    /\ hooks'[e] = hooks[e]
    /\ \/ status'[e] = "none"
       \/ status[e] # "none" /\ status'[e] = "delivered"
       \/ status'[e] = status[e] /\ retries'[e] = retries[e]

\* A step that leaves the rows alone eases every event.
LEMMA RowEased ==
    ASSUME NEW e \in Events, sent' = sent, hooks' = hooks, status' = status,
           retries' = retries
    PROVE  Eased(e)
BY DEF Eased

\* The same of DELETE, which touches one row.
LEMMA DropEases ==
    ASSUME TypeOK, NEW e \in Events, DropRow(e), sent' = sent, hooks' = hooks,
           NEW f \in Events
    PROVE  Eased(f)
BY DEF DropRow, Eased, TypeOK, RowsOK

\* An eased event waits as before.
LEMMA EasedWaits ==
    ASSUME NEW e \in Events, Waiting(e), Eased(e)
    PROVE  Waiting(e)'
BY DEF Waiting, Eased

\* A task whose event is eased still fits.
LEMMA EasedTask ==
    ASSUME TypeOK, NEW h \in Hands, hand[h].pc # "idle", hand'[h] = hand[h],
           TaskFits(h), Eased(hand[h].job), accepted \subseteq accepted'
    PROVE  TaskFits(h)'
<1> DEFINE e == hand[h].job
<1>1. e \in Events /\ hand'[h] = hand[h]
    BY DEF TypeOK, HandsOK
<1>2. Waiting(e) => Waiting(e)'
    BY <1>1, EasedWaits
<1>3. /\ sent'[e] = sent[e]
      /\ \/ status'[e] = "none"
         \/ status[e] # "none" /\ status'[e] = "delivered"
         \/ status'[e] = status[e]
    BY DEF Eased
<1> QED BY <1>1, <1>2, <1>3 DEF TaskFits

\* A step that works on the events of X alone.
LEMMA Framed ==
    ASSUME TypeOK, TypeOK', Fits, NEW X \in SUBSET Events,
           \A e \in Events \ X : Eased(e),
           accepted \subseteq accepted',
           \A e \in Events : ingest'[e] # "done" => ingest[e] # "done",
           Members(queue') \subseteq Members(queue) \cup X,
           retrySet' \subseteq retrySet \cup X,
           \A g \in Hands : \/ hand'[g] = hand[g]
                            \/ hand'[g] = IdleHand
                            \/ hand'[g].job \in X,
           \A e \in X : EventFits(e)',
           \A g \in Hands : hand'[g].job \in X /\ hand'[g].pc # "idle" => TaskFits(g)'
    PROVE  Fits'
<1>1. ASSUME NEW e \in Events \ X PROVE EventFits(e)'
  <2>1. EventFits(e) /\ Eased(e)
      BY DEF Fits
  <2>2. /\ sent'[e] = sent[e]
        /\ hooks'[e] = hooks[e]
        /\ status'[e] \in {"none", "delivered", status[e]}
      BY <2>1 DEF Eased
  <2>3. e \in Members(queue') => e \in Members(queue)
      OBVIOUS
  <2>4. e \in retrySet' => Waiting(e)'
      BY <2>1, EasedWaits DEF EventFits
  <2>5. ASSUME hooks[e] # << >>, NEW g \in Hands PROVE hand'[g].job # e
    <3>1. hand[g].job # e
        BY <2>1, <2>5 DEF EventFits
    <3>2. IdleHand.job # e
        BY DeliveryAssumption DEF IdleHand
    <3> QED BY <3>1, <3>2
  <2>6. ingest[e] = "done" => ingest'[e] = "done"
      OBVIOUS
  <2> QED BY <2>1, <2>2, <2>3, <2>4, <2>5, <2>6 DEF EventFits
<1>2. ASSUME NEW g \in Hands, hand'[g].pc # "idle" PROVE TaskFits(g)'
  <2>1. CASE hand'[g].job \in X
      BY <1>2, <2>1
  <2>2. CASE hand'[g].job \notin X
    <3>1. hand'[g] = hand[g]
        BY <1>2, <2>2 DEF IdleHand
    <3>2. hand[g].pc # "idle" /\ hand[g].job \in Events \ X
        BY <1>2, <2>2, <3>1 DEF TypeOK, HandsOK
    <3> QED BY <3>1, <3>2, EasedTask DEF Fits
  <2> QED BY <2>1, <2>2
<1> QED BY <1>1, <1>2 DEF Fits

\* A step that works on no event.
LEMMA Untouched ==
    ASSUME TypeOK, TypeOK', Fits,
           \A e \in Events : Eased(e),
           accepted' = accepted,
           \A e \in Events : ingest'[e] # "done" => ingest[e] # "done",
           Members(queue') \subseteq Members(queue),
           retrySet' \subseteq retrySet,
           \A g \in Hands : hand'[g] = hand[g] \/ hand'[g] = IdleHand
    PROVE  Fits'
<1> DEFINE X == {}
<1>1. X \in SUBSET Events
    OBVIOUS
<1> QED BY <1>1, Framed

\* The event a task holds is nowhere else and its hooks have not been told.
LEMMA Held ==
    ASSUME TypeOK, OneOwner, Fits, NEW h \in Hands, hand[h].pc # "idle"
    PROVE  /\ hand[h].job \in Events
           /\ hand[h].job \notin Members(queue) \cup retrySet
           /\ ingest[hand[h].job] = "done"
           /\ hooks[hand[h].job] = << >>
           /\ sent[hand[h].job] \in Nat /\ sent[hand[h].job] <= MaxRetries + 1
           /\ \A g \in Hands \ {h} : hand[g].job # hand[h].job
           /\ TaskFits(h)
<1> DEFINE e == hand[h].job
<1>1. e \in Events
    BY DEF TypeOK, HandsOK
<1>2. e # None
    BY <1>1, DeliveryAssumption
<1>3. EventFits(e) /\ TaskFits(h)
    BY <1>1 DEF Fits
<1>4. sent[e] \in Nat
    BY <1>1 DEF TypeOK, HistoryOK
<1> QED BY <1>1, <1>2, <1>3, <1>4 DEF OneOwner, EventFits

\* A task works on its event and keeps it.
LEMMA Worked ==
    ASSUME TypeOK, TypeOK', OneOwner, Fits, NEW h \in Hands, hand[h].pc # "idle",
           NEW x, x = hand[h].job, x = hand'[h].job,
           \A e \in Events \ {x} : Eased(e),
           accepted \subseteq accepted',
           hooks' = hooks, ingest' = ingest, UNCHANGED redisVars,
           \A g \in Hands \ {h} : hand'[g] = hand[g],
           sent'[x] <= MaxRetries + 1,
           TaskFits(h)'
    PROVE  Fits'
<1> DEFINE X == {x}
<1>1. /\ x \in Events /\ x \notin Members(queue) \cup retrySet
      /\ ingest[x] = "done" /\ hooks[x] = << >>
      /\ \A g \in Hands \ {h} : hand[g].job # x
    BY Held
<1>2. queue' = queue /\ retrySet' = retrySet
    BY DEF redisVars
<1>3. EventFits(x)'
    BY <1>1, <1>2 DEF EventFits
<1>4. \A g \in Hands : hand'[g].job \in X /\ hand'[g].pc # "idle" => TaskFits(g)'
    BY <1>1
<1>5. \A g \in Hands : hand'[g] = hand[g] \/ hand'[g].job \in X
    OBVIOUS
<1>6. X \in SUBSET Events /\ \A e \in Events \ X : Eased(e)
    BY <1>1
<1>7. \A e \in X : EventFits(e)'
    BY <1>3
<1> HIDE DEF X
<1> QED BY <1>2, <1>4, <1>5, <1>6, <1>7, Framed

\* A task gives its id to terusin:retry, or Redis drops it.
LEMMA Returned ==
    ASSUME TypeOK, TypeOK', OneOwner, Fits, NEW h \in Hands, hand[h].pc # "idle",
           NEW x, x = hand[h].job, Waiting(x), Release(h),
           UNCHANGED <<rowVars, ingest, history>>,
           RedisWrite(queue, retrySet \cup {x})
    PROVE  Fits'
<1> DEFINE X == {x}
<1>1. /\ x \in Events /\ x \notin Members(queue) \cup retrySet
      /\ ingest[x] = "done" /\ hooks[x] = << >>
      /\ sent[x] <= MaxRetries + 1
      /\ \A g \in Hands \ {h} : hand[g].job # x
    BY Held
<1>2. queue' = queue /\ retrySet' \subseteq retrySet \cup X
    BY DEF RedisWrite, redisVars
<1>3. \A g \in Hands : hand'[g] = IF g = h THEN IdleHand ELSE hand[g]
    BY DEF Release, TypeOK, HandsOK
<1>4. \A g \in Hands : hand'[g].job # x
    BY <1>1, <1>3, DeliveryAssumption DEF IdleHand
<1>5. Waiting(x)'
    BY DEF Waiting, rowVars, history
<1>6. EventFits(x)'
    BY <1>1, <1>2, <1>5 DEF EventFits, history
<1>7. \A e \in Events : Eased(e)
    BY RowEased DEF rowVars, history
<1>8. X \in SUBSET Events /\ \A e \in X : EventFits(e)'
    BY <1>1, <1>6
<1>9. \A g \in Hands : hand'[g].job \notin X
    BY <1>4
<1> HIDE DEF X
<1> QED BY <1>2, <1>3, <1>7, <1>8, <1>9, Framed DEF history

\* The fields of a task that moves on.
LEMMA Moves ==
    ASSUME TypeOK, NEW h \in Hands, NEW pc, Goto(h, pc)
    PROVE  /\ hand'[h].pc = pc
           /\ hand'[h].job = hand[h].job
           /\ hand'[h].tries = hand[h].tries
           /\ hand'[h].verdict = hand[h].verdict
           /\ \A g \in Hands \ {h} : hand'[g] = hand[g]
BY DEF Goto, TypeOK, HandsOK, HandStates

\* Without errors of Postgres an UPDATE takes effect unless its row is gone, or
\* delivered and the UPDATE guarded; other rows stay as they are.
LEMMA UpdateTakes ==
    ASSUME TypeOK, "db" \notin Faults, NEW e \in Events, NEW guarded \in BOOLEAN,
           NEW s, NEW n, UpdateRow(e, guarded, s, n), sent' = sent, hooks' = hooks
    PROVE  /\ \A f \in Events \ {e} : Eased(f)
           /\ \/ status[e] # "none" /\ status'[e] = s /\ retries'[e] = n
              \/ /\ status'[e] = status[e]
                 /\ status[e] = "none" \/ (guarded /\ status[e] = "delivered")
<1>1. \A f \in Events \ {e} : status'[f] = status[f] /\ retries'[f] = retries[f]
    BY DEF UpdateRow, TypeOK, RowsOK
<1>2. \/ status[e] # "none" /\ status'[e] = s /\ retries'[e] = n
      \/ /\ status'[e] = status[e]
         /\ status[e] = "none" \/ (guarded /\ status[e] = "delivered")
  <2>1. CASE guarded = TRUE
      BY <2>1 DEF UpdateRow, TypeOK, RowsOK
  <2>2. CASE guarded = FALSE
      BY <2>2 DEF UpdateRow, TypeOK, RowsOK
  <2> QED BY <2>1, <2>2
<1> QED BY <1>1, <1>2 DEF Eased

-----------------------------------------------------------------------------
(***************************************************************************)
(* One lemma per kind of step.                                             *)
(***************************************************************************)

\* A request brings an event in, or pushes its id.
LEMMA IngestFits ==
    ASSUME TypeOK, TypeOK', OneOwner, Fits, NEW x \in Events,
           Accept(x) \/ Enqueue(x)
    PROVE  Fits'
<1> DEFINE X == {x}
<1>1. ingest[x] # "done"
    BY DEF Accept, Enqueue
<1>2. /\ x \notin Members(queue) \cup retrySet
      /\ \A h \in Hands : hand[h].job # x
    BY <1>1 DEF OneOwner
<1>3. sent[x] = 0 /\ hooks[x] = << >>
    BY <1>1 DEF Fits, EventFits
<1>4. hand' = hand /\ sent' = sent /\ hooks' = hooks /\ accepted' = accepted
    BY DEF Accept, Enqueue, history
<1>5. /\ Members(queue') \subseteq Members(queue) \cup X
      /\ retrySet' = retrySet
  <2>1. CASE Accept(x)
      BY <2>1 DEF Accept, redisVars
  <2>2. CASE Enqueue(x)
      BY <2>2, LpushList DEF Enqueue, RedisWrite, redisVars, TypeOK, RedisOK
  <2> QED BY <2>1, <2>2
<1>6. \A f \in Events \ X : Eased(f)
    BY <1>4 DEF Accept, Enqueue, rowVars, Eased, TypeOK, RowsOK
<1>7. \A f \in Events : ingest'[f] # "done" => ingest[f] # "done"
    BY <1>1 DEF Accept, Enqueue, TypeOK
<1>8. EventFits(x)'
    BY <1>2, <1>3, <1>4, <1>5, DeliveryAssumption DEF EventFits
<1>9. /\ X \in SUBSET Events /\ \A f \in X : EventFits(f)'
      /\ \A h \in Hands : hand'[h].job \notin X
    BY <1>2, <1>4, <1>8
<1> HIDE DEF X
<1> QED BY <1>4, <1>5, <1>6, <1>7, <1>9, Framed

\* A task takes an id that fits out of Redis.
LEMMA TakenFits ==
    ASSUME TypeOK, TypeOK', OneOwner, Fits, NEW h \in Hands, NEW x \in Events,
           x \in Members(queue) \cup retrySet,
           x \in Members(queue) \/ h = Retrier,
           NEW pc \in {"fetch", "putback"},
           hand' = [hand EXCEPT ![h] = [IdleHand EXCEPT !.pc = pc, !.job = x]],
           Members(queue') \subseteq Members(queue), retrySet' \subseteq retrySet,
           x \notin Members(queue') \cup retrySet',
           UNCHANGED <<rowVars, ingest, history>>
    PROVE  Fits'
<1> DEFINE X == {x}
<1>1. /\ \A g \in Hands : hand[g].job # x
      /\ ingest[x] = "done"
    BY DEF OneOwner
<1>2. /\ hooks[x] = << >>
      /\ sent[x] <= MaxRetries + 1
      /\ x \in Members(queue) => sent[x] = 0
      /\ x \in retrySet => Waiting(x)
    BY DEF Fits, EventFits
<1>3. Waiting(x)
  <2>1. retries[x] \in Nat /\ MaxRetries \in Nat
      BY DeliveryAssumption DEF TypeOK, RowsOK
  <2> QED BY <1>2, <2>1 DEF Waiting
<1>4. /\ hand'[h].pc = pc /\ hand'[h].job = x /\ hand'[h].verdict = "unknown"
      /\ \A g \in Hands \ {h} : hand'[g] = hand[g]
    BY DEF IdleHand, TypeOK, HandsOK
<1>5. Waiting(x)'
    BY <1>3 DEF Waiting, rowVars, history
<1>6. TaskFits(h)'
    BY <1>2, <1>4, <1>5, DeliveryAssumption DEF TaskFits, Answers, history
<1>7. EventFits(x)'
    BY <1>1, <1>2 DEF EventFits, history
<1>8. \A e \in Events : Eased(e)
    BY RowEased DEF rowVars, history
<1>9. /\ X \in SUBSET Events /\ \A e \in X : EventFits(e)'
      /\ \A g \in Hands : hand'[g] = hand[g] \/ hand'[g].job \in X
      /\ \A g \in Hands : hand'[g].job \in X => TaskFits(g)'
    BY <1>1, <1>4, <1>6, <1>7
<1> HIDE DEF X
<1> QED BY <1>8, <1>9, Framed DEF history

\* BRPOP: the id has just come from ingest.
LEMMA BrpopFits ==
    ASSUME TypeOK, TypeOK', OneOwner, Fits, NEW w \in Workers, Brpop(w)
    PROVE  Fits'
<1> DEFINE x == BrpopId(queue)
<1>1. /\ x \in Events /\ x \in Members(queue)
      /\ Members(queue') \subseteq Members(queue)
      /\ x \notin Members(queue')
    BY BrpopList DEF Brpop, OneOwner, TypeOK, RedisOK
<1>2. retrySet' = retrySet /\ x \notin retrySet /\ w \in Hands
    BY <1>1 DEF Brpop, OneOwner, Hands
<1>3. UNCHANGED <<rowVars, ingest, history>>
    BY DEF Brpop
<1>4. CASE UNCHANGED hand
  <2>1. \A e \in Events : Eased(e)
      BY <1>3, RowEased DEF rowVars, history
  <2> QED BY <1>1, <1>2, <1>3, <1>4, <2>1, Untouched DEF history
<1>5. CASE hand' = [hand EXCEPT ![w] = [IdleHand EXCEPT !.pc = "fetch", !.job = x]]
    BY <1>1, <1>2, <1>3, <1>5, TakenFits
<1> QED BY <1>4, <1>5 DEF Brpop

\* ZPOPMIN: the id has been given back by a task.
LEMMA ZpopminFits ==
    ASSUME TypeOK, TypeOK', OneOwner, Fits, Zpopmin
    PROVE  Fits'
<1>1. PICK x \in retrySet :
           /\ retrySet' = retrySet \ {x}
           /\ \/ hand' = [hand EXCEPT ![Retrier] =
                            [IdleHand EXCEPT
                                !.pc = IF x \in due THEN "fetch" ELSE "putback",
                                !.job = x]]
              \/ UNCHANGED hand
    BY DEF Zpopmin
<1>2. /\ x \in Events /\ x \notin Members(queue) /\ Retrier \in Hands
      /\ queue' = queue
    BY DEF Zpopmin, OneOwner, TypeOK, RedisOK, Hands
<1>3. UNCHANGED <<rowVars, ingest, history>>
    BY DEF Zpopmin
<1>4. CASE UNCHANGED hand
  <2>1. \A e \in Events : Eased(e)
      BY <1>3, RowEased DEF rowVars, history
  <2> QED BY <1>1, <1>2, <1>3, <1>4, <2>1, Untouched DEF history
<1>5. ASSUME NEW pc \in {"fetch", "putback"},
             hand' = [hand EXCEPT ![Retrier] = [IdleHand EXCEPT !.pc = pc, !.job = x]]
      PROVE  Fits'
    BY <1>1, <1>2, <1>3, <1>5, TakenFits
<1> QED BY <1>1, <1>4, <1>5

\* SELECT of the row: what is read has counted the POSTs made so far.
LEMMA FetchFits ==
    ASSUME TypeOK, TypeOK', OneOwner, Fits, NEW h \in Hands, FetchRow(h)
    PROVE  Fits'
<1> DEFINE x == hand[h].job
<1>1. hand[h].pc = "fetch" /\ status[x] # "none"
    BY DEF FetchRow
<1>2. /\ x \in Events /\ TaskFits(h) /\ sent[x] <= MaxRetries + 1
    BY <1>1, Held
<1>3. /\ hand'[h].job = x
      /\ hand'[h].tries = retries[x]
      /\ hand'[h].pc \in {"post", "record", "update"}
      /\ hand'[h].verdict \in Refusals \cup {"unknown"}
      /\ hand'[h].pc # "post" => hand'[h].verdict \in Refusals
      /\ \A g \in Hands \ {h} : hand'[g] = hand[g]
    BY DEF FetchRow, Refusals, TypeOK, HandsOK, HandStates
<1>4. /\ UNCHANGED redisVars /\ hooks' = hooks /\ ingest' = ingest
      /\ accepted' = accepted /\ sent' = sent /\ status' = status
      /\ retries' = retries
    BY DEF FetchRow, rowVars, history
<1>5. TaskFits(h)'
  <2>1. hand'[h].verdict \notin Answers
      BY <1>3 DEF Refusals, Answers
  <2> QED BY <1>1, <1>2, <1>3, <1>4, <2>1 DEF TaskFits, Waiting, Answers
<1>6. \A f \in Events : Eased(f)
    BY <1>4, RowEased
<1> QED BY <1>1, <1>2, <1>3, <1>4, <1>5, <1>6, Worked

\* The POST is counted by the retry_count that was read, plus one.
LEMMA PostFits ==
    ASSUME TypeOK, TypeOK', OneOwner, Fits, NEW h \in Hands, Post(h)
    PROVE  Fits'
<1> DEFINE x == hand[h].job
<1>1. hand[h].pc = "post"
    BY DEF Post
<1>2. /\ x \in Events /\ TaskFits(h) /\ sent[x] \in Nat
    BY <1>1, Held
<1>3. /\ hand'[h].job = x
      /\ hand'[h].tries = hand[h].tries
      /\ hand'[h].pc \in {"check", "record"}
      /\ hand'[h].pc = "record" => h # Retrier
      /\ hand'[h].verdict = "ok" => x \in accepted'
      /\ \A g \in Hands \ {h} : hand'[g] = hand[g]
    BY DEF Post, Answers, TypeOK, HandsOK, HandStates
<1>4. /\ UNCHANGED redisVars /\ hooks' = hooks /\ ingest' = ingest
      /\ status' = status /\ retries' = retries
    BY DEF Post, rowVars
<1>5. accepted \subseteq accepted'
    BY DEF Post
<1>6. /\ sent'[x] = sent[x] + 1
      /\ \A f \in Events \ {x} : sent'[f] = sent[f]
    BY <1>2 DEF Post, TypeOK, HistoryOK
<1>7. MaxRetries \in Nat /\ hand[h].tries \in Nat
    BY DeliveryAssumption DEF TypeOK, HandsOK, HandStates
<1>8. sent[x] <= MaxRetries
    BY <1>1, <1>2 DEF TaskFits
<1>9. TaskFits(h)'
  <2>1. /\ status[x] \notin {"none", "delivered"} => sent[x] <= hand[h].tries
        /\ h # Retrier => sent[x] = 0
      BY <1>1, <1>2 DEF TaskFits
  <2> QED BY <1>2, <1>3, <1>4, <1>6, <1>7, <2>1 DEF TaskFits
<1>10. \A f \in Events \ {x} : Eased(f)
    BY <1>4, <1>6 DEF Eased
<1>11. sent'[x] <= MaxRetries + 1
    BY <1>2, <1>6, <1>7, <1>8
<1> QED BY <1>1, <1>3, <1>4, <1>5, <1>9, <1>10, <1>11, Worked

\* Nothing but the task moves: the look at the status after a POST (a result
\* that goes on belongs to a row that was not delivered) and the timeline.
LEMMA AfterPostFits ==
    ASSUME TypeOK, TypeOK', OneOwner, Fits, "db" \notin Faults, NEW h \in Hands,
           CheckDelivered(h) \/ Record(h)
    PROVE  Fits'
<1> DEFINE x == hand[h].job
<1>1. hand[h].pc \in {"check", "record"}
    BY DEF CheckDelivered, Record
<1>2. x \in Events /\ TaskFits(h) /\ sent[x] <= MaxRetries + 1
    BY <1>1, Held
<1>3. /\ UNCHANGED redisVars /\ hooks' = hooks /\ ingest' = ingest
      /\ accepted' = accepted /\ sent' = sent /\ status' = status
      /\ retries' = retries
    BY DEF CheckDelivered, Record, rowVars, history
<1>4. \A f \in Events : Eased(f)
    BY <1>3, RowEased
<1>5. CASE Release(h)
  <2>1. \A g \in Hands : hand'[g] = hand[g] \/ hand'[g] = IdleHand
      BY <1>5 DEF Release, TypeOK, HandsOK
  <2> QED BY <1>3, <1>4, <2>1, Untouched DEF redisVars
<1>6. CASE \/ hand[h].pc = "check" /\ status[x] # "delivered" /\ Goto(h, "record")
           \/ hand[h].pc = "record" /\ Goto(h, "update")
  <2>1. /\ hand'[h].pc \in {"record", "update"}
        /\ hand[h].pc = "check" => status[x] # "delivered"
        /\ hand'[h].job = x
        /\ hand'[h].tries = hand[h].tries
        /\ hand'[h].verdict = hand[h].verdict
        /\ \A g \in Hands \ {h} : hand'[g] = hand[g]
      BY <1>6, Moves
  <2>2. TaskFits(h)'
      BY <1>1, <1>2, <1>3, <2>1 DEF TaskFits
  <2> QED BY <1>1, <1>2, <1>3, <1>4, <2>1, <2>2, Worked
<1> QED BY <1>5, <1>6 DEF CheckDelivered, Record

\* The UPDATE that ends a delivery leaves no open row.
LEMMA SettledFits ==
    ASSUME TypeOK, TypeOK', OneOwner, Fits, "db" \notin Faults, NEW h \in Hands,
           MarkDelivered(h) \/ MarkFailed(h) \/ MarkRefused(h)
    PROVE  Fits'
<1> DEFINE x == hand[h].job
<1>1. hand[h].pc = "update" /\ Goto(h, "notify")
    BY DEF MarkDelivered, MarkFailed, MarkRefused
<1>2. x \in Events /\ TaskFits(h) /\ sent[x] <= MaxRetries + 1
    BY <1>1, Held
<1>3. /\ UNCHANGED redisVars /\ hooks' = hooks /\ ingest' = ingest
      /\ accepted' = accepted /\ sent' = sent
    BY DEF MarkDelivered, MarkFailed, MarkRefused, history
<1>4. /\ hand'[h].pc = "notify"
      /\ hand'[h].job = x
      /\ hand'[h].verdict = hand[h].verdict
      /\ \A g \in Hands \ {h} : hand'[g] = hand[g]
    BY <1>1, Moves
<1>5. PICK guarded \in BOOLEAN, s \in {"delivered", "failed"}, n \in Nat :
          UpdateRow(x, guarded, s, n)
  <2>1. retries[x] \in Nat /\ hand[h].tries \in Nat
      BY <1>2 DEF TypeOK, RowsOK, HandsOK, HandStates
  <2> QED BY <2>1 DEF MarkDelivered, MarkFailed, MarkRefused
<1>6. /\ \A f \in Events \ {x} : Eased(f)
      /\ \/ status'[x] = s
         \/ status'[x] = status[x] /\ status[x] \in {"none", "delivered"}
    BY <1>2, <1>3, <1>5, UpdateTakes
<1>7. TaskFits(h)'
    BY <1>2, <1>3, <1>4, <1>6 DEF TaskFits
<1> QED BY <1>1, <1>2, <1>3, <1>4, <1>6, <1>7, Worked

\* The UPDATE before a retry counts the POST, or finds no open row to count it
\* in; either way the budget allows another one.
LEMMA RetryingFits ==
    ASSUME TypeOK, TypeOK', OneOwner, Fits, "db" \notin Faults, NEW h \in Hands,
           MarkRetrying(h)
    PROVE  Fits'
<1> SUFFICES ASSUME NEW x, x = hand[h].job PROVE Fits'
    OBVIOUS
<1>1. /\ hand[h].pc = "update" /\ hand[h].tries < MaxRetries
      /\ hand[h].verdict \in Answers /\ hand[h].verdict # "ok"
      /\ Goto(h, "zadd")
    BY DEF MarkRetrying, Reschedules, Answers
<1>2. /\ x \in Events /\ TaskFits(h)
      /\ sent[x] \in Nat /\ sent[x] <= MaxRetries + 1
    BY <1>1, Held
<1>3. /\ UNCHANGED redisVars /\ hooks' = hooks /\ ingest' = ingest
      /\ accepted' = accepted /\ sent' = sent
    BY DEF MarkRetrying, history
<1>4. /\ hand'[h].pc = "zadd"
      /\ hand'[h].job = x
      /\ hand'[h].verdict = hand[h].verdict
      /\ \A g \in Hands \ {h} : hand'[g] = hand[g]
    BY <1>1, Moves
<1>5. /\ \A f \in Events \ {x} : Eased(f)
      /\ \/ status[x] # "none" /\ status'[x] = "retrying"
            /\ retries'[x] = hand[h].tries + 1
         \/ status'[x] = status[x] /\ status[x] \in {"none", "delivered"}
    BY <1>2, <1>3, UpdateTakes DEF MarkRetrying
<1>6. status[x] # "none" => sent[x] <= hand[h].tries + 1
    BY <1>1, <1>2 DEF TaskFits
<1>7. hand[h].tries + 1 <= MaxRetries /\ hand[h].tries \in Nat
    BY <1>1, DeliveryAssumption DEF TypeOK, HandsOK, HandStates
<1>8. Waiting(x)'
    BY <1>2, <1>3, <1>4, <1>5, <1>6, <1>7, DeliveryAssumption DEF Waiting
<1>9. TaskFits(h)'
    BY <1>1, <1>4, <1>8 DEF TaskFits
<1> QED BY <1>1, <1>2, <1>3, <1>4, <1>5, <1>9, Worked

\* The hooks are told, and the task lets go of the id.
LEMMA NotifyFits ==
    ASSUME TypeOK, TypeOK', OneOwner, Fits, NEW h \in Hands, Notify(h)
    PROVE  Fits'
<1> SUFFICES ASSUME NEW x \in Events, x = hand[h].job PROVE Fits'
    BY Held DEF Notify
<1> DEFINE X == {x}
<1>1. /\ hand[h].pc = "notify" /\ x \notin Members(queue) \cup retrySet
      /\ ingest[x] = "done" /\ hooks[x] = << >>
      /\ sent[x] <= MaxRetries + 1 /\ TaskFits(h)
      /\ \A g \in Hands \ {h} : hand[g].job # x
    BY Held DEF Notify
<1>2. /\ status[x] \notin {"queued", "retrying"}
      /\ hand[h].verdict = "ok" => x \in accepted
    BY <1>1 DEF TaskFits
<1>3. /\ queue' = queue /\ retrySet' = retrySet /\ sent' = sent
      /\ accepted' = accepted /\ status' = status /\ retries' = retries
      /\ ingest' = ingest
    BY DEF Notify, rowVars, redisVars
<1>4. \A g \in Hands : hand'[g] = IF g = h THEN IdleHand ELSE hand[g]
    BY DEF Notify, Release, TypeOK, HandsOK
<1>5. \A g \in Hands : hand'[g].job # x
    BY <1>1, <1>4, DeliveryAssumption DEF IdleHand
<1>6. hooks'[x] = <<IF hand[h].verdict = "ok" THEN "success" ELSE "failure">>
    BY <1>1 DEF Notify, TypeOK, HistoryOK
<1>7. EventFits(x)'
    BY <1>1, <1>2, <1>3, <1>5, <1>6 DEF EventFits
<1>8. \A f \in Events \ X : Eased(f)
    BY <1>3 DEF Notify, Eased, TypeOK, HistoryOK
<1>9. /\ X \in SUBSET Events /\ \A f \in X : EventFits(f)'
      /\ \A g \in Hands : hand'[g].job \notin X
    BY <1>5, <1>7
<1> HIDE DEF X
<1> QED BY <1>3, <1>4, <1>8, <1>9, Framed

\* Requests, retention, the clock and a crash: they ease events and remove ids.
LEMMA OthersFit ==
    ASSUME TypeOK, TypeOK', Fits, "retry" \notin Operations, "db" \notin Faults,
           NoReplay,
           \/ \E a \in Admins : Administer(a) \/ AbandonAdmin(a)
           \/ \E e \in Events : AbandonIngest(e) \/ BecomeDue(e) \/ Expire(e)
           \/ \E h \in Hands : FetchNothing(h)
           \/ Crash \/ UNCHANGED vars
    PROVE  Fits'
<1>1. ASSUME UNCHANGED <<status, retries, sent, hooks>>
      PROVE  \A e \in Events : Eased(e)
    BY <1>1, RowEased
<1>2. ASSUME NEW a \in Admins, Administer(a) PROVE Fits'
  <2>1. ~ (RetryReset(a) \/ RetryUnschedule(a) \/ RetryPush(a))
      BY DEF NoReplay, RetryReset, RetryUnschedule, RetryPush
  <2>2. \A e \in Events : ~ (RetryFind(a, e) \/ BulkReset(a, e))
      BY DEF RetryFind, BulkReset, Call
  <2>3. ASSUME ScrubQueue(a) \/ ScrubRetry(a) PROVE Fits'
    <3>1. Members(queue') \subseteq Members(queue) /\ retrySet' \subseteq retrySet
      <4>1. CASE ScrubQueue(a)
          BY <4>1, LremList DEF ScrubQueue, RedisWrite, redisVars, TypeOK, RedisOK
      <4>2. CASE ScrubRetry(a)
          BY <4>2 DEF ScrubRetry, RedisWrite, redisVars
      <4> QED BY <2>3, <4>1, <4>2
    <3>2. UNCHANGED <<rowVars, hand, ingest, history>>
        BY <2>3 DEF ScrubQueue, ScrubRetry
    <3> QED BY <1>1, <3>1, <3>2, Untouched DEF rowVars, history
  <2>4. ASSUME NEW e \in Events, Ack(a, e) \/ Delete(a, e) PROVE Fits'
    <3>1. /\ UNCHANGED redisVars /\ hand' = hand /\ ingest' = ingest
          /\ sent' = sent /\ hooks' = hooks /\ accepted' = accepted
        BY <2>4 DEF Ack, Delete, history
    <3>2. CASE Ack(a, e)
      <4>1. /\ \A f \in Events \ {e} : Eased(f)
            /\ \/ status[e] # "none" /\ status'[e] = "delivered"
               \/ status'[e] = "none"
          BY <3>1, <3>2, UpdateTakes DEF Ack
      <4>2. Eased(e)
          BY <3>1, <4>1 DEF Eased
      <4> QED BY <3>1, <4>1, <4>2, Untouched DEF redisVars
    <3>3. CASE Delete(a, e)
      <4>1. \A f \in Events : Eased(f)
          BY <3>1, <3>3, DropEases DEF Delete
      <4> QED BY <3>1, <4>1, Untouched DEF redisVars
    <3> QED BY <2>4, <3>2, <3>3
  <2> QED BY <1>2, <2>1, <2>2, <2>3, <2>4 DEF Administer
<1>3. ASSUME NEW e \in Events, Expire(e) PROVE Fits'
  <2>1. /\ UNCHANGED redisVars /\ hand' = hand /\ ingest' = ingest
        /\ sent' = sent /\ hooks' = hooks /\ accepted' = accepted
      BY <1>3 DEF Expire, history
  <2>2. \A f \in Events : Eased(f)
      BY <1>3, <2>1, DropEases DEF Expire
  <2> QED BY <2>1, <2>2, Untouched DEF redisVars
<1>4. ASSUME \/ \E e \in Events : AbandonIngest(e) \/ BecomeDue(e)
             \/ \E h \in Hands : FetchNothing(h)
             \/ \E a \in Admins : AbandonAdmin(a)
             \/ Crash \/ UNCHANGED vars
      PROVE  Fits'
  <2>1. UNCHANGED <<status, retries, sent, accepted, hooks, redisVars>>
      BY <1>4 DEF AbandonIngest, BecomeDue, FetchNothing, AbandonAdmin, Crash, vars,
         rowVars, redisVars, history
  <2>2. \A e \in Events : ingest'[e] # "done" => ingest[e] # "done"
      BY <1>4 DEF AbandonIngest, BecomeDue, FetchNothing, AbandonAdmin, Crash, vars,
         TypeOK
  <2>3. \A g \in Hands : hand'[g] = hand[g] \/ hand'[g] = IdleHand
      BY <1>4 DEF AbandonIngest, BecomeDue, FetchNothing, AbandonAdmin, Release, Crash,
         vars, TypeOK, HandsOK
  <2> QED BY <1>1, <2>1, <2>2, <2>3, Untouched DEF redisVars
<1> QED BY <1>2, <1>3, <1>4

-----------------------------------------------------------------------------
(***************************************************************************)
(* The theorems.                                                           *)
(***************************************************************************)

\* Every step keeps events and tasks in the state their places imply.
LEMMA FitsStep ==
    ASSUME TypeOK, OneOwner, Fits, "retry" \notin Operations, "db" \notin Faults,
           NoReplay, [Next]_vars
    PROVE  Fits'
<1>1. TypeOK'
    BY TypeStep
<1>2. ASSUME PutBack PROVE Fits'
  <2>1. hand[Retrier].pc = "putback" /\ Retrier \in Hands
      BY <1>2 DEF PutBack, Hands
  <2>2. Waiting(hand[Retrier].job)
      BY <2>1, Held DEF TaskFits
  <2> QED BY <1>1, <1>2, <2>1, <2>2, Returned DEF PutBack
<1>3. ASSUME NEW h \in Hands, Schedule(h) PROVE Fits'
  <2>1. hand[h].pc = "zadd"
      BY <1>3 DEF Schedule
  <2>2. Waiting(hand[h].job)
      BY <2>1, Held DEF TaskFits
  <2> QED BY <1>1, <1>3, <2>1, <2>2, Returned DEF Schedule
<1>4. ASSUME NEW h \in Hands, Deliver(h) PROVE Fits'
    BY <1>1, <1>3, <1>4, OthersFit, FetchFits, PostFits, AfterPostFits, SettledFits,
       RetryingFits, NotifyFits DEF Deliver
<1>5. ASSUME NEW e \in Events, Accept(e) \/ Enqueue(e) PROVE Fits'
    BY <1>1, <1>5, IngestFits
<1>6. ASSUME NEW w \in Workers, Brpop(w) PROVE Fits'
    BY <1>1, <1>6, BrpopFits
<1>7. ASSUME Zpopmin PROVE Fits'
    BY <1>1, <1>7, ZpopminFits
<1> QED BY <1>1, <1>2, <1>4, <1>5, <1>6, <1>7, OthersFit DEF Next

\* The invariant of both theorems.
LEMMA FitsAlways ==
    ASSUME "retry" \notin Operations, "db" \notin Faults
    PROVE  Spec => [](TypeOK /\ OneOwner /\ Fits)
<1>1. Init => Fits /\ NoReplay
  <2> SUFFICES ASSUME Init PROVE Fits /\ NoReplay
      OBVIOUS
  <2>1. \A h \in Hands : hand[h].pc = "idle"
      BY DEF Init, IdleHand
  <2>2. \A e \in Events : EventFits(e)
      BY DeliveryAssumption DEF Init, EventFits
  <2> QED BY <2>1, <2>2 DEF Fits, Init, NoReplay, IdleAdmin
<1>2. TypeOK /\ OneOwner /\ Fits /\ NoReplay /\ [Next]_vars => Fits' /\ NoReplay'
    BY FitsStep, NoReplayStep
<1> QED BY <1>1, <1>2, TypeCorrect, OwnerUnique, PTL DEF Spec

\* Unless an admin replays an event or an UPDATE fails, its target sees at most
\* MAX_RETRIES + 1 POSTs, although tasks decide by a retry_count they read
\* before the POST and acknowledgements make their UPDATE miss.
THEOREM BudgetKept ==
    ASSUME "retry" \notin Operations, "db" \notin Faults
    PROVE  Spec => []AttemptBudget
<1>1. Fits => AttemptBudget
    BY DEF Fits, EventFits, AttemptBudget
<1> QED BY <1>1, FitsAlways, PTL

\* Under the same conditions its hooks hear one outcome, success only of an
\* event the target processed, and nothing happens to the event after that.
THEOREM VerdictFinal ==
    ASSUME "retry" \notin Operations, "db" \notin Faults
    PROVE  Spec => []OneVerdict
<1>1. Fits => OneVerdict
  <2>1. /\ Len(<< >>) <= 1 /\ Len(<<"success">>) <= 1 /\ Len(<<"failure">>) <= 1
        /\ << >> # <<"success">> /\ <<"failure">> # <<"success">>
      OBVIOUS
  <2> QED BY <2>1 DEF Fits, EventFits, OneVerdict
<1> QED BY <1>1, FitsAlways, PTL

-----------------------------------------------------------------------------
(***************************************************************************)
(* The engine implements EventLifecycle, under every fault.                *)
(***************************************************************************)

\* Something may still be done for e.
Alive(e) ==
    \/ ingest[e] # "done"
    \/ e \in Members(queue) \cup retrySet
    \/ \E h \in Hands : hand[h].job = e /\ hand[h].pc \notin {"idle", "notify"}

\* Who works for an event works for one that has not failed.
FailedIsOver == \A e \in Events : Alive(e) => status[e] # "failed"

\* The retry_count a task read is still that of the row, if there is one.
CountsCurrent ==
    \A h \in Hands : hand[h].pc \in {"post", "check", "record", "update"} =>
        status[hand[h].job] = "none" \/ retries[hand[h].job] = hand[h].tries

\* Of the events that something is done for there are never more, or others.
LEMMA AliveStep ==
    ASSUME TypeOK, OneOwner, NoReplay, [Next]_vars, NEW e \in Events, Alive(e)'
    PROVE  Alive(e)
<1>1. ASSUME NEW x \in Events, Accept(x) \/ Enqueue(x) PROVE Alive(e)
  <2>1. hand' = hand /\ retrySet' = retrySet /\ ingest[x] # "done"
      BY <1>1 DEF Accept, Enqueue, RedisWrite, redisVars
  <2>2. CASE e = x
      BY <2>1, <2>2 DEF Alive
  <2>3. CASE e # x
    <3>1. Members(queue') \subseteq Members(queue) \cup {x}
        BY <1>1, LpushList DEF Accept, Enqueue, RedisWrite, redisVars, TypeOK, RedisOK
    <3>2. ingest'[e] = ingest[e]
        BY <1>1, <2>3 DEF Accept, Enqueue, TypeOK
    <3> QED BY <2>1, <2>3, <3>1, <3>2 DEF Alive
  <2> QED BY <2>2, <2>3
<1>2. ASSUME NEW w \in Workers, Brpop(w) PROVE Alive(e)
  <2>1. Members(queue) = Members(queue') \cup {BrpopId(queue)}
      BY <1>2, BrpopList DEF Brpop, TypeOK, RedisOK
  <2>2. /\ retrySet' = retrySet /\ ingest' = ingest
        /\ \A g \in Hands : hand'[g] = hand[g] \/ hand'[g].job = BrpopId(queue)
      BY <1>2 DEF Brpop, IdleHand, Hands, TypeOK, HandsOK
  <2> QED BY <2>1, <2>2 DEF Alive
<1>3. CASE Zpopmin
  <2>1. PICK x \in retrySet :
           \/ UNCHANGED hand
           \/ \E pc \in {"fetch", "putback"} :
                 hand' = [hand EXCEPT ![Retrier] = [IdleHand EXCEPT !.pc = pc, !.job = x]]
      BY <1>3 DEF Zpopmin
  <2>3. \A g \in Hands : hand'[g] = hand[g] \/ hand'[g].job = x
      BY <2>1 DEF IdleHand, Hands, TypeOK, HandsOK
  <2>2. retrySet' \subseteq retrySet /\ queue' = queue /\ ingest' = ingest
      BY <1>3 DEF Zpopmin
  <2> QED BY <2>2, <2>3 DEF Alive
<1>4. CASE PutBack
  <2>1. /\ hand[Retrier].pc = "putback" /\ Retrier \in Hands
        /\ queue' = queue /\ retrySet' \subseteq retrySet \cup {hand[Retrier].job}
        /\ ingest' = ingest
      BY <1>4 DEF PutBack, RedisWrite, redisVars, Hands
  <2>2. \A g \in Hands : hand'[g] = hand[g] \/ hand'[g].pc = "idle"
      BY <1>4 DEF PutBack, Release, IdleHand, TypeOK, HandsOK
  <2> QED BY <2>1, <2>2 DEF Alive
<1>5. ASSUME NEW h \in Hands, Deliver(h) PROVE Alive(e)
  <2>1. /\ queue' = queue /\ ingest' = ingest
        /\ retrySet' \subseteq retrySet \cup {hand[h].job}
        /\ retrySet' # retrySet => hand[h].pc = "zadd"
      BY <1>5 DEF Deliver, FetchNothing, FetchRow, Post, CheckDelivered, Record,
         MarkDelivered, MarkRetrying, MarkFailed, MarkRefused, Schedule, Notify,
         RedisWrite, redisVars
  <2>2. /\ \A g \in Hands \ {h} : hand'[g] = hand[g]
        /\ \/ hand'[h].pc \in {"idle", "notify"}
           \/ hand'[h].job = hand[h].job /\ hand[h].pc \notin {"idle", "notify"}
    <3>1. CASE \/ Release(h)
               \/ /\ \E pc \in HandPcs : Goto(h, pc)
                  /\ hand[h].pc \notin {"idle", "notify"}
        BY <3>1, Moves DEF Release, IdleHand, TypeOK, HandsOK
    <3>2. CASE FetchRow(h)
        BY <3>2 DEF FetchRow, TypeOK, HandsOK, HandStates
    <3>3. CASE Post(h)
        BY <3>3 DEF Post, TypeOK, HandsOK, HandStates
    <3> QED BY <1>5, <3>1, <3>2, <3>3 DEF Deliver, FetchNothing, CheckDelivered, Record,
               MarkDelivered, MarkRetrying, MarkFailed, MarkRefused, Schedule, Notify,
               HandPcs
  <2> QED BY <2>1, <2>2 DEF Alive
<1>6. ASSUME NEW a \in Admins, Administer(a) PROVE Alive(e)
  <2>1. ~ (RetryReset(a) \/ RetryUnschedule(a) \/ RetryPush(a))
      BY DEF NoReplay, RetryReset, RetryUnschedule, RetryPush
  <2>2. hand' = hand /\ ingest' = ingest
      BY <1>6, <2>1 DEF Administer, ScrubQueue, ScrubRetry, RetryFind, BulkReset, Ack,
         Delete
  <2>3. Members(queue') \subseteq Members(queue) /\ retrySet' \subseteq retrySet
    <3>1. CASE ScrubQueue(a)
        BY <3>1, LremList DEF ScrubQueue, RedisWrite, redisVars, TypeOK, RedisOK
    <3>2. CASE ~ ScrubQueue(a)
        BY <1>6, <2>1, <3>2 DEF Administer, ScrubRetry, RetryFind, BulkReset, Ack,
           Delete, RedisWrite, redisVars
    <3> QED BY <3>1, <3>2
  <2> QED BY <2>2, <2>3 DEF Alive
<1>7. CASE Crash
    BY <1>7 DEF Crash, IdleHand, redisVars, Alive
<1>8. ASSUME \/ UNCHANGED vars
             \/ \E x \in Events : AbandonIngest(x) \/ BecomeDue(x) \/ Expire(x)
             \/ \E a \in Admins : AbandonAdmin(a)
      PROVE  Alive(e)
    BY <1>8 DEF AbandonIngest, BecomeDue, Expire, AbandonAdmin, vars, redisVars, Alive,
       TypeOK
<1> QED BY <1>1, <1>2, <1>3, <1>4, <1>5, <1>6, <1>7, <1>8 DEF Next

\* Which steps change rows, and in what way, when nobody replays.
LEMMA RowMoves ==
    ASSUME TypeOK, NoReplay, [Next]_vars, "retry" \notin Operations
    PROVE  \/ /\ UNCHANGED <<status, retries>>
              /\ \A e \in Events : ingest'[e] = "new" <=> ingest[e] = "new"
           \/ \E e \in Events : Accept(e)
           \/ \E h \in Hands : \/ MarkDelivered(h) \/ MarkRetrying(h)
                               \/ MarkFailed(h) \/ MarkRefused(h)
           \/ \E a \in Admins, e \in Events : Ack(a, e)
           \/ \E e \in Events : /\ status[e] # "none"
                                /\ DropRow(e)
                                /\ UNCHANGED <<hand, ingest>>
<1>1. ASSUME NEW a \in Admins, Administer(a),
             \A e \in Events : ~ Ack(a, e) /\ ~ Delete(a, e)
      PROVE  UNCHANGED <<status, retries, ingest>>
  <2>1. ~ (RetryReset(a) \/ RetryUnschedule(a) \/ RetryPush(a))
      BY DEF NoReplay, RetryReset, RetryUnschedule, RetryPush
  <2>2. \A e \in Events : ~ (RetryFind(a, e) \/ BulkReset(a, e))
      BY DEF RetryFind, BulkReset, Call
  <2> QED BY <1>1, <2>1, <2>2 DEF Administer, ScrubQueue, ScrubRetry, rowVars
<1>2. ASSUME NEW h \in Hands, Deliver(h),
             ~ (MarkDelivered(h) \/ MarkRetrying(h) \/ MarkFailed(h) \/ MarkRefused(h))
      PROVE  UNCHANGED <<status, retries, ingest>>
    BY <1>2 DEF Deliver, FetchNothing, FetchRow, Post, CheckDelivered, Record, Schedule,
                Notify, rowVars
<1>3. ASSUME \/ Zpopmin \/ PutBack \/ UNCHANGED vars
             \/ \E w \in Workers : Brpop(w)
             \/ \E e \in Events : BecomeDue(e)
             \/ \E a \in Admins : AbandonAdmin(a)
      PROVE  UNCHANGED <<status, retries, ingest>>
    BY <1>3 DEF Zpopmin, PutBack, Brpop, BecomeDue, AbandonAdmin, vars, rowVars
<1>4. ASSUME Crash \/ \E e \in Events : Enqueue(e) \/ AbandonIngest(e)
      PROVE  /\ UNCHANGED <<status, retries>>
             /\ \A e \in Events : ingest'[e] = "new" <=> ingest[e] = "new"
    BY <1>4 DEF Crash, Enqueue, AbandonIngest, rowVars, TypeOK
<1>5. ASSUME \/ \E e \in Events : Expire(e)
             \/ \E a \in Admins, e \in Events : Delete(a, e)
      PROVE  \E e \in Events : /\ status[e] # "none"
                               /\ DropRow(e)
                               /\ UNCHANGED <<hand, ingest>>
    BY <1>5 DEF Expire, Delete
<1> QED BY <1>1, <1>2, <1>3, <1>4, <1>5 DEF Next

\* The UPDATE of a verdict concerns the row of the event the task holds.
LEMMA MarkMoves ==
    ASSUME TypeOK, NEW h \in Hands,
           MarkDelivered(h) \/ MarkRetrying(h) \/ MarkFailed(h) \/ MarkRefused(h)
    PROVE  /\ hand[h].pc = "update" /\ hand[h].job \in Events
           /\ UNCHANGED <<ingest, redisVars>>
           /\ \A e \in Events \ {hand[h].job} :
                 status'[e] = status[e] /\ retries'[e] = retries[e]
           /\ hand'[h].pc = IF MarkRetrying(h) THEN "zadd" ELSE "notify"
           /\ hand'[h].job = hand[h].job
           /\ \A g \in Hands \ {h} : hand'[g] = hand[g]
<1>1. hand[h].pc = "update"
    BY DEF MarkDelivered, MarkRetrying, MarkFailed, MarkRefused
<1>2. hand[h].job \in Events
    BY <1>1, HandIs DEF TypeOK
<1>3. UNCHANGED <<ingest, redisVars>>
    BY DEF MarkDelivered, MarkRetrying, MarkFailed, MarkRefused
<1>4. \E s, n : \/ UpdateRow(hand[h].job, TRUE, s, n)
                \/ UpdateRow(hand[h].job, FALSE, s, n)
    BY DEF MarkDelivered, MarkRetrying, MarkFailed, MarkRefused
<1>5. \A e \in Events \ {hand[h].job} : status'[e] = status[e] /\ retries'[e] = retries[e]
    BY <1>4 DEF UpdateRow, TypeOK, RowsOK
<1>6. Goto(h, IF MarkRetrying(h) THEN "zadd" ELSE "notify")
    BY DEF MarkDelivered, MarkRetrying, MarkFailed, MarkRefused, Reschedules, Exhausts,
       Refusals
<1> QED BY <1>1, <1>2, <1>3, <1>5, <1>6, Moves

\* Nobody works for an event after it failed: the task that fails it lets go.
LEMMA FailedIsOverStep ==
    ASSUME TypeOK, OneOwner, NoReplay, FailedIsOver, UnsentHaveNoRow, [Next]_vars,
           "retry" \notin Operations
    PROVE  FailedIsOver'
<1> SUFFICES ASSUME NEW e \in Events, Alive(e)', status'[e] = "failed" PROVE FALSE
    BY DEF FailedIsOver
<1>1. status[e] # "failed"
    BY AliveStep DEF FailedIsOver
<1>2. ASSUME NEW h \in Hands, hand[h].job = e,
             MarkDelivered(h) \/ MarkRetrying(h) \/ MarkFailed(h) \/ MarkRefused(h)
      PROVE  FALSE
  <2>1. ~ MarkRetrying(h)
    <3>1. ASSUME MarkRetrying(h) PROVE status'[e] # "failed"
        BY <1>1, <1>2, <3>1 DEF MarkRetrying, UpdateRow, TypeOK, RowsOK
    <3> QED BY <3>1
  <2>2. /\ hand'[h].pc = "notify" /\ hand'[h].job = e
        /\ UNCHANGED <<ingest, redisVars>>
        /\ \A g \in Hands \ {h} : hand'[g] = hand[g]
      BY <1>2, <2>1, MarkMoves
  <2>3. /\ ingest[e] = "done" /\ e \notin Members(queue) \cup retrySet
        /\ \A g \in Hands \ {h} : hand[g].job # e
      BY <1>2, DeliveryAssumption DEF OneOwner
  <2> QED BY <2>2, <2>3 DEF Alive, redisVars
<1>3. ASSUME NEW x \in Events, Accept(x) PROVE FALSE
    BY <1>1, <1>3 DEF Accept, TypeOK, RowsOK
<1>4. ASSUME NEW a \in Admins, NEW x \in Events, Ack(a, x) PROVE FALSE
    BY <1>1, <1>4 DEF Ack, UpdateRow, TypeOK, RowsOK
<1>5. ASSUME NEW x \in Events, DropRow(x) PROVE FALSE
    BY <1>1, <1>5 DEF DropRow, TypeOK, RowsOK
<1>6. ASSUME NEW h \in Hands,
             MarkDelivered(h) \/ MarkRetrying(h) \/ MarkFailed(h) \/ MarkRefused(h)
      PROVE  FALSE
    BY <1>1, <1>2, <1>6, MarkMoves
<1> QED BY <1>1, <1>3, <1>4, <1>5, <1>6, RowMoves

\* Between the SELECT and the UPDATE of its owner nobody else counts a retry.
LEMMA CountsCurrentStep ==
    ASSUME TypeOK, OneOwner, NoReplay, CountsCurrent, [Next]_vars,
           "retry" \notin Operations
    PROVE  CountsCurrent'
<1> DEFINE Reading == {"post", "check", "record", "update"}
<1> SUFFICES ASSUME NEW h \in Hands, hand'[h].pc \in Reading,
                    NEW e, e = hand'[h].job, e \in Events
             PROVE  status'[e] = "none" \/ retries'[e] = hand'[h].tries
  <2>1. \A h \in Hands : hand'[h].pc \in Reading => hand'[h].job \in Events
      BY TypeStep DEF TypeOK, HandsOK
  <2> QED BY <2>1 DEF CountsCurrent
<1>1. \/ hand'[h] = hand[h]
      \/ FetchRow(h)
      \/ Post(h) \/ CheckDelivered(h) \/ Record(h)
  <2>1. ASSUME NEW g \in Hands, Deliver(g), g # h PROVE hand'[h] = hand[h]
      BY <2>1 DEF Deliver, FetchNothing, FetchRow, Post, CheckDelivered, Record,
         MarkDelivered, MarkRetrying, MarkFailed, MarkRefused, Schedule, Notify, Goto,
         Release, TypeOK, HandsOK
  <2>2. ASSUME Deliver(h) PROVE FetchRow(h) \/ Post(h) \/ CheckDelivered(h) \/ Record(h)
    <3>1. ~ (Release(h) \/ Goto(h, "zadd") \/ Goto(h, "notify"))
        BY Moves DEF Release, IdleHand, TypeOK, HandsOK
    <3> QED BY <2>2, <3>1 DEF Deliver, FetchNothing, MarkDelivered, MarkRetrying,
               MarkFailed, MarkRefused, Schedule, Notify
  <2>3. ASSUME NEW a \in Admins, Administer(a) PROVE hand' = hand
      BY <2>3 DEF Administer, RetryReset, RetryUnschedule, RetryPush, ScrubQueue,
                  ScrubRetry, RetryFind, BulkReset, Ack, Delete
  <2>4. ASSUME NEW w \in Workers, Brpop(w) PROVE hand'[h] = hand[h]
      BY <2>4 DEF Brpop, IdleHand, Hands, TypeOK, HandsOK
  <2>5. ASSUME Zpopmin PROVE hand'[h] = hand[h]
    <3>1. \/ UNCHANGED hand
          \/ \E pc \in {"fetch", "putback"}, x \in retrySet :
                hand' = [hand EXCEPT ![Retrier] = [IdleHand EXCEPT !.pc = pc, !.job = x]]
        BY <2>5 DEF Zpopmin
    <3> QED BY <3>1 DEF IdleHand, Hands, TypeOK, HandsOK
  <2>6. ASSUME PutBack PROVE hand'[h] = hand[h]
      BY <2>6 DEF PutBack, Release, IdleHand, Hands, TypeOK, HandsOK
  <2>7. ~ Crash
      BY DEF Crash, IdleHand
  <2>8. ASSUME \/ UNCHANGED vars
               \/ \E x \in Events : \/ Accept(x) \/ Enqueue(x) \/ AbandonIngest(x)
                                  \/ BecomeDue(x) \/ Expire(x)
               \/ \E a \in Admins : AbandonAdmin(a)
        PROVE  hand' = hand
      BY <2>8 DEF Accept, Enqueue, AbandonIngest, BecomeDue, Expire, AbandonAdmin, vars
  <2> QED BY <2>1, <2>2, <2>3, <2>4, <2>5, <2>6, <2>7, <2>8 DEF Next
<1>2. CASE FetchRow(h)
  <2>1. hand'[h].job = hand[h].job /\ hand'[h].tries = retries[hand[h].job]
      BY <1>2 DEF FetchRow, TypeOK, HandsOK, HandStates
  <2> QED BY <1>2, <2>1 DEF FetchRow, rowVars
<1>3. CASE Post(h) \/ CheckDelivered(h) \/ Record(h)
  <2>1. UNCHANGED <<status, retries>> /\ hand[h].pc \in Reading
      BY <1>3 DEF Post, CheckDelivered, Record, rowVars
  <2>2. hand'[h].job = hand[h].job /\ hand'[h].tries = hand[h].tries
    <3>1. CASE Post(h)
        BY <3>1 DEF Post, TypeOK, HandsOK, HandStates
    <3>2. CASE Release(h)
        BY <3>2 DEF Release, IdleHand, TypeOK, HandsOK
    <3>3. CASE \E pc \in {"record", "update"} : Goto(h, pc)
        BY <3>3, Moves
    <3> QED BY <1>3, <3>1, <3>2, <3>3 DEF CheckDelivered, Record
  <2> QED BY <2>1, <2>2 DEF CountsCurrent
<1>4. CASE hand'[h] = hand[h]
  <2>1. status[e] = "none" \/ retries[e] = hand[h].tries
      BY <1>4 DEF CountsCurrent
  <2>2. ASSUME NEW x \in Events, Accept(x)
        PROVE  status'[e] = status[e] /\ retries' = retries
    <3>1. x # e
        BY <1>4, <2>2, DeliveryAssumption DEF Accept, OneOwner
    <3> QED BY <2>2, <3>1 DEF Accept, TypeOK, RowsOK
  <2>3. ASSUME NEW g \in Hands,
               MarkDelivered(g) \/ MarkRetrying(g) \/ MarkFailed(g) \/ MarkRefused(g)
        PROVE  status'[e] = status[e] /\ retries'[e] = retries[e]
    <3>1. g # h
        BY <1>4, <2>3, MarkMoves
    <3>2. hand[g].job # e
        BY <1>4, <2>3, <3>1, MarkMoves, DeliveryAssumption DEF OneOwner
    <3> QED BY <2>3, <3>2, MarkMoves
  <2>4. ASSUME NEW a \in Admins, NEW x \in Events, Ack(a, x)
        PROVE  \/ status'[e] = "none"
               \/ status[e] # "none" /\ retries'[e] = retries[e]
      BY <2>4 DEF Ack, UpdateRow, TypeOK, RowsOK
  <2>5. ASSUME NEW x \in Events, DropRow(x)
        PROVE  \/ status'[e] = "none"
               \/ status'[e] = status[e] /\ retries'[e] = retries[e]
      BY <2>5 DEF DropRow, TypeOK, RowsOK
  <2> QED BY <1>4, <2>1, <2>2, <2>3, <2>4, <2>5, RowMoves
<1> QED BY <1>1, <1>2, <1>3, <1>4

\* Every step is a step of the lifecycle or leaves what it shows alone.
LEMMA LifecycleStep ==
    ASSUME TypeOK, OneOwner, NoReplay, RefusalsFounded, FailedIsOver, CountsCurrent,
           [Next]_vars, "retry" \notin Operations
    PROVE  [Lifecycle!Next]_(Lifecycle!lifecycle)
<1> DEFINE Born == {e \in Events : ingest[e] # "new"}
<1>1. ASSUME UNCHANGED <<status, retries>>, Born' = Born
      PROVE  UNCHANGED Lifecycle!lifecycle
    BY <1>1 DEF Lifecycle!lifecycle
<1>2. ASSUME NEW e \in Events, Accept(e) PROVE Lifecycle!Next
  <2>1. e \notin Born /\ Born' = Born \cup {e}
      BY <1>2 DEF Accept, TypeOK
  <2>2. Lifecycle!Accept(e)
      BY <1>2, <2>1 DEF Accept, Lifecycle!Accept, Lifecycle!Become
  <2> QED BY <2>2 DEF Lifecycle!Next
<1>3. ASSUME NEW e \in Events, status[e] # "none", DropRow(e), ingest' = ingest
      PROVE  Lifecycle!Next
  <2>1. Lifecycle!Remove(e)
      BY <1>3 DEF DropRow, Lifecycle!Remove, Lifecycle!Live, Lifecycle!Become
  <2> QED BY <2>1 DEF Lifecycle!Next
<1>4. ASSUME NEW a \in Admins, NEW e \in Events, Ack(a, e)
      PROVE  [Lifecycle!Next]_(Lifecycle!lifecycle)
  <2>1. Born' = Born
      BY <1>4 DEF Ack
  <2>2. CASE UNCHANGED <<status, retries>>
      BY <1>1, <2>1, <2>2
  <2>3. CASE ~ UNCHANGED <<status, retries>>
    <3>1. /\ status[e] # "none"
          /\ status' = [status EXCEPT ![e] = "delivered"]
          /\ retries' = retries
        BY <1>4, <2>3 DEF Ack, UpdateRow, TypeOK, RowsOK
    <3>2. Lifecycle!Acknowledge(e)
        BY <2>1, <3>1 DEF Lifecycle!Acknowledge, Lifecycle!Live, Lifecycle!Become
    <3> QED BY <3>2 DEF Lifecycle!Next
  <2> QED BY <2>2, <2>3
<1>5. ASSUME NEW h \in Hands,
             MarkDelivered(h) \/ MarkRetrying(h) \/ MarkFailed(h) \/ MarkRefused(h)
      PROVE  [Lifecycle!Next]_(Lifecycle!lifecycle)
  <2> SUFFICES ASSUME NEW e \in Events, e = hand[h].job,
                      ~ UNCHANGED <<status, retries>>
               PROVE  Lifecycle!Next
    <3>1. hand[h].job \in Events /\ Born' = Born
        BY <1>5, MarkMoves
    <3> QED BY <1>1, <3>1
  <2>1. hand[h].pc = "update" /\ ingest' = ingest
      BY <1>5, MarkMoves
  <2>2. status[e] \notin {"none", "failed", "delivered"} => Lifecycle!Open(e)
      BY DEF Lifecycle!Open, TypeOK, RowsOK, Statuses
  <2>3. /\ status[e] # "failed"
        /\ status[e] # "none" => retries[e] = hand[h].tries
    <3>1. Alive(e)
        BY <2>1 DEF Alive
    <3> QED BY <2>1, <3>1 DEF FailedIsOver, CountsCurrent
  <2>4. retries \in [Events -> Nat]
      BY DEF TypeOK, RowsOK
  <2>5. CASE MarkDelivered(h) \/ MarkFailed(h)
    <3>1. /\ status[e] \notin {"none", "delivered"}
          /\ \E s \in {"delivered", "failed"} : status' = [status EXCEPT ![e] = s]
          /\ retries' = [retries EXCEPT ![e] = retries[e]]
        BY <2>3, <2>5 DEF MarkDelivered, MarkFailed, UpdateRow
    <3>2. retries' = retries
        BY <2>4, <3>1
    <3>3. Lifecycle!Settle(e)
        BY <2>1, <2>2, <2>3, <3>1, <3>2 DEF Lifecycle!Settle, Lifecycle!Become
    <3> QED BY <3>3 DEF Lifecycle!Next
  <2>6. CASE MarkRetrying(h)
    <3>1. /\ status[e] \notin {"none", "delivered"}
          /\ status' = [status EXCEPT ![e] = "retrying"]
          /\ retries' = [retries EXCEPT ![e] = hand[h].tries + 1]
          /\ hand[h].tries < MaxRetries
        BY <2>6 DEF MarkRetrying, Reschedules, UpdateRow
    <3>2. Lifecycle!Reschedule(e)
        BY <2>1, <2>2, <2>3, <3>1 DEF Lifecycle!Reschedule, Lifecycle!Become
    <3> QED BY <3>2 DEF Lifecycle!Next
  <2>7. CASE MarkRefused(h)
    <3>1. /\ status[e] # "none"
          /\ status' = [status EXCEPT ![e] = "failed"]
          /\ retries' = [retries EXCEPT ![e] = retries[e]]
        BY <2>7 DEF MarkRefused, UpdateRow
    <3>2. retries' = retries
        BY <2>4, <3>1
    <3>3. e \in IF "dns" \in Faults THEN Events ELSE NoTarget \cup Blocked
        BY <2>7 DEF MarkRefused, RefusalsFounded, Refusable
    <3>4. Lifecycle!Refuse(e)
        BY <2>1, <3>1, <3>2, <3>3 DEF Lifecycle!Refuse, Lifecycle!Live, Lifecycle!Become
    <3> QED BY <3>4 DEF Lifecycle!Next
  <2> QED BY <1>5, <2>5, <2>6, <2>7
<1>6. CASE /\ UNCHANGED <<status, retries>>
           /\ \A e \in Events : ingest'[e] = "new" <=> ingest[e] = "new"
    BY <1>1, <1>6
<1> QED BY <1>2, <1>3, <1>4, <1>5, <1>6, RowMoves

\* Unless an admin replays an event, everything the dashboard can show of it
\* follows EventLifecycle: retries counted one by one up to the limit, one
\* outcome, refusals only of URLs that can be refused, whatever the faults.
THEOREM LifecycleImplemented ==
    ASSUME "retry" \notin Operations
    PROVE  Spec => ImplementsLifecycle
<1> DEFINE Inv == /\ NoReplay /\ RefusalsFounded /\ UnsentHaveNoRow
                  /\ FailedIsOver /\ CountsCurrent
<1>1. Init => Inv /\ Lifecycle!Init
  <2> SUFFICES ASSUME Init PROVE Inv /\ Lifecycle!Init
      OBVIOUS
  <2>1. \A h \in Hands : hand[h].pc = "idle" /\ hand[h].verdict \notin Refusals
      BY DEF Init, IdleHand, Refusals
  <2>2. Inv
      BY <2>1 DEF Init, IdleAdmin, NoReplay, RefusalsFounded, UnsentHaveNoRow,
         FailedIsOver, CountsCurrent
  <2>3. Lifecycle!Init
      BY DEF Init, Lifecycle!Init
  <2> QED BY <2>2, <2>3
<1>2. TypeOK /\ OneOwner /\ Inv /\ [Next]_vars => Inv'
    BY NoReplayStep, RefusalsFoundedStep, StatusStep, FailedIsOverStep, CountsCurrentStep
<1>3. TypeOK /\ OneOwner /\ Inv /\ [Next]_vars => [Lifecycle!Next]_(Lifecycle!lifecycle)
    BY LifecycleStep
<1> QED BY <1>1, <1>2, <1>3, TypeCorrect, OwnerUnique, PTL
        DEF Spec, ImplementsLifecycle, Lifecycle!Spec

-----------------------------------------------------------------------------
(***************************************************************************)
(* Custody, with replays: an id may be in many places now, and the question *)
(* is whether it can be in none.  It can with two requests that interfere  *)
(* (the LREM of an acknowledgement takes what a replay has just pushed), and *)
(* with one if a lookup fails (the refusal re-opens an acknowledged event  *)
(* to a second task, whose ZADD the acknowledgement takes away), so either *)
(* there is one request at a time and lookups succeed, or nobody replays.  *)
(***************************************************************************)

NoInterference ==
    "retry" \in Operations => "dns" \notin Faults /\ \A a, b \in Admins : a = b

\* What is known of the ids where nobody replays.
WithoutReplays == "retry" \notin Operations => NoReplay /\ OneOwner /\ FailedIsOver

Open(e) == status[e] \in {"queued", "retrying"}

\* Somebody still has the id of e and will act on it, unless it was cut off.
Remembered(e) ==
    \/ e \in Members(queue) \cup retrySet
    \/ ingest[e] = "pushing"
    \/ \E h \in Hands : hand[h].job = e /\ hand[h].pc \notin {"idle", "notify"}
    \/ \E a \in Admins : Pushes(a, e)
    \/ e \in dropped

NothingForgotten == \A e \in Events : Open(e) => Remembered(e)

\* Only an event with a URL that is not refused is ever posted.
PostsFounded ==
    \A h \in Hands : hand[h].pc = "post" \/ hand[h].verdict \in Answers =>
        hand[h].job \notin NoTarget \cup Blocked

\* A request that scrubs Redis does so for an event that is closed and will
\* not be opened: what failed afterwards is replayed by nobody, or failed for
\* its URL.
Final(e) == "retry" \notin Operations \/ e \in NoTarget \cup Blocked
ScrubsClosed ==
    \A a \in Admins : admin[a].pc \in {"scrubQueue", "scrubRetry"} =>
        /\ ingest[admin[a].job] # "new"
        /\ ~ Open(admin[a].job)
        /\ status[admin[a].job] = "failed" => Final(admin[a].job)

\* Posts stay founded: FetchRow decides, nothing after it does.
LEMMA PostsFoundedStep ==
    ASSUME TypeOK, PostsFounded, [Next]_vars
    PROVE  PostsFounded'
<1>1. ASSUME UNCHANGED hand PROVE PostsFounded'
    BY <1>1 DEF PostsFounded
<1>2. ASSUME NEW h \in Hands, NEW pc, pc # "post", Goto(h, pc) PROVE PostsFounded'
    BY <1>2, Moves DEF PostsFounded
<1>3. ASSUME NEW h \in Hands, NEW r, hand' = [hand EXCEPT ![h] = r],
             r.pc # "post" /\ r.verdict \notin Answers
      PROVE  PostsFounded'
    BY <1>3 DEF PostsFounded, TypeOK, HandsOK
<1>4. ASSUME NEW h \in Hands, Release(h) PROVE PostsFounded'
  <2>1. IdleHand.pc # "post" /\ IdleHand.verdict \notin Answers
      BY DEF IdleHand, Answers
  <2> QED BY <1>3, <1>4, <2>1 DEF Release
<1>5. ASSUME NEW h \in Hands, FetchRow(h) PROVE PostsFounded'
  <2>1. \A g \in Hands \ {h} : hand'[g] = hand[g]
      BY <1>5 DEF FetchRow, TypeOK, HandsOK
  <2>2. hand'[h].job = hand[h].job /\ hand'[h].verdict \notin Answers
      BY <1>5 DEF FetchRow, Answers, TypeOK, HandsOK, HandStates
  <2>3. hand'[h].pc = "post" => hand[h].job \notin NoTarget \cup Blocked
      BY <1>5 DEF FetchRow, TypeOK, HandsOK, HandStates
  <2> QED BY <2>1, <2>2, <2>3 DEF PostsFounded
<1>6. ASSUME NEW h \in Hands, Post(h) PROVE PostsFounded'
  <2>1. \A g \in Hands \ {h} : hand'[g] = hand[g]
      BY <1>6 DEF Post, TypeOK, HandsOK
  <2>2. hand'[h].job = hand[h].job /\ hand[h].pc = "post"
      BY <1>6 DEF Post, TypeOK, HandsOK, HandStates
  <2> QED BY <2>1, <2>2 DEF PostsFounded
<1>7. ASSUME NEW h \in Hands,
             \/ FetchNothing(h) \/ CheckDelivered(h) \/ Record(h) \/ MarkDelivered(h)
             \/ MarkRetrying(h) \/ MarkFailed(h) \/ MarkRefused(h)
             \/ Schedule(h) \/ Notify(h)
      PROVE  PostsFounded'
  <2>1. Release(h) \/ \E pc \in HandPcs \ {"post"} : Goto(h, pc)
      BY <1>7 DEF FetchNothing, CheckDelivered, Record, MarkDelivered, MarkRetrying,
                  MarkFailed, MarkRefused, Schedule, Notify, HandPcs
  <2> QED BY <1>2, <1>4, <2>1
<1>8. ASSUME NEW w \in Workers, Brpop(w) PROVE PostsFounded'
  <2> DEFINE r == [IdleHand EXCEPT !.pc = "fetch", !.job = BrpopId(queue)]
  <2>1. r.pc # "post" /\ r.verdict \notin Answers
      BY DEF IdleHand, Answers
  <2> QED BY <1>1, <1>3, <1>8, <2>1 DEF Brpop, Hands
<1>9. CASE Zpopmin
  <2>1. ASSUME NEW e \in retrySet, NEW pc \in {"fetch", "putback"}
        PROVE  /\ [IdleHand EXCEPT !.pc = pc, !.job = e].pc # "post"
               /\ [IdleHand EXCEPT !.pc = pc, !.job = e].verdict \notin Answers
      BY DEF IdleHand, Answers
  <2>2. ASSUME NEW e \in retrySet, NEW pc \in {"fetch", "putback"},
               hand' = [hand EXCEPT ![Retrier] = [IdleHand EXCEPT !.pc = pc, !.job = e]]
        PROVE  PostsFounded'
      BY <1>3, <2>1, <2>2 DEF Hands
  <2> QED BY <1>1, <1>9, <2>2 DEF Zpopmin
<1>10. CASE PutBack
    BY <1>4, <1>10 DEF PutBack, Hands
<1>11. CASE Crash
    BY <1>11 DEF Crash, IdleHand, Answers, PostsFounded
<1>12. ASSUME NEW a \in Admins, Administer(a) PROVE UNCHANGED hand
    BY <1>12 DEF Administer, RetryReset, RetryUnschedule, RetryPush, ScrubQueue,
                 ScrubRetry, RetryFind, BulkReset, Ack, Delete
<1>13. ASSUME \/ UNCHANGED vars
              \/ \E e \in Events : \/ Accept(e) \/ Enqueue(e) \/ AbandonIngest(e)
                                 \/ BecomeDue(e) \/ Expire(e)
              \/ \E a \in Admins : AbandonAdmin(a)
       PROVE  UNCHANGED hand
    BY <1>13 DEF Accept, Enqueue, AbandonIngest, BecomeDue, Expire, AbandonAdmin, vars
<1> QED BY <1>1, <1>5, <1>6, <1>7, <1>8, <1>9, <1>10, <1>11, <1>12, <1>13
           DEF Next, Deliver

\* What a step may make of the status of an event.
LEMMA StatusMoves ==
    ASSUME TypeOK, RefusalsFounded, Faults \subseteq {"dns"}, [Next]_vars, NEW e \in Events
    PROVE  \/ status'[e] \in {status[e], "none", "delivered"}
           \/ ingest[e] = "new"
           \/ \E h \in Hands : /\ MarkRetrying(h) \/ MarkFailed(h)
                               /\ hand[h].job = e /\ hand[h].verdict \in Answers
                               /\ status[e] \notin {"none", "delivered"}
           \/ status'[e] = "failed" /\ status[e] # "none" /\ Refusable(e)
           \/ \E a \in Admins : /\ RetryReset(a) \/ BulkReset(a, e)
                                /\ admin'[a] = [pc |-> "unschedule", job |-> e]
<1> DEFINE Goal == \/ status'[e] \in {status[e], "none", "delivered"}
                   \/ ingest[e] = "new"
                   \/ \E h \in Hands : /\ MarkRetrying(h) \/ MarkFailed(h)
                                       /\ hand[h].job = e /\ hand[h].verdict \in Answers
                                       /\ status[e] \notin {"none", "delivered"}
                   \/ status'[e] = "failed" /\ status[e] # "none" /\ Refusable(e)
                   \/ \E a \in Admins : /\ RetryReset(a) \/ BulkReset(a, e)
                                        /\ admin'[a] = [pc |-> "unschedule", job |-> e]
<1>1. ASSUME UNCHANGED status PROVE Goal
    BY <1>1
<1>2. ASSUME NEW x \in Events, NEW s, NEW n, UpdateRow(x, TRUE, s, n)
      PROVE  \/ status'[e] = status[e]
             \/ x = e /\ status'[e] = s /\ status[e] \notin {"none", "delivered"}
    BY <1>2 DEF UpdateRow, TypeOK, RowsOK
<1>3. ASSUME NEW x \in Events, NEW s, NEW n, UpdateRow(x, FALSE, s, n)
      PROVE  status'[e] = status[e] \/ (x = e /\ status'[e] = s /\ status[e] # "none")
    BY <1>3 DEF UpdateRow, TypeOK, RowsOK
<1>4. ASSUME NEW x \in Events, DropRow(x) PROVE Goal
    BY <1>4 DEF DropRow, TypeOK, RowsOK
<1>5. ASSUME NEW h \in Hands, Deliver(h) PROVE Goal
  <2>1. CASE MarkDelivered(h)
      BY <1>2, <2>1, HandIs DEF MarkDelivered, TypeOK
  <2>2. CASE MarkRetrying(h) \/ MarkFailed(h)
    <3>1. hand[h].job \in Events /\ hand[h].verdict \in Answers
        BY <2>2, HandIs DEF MarkRetrying, MarkFailed, Reschedules, Exhausts, Answers, TypeOK
    <3>2. \E s, n : UpdateRow(hand[h].job, TRUE, s, n)
        BY <2>2 DEF MarkRetrying, MarkFailed
    <3> QED BY <1>2, <2>2, <3>1, <3>2
  <2>3. CASE MarkRefused(h)
    <3>1. hand[h].job \in Events /\ Refusable(hand[h].job)
        BY <2>3, HandIs DEF MarkRefused, RefusalsFounded, TypeOK
    <3> QED BY <1>3, <2>3, <3>1 DEF MarkRefused
  <2>4. ASSUME \/ FetchNothing(h) \/ FetchRow(h) \/ Post(h) \/ CheckDelivered(h)
               \/ Record(h) \/ Schedule(h) \/ Notify(h)
        PROVE  Goal
      BY <1>1, <2>4 DEF FetchNothing, FetchRow, Post, CheckDelivered, Record, Schedule,
                        Notify, rowVars
  <2> QED BY <1>5, <2>1, <2>2, <2>3, <2>4 DEF Deliver
<1>6. ASSUME NEW a \in Admins, Administer(a) PROVE Goal
  <2>1. CASE RetryReset(a)
    <3>1. \/ UNCHANGED status
          \/ /\ \A f \in Events \ {admin[a].job} : status'[f] = status[f]
             /\ admin'[a] = [pc |-> "unschedule", job |-> admin[a].job]
        BY <2>1 DEF RetryReset, AdminAt, TypeOK, RowsOK, AdminsOK
    <3> QED BY <2>1, <3>1
  <2>2. ASSUME NEW x \in Events, BulkReset(a, x) PROVE Goal
    <3>1. /\ \A f \in Events \ {x} : status'[f] = status[f]
          /\ admin'[a] = [pc |-> "unschedule", job |-> x]
        BY <2>2 DEF BulkReset, AdminAt, TypeOK, RowsOK, AdminsOK
    <3> QED BY <2>2, <3>1
  <2>3. ASSUME NEW x \in Events, Ack(a, x) PROVE Goal
      BY <1>3, <2>3 DEF Ack
  <2>4. ASSUME NEW x \in Events, Delete(a, x) PROVE Goal
      BY <1>4, <2>4 DEF Delete
  <2>5. ASSUME \/ RetryUnschedule(a) \/ RetryPush(a) \/ ScrubQueue(a) \/ ScrubRetry(a)
               \/ \E x \in Events : RetryFind(a, x)
        PROVE  Goal
      BY <1>1, <2>5 DEF RetryUnschedule, RetryPush, ScrubQueue, ScrubRetry, RetryFind,
                        rowVars
  <2> QED BY <1>6, <2>1, <2>2, <2>3, <2>4, <2>5 DEF Administer
<1>7. ASSUME NEW x \in Events, Accept(x) PROVE Goal
    BY <1>7 DEF Accept, TypeOK, RowsOK
<1>8. ASSUME NEW x \in Events, Expire(x) PROVE Goal
    BY <1>4, <1>8 DEF Expire
<1>9. ASSUME \/ Zpopmin \/ PutBack \/ Crash \/ UNCHANGED vars
             \/ \E w \in Workers : Brpop(w)
             \/ \E x \in Events : Enqueue(x) \/ AbandonIngest(x) \/ BecomeDue(x)
             \/ \E a \in Admins : AbandonAdmin(a)
      PROVE  Goal
    BY <1>1, <1>9 DEF Zpopmin, PutBack, Crash, Brpop, Enqueue, AbandonIngest, BecomeDue,
       AbandonAdmin, vars, rowVars
<1> QED BY <1>5, <1>6, <1>7, <1>8, <1>9 DEF Next

\* A request that is scrubbing went on with what it had, or has just begun.
LEMMA ScrubMoves ==
    ASSUME TypeOK, [Next]_vars, NEW a \in Admins,
           admin'[a].pc \in {"scrubQueue", "scrubRetry"}
    PROVE  \/ /\ admin[a].pc \in {"scrubQueue", "scrubRetry"}
              /\ admin'[a].job = admin[a].job
           \/ \E e \in Events : (Ack(a, e) \/ Delete(a, e)) /\ admin'[a].job = e
<1>1. CASE UNCHANGED admin
    BY <1>1
<1>2. ASSUME NEW b \in Admins, NEW pc, NEW x, AdminAt(b, pc, x)
      PROVE  /\ a = b => admin'[a].pc = pc /\ admin'[a].job = x
             /\ a # b => admin'[a] = admin[a]
    BY <1>2 DEF AdminAt, TypeOK, AdminsOK
<1>3. ASSUME NEW b \in Admins, AdminDone(b)
      PROVE  a # b /\ admin'[a] = admin[a]
    BY <1>3 DEF AdminDone, IdleAdmin, TypeOK, AdminsOK
<1>4. ASSUME NEW b \in Admins, Administer(b)
      PROVE  \/ /\ admin[a].pc \in {"scrubQueue", "scrubRetry"}
                /\ admin'[a].job = admin[a].job
             \/ \E e \in Events : (Ack(a, e) \/ Delete(a, e)) /\ admin'[a].job = e
  <2>1. CASE RetryReset(b) \/ RetryUnschedule(b) \/ RetryPush(b) \/ ScrubRetry(b)
    <3>1. \/ AdminDone(b)
          \/ \E pc \in {"unschedule", "push"} : AdminAt(b, pc, admin[b].job)
        BY <2>1 DEF RetryReset, RetryUnschedule, RetryPush, ScrubRetry
    <3> QED BY <1>2, <1>3, <3>1
  <2>2. CASE ScrubQueue(b)
      BY <1>2, <2>2 DEF ScrubQueue
  <2>3. ASSUME NEW e \in Events, RetryFind(b, e) \/ BulkReset(b, e)
        PROVE  admin[a].pc \in {"scrubQueue", "scrubRetry"} /\ admin'[a].job = admin[a].job
    <3>1. \E pc \in {"reset", "unschedule"} : AdminAt(b, pc, e)
        BY <2>3 DEF RetryFind, BulkReset
    <3> QED BY <1>2, <3>1
  <2>4. ASSUME NEW e \in Events, Ack(b, e) \/ Delete(b, e)
        PROVE  \/ admin'[a] = admin[a]
               \/ a = b /\ admin'[a].job = e
      BY <1>2, <2>4 DEF Ack, Delete
  <2> QED BY <1>4, <2>1, <2>2, <2>3, <2>4 DEF Administer
<1>5. ASSUME NEW h \in Hands, Deliver(h) PROVE UNCHANGED admin
    BY <1>5 DEF Deliver, FetchNothing, FetchRow, Post, CheckDelivered, Record,
       MarkDelivered, MarkRetrying, MarkFailed, MarkRefused, Schedule, Notify
<1>6. ASSUME \/ Zpopmin \/ PutBack \/ UNCHANGED vars
             \/ \E w \in Workers : Brpop(w)
             \/ \E e \in Events : \/ Accept(e) \/ Enqueue(e) \/ AbandonIngest(e)
                                \/ BecomeDue(e) \/ Expire(e)
      PROVE  UNCHANGED admin
    BY <1>6 DEF Zpopmin, PutBack, Brpop, Accept, Enqueue, AbandonIngest, BecomeDue,
       Expire, vars
<1>7. ~ Crash
    BY DEF Crash, IdleAdmin
<1>8. ASSUME NEW b \in Admins, AbandonAdmin(b)
      PROVE  a # b /\ admin'[a] = admin[a]
    BY <1>3, <1>8 DEF AbandonAdmin
<1> QED BY <1>1, <1>4, <1>5, <1>6, <1>7, <1>8 DEF Next

\* An event that has been sent stays so.
LEMMA IngestMoves ==
    ASSUME TypeOK, [Next]_vars, NEW e \in Events, ingest[e] # "new"
    PROVE  ingest'[e] # "new"
<1>1. ASSUME NEW a \in Admins, Administer(a) PROVE UNCHANGED ingest
    BY <1>1 DEF Administer, RetryReset, RetryUnschedule, RetryPush, ScrubQueue,
                ScrubRetry, RetryFind, BulkReset, Ack, Delete
<1>2. ASSUME NEW h \in Hands, Deliver(h) PROVE UNCHANGED ingest
    BY <1>2 DEF Deliver, FetchNothing, FetchRow, Post, CheckDelivered, Record,
       MarkDelivered, MarkRetrying, MarkFailed, MarkRefused, Schedule, Notify
<1>3. ASSUME \/ Zpopmin \/ PutBack \/ UNCHANGED vars
             \/ \E w \in Workers : Brpop(w)
             \/ \E f \in Events : BecomeDue(f) \/ Expire(f)
             \/ \E a \in Admins : AbandonAdmin(a)
      PROVE  UNCHANGED ingest
    BY <1>3 DEF Zpopmin, PutBack, Brpop, BecomeDue, Expire, AbandonAdmin, vars
<1>4. ASSUME Crash \/ \E f \in Events : Accept(f) \/ Enqueue(f) \/ AbandonIngest(f)
      PROVE  ingest'[e] # "new"
    BY <1>4 DEF Crash, Accept, Enqueue, AbandonIngest, TypeOK
<1> QED BY <1>1, <1>2, <1>3, <1>4 DEF Next

\* Nothing re-opens an event while a request scrubs its id from Redis.
LEMMA ScrubsClosedStep ==
    ASSUME TypeOK, TypeOK', RefusalsFounded, PostsFounded, UnsentHaveNoRow,
           ScrubsClosed, Faults \subseteq {"dns"}, NoInterference,
           WithoutReplays, WithoutReplays', [Next]_vars
    PROVE  ScrubsClosed'
<1> SUFFICES ASSUME NEW a \in Admins, admin'[a].pc \in {"scrubQueue", "scrubRetry"},
                    NEW x \in Events, x = admin'[a].job
             PROVE  /\ ingest'[x] # "new"
                    /\ ~ Open(x)'
                    /\ status'[x] = "failed" => Final(x)
    BY DEF ScrubsClosed, TypeOK, AdminsOK
<1>1. ingest[x] # "new" => ingest'[x] # "new"
    BY IngestMoves
<1>2. CASE admin[a].pc \in {"scrubQueue", "scrubRetry"} /\ admin[a].job = x
  <2>1. /\ ingest[x] # "new" /\ ~ Open(x)
        /\ status[x] = "failed" => Final(x)
      BY <1>2 DEF ScrubsClosed
  <2>2. ASSUME NEW h \in Hands, MarkRetrying(h) \/ MarkFailed(h), hand[h].job = x,
               hand[h].verdict \in Answers, status[x] \notin {"none", "delivered"}
        PROVE  FALSE
    <3>1. status[x] = "failed"
        BY <2>1, <2>2 DEF Open, TypeOK, RowsOK, Statuses
    <3>2. Alive(x)
        BY <2>2 DEF Alive, MarkRetrying, MarkFailed
    <3> QED BY <2>1, <2>2, <3>1, <3>2 DEF PostsFounded, Final, WithoutReplays, FailedIsOver
  <2>3. ASSUME NEW b \in Admins, RetryReset(b) \/ BulkReset(b, x),
               admin'[b] = [pc |-> "unschedule", job |-> x]
        PROVE  FALSE
    <3>1. CASE "retry" \in Operations
      <4>1. a = b
          BY <3>1 DEF NoInterference
      <4> QED BY <2>3, <4>1
    <3>2. CASE "retry" \notin Operations
      <4>1. admin'[b].pc = "unschedule"
          BY <2>3
      <4> QED BY <3>2, <4>1 DEF WithoutReplays, NoReplay
    <3> QED BY <3>1, <3>2
  <2>4. \/ status'[x] \in {status[x], "none", "delivered"}
        \/ status'[x] = "failed" /\ Refusable(x)
      BY <2>1, <2>2, <2>3, StatusMoves
  <2>5. Refusable(x) => Final(x)
      BY DEF Refusable, Final, NoInterference
  <2> QED BY <1>1, <2>1, <2>4, <2>5 DEF Open
<1>3. CASE \E e \in Events : (Ack(a, e) \/ Delete(a, e)) /\ admin'[a].job = e
  <2>1. Ack(a, x) \/ Delete(a, x)
      BY <1>3
  <2>2. ingest[x] # "new"
      BY <2>1 DEF Ack, Delete, UnsentHaveNoRow
  <2>3. status'[x] \in {"none", "delivered"}
      BY <2>1 DEF Ack, Delete, UpdateRow, DropRow, TypeOK, RowsOK
  <2> QED BY <1>1, <2>2, <2>3 DEF Open
<1> QED BY <1>2, <1>3, ScrubMoves

\* A step that may lose the ids of X alone.
LEMMA Remains ==
    ASSUME NothingForgotten, NEW X \in SUBSET Events,
           \A e \in Events \ X : Open(e)' => Open(e),
           Members(queue) \subseteq Members(queue') \cup X,
           retrySet \subseteq retrySet' \cup X,
           dropped \subseteq dropped' \cup X,
           \A e \in Events \ X : ingest[e] = "pushing" => ingest'[e] = "pushing",
           \A h \in Hands : \/ hand[h].pc \in {"idle", "notify"}
                            \/ hand[h].job \in X
                            \/ /\ hand'[h].job = hand[h].job
                               /\ hand'[h].pc \notin {"idle", "notify"},
           \A a \in Admins : \/ admin[a].pc \notin {"unschedule", "push"}
                             \/ admin[a].job \in X
                             \/ admin'[a] = admin[a],
           \A e \in X : Open(e)' => Remembered(e)'
    PROVE  NothingForgotten'
<1> SUFFICES ASSUME NEW e \in Events \ X, Open(e)' PROVE Remembered(e)'
    BY DEF NothingForgotten
<1>1. Remembered(e)
    BY DEF NothingForgotten
<1>2. CASE e \in Members(queue) \cup retrySet
    BY <1>2 DEF Remembered
<1>3. CASE ingest[e] = "pushing"
    BY <1>3 DEF Remembered
<1>4. CASE \E h \in Hands : hand[h].job = e /\ hand[h].pc \notin {"idle", "notify"}
    BY <1>4 DEF Remembered
<1>5. CASE \E a \in Admins : Pushes(a, e)
    BY <1>5 DEF Remembered, Pushes
<1>6. CASE e \in dropped
    BY <1>6 DEF Remembered
<1> QED BY <1>1, <1>2, <1>3, <1>4, <1>5, <1>6 DEF Remembered

\* A task that works on x leaves it to somebody, or closed.
LEMMA TaskRemains ==
    ASSUME TypeOK, NothingForgotten, NEW h \in Hands, NEW x \in Events, hand[h].job = x,
           \A g \in Hands \ {h} : hand'[g] = hand[g],
           \A e \in Events \ {x} : status'[e] = status[e],
           queue' = queue, retrySet \subseteq retrySet',
           ingest' = ingest, admin' = admin, dropped' = dropped,
           \/ ~ Open(x)'
           \/ x \in retrySet'
           \/ hand'[h].job = x /\ hand'[h].pc \notin {"idle", "notify"}
    PROVE  NothingForgotten'
<1> DEFINE X == {x}
<1>1. Open(x)' => Remembered(x)'
    BY DEF Remembered
<1>2. \A e \in Events \ X : Open(e)' => Open(e)
    BY DEF Open
<1>3. X \in SUBSET Events /\ \A e \in X : Open(e)' => Remembered(e)'
    BY <1>1
<1>4. \A g \in Hands : hand[g].job \in X \/ hand'[g] = hand[g]
    OBVIOUS
<1> HIDE DEF X
<1> QED BY <1>2, <1>3, <1>4, Remains

\* No step of a task forgets its event.
LEMMA DeliverRemains ==
    ASSUME TypeOK, NothingForgotten, Faults \subseteq {"dns"}, NEW h \in Hands, Deliver(h)
    PROVE  NothingForgotten'
<1> SUFFICES ASSUME NEW x, x = hand[h].job PROVE NothingForgotten'
    OBVIOUS
<1>1. x \in Events
    BY HandIs DEF Deliver, FetchNothing, FetchRow, Post, CheckDelivered, Record,
       MarkDelivered, MarkRetrying, MarkFailed, MarkRefused, Schedule, Notify, TypeOK
<1>2. /\ queue' = queue /\ retrySet \subseteq retrySet'
      /\ ingest' = ingest /\ admin' = admin /\ dropped' = dropped
    BY DEF Deliver, FetchNothing, FetchRow, Post, CheckDelivered, Record, MarkDelivered,
       MarkRetrying, MarkFailed, MarkRefused, Schedule, Notify, RedisWrite, redisVars,
       history
<1>3. \A g \in Hands \ {h} : hand'[g] = hand[g]
    BY DEF Deliver, FetchNothing, FetchRow, Post, CheckDelivered, Record, MarkDelivered,
       MarkRetrying, MarkFailed, MarkRefused, Schedule, Notify, Goto, Release,
       TypeOK, HandsOK
<1>4. \A e \in Events \ {x} : status'[e] = status[e]
    BY DEF Deliver, FetchNothing, FetchRow, Post, CheckDelivered, Record, MarkDelivered,
       MarkRetrying, MarkFailed, MarkRefused, Schedule, Notify, UpdateRow, rowVars,
       TypeOK, RowsOK
<1>5. CASE Notify(h)
  <2>1. hand[h].pc = "notify" /\ status' = status
      BY <1>5 DEF Notify, rowVars
  <2>2. \A e \in Events : Open(e)' => Open(e)
      BY <2>1 DEF Open
  <2> DEFINE X == {}
  <2>3. X \in SUBSET Events
      OBVIOUS
  <2> QED BY <1>2, <1>3, <2>1, <2>2, <2>3, Remains
<1>6. CASE \/ FetchRow(h) \/ Post(h) \/ Record(h) \/ MarkRetrying(h)
           \/ CheckDelivered(h) /\ Goto(h, "record")
  <2>1. hand'[h].job = x /\ hand'[h].pc \notin {"idle", "notify"}
    <3>1. CASE FetchRow(h)
        BY <3>1 DEF FetchRow, TypeOK, HandsOK, HandStates
    <3>2. CASE Post(h)
        BY <3>2 DEF Post, TypeOK, HandsOK, HandStates
    <3>3. CASE \E pc \in {"update", "zadd", "record"} : Goto(h, pc)
        BY <3>3, Moves
    <3> QED BY <1>6, <3>1, <3>2, <3>3 DEF Record, MarkRetrying
  <2> QED BY <1>1, <1>2, <1>3, <1>4, <2>1, TaskRemains
<1>7. CASE Schedule(h)
  <2>1. x \in retrySet'
      BY <1>7 DEF Schedule, RedisWrite
  <2> QED BY <1>1, <1>2, <1>3, <1>4, <2>1, TaskRemains
<1>8. CASE \/ FetchNothing(h) \/ MarkDelivered(h) \/ MarkFailed(h) \/ MarkRefused(h)
           \/ CheckDelivered(h) /\ status[x] = "delivered"
  <2>1. ~ Open(x)'
      BY <1>1, <1>8 DEF FetchNothing, MarkDelivered, MarkFailed, MarkRefused,
         CheckDelivered, UpdateRow, Open, rowVars, TypeOK, RowsOK
  <2> QED BY <1>1, <1>2, <1>3, <1>4, <2>1, TaskRemains
<1> QED BY <1>5, <1>6, <1>7, <1>8 DEF Deliver, CheckDelivered

\* No request forgets its event, or scrubs an open one.
LEMMA AdministerRemains ==
    ASSUME TypeOK, NothingForgotten, ScrubsClosed, Faults \subseteq {"dns"}, NEW a \in Admins,
           Administer(a)
    PROVE  NothingForgotten'
<1> SUFFICES ASSUME NEW x \in Events, NEW X, X = {x},
                    \/ /\ admin[a].job = x
                       /\ \/ RetryReset(a) \/ RetryUnschedule(a) \/ RetryPush(a)
                          \/ ScrubQueue(a) \/ ScrubRetry(a)
                    \/ RetryFind(a, x) \/ BulkReset(a, x) \/ Ack(a, x) \/ Delete(a, x)
             PROVE  NothingForgotten'
  <2>1. admin[a].pc # "idle" => admin[a].job \in Events
      BY DEF TypeOK, AdminsOK
  <2> QED BY <2>1 DEF Administer, RetryReset, RetryUnschedule, RetryPush, ScrubQueue,
             ScrubRetry
<1>1. \/ admin[a].pc = "idle" \/ admin[a].job = x
    BY DEF RetryFind, BulkReset, Ack, Delete, Call
<1>2. hand' = hand /\ ingest' = ingest /\ dropped \subseteq dropped' \cup X
    BY <1>1 DEF RetryReset, RetryUnschedule, RetryPush, ScrubQueue, ScrubRetry,
       RetryFind, BulkReset, Ack, Delete, history
<1>3. \A b \in Admins \ {a} : admin'[b] = admin[b]
    BY DEF RetryReset, RetryUnschedule, RetryPush, ScrubQueue, ScrubRetry, RetryFind,
       BulkReset, Ack, Delete, AdminAt, AdminDone, TypeOK, AdminsOK
<1>4. \A e \in Events \ X : status'[e] = status[e]
    BY DEF RetryReset, RetryUnschedule, RetryPush, ScrubQueue, ScrubRetry, RetryFind,
       BulkReset, Ack, Delete, UpdateRow, DropRow, rowVars, TypeOK, RowsOK
<1>5. Members(queue) \subseteq Members(queue') \cup X
  <2>1. queue' \in {queue, Lpush(queue, x), Lrem(queue, x)}
      BY <1>1 DEF RetryReset, RetryUnschedule, RetryPush, ScrubQueue, ScrubRetry,
         RetryFind, BulkReset, Ack, Delete, RedisWrite, redisVars
  <2>2. /\ Members(Lpush(queue, x)) = Members(queue) \cup {x}
        /\ Members(Lrem(queue, x)) = Members(queue) \ {x}
      BY LpushList, LremList DEF TypeOK, RedisOK
  <2> QED BY <2>1, <2>2
<1>6. retrySet \subseteq retrySet' \cup X
    BY DEF RetryReset, RetryUnschedule, RetryPush, ScrubQueue, ScrubRetry, RetryFind,
       BulkReset, Ack, Delete, RedisWrite, redisVars
<1>7. Open(x)' => Remembered(x)'
  <2>1. CASE admin'[a].job = x /\ admin'[a].pc \in {"unschedule", "push"}
      BY <2>1 DEF Remembered, Pushes
  <2>2. CASE RetryReset(a) \/ BulkReset(a, x) \/ RetryUnschedule(a)
    <3>1. \E pc \in {"unschedule", "push"} : AdminAt(a, pc, x)
        BY <2>2, <1>1 DEF RetryReset, BulkReset, RetryUnschedule, Call
    <3> QED BY <2>1, <3>1 DEF AdminAt, TypeOK, AdminsOK
  <2>3. CASE RetryPush(a)
    <3>1. x \in Members(queue')
        BY <1>1, <2>3, LpushList DEF RetryPush, RedisWrite, TypeOK, RedisOK
    <3> QED BY <3>1 DEF Remembered
  <2>4. CASE RetryFind(a, x)
    <3>1. /\ status' = status /\ queue' = queue /\ retrySet' = retrySet
          /\ admin[a].pc = "idle" /\ dropped' = dropped
        BY <2>4 DEF RetryFind, Call, rowVars, redisVars, history
    <3> QED BY <1>2, <1>3, <3>1 DEF NothingForgotten, Open, Remembered, Pushes
  <2>5. CASE Ack(a, x) \/ Delete(a, x)
      BY <2>5 DEF Ack, Delete, UpdateRow, DropRow, Open, TypeOK, RowsOK
  <2>6. CASE ScrubQueue(a) \/ ScrubRetry(a)
    <3>1. ~ Open(x) /\ status' = status
        BY <1>1, <2>6 DEF ScrubQueue, ScrubRetry, ScrubsClosed, rowVars
    <3> QED BY <3>1 DEF Open
  <2> QED BY <2>2, <2>3, <2>4, <2>5, <2>6
<1>8. \A e \in Events \ X : Open(e)' => Open(e)
    BY <1>4 DEF Open
<1>9. X \in SUBSET Events /\ \A e \in X : Open(e)' => Remembered(e)'
    BY <1>7
<1>10. /\ \A b \in Admins : \/ admin[b].pc \notin {"unschedule", "push"}
                            \/ admin[b].job \in X
                            \/ admin'[b] = admin[b]
    BY <1>1, <1>3
<1> QED BY <1>2, <1>5, <1>6, <1>8, <1>9, <1>10, Remains

\* No step forgets an open event.
LEMMA NothingForgottenStep ==
    ASSUME TypeOK, NothingForgotten, ScrubsClosed, Faults \subseteq {"dns"}, [Next]_vars
    PROVE  NothingForgotten'
<1>1. ASSUME NEW x \in Events, Accept(x) \/ Enqueue(x) PROVE NothingForgotten'
  <2> DEFINE X == {x}
  <2>1. /\ Members(queue) \subseteq Members(queue')
        /\ ingest'[x] = "pushing" \/ x \in Members(queue')
        /\ \A e \in Events \ X : ingest'[e] = ingest[e] /\ status'[e] = status[e]
    <3>1. CASE Accept(x)
        BY <3>1 DEF Accept, redisVars, TypeOK, RowsOK
    <3>2. CASE Enqueue(x)
        BY <3>2, LpushList DEF Enqueue, RedisWrite, rowVars, TypeOK, RedisOK
    <3> QED BY <1>1, <3>1, <3>2
  <2>2. hand' = hand /\ admin' = admin /\ retrySet' = retrySet /\ dropped' = dropped
      BY <1>1 DEF Accept, Enqueue, RedisWrite, redisVars, history
  <2>3. X \in SUBSET Events /\ \A e \in X : Remembered(e)'
      BY <2>1 DEF Remembered
  <2>4. \A e \in Events \ X : Open(e)' => Open(e)
      BY <2>1 DEF Open
  <2> HIDE DEF X
  <2> QED BY <2>1, <2>2, <2>3, <2>4, Remains
<1>2. ASSUME NEW h \in Hands, NEW x \in Events, NEW X, X = {x},
             hand'[h].job = x, hand'[h].pc \notin {"idle", "notify"},
             hand[h].pc = "idle",
             \A g \in Hands \ {h} : hand'[g] = hand[g],
             Members(queue) \subseteq Members(queue') \cup X,
             retrySet \subseteq retrySet' \cup X,
             UNCHANGED <<rowVars, ingest, admin, dropped>>
      PROVE  NothingForgotten'
  <2>1. X \in SUBSET Events /\ \A e \in X : Remembered(e)'
      BY <1>2 DEF Remembered
  <2>2. \A e \in Events : Open(e)' => Open(e)
      BY <1>2 DEF Open, rowVars
  <2> QED BY <1>2, <2>1, <2>2, Remains
<1>3. ASSUME NEW w \in Workers, Brpop(w) PROVE NothingForgotten'
  <2>1. /\ BrpopId(queue) \in Events
        /\ Members(queue) = Members(queue') \cup {BrpopId(queue)}
      BY <1>3, BrpopList DEF Brpop, TypeOK, RedisOK
  <2>2. /\ hand'[w].job = BrpopId(queue) /\ hand'[w].pc = "fetch"
        /\ \A g \in Hands \ {w} : hand'[g] = hand[g]
      BY <1>3 DEF Brpop, IdleHand, Hands, TypeOK, HandsOK
  <2> QED BY <1>2, <1>3, <2>1, <2>2 DEF Brpop, Hands, history
<1>4. CASE Zpopmin
  <2>1. PICK x \in retrySet :
           /\ retrySet' = retrySet \ {x}
           /\ hand' = [hand EXCEPT ![Retrier] =
                         [IdleHand EXCEPT
                             !.pc = IF x \in due THEN "fetch" ELSE "putback",
                             !.job = x]]
      BY <1>4 DEF Zpopmin
  <2>2. /\ hand'[Retrier].job = x /\ hand'[Retrier].pc \in {"fetch", "putback"}
        /\ \A g \in Hands \ {Retrier} : hand'[g] = hand[g]
      BY <2>1 DEF IdleHand, Hands, TypeOK, HandsOK
  <2>3. x \in Events
      BY DEF TypeOK, RedisOK
  <2> QED BY <1>2, <1>4, <2>1, <2>2, <2>3 DEF Zpopmin, Hands, history
<1>5. CASE PutBack
  <2>1. /\ hand[Retrier].job \in Events /\ Retrier \in Hands
        /\ hand[Retrier].job \in retrySet'
        /\ \A g \in Hands \ {Retrier} : hand'[g] = hand[g]
      BY <1>5, HandIs DEF PutBack, Release, RedisWrite, Hands, TypeOK, HandsOK
  <2> QED BY <1>5, <2>1, TaskRemains DEF PutBack, RedisWrite, rowVars, history
<1>6. ASSUME NEW x \in Events, Expire(x) PROVE NothingForgotten'
  <2>1. \A e \in Events : Open(e)' => Open(e)
      BY <1>6 DEF Expire, DropRow, Open, TypeOK, RowsOK
  <2> QED BY <1>6, <2>1 DEF Expire, redisVars, history, NothingForgotten, Remembered,
             Pushes
<1>7. ASSUME UNCHANGED vars \/ \E e \in Events : BecomeDue(e) PROVE NothingForgotten'
  <2>1. UNCHANGED <<rowVars, redisVars, hand, ingest, admin, dropped>>
      BY <1>7 DEF BecomeDue, vars, rowVars, redisVars, history
  <2> QED BY <2>1 DEF rowVars, redisVars, NothingForgotten, Remembered, Pushes, Open
<1>8. ~ Crash
    BY DEF Crash
<1>9. ASSUME NEW x \in Events, AbandonIngest(x) PROVE NothingForgotten'
  <2> SUFFICES ASSUME NEW e \in Events, Open(e)' PROVE Remembered(e)'
      BY DEF NothingForgotten
  <2>1. UNCHANGED <<status, redisVars, hand, admin>> /\ dropped' = dropped \cup {x}
      BY <1>9 DEF AbandonIngest, rowVars
  <2>2. e = x \/ ingest'[e] = ingest[e]
      BY <1>9 DEF AbandonIngest, TypeOK
  <2>3. Remembered(e)
      BY <2>1 DEF NothingForgotten, Open
  <2> QED BY <2>1, <2>2, <2>3 DEF Remembered, Pushes, redisVars
<1>10. ASSUME NEW a \in Admins, AbandonAdmin(a) PROVE NothingForgotten'
  <2> SUFFICES ASSUME NEW e \in Events, Open(e)' PROVE Remembered(e)'
      BY DEF NothingForgotten
  <2>1. /\ UNCHANGED <<status, redisVars, hand, ingest>>
        /\ dropped' = dropped \cup {x \in {admin[a].job} : Pushes(a, x)}
      BY <1>10 DEF AbandonAdmin, rowVars
  <2>2. \A b \in Admins \ {a} : admin'[b] = admin[b]
      BY <1>10 DEF AbandonAdmin, AdminDone, TypeOK, AdminsOK
  <2>3. Remembered(e)
      BY <2>1 DEF NothingForgotten, Open
  <2>4. Pushes(a, e) => e \in dropped'
      BY <2>1 DEF Pushes
  <2> QED BY <2>1, <2>2, <2>3, <2>4 DEF Remembered, Pushes, redisVars
<1> QED BY <1>1, <1>3, <1>4, <1>5, <1>6, <1>7, <1>8, <1>9, <1>10, DeliverRemains,
           AdministerRemains DEF Next

\* While nothing crashes and Redis and Postgres answer, an open event is never
\* forgotten unless its own request was cut off in front of the LPUSH: with any
\* number of replays if requests come one at a time and no lookup fails, and
\* with any number of requests at once, and failing lookups, if none of them
\* replays.
THEOREM CustodyKept ==
    ASSUME Faults \subseteq {"dns"}, NoInterference
    PROVE  Spec => []Custody
<1> DEFINE Inv == /\ RefusalsFounded /\ UnsentHaveNoRow /\ PostsFounded
                  /\ ScrubsClosed /\ WithoutReplays /\ NothingForgotten
<1>1. Init => Inv
  <2> SUFFICES ASSUME Init PROVE Inv
      OBVIOUS
  <2>1. /\ \A h \in Hands : hand[h] = IdleHand
        /\ \A a \in Admins : admin[a].pc = "idle"
        /\ \A e \in Events : status[e] = "none"
      BY DEF Init, IdleAdmin
  <2>2. IdleHand.pc = "idle" /\ IdleHand.verdict \notin Answers \cup Refusals
      BY DEF IdleHand, Answers, Refusals
  <2>3. WithoutReplays
      BY <2>1, InitOwner DEF WithoutReplays, FailedIsOver
  <2> QED BY <2>1, <2>2, <2>3 DEF RefusalsFounded, UnsentHaveNoRow, PostsFounded,
             ScrubsClosed, NothingForgotten, Open
<1>2. TypeOK /\ Inv /\ [Next]_vars => Inv'
  <2> SUFFICES ASSUME TypeOK, Inv, [Next]_vars PROVE Inv'
      OBVIOUS
  <2>1. TypeOK' /\ WithoutReplays'
      BY TypeStep, NoReplayStep, OwnerStep, FailedIsOverStep DEF WithoutReplays
  <2> QED BY <2>1, RefusalsFoundedStep, StatusStep, PostsFoundedStep, ScrubsClosedStep,
             NothingForgottenStep
<1>3. NothingForgotten => Custody
    BY DEF NothingForgotten, Open, Remembered, Custody
<1> QED BY <1>1, <1>2, <1>3, TypeCorrect, PTL DEF Spec

-----------------------------------------------------------------------------
(***************************************************************************)
(* The timeline.  A POST is on it, or the task that made it is about to    *)
(* record it, or it was lost: with a task that died, or with one that found *)
(* the event acknowledged.  Nobody holds the id after such a loss, nothing *)
(* was announced of the event, and it has not failed; nor will it.          *)
(***************************************************************************)

\* The delivery of e goes on, or has come to an end that the user was told of.
Followed(e) ==
    \/ e \in Members(queue) \cup retrySet
    \/ \E h \in Hands : hand[h].job = e
    \/ status[e] = "failed"
    \/ hooks[e] # << >>

\* The result of a POST that is not on the timeline yet.
Unrecorded(h, e) ==
    hand[h].job = e /\ hand[h].pc \in {"check", "record"} /\ hand[h].verdict \in Answers

Accounted(e) ==
    status[e] # "none" /\ Followed(e) =>
        \/ sent[e] <= logged[e]
        \/ sent[e] <= logged[e] + 1 /\ \E h \in Hands : Unrecorded(h, e)

\* The tasks that a step does not concern.
LEMMA OtherHands ==
    ASSUME TypeOK, [Next]_vars, NEW h \in Hands,
           ~ Crash, ~ Deliver(h), ~ (h \in Workers /\ Brpop(h)),
           ~ (h = Retrier /\ (Zpopmin \/ PutBack))
    PROVE  hand'[h] = hand[h]
<1>1. ASSUME NEW g \in Hands, Deliver(g), g # h PROVE hand'[h] = hand[h]
    BY <1>1 DEF Deliver, FetchNothing, FetchRow, Post, CheckDelivered, Record,
       MarkDelivered, MarkRetrying, MarkFailed, MarkRefused, Schedule, Notify, Goto,
       Release, TypeOK, HandsOK
<1>2. ASSUME NEW a \in Admins, Administer(a) \/ AbandonAdmin(a) PROVE hand' = hand
    BY <1>2 DEF Administer, RetryReset, RetryUnschedule, RetryPush, ScrubQueue,
                ScrubRetry, RetryFind, BulkReset, Ack, Delete, AbandonAdmin
<1>3. ASSUME NEW w \in Workers, Brpop(w), w # h PROVE hand'[h] = hand[h]
    BY <1>3 DEF Brpop, Hands, TypeOK, HandsOK
<1>4. ASSUME Zpopmin \/ PutBack, h # Retrier PROVE hand'[h] = hand[h]
    BY <1>4 DEF Zpopmin, PutBack, Release, Hands, TypeOK, HandsOK
<1>5. ASSUME \/ UNCHANGED vars
             \/ \E x \in Events : \/ Accept(x) \/ Enqueue(x) \/ AbandonIngest(x)
                                \/ BecomeDue(x) \/ Expire(x)
      PROVE  hand' = hand
    BY <1>5 DEF Accept, Enqueue, AbandonIngest, BecomeDue, Expire, vars
<1> QED BY <1>1, <1>2, <1>3, <1>4, <1>5 DEF Next

\* A task has its id from Redis.
LEMMA HeldMoves ==
    ASSUME TypeOK, [Next]_vars, NEW h \in Hands, NEW e \in Events, hand'[h].job = e
    PROVE  hand[h].job = e \/ e \in Members(queue) \cup retrySet
<1>0. IdleHand.job # e
    BY DeliveryAssumption DEF IdleHand
<1>1. CASE Deliver(h)
  <2>1. CASE \/ Release(h)
             \/ \E pc \in HandPcs : Goto(h, pc)
      BY <1>0, <2>1, Moves DEF Release, TypeOK, HandsOK
  <2>2. CASE FetchRow(h)
      BY <2>2 DEF FetchRow, TypeOK, HandsOK, HandStates
  <2>3. CASE Post(h)
      BY <2>3 DEF Post, TypeOK, HandsOK, HandStates
  <2> QED BY <1>1, <2>1, <2>2, <2>3 DEF Deliver, FetchNothing, CheckDelivered, Record,
             MarkDelivered, MarkRetrying, MarkFailed, MarkRefused, Schedule, Notify,
             HandPcs
<1>2. CASE h \in Workers /\ Brpop(h)
  <2>1. BrpopId(queue) \in Members(queue)
      BY <1>2, BrpopList DEF Brpop, TypeOK, RedisOK
  <2> QED BY <1>2, <2>1 DEF Brpop, IdleHand, TypeOK, HandsOK
<1>3. CASE h = Retrier /\ Zpopmin
    BY <1>3 DEF Zpopmin, IdleHand, TypeOK, HandsOK
<1>4. CASE h = Retrier /\ PutBack
    BY <1>0, <1>4 DEF PutBack, Release, TypeOK, HandsOK
<1>5. CASE Crash
    BY <1>0, <1>5 DEF Crash
<1> QED BY <1>1, <1>2, <1>3, <1>4, <1>5, OtherHands

\* Only the task that holds an event fails it.
LEMMA FailMoves ==
    ASSUME TypeOK, NoReplay, [Next]_vars, "retry" \notin Operations,
           NEW e \in Events, status'[e] = "failed"
    PROVE  status[e] = "failed" \/ \E h \in Hands : hand[h].job = e
<1>1. ASSUME NEW x \in Events, Accept(x) PROVE status[e] = "failed"
    BY <1>1 DEF Accept, TypeOK, RowsOK
<1>2. ASSUME NEW a \in Admins, NEW x \in Events, Ack(a, x) PROVE status[e] = "failed"
    BY <1>2 DEF Ack, UpdateRow, TypeOK, RowsOK
<1>3. ASSUME NEW x \in Events, DropRow(x) PROVE status[e] = "failed"
    BY <1>3 DEF DropRow, TypeOK, RowsOK
<1>4. ASSUME NEW h \in Hands,
             MarkDelivered(h) \/ MarkRetrying(h) \/ MarkFailed(h) \/ MarkRefused(h)
      PROVE  status[e] = "failed" \/ hand[h].job = e
    BY <1>4, MarkMoves
<1> QED BY <1>1, <1>2, <1>3, <1>4, RowMoves

\* Only the task that holds an event tells its hooks.
LEMMA HookMoves ==
    ASSUME TypeOK, [Next]_vars, NEW e \in Events, hooks'[e] # hooks[e]
    PROVE  \E h \in Hands : hand[h].job = e /\ hand[h].pc = "notify"
<1>1. ASSUME NEW h \in Hands, Deliver(h)
      PROVE  hooks' = hooks \/ Notify(h)
    BY <1>1 DEF Deliver, FetchNothing, FetchRow, Post, CheckDelivered, Record,
       MarkDelivered, MarkRetrying, MarkFailed, MarkRefused, Schedule, history
<1>2. ASSUME NEW h \in Hands, Notify(h)
      PROVE  hand[h].job = e /\ hand[h].pc = "notify"
    BY <1>2 DEF Notify, TypeOK, HistoryOK
<1>3. ASSUME NEW a \in Admins, Administer(a) \/ AbandonAdmin(a) PROVE hooks' = hooks
    BY <1>3 DEF Administer, RetryReset, RetryUnschedule, RetryPush, ScrubQueue,
                ScrubRetry, RetryFind, BulkReset, Ack, Delete, AbandonAdmin, history
<1>4. ASSUME \/ Zpopmin \/ PutBack \/ Crash \/ UNCHANGED vars
             \/ \E w \in Workers : Brpop(w)
             \/ \E x \in Events : \/ Accept(x) \/ Enqueue(x) \/ AbandonIngest(x)
                                \/ BecomeDue(x) \/ Expire(x)
      PROVE  hooks' = hooks
    BY <1>4 DEF Zpopmin, PutBack, Crash, Brpop, Accept, Enqueue, AbandonIngest,
       BecomeDue, Expire, vars, history
<1> QED BY <1>1, <1>2, <1>3, <1>4 DEF Next

\* An event that was sent and is not followed will never be.
LEMMA FollowedStep ==
    ASSUME TypeOK, OneOwner, NoReplay, [Next]_vars, "retry" \notin Operations,
           NEW e \in Events, ingest[e] = "done", Followed(e)'
    PROVE  Followed(e)
<1>1. CASE \E h \in Hands : hand'[h].job = e
    BY <1>1, HeldMoves DEF Followed
<1>2. CASE e \in (Members(queue) \cup retrySet)'
  <2>1. Alive(e)'
      BY <1>2 DEF Alive
  <2>2. Alive(e)
      BY <2>1, AliveStep
  <2> QED BY <2>2 DEF Alive, Followed
<1>3. CASE status'[e] = "failed"
    BY <1>3, FailMoves DEF Followed
<1>4. CASE hooks'[e] # << >>
    BY <1>4, HookMoves DEF Followed
<1> QED BY <1>1, <1>2, <1>3, <1>4 DEF Followed

\* A task with a result in hand keeps it until it records it; or nobody follows
\* the event any more.
LEMMA UnrecordedMoves ==
    ASSUME TypeOK, OneOwner, Fits, FailedIsOver, "db" \notin Faults, [Next]_vars,
           NEW h \in Hands, NEW e \in Events, Unrecorded(h, e)
    PROVE  Unrecorded(h, e)' \/ Record(h) \/ ~ Followed(e)'
<1>1. hand'[h] = hand[h] => Unrecorded(h, e)'
    BY DEF Unrecorded
<1>2. /\ e \notin Members(queue) \cup retrySet
      /\ \A g \in Hands \ {h} : hand[g].job # e
      /\ hooks[e] = << >>
      /\ status[e] # "failed"
    BY Held DEF Unrecorded, FailedIsOver, Alive
<1>3. ASSUME UNCHANGED <<redisVars, status, hooks>>,
             \A g \in Hands \ {h} : hand'[g] \in {hand[g], IdleHand},
             hand'[h] = IdleHand
      PROVE  ~ Followed(e)'
  <2>1. \A g \in Hands : hand'[g].job # e
      BY <1>2, <1>3, DeliveryAssumption DEF IdleHand
  <2> QED BY <1>2, <1>3, <2>1 DEF Followed, redisVars
<1>4. CASE Deliver(h)
  <2>1. CheckDelivered(h) \/ Record(h)
      BY <1>4 DEF Deliver, Unrecorded, FetchNothing, FetchRow, Post, MarkDelivered,
         MarkRetrying, MarkFailed, MarkRefused, Schedule, Notify
  <2>2. CASE CheckDelivered(h) /\ Goto(h, "record")
      BY <2>2, Moves DEF Unrecorded
  <2>3. CASE CheckDelivered(h) /\ Release(h)
    <3>1. /\ UNCHANGED <<redisVars, status, hooks>>
          /\ hand'[h] = IdleHand
          /\ \A g \in Hands \ {h} : hand'[g] = hand[g]
        BY <2>3 DEF CheckDelivered, Release, rowVars, history, TypeOK, HandsOK
    <3> QED BY <1>3, <3>1
  <2> QED BY <2>1, <2>2, <2>3 DEF CheckDelivered
<1>5. CASE Crash
  <2>1. UNCHANGED <<redisVars, status, hooks>> /\ \A g \in Hands : hand'[g] = IdleHand
      BY <1>5 DEF Crash, rowVars
  <2> QED BY <1>3, <2>1
<1>6. ~ (h \in Workers /\ Brpop(h)) /\ ~ (h = Retrier /\ (Zpopmin \/ PutBack))
    BY DEF Unrecorded, Brpop, Zpopmin, PutBack
<1> QED BY <1>1, <1>4, <1>5, <1>6, OtherHands

\* POSTs and the timeline change only in Post, Record and with the row.
LEMMA TimelineMoves ==
    ASSUME TypeOK, [Next]_vars, NEW e \in Events
    PROVE  \/ sent'[e] = sent[e] /\ logged'[e] = logged[e]
           \/ \E h \in Hands : (Post(h) \/ Record(h)) /\ hand[h].job = e
           \/ status'[e] = "none"
<1>1. ASSUME NEW h \in Hands, Deliver(h), ~ (Post(h) \/ Record(h))
      PROVE  UNCHANGED <<sent, logged>>
    BY <1>1 DEF Deliver, FetchNothing, FetchRow, CheckDelivered, MarkDelivered,
       MarkRetrying, MarkFailed, MarkRefused, Schedule, Notify, rowVars, history
<1>2. ASSUME NEW h \in Hands, Post(h) \/ Record(h), hand[h].job # e
      PROVE  sent'[e] = sent[e] /\ logged'[e] = logged[e]
    BY <1>2 DEF Post, Record, rowVars, history, TypeOK, RowsOK, HistoryOK
<1>3. ASSUME NEW x \in Events, DropRow(x), sent' = sent
      PROVE  \/ sent'[e] = sent[e] /\ logged'[e] = logged[e]
             \/ status'[e] = "none"
    BY <1>3 DEF DropRow, TypeOK, RowsOK
<1>4. ASSUME NEW a \in Admins, Administer(a)
      PROVE  \/ sent'[e] = sent[e] /\ logged'[e] = logged[e]
             \/ status'[e] = "none"
  <2>1. CASE \E x \in Events : Delete(a, x)
      BY <1>3, <2>1 DEF Delete, history
  <2>2. CASE \A x \in Events : ~ Delete(a, x)
      BY <1>4, <2>2 DEF Administer, RetryReset, RetryUnschedule, RetryPush, ScrubQueue,
         ScrubRetry, RetryFind, BulkReset, Ack, rowVars, history
  <2> QED BY <2>1, <2>2
<1>5. ASSUME \/ Zpopmin \/ PutBack \/ Crash \/ UNCHANGED vars
             \/ \E w \in Workers : Brpop(w)
             \/ \E x \in Events : \/ Accept(x) \/ Enqueue(x) \/ AbandonIngest(x)
                                \/ BecomeDue(x)
             \/ \E a \in Admins : AbandonAdmin(a)
      PROVE  UNCHANGED <<sent, logged>>
    BY <1>5 DEF Zpopmin, PutBack, Crash, Brpop, Accept, Enqueue, AbandonIngest,
       BecomeDue, AbandonAdmin, vars, rowVars, history
<1>6. ASSUME NEW x \in Events, Expire(x)
      PROVE  \/ sent'[e] = sent[e] /\ logged'[e] = logged[e]
             \/ status'[e] = "none"
    BY <1>3, <1>6 DEF Expire, history
<1> QED BY <1>1, <1>2, <1>4, <1>5, <1>6 DEF Next

\* A row comes into being at ingest only.
LEMMA RowsBorn ==
    ASSUME TypeOK, NoReplay, [Next]_vars, "retry" \notin Operations, NEW e \in Events,
           status[e] = "none", status'[e] # "none"
    PROVE  ingest[e] = "new"
<1>1. ASSUME NEW x \in Events, Accept(x) PROVE ingest[e] = "new"
    BY <1>1 DEF Accept, TypeOK, RowsOK
<1>2. ASSUME NEW h \in Hands,
             MarkDelivered(h) \/ MarkRetrying(h) \/ MarkFailed(h) \/ MarkRefused(h)
      PROVE  FALSE
  <2>1. \E x, s, n : UpdateRow(x, TRUE, s, n) \/ UpdateRow(x, FALSE, s, n)
      BY <1>2 DEF MarkDelivered, MarkRetrying, MarkFailed, MarkRefused
  <2> QED BY <2>1 DEF UpdateRow, TypeOK, RowsOK
<1>3. ASSUME NEW a \in Admins, NEW x \in Events, Ack(a, x) PROVE FALSE
    BY <1>3 DEF Ack, UpdateRow, TypeOK, RowsOK
<1>4. ASSUME NEW x \in Events, DropRow(x) PROVE FALSE
    BY <1>4 DEF DropRow, TypeOK, RowsOK
<1> QED BY <1>1, <1>2, <1>3, <1>4, RowMoves

\* A POST that is not on the timeline is in the hands of one task, which
\* records it if there is a row to record it for, or the event is not followed.
LEMMA AccountedStep ==
    ASSUME TypeOK, OneOwner, NoReplay, Fits, FailedIsOver,
           \A e \in Events : Accounted(e),
           "retry" \notin Operations, "db" \notin Faults, [Next]_vars
    PROVE  \A e \in Events : Accounted(e)'
<1> SUFFICES ASSUME NEW e \in Events, status'[e] # "none", Followed(e)'
             PROVE  \/ sent'[e] <= logged'[e]
                    \/ /\ sent'[e] <= logged'[e] + 1
                       /\ \E h \in Hands : Unrecorded(h, e)'
    BY DEF Accounted
<1>1. sent[e] \in Nat /\ logged[e] \in Nat
    BY DEF TypeOK, RowsOK, HistoryOK
<1>2. \/ sent[e] <= logged[e]
      \/ sent[e] <= logged[e] + 1 /\ \E h \in Hands : Unrecorded(h, e)
  <2>1. CASE ingest[e] # "done"
    <3>1. sent[e] = 0
        BY <2>1 DEF Fits, EventFits
    <3> QED BY <1>1, <3>1
  <2>2. CASE ingest[e] = "done"
    <3>1. status[e] # "none"
        BY <2>2, RowsBorn
    <3>2. Followed(e)
        BY <2>2, FollowedStep
    <3> QED BY <3>1, <3>2 DEF Accounted
  <2> QED BY <2>1, <2>2
<1>3. ASSUME NEW h \in Hands, Post(h), hand[h].job = e
      PROVE  sent'[e] <= logged'[e] + 1 /\ Unrecorded(h, e)'
  <2>1. sent'[e] = sent[e] + 1 /\ logged' = logged
      BY <1>3 DEF Post, rowVars, TypeOK, HistoryOK
  <2>2. \A g \in Hands : ~ Unrecorded(g, e)
      BY <1>3, DeliveryAssumption DEF Post, Unrecorded, OneOwner
  <2>3. Unrecorded(h, e)'
      BY <1>3 DEF Post, Unrecorded, TypeOK, HandsOK, HandStates
  <2> QED BY <1>1, <1>2, <2>1, <2>2, <2>3
<1>4. ASSUME NEW h \in Hands, Record(h), hand[h].job = e
      PROVE  sent'[e] <= logged'[e]
  <2>1. sent' = sent /\ status' = status
      BY <1>4 DEF Record, history
  <2>2. \A g \in Hands \ {h} : hand[g].job # e
      BY <1>4, DeliveryAssumption DEF OneOwner
  <2>3. logged'[e] = logged[e] + 1
      BY <1>4, <2>1, <2>2 DEF Record, TypeOK, RowsOK
  <2> QED BY <1>1, <1>2, <2>1, <2>3
<1>5. CASE /\ sent'[e] = sent[e] /\ logged'[e] = logged[e]
           /\ \A h \in Hands : ~ (Record(h) /\ hand[h].job = e)
  <2>1. ASSUME NEW h \in Hands, Unrecorded(h, e) PROVE Unrecorded(h, e)'
      BY <1>5, <2>1, UnrecordedMoves DEF Unrecorded
  <2> QED BY <1>2, <1>5, <2>1
<1> QED BY <1>3, <1>4, <1>5, TimelineMoves

\* While nobody replays and no UPDATE fails, every POST made for an event whose
\* delivery goes on, has failed or was announced is on its timeline or about to
\* be recorded, although recording is best effort, tasks die, answers are lost,
\* and the row may be acknowledged or deleted at any moment.
THEOREM PostsOnTimeline ==
    ASSUME "retry" \notin Operations, "db" \notin Faults, IsFiniteSet(Hands)
    PROVE  Spec => []AttemptsAccounted
<1> DEFINE Inv == /\ NoReplay /\ RefusalsFounded /\ UnsentHaveNoRow /\ FailedIsOver
                  /\ \A e \in Events : Accounted(e)
<1>1. Init => Inv
  <2> SUFFICES ASSUME Init PROVE Inv
      OBVIOUS
  <2> QED BY DEF Init, IdleHand, IdleAdmin, Refusals, NoReplay, RefusalsFounded,
             UnsentHaveNoRow, FailedIsOver, Accounted
<1>2. TypeOK /\ OneOwner /\ Fits /\ Inv /\ [Next]_vars => Inv'
    BY NoReplayStep, RefusalsFoundedStep, StatusStep, FailedIsOverStep, AccountedStep
<1>3. TypeOK /\ (\A e \in Events : Accounted(e)) => AttemptsAccounted
  <2> SUFFICES ASSUME TypeOK, NEW e \in Events, Accounted(e), status[e] # "none",
                      Followed(e)
               PROVE  sent[e] <= logged[e] + Cardinality({h \in Hands :
                                    /\ hand[h].job = e
                                    /\ hand[h].pc \in {"check", "record"}
                                    /\ hand[h].verdict \in Answers})
      BY DEF AttemptsAccounted, Followed
  <2> DEFINE S == {h \in Hands : /\ hand[h].job = e
                                 /\ hand[h].pc \in {"check", "record"}
                                 /\ hand[h].verdict \in Answers}
  <2>1. IsFiniteSet(S) /\ Cardinality(S) \in Nat
      BY FS_Subset, FS_CardinalityType
  <2>2. S # {} => Cardinality(S) # 0
      BY <2>1, FS_EmptySet
  <2>3. (\E h \in Hands : Unrecorded(h, e)) => S # {}
      BY DEF Unrecorded
  <2>4. sent[e] \in Nat /\ logged[e] \in Nat
      BY DEF TypeOK, RowsOK, HistoryOK
  <2> HIDE DEF S
  <2>5. sent[e] <= logged[e] + Cardinality(S)
      BY <2>1, <2>2, <2>3, <2>4 DEF Accounted
  <2> QED BY <2>5 DEF S
<1>4. Spec => [](TypeOK /\ OneOwner /\ Fits)
    BY FitsAlways
<1> QED BY <1>1, <1>2, <1>3, <1>4, PTL DEF Spec
=============================================================================

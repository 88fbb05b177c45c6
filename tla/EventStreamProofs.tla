--------------------------- MODULE EventStreamProofs ---------------------------
(***************************************************************************)
(* Theorems about the live stream and its follower, for any number of      *)
(* events, connections and rows per poll, and any capacity of the channel. *)
(***************************************************************************)
EXTENDS EventStream, FiniteSetTheorems, SequenceTheorems, TLAPS

-----------------------------------------------------------------------------
(***************************************************************************)
(* The inductive invariant.                                                *)
(***************************************************************************)
\* The clock is ahead of every stamp and of the server task, and the server
\* task is ahead of the start of its connection.
ClockLeads ==
    /\ \A e \in Events : stamp[e] <= clock
    /\ opened <= lastSeen
    /\ lastSeen <= clock

\* What is on its way had been committed, and lies behind the server task.
PipelineBehind ==
    \A i \in 1..Len(Pipeline) :
        stage[Pipeline[i]] = "visible" /\ stamp[Pipeline[i]] <= lastSeen

\* At any moment finitely many events have come in, so a poll finds finitely
\* many rows even if infinitely many are to follow.
Begun == {e \in Events : stage[e] # "new"}
FinitelyMany == IsFiniteSet(Begun)

Inv ==
    /\ TypeOK
    /\ ClockLeads /\ FinitelyMany
    /\ PipelineBehind /\ MirroredInOrder
    /\ OnlyLateMissed

-----------------------------------------------------------------------------
(***************************************************************************)
(* Sequences.                                                              *)
(***************************************************************************)
\* Handing the first element of one queue to the end of the one before it.
LEMMA HandedOn ==
    ASSUME NEW S, NEW s \in Seq(S), NEW t \in Seq(S), t # << >>
    PROVE  /\ Append(s, Head(t)) \in Seq(S) /\ Tail(t) \in Seq(S)
           /\ Append(s, Head(t)) \o Tail(t) = s \o t
<1>1. Head(t) \in S /\ Tail(t) \in Seq(S) /\ t = <<Head(t)>> \o Tail(t)
  BY HeadTailProperties, HeadTailAppend
<1>2. Append(s, Head(t)) = s \o <<Head(t)>>
  BY <1>1, AppendIsConcat
<1>3. (s \o <<Head(t)>>) \o Tail(t) = s \o (<<Head(t)>> \o Tail(t))
  BY <1>1, ConcatAssociative
<1> QED BY <1>1, <1>2, <1>3, AppendProperties

\* The pipeline is a queue of events; Send and Mirror leave it as it is.
LEMMA PipelineType ==
    ASSUME TypeOK
    PROVE  Pipeline \in Seq(Events)
BY ConcatProperties DEF TypeOK, Pipeline

LEMMA SendKeepsPipeline ==
    ASSUME TypeOK, Send
    PROVE  Pipeline' = Pipeline
<1>1. mirrored \in Seq(Events) /\ channel \in Seq(Events) /\ outbox \in Seq(Events) /\ outbox # << >>
  BY DEF TypeOK, Send
<1>2. (mirrored \o Append(channel, Head(outbox))) \o Tail(outbox) = (mirrored \o channel) \o outbox
  <2> DEFINE x == Append(channel, Head(outbox))
             y == Tail(outbox)
  <2>1. x \in Seq(Events) /\ y \in Seq(Events)
    BY <1>1, HandedOn
  <2>2. x \o y = channel \o outbox
    BY <1>1, HandedOn
  <2> HIDE DEF x, y
  <2>3. (mirrored \o x) \o y = mirrored \o (x \o y)
    BY <1>1, <2>1, ConcatAssociative
  <2>4. (mirrored \o channel) \o outbox = mirrored \o (channel \o outbox)
    BY <1>1, ConcatAssociative
  <2> QED BY <2>2, <2>3, <2>4 DEF x, y
<1> QED BY <1>2 DEF Pipeline, Send

LEMMA MirrorKeepsPipeline ==
    ASSUME TypeOK, Mirror
    PROVE  Pipeline' = Pipeline
<1>1. mirrored \in Seq(Events) /\ channel \in Seq(Events) /\ channel # << >>
  BY DEF TypeOK, Mirror
<1>2. mirrored' \o channel' = mirrored \o channel
  BY <1>1, HandedOn DEF Mirror
<1> QED BY <1>2 DEF Pipeline, Mirror, serverVars

\* A broken connection leaves what was mirrored.
LEMMA DisconnectCuts ==
    ASSUME TypeOK, Disconnect
    PROVE  /\ Pipeline' = mirrored
           /\ Len(mirrored) <= Len(Pipeline)
           /\ \A i \in 1..Len(mirrored) : Pipeline'[i] = Pipeline[i]
<1>1. mirrored \in Seq(Events) /\ channel \in Seq(Events) /\ outbox \in Seq(Events)
  BY DEF TypeOK
<1>2. Pipeline' = mirrored
  BY <1>1, ConcatEmptySeq DEF Disconnect, Pipeline
<1>3. mirrored \o channel \in Seq(Events)
  BY <1>1, ConcatProperties
<1>4. /\ Len(mirrored) \in Nat /\ Len(channel) \in Nat /\ Len(outbox) \in Nat
      /\ Len(mirrored \o channel) = Len(mirrored) + Len(channel)
      /\ Len(Pipeline) = Len(mirrored \o channel) + Len(outbox)
      /\ \A i \in 1..Len(mirrored) : (mirrored \o channel)[i] = mirrored[i]
      /\ \A i \in 1..Len(mirrored \o channel) : Pipeline[i] = (mirrored \o channel)[i]
  BY <1>1, <1>3, ConcatProperties, LenProperties DEF Pipeline
<1> QED BY <1>2, <1>4

-----------------------------------------------------------------------------
(***************************************************************************)
(* What one poll sends.                                                    *)
(***************************************************************************)
\* A selection of some rows is a queue of them, without repetition and in the
\* order of their stamps, and leaves out none that is older than its last one.
LEMMA SelectionsAre ==
    ASSUME TypeOK, FinitelyMany, Fresh # {}, NEW s \in Selections(Fresh)
    PROVE  /\ s \in Seq(Fresh) /\ s \in Seq(Events)
           /\ Len(s) >= 1
           /\ \A i, j \in 1..Len(s) : i < j => s[i] # s[j] /\ stamp[s[i]] <= stamp[s[j]]
           /\ \A e \in Fresh : (\A i \in 1..Len(s) : s[i] # e) => stamp[s[Len(s)]] <= stamp[e]
<1> DEFINE n == IF Cardinality(Fresh) < Limit THEN Cardinality(Fresh) ELSE Limit
<1>1. IsFiniteSet(Fresh)
  <2>1. Fresh \subseteq Begun
    BY DEF Fresh, Begun
  <2> QED BY <2>1, FS_Subset DEF FinitelyMany
<1>2. Cardinality(Fresh) \in Nat /\ Cardinality(Fresh) # 0
  BY <1>1, FS_CardinalityType, FS_EmptySet
<1>3. n \in Nat /\ n >= 1
  BY <1>2, EventStreamAssumption
<1>4. /\ s \in [1..n -> Fresh]
      /\ \A i, j \in 1..n : i < j => s[i] # s[j] /\ stamp[s[i]] <= stamp[s[j]]
      /\ \A e \in Fresh : (\A i \in 1..n : s[i] # e) => stamp[s[n]] <= stamp[e]
  BY DEF Selections
<1> HIDE DEF n
<1>5. s \in Seq(Fresh) /\ Len(s) = n
  BY <1>3, <1>4
<1>6. s \in Seq(Events)
  BY <1>5, SeqMonotonic DEF Fresh
<1> QED BY <1>3, <1>4, <1>5, <1>6

-----------------------------------------------------------------------------
(***************************************************************************)
(* The steps.                                                              *)
(***************************************************************************)
LEMMA InitInv == Init => Inv
<1> SUFFICES ASSUME Init
             PROVE  Inv
  OBVIOUS
<1>1. TypeOK
  <2>1. << >> \in Seq(Events) /\ Len(<< >>) = 0
    BY EmptySeq
  <2>2. channel \in Seq(Events) /\ Len(channel) <= Capacity
    BY <2>1, EventStreamAssumption DEF Init
  <2>3. outbox \in Seq(Events) /\ mirrored \in Seq(Events)
    BY <2>1 DEF Init
  <2>4. /\ clock \in 0..MaxTime /\ connects \in 0..MaxConnects
        /\ opened \in 0..MaxTime /\ lastSeen \in 0..MaxTime
    BY EventStreamAssumption DEF Init
  <2>5. /\ stage \in [Events -> {"new", "stamped", "visible", "refused"}]
        /\ stamp \in [Events -> 0..MaxTime]
    BY EventStreamAssumption DEF Init
  <2>6. open \in BOOLEAN /\ late \subseteq Events
    BY DEF Init
  <2> QED BY <2>2, <2>3, <2>4, <2>5, <2>6 DEF TypeOK
<1>2. Pipeline = << >>
  BY DEF Init, Pipeline
<1>3. PipelineBehind /\ MirroredInOrder
  BY <1>2 DEF PipelineBehind, MirroredInOrder
<1>4. Begun = {}
  BY DEF Init, Begun
<1>5. FinitelyMany
  BY <1>4, FS_EmptySet DEF FinitelyMany
<1>6. ClockLeads /\ OnlyLateMissed
  BY DEF Init, ClockLeads, OnlyLateMissed, Passed
<1> QED BY <1>1, <1>3, <1>5, <1>6 DEF Inv

\* Every step keeps the types.
LEMMA TypeStep ==
    ASSUME TypeOK, ClockLeads, FinitelyMany, [Next]_vars
    PROVE  TypeOK'
<1>1. CASE Tick
  BY <1>1, EventStreamAssumption DEF TypeOK, Tick, ingestVars, serverVars
<1>2. ASSUME NEW e \in Events, Stamp(e)
      PROVE  TypeOK'
  BY <1>2 DEF TypeOK, Stamp, serverVars
<1>3. ASSUME NEW e \in Events, Commit(e) \/ Abort(e)
      PROVE  TypeOK'
  BY <1>3 DEF TypeOK, Commit, Abort, serverVars
<1>4. CASE Connect
  BY <1>4, EventStreamAssumption DEF TypeOK, Connect, ingestVars
<1>5. CASE Poll
  <2>1. PICK s \in Selections(Fresh) : outbox' = s /\ lastSeen' = stamp[s[Len(s)]]
    BY <1>5 DEF Poll
  <2>2. s \in Seq(Events) /\ Len(s) >= 1
    BY <1>5, <2>1, SelectionsAre DEF Poll
  <2>3. stamp[s[Len(s)]] \in 0..MaxTime
    BY <2>2 DEF TypeOK
  <2> QED BY <1>5, <2>1, <2>2, <2>3 DEF TypeOK, Poll, ingestVars
<1>6. CASE Send
  <2>1. Append(channel, Head(outbox)) \in Seq(Events) /\ Tail(outbox) \in Seq(Events)
    BY <1>6, HandedOn DEF TypeOK, Send
  <2>2. Head(outbox) \in Events /\ Len(Append(channel, Head(outbox))) = Len(channel) + 1
    BY <1>6, HeadTailProperties, AppendProperties DEF TypeOK, Send
  <2>3. Len(channel) \in Nat
    BY LenProperties DEF TypeOK
  <2> QED BY <1>6, <2>1, <2>2, <2>3, EventStreamAssumption DEF TypeOK, Send, ingestVars
<1>7. CASE Mirror
  <2>1. Append(mirrored, Head(channel)) \in Seq(Events) /\ Tail(channel) \in Seq(Events)
    BY <1>7, HandedOn DEF TypeOK, Mirror
  <2>2. Len(Tail(channel)) = Len(channel) - 1 /\ Len(channel) \in Nat
    BY <1>7, HeadTailProperties, LenProperties DEF TypeOK, Mirror
  <2> QED BY <1>7, <2>1, <2>2, EventStreamAssumption DEF TypeOK, Mirror, ingestVars, serverVars
<1>8. CASE Disconnect
  <2>1. << >> \in Seq(Events) /\ Len(<< >>) = 0
    BY EmptySeq
  <2>2. channel' \in Seq(Events) /\ Len(channel') <= Capacity
    BY <1>8, <2>1, EventStreamAssumption DEF Disconnect
  <2>3. outbox' \in Seq(Events)
    BY <1>8, <2>1 DEF Disconnect
  <2> QED BY <1>8, <2>2, <2>3 DEF TypeOK, Disconnect, ingestVars
<1>9. CASE UNCHANGED vars
  BY <1>9 DEF TypeOK, vars, ingestVars, serverVars
<1> QED BY <1>1, <1>2, <1>3, <1>4, <1>5, <1>6, <1>7, <1>8, <1>9 DEF Next

\* Only the beginning of its ingest makes one more event known.
LEMMA FinitelyManyStep ==
    ASSUME TypeOK, FinitelyMany, [Next]_vars
    PROVE  FinitelyMany'
<1>1. ASSUME NEW e \in Events, Stamp(e)
      PROVE  FinitelyMany'
  <2>1. Begun' \subseteq Begun \cup {e}
    BY <1>1 DEF TypeOK, Stamp, Begun
  <2>2. IsFiniteSet(Begun \cup {e})
    BY FS_AddElement DEF FinitelyMany
  <2> QED BY <2>1, <2>2, FS_Subset DEF FinitelyMany
<1>2. ASSUME Begun' \subseteq Begun
      PROVE  FinitelyMany'
  BY <1>2, FS_Subset DEF FinitelyMany
<1>3. ASSUME NEW e \in Events, Commit(e) \/ Abort(e)
      PROVE  Begun' \subseteq Begun
  BY <1>3 DEF TypeOK, Commit, Abort, Begun
<1>4. CASE Tick \/ Connect \/ Poll \/ Send \/ Mirror \/ Disconnect \/ UNCHANGED vars
  <2>1. UNCHANGED stage
    BY <1>4 DEF Tick, Connect, Poll, Send, Mirror, Disconnect, vars, ingestVars
  <2> QED BY <1>2, <2>1 DEF Begun
<1> QED BY <1>1, <1>2, <1>3, <1>4 DEF Next

LEMMA ClockLeadsStep ==
    ASSUME TypeOK, ClockLeads, FinitelyMany, [Next]_vars
    PROVE  ClockLeads'
<1>1. CASE Tick
  BY <1>1 DEF TypeOK, ClockLeads, Tick, ingestVars, serverVars
<1>2. ASSUME NEW e \in Events, Stamp(e)
      PROVE  ClockLeads'
  BY <1>2 DEF TypeOK, ClockLeads, Stamp, serverVars
<1>3. CASE Connect
  BY <1>3 DEF TypeOK, ClockLeads, Connect, ingestVars
<1>4. CASE Poll
  <2>1. PICK s \in Selections(Fresh) : outbox' = s /\ lastSeen' = stamp[s[Len(s)]]
    BY <1>4 DEF Poll
  <2>2. s \in Seq(Fresh) /\ Len(s) >= 1
    BY <1>4, <2>1, SelectionsAre DEF Poll
  <2>3. s[Len(s)] \in Fresh
    BY <2>2
  <2> QED BY <1>4, <2>1, <2>3 DEF TypeOK, ClockLeads, Poll, Fresh, ingestVars
<1>5. ASSUME NEW e \in Events, Commit(e) \/ Abort(e)
      PROVE  ClockLeads'
  BY <1>5 DEF ClockLeads, Commit, Abort, serverVars
<1>6. CASE Send \/ Mirror \/ Disconnect \/ UNCHANGED vars
  BY <1>6 DEF ClockLeads, Send, Mirror, Disconnect, vars, ingestVars, serverVars
<1> QED BY <1>1, <1>2, <1>3, <1>4, <1>5, <1>6 DEF Next

-----------------------------------------------------------------------------
(***************************************************************************)
(* The order of the pipeline.                                              *)
(***************************************************************************)
\* A committed event keeps its stamp, and the server task does not go back.
Steady ==
    /\ \A e \in Events : stage[e] = "visible" => stage'[e] = "visible" /\ stamp'[e] = stamp[e]
    /\ lastSeen <= lastSeen'

\* A poll starts behind everything it finds.
LEMMA PollAdvances ==
    ASSUME TypeOK, FinitelyMany, Poll
    PROVE  \E s \in Selections(Fresh) :
              /\ outbox' = s /\ lastSeen' = stamp[s[Len(s)]]
              /\ lastSeen < lastSeen' /\ s[Len(s)] \in Fresh
<1>1. PICK s \in Selections(Fresh) : outbox' = s /\ lastSeen' = stamp[s[Len(s)]]
  BY DEF Poll
<1>2. s \in Seq(Fresh) /\ Len(s) >= 1
  BY <1>1, SelectionsAre DEF Poll
<1>3. s[Len(s)] \in Fresh
  BY <1>2
<1>4. lastSeen < stamp[s[Len(s)]]
  BY <1>3 DEF Fresh, TypeOK
<1> QED BY <1>1, <1>3, <1>4

LEMMA SteadyStep ==
    ASSUME TypeOK, ClockLeads, FinitelyMany, [Next]_vars
    PROVE  Steady
<1>1. ASSUME NEW e \in Events, Stamp(e) \/ Commit(e) \/ Abort(e)
      PROVE  Steady
  BY <1>1 DEF TypeOK, Steady, Stamp, Commit, Abort, serverVars
<1>2. CASE Poll
  BY <1>2, PollAdvances DEF Steady, Poll, ingestVars, TypeOK
<1>3. CASE Tick \/ Connect \/ Send \/ Mirror \/ Disconnect \/ UNCHANGED vars
  BY <1>3 DEF TypeOK, ClockLeads, Steady, Tick, Connect, Send, Mirror, Disconnect, vars,
     ingestVars, serverVars
<1> QED BY <1>1, <1>2, <1>3 DEF Next

\* Polls append to the pipeline, breaks cut it, nothing else changes it.
LEMMA PollAppends ==
    ASSUME TypeOK, FinitelyMany, Poll, NEW s \in Selections(Fresh), outbox' = s
    PROVE  /\ Len(Pipeline) \in Nat /\ Len(s) \in Nat
           /\ Len(Pipeline') = Len(Pipeline) + Len(s)
           /\ \A i \in 1..Len(Pipeline) : Pipeline'[i] = Pipeline[i]
           /\ \A i \in 1..Len(s) : Pipeline'[Len(Pipeline) + i] = s[i]
<1>1. mirrored \in Seq(Events) /\ channel \in Seq(Events) /\ outbox = << >> /\ s \in Seq(Events)
  BY SelectionsAre DEF TypeOK, Poll
<1> DEFINE q == mirrored \o channel
<1>2. q \in Seq(Events)
  BY <1>1, ConcatProperties
<1>3. Pipeline' = q \o s
  BY DEF Pipeline, Poll
<1>4. Pipeline = q \o << >>
  BY <1>1 DEF Pipeline
<1> HIDE DEF q
<1>5. Pipeline = q
  BY <1>2, <1>4, ConcatEmptySeq
<1>6. /\ Len(q) \in Nat /\ Len(s) \in Nat /\ Len(q \o s) = Len(q) + Len(s)
      /\ \A i \in 1..Len(q) + Len(s) : (q \o s)[i] = IF i <= Len(q) THEN q[i] ELSE s[i - Len(q)]
  BY <1>1, <1>2, ConcatProperties, LenProperties
<1>7. \A i \in 1..Len(s) : (q \o s)[Len(q) + i] = s[i]
  BY <1>6
<1>8. \A i \in 1..Len(q) : (q \o s)[i] = q[i]
  BY <1>6
<1> QED BY <1>3, <1>5, <1>6, <1>7, <1>8

LEMMA PipelineUnchanged ==
    ASSUME TypeOK, [Next]_vars, ~Poll, ~Disconnect
    PROVE  Pipeline' = Pipeline
<1>1. ASSUME NEW e \in Events, Stamp(e) \/ Commit(e) \/ Abort(e)
      PROVE  Pipeline' = Pipeline
  BY <1>1 DEF Pipeline, Stamp, Commit, Abort, serverVars
<1>2. CASE Tick \/ Connect \/ UNCHANGED vars
  BY <1>2 DEF Pipeline, Tick, Connect, vars, serverVars
<1> QED BY <1>1, <1>2, SendKeepsPipeline, MirrorKeepsPipeline DEF Next

LEMMA OrderStep ==
    ASSUME Inv, [Next]_vars
    PROVE  PipelineBehind' /\ MirroredInOrder'
<1>0. /\ TypeOK /\ ClockLeads /\ FinitelyMany /\ Steady
      /\ TypeOK'
      /\ PipelineBehind /\ MirroredInOrder
      /\ Pipeline \in Seq(Events) /\ Len(Pipeline) \in Nat
  BY SteadyStep, TypeStep, PipelineType, LenProperties DEF Inv
<1>1. lastSeen \in Nat /\ lastSeen' \in Nat /\ \A e \in Events : stamp[e] \in Nat
  BY <1>0 DEF TypeOK
\* Events that were in the pipeline before, at places no later than now.
<1>2. ASSUME NEW i \in 1..Len(Pipeline), Pipeline'[i] = Pipeline[i]
      PROVE  /\ Pipeline'[i] \in Events
             /\ stage[Pipeline'[i]] = "visible" /\ stage'[Pipeline'[i]] = "visible"
             /\ stamp[Pipeline'[i]] <= lastSeen /\ stamp[Pipeline'[i]] <= lastSeen'
             /\ stamp'[Pipeline'[i]] = stamp[Pipeline'[i]]
  <2>1. Pipeline[i] \in Events
    BY <1>0
  <2>2. stage[Pipeline[i]] = "visible" /\ stamp[Pipeline[i]] <= lastSeen
    BY <1>0 DEF PipelineBehind
  <2>3. stage'[Pipeline[i]] = "visible" /\ stamp'[Pipeline[i]] = stamp[Pipeline[i]] /\ lastSeen <= lastSeen'
    BY <1>0, <2>1, <2>2 DEF Steady
  <2> QED BY <1>1, <1>2, <2>1, <2>2, <2>3
<1>3. ASSUME Len(Pipeline') \in Nat, Len(Pipeline') <= Len(Pipeline),
             \A i \in 1..Len(Pipeline') : Pipeline'[i] = Pipeline[i]
      PROVE  PipelineBehind' /\ MirroredInOrder'
  <2>1. ASSUME NEW i \in 1..Len(Pipeline')
        PROVE  i \in 1..Len(Pipeline) /\ Pipeline'[i] = Pipeline[i]
    BY <1>0, <1>3
  <2>2. PipelineBehind'
    <3> SUFFICES ASSUME NEW i \in 1..Len(Pipeline')
                 PROVE  stage'[Pipeline'[i]] = "visible" /\ stamp'[Pipeline'[i]] <= lastSeen'
      BY DEF PipelineBehind
    <3> QED BY <1>2, <2>1
  <2>3. MirroredInOrder'
    <3> SUFFICES ASSUME NEW i \in 1..Len(Pipeline'), NEW j \in 1..Len(Pipeline'), i < j
                 PROVE  Pipeline'[i] # Pipeline'[j] /\ stamp'[Pipeline'[i]] <= stamp'[Pipeline'[j]]
      BY DEF MirroredInOrder
    <3>1. Pipeline[i] # Pipeline[j] /\ stamp[Pipeline[i]] <= stamp[Pipeline[j]]
      BY <1>0, <2>1 DEF MirroredInOrder
    <3> QED BY <1>2, <2>1, <3>1
  <2> QED BY <2>2, <2>3
<1>4. CASE Poll
  <2>1. PICK s \in Selections(Fresh) :
            outbox' = s /\ lastSeen' = stamp[s[Len(s)]] /\ lastSeen < lastSeen'
    BY <1>0, <1>4, PollAdvances
  <2>2. /\ s \in Seq(Fresh) /\ Len(s) \in Nat /\ Len(s) >= 1
        /\ \A i, j \in 1..Len(s) : i < j => s[i] # s[j] /\ stamp[s[i]] <= stamp[s[j]]
    BY <1>0, <1>4, SelectionsAre, LenProperties DEF Poll
  <2>3. /\ Len(Pipeline') = Len(Pipeline) + Len(s)
        /\ \A i \in 1..Len(Pipeline) : Pipeline'[i] = Pipeline[i]
        /\ \A i \in 1..Len(s) : Pipeline'[Len(Pipeline) + i] = s[i]
    BY <1>0, <1>4, <2>1, PollAppends
  <2>4. UNCHANGED <<stage, stamp>>
    BY <1>4 DEF Poll, ingestVars
  <2>5. ASSUME NEW i \in 1..Len(s)
        PROVE  /\ s[i] \in Events /\ stage[s[i]] = "visible"
               /\ lastSeen < stamp[s[i]] /\ stamp[s[i]] <= lastSeen'
    <3>1. s[i] \in Fresh
      BY <2>2
    <3>2. i < Len(s) \/ i = Len(s)
      BY <2>2
    <3>3. stamp[s[i]] <= stamp[s[Len(s)]]
      BY <1>1, <2>2, <3>1, <3>2 DEF Fresh
    <3> QED BY <2>1, <3>1, <3>3 DEF Fresh
  <2>6. ASSUME NEW i \in 1..Len(Pipeline')
        PROVE  \/ i \in 1..Len(Pipeline) /\ Pipeline'[i] = Pipeline[i]
               \/ \E k \in 1..Len(s) : i = Len(Pipeline) + k /\ Pipeline'[i] = s[k]
    <3>1. CASE i > Len(Pipeline)
      <4>1. i - Len(Pipeline) \in 1..Len(s) /\ i = Len(Pipeline) + (i - Len(Pipeline))
        BY <1>0, <2>2, <2>3, <3>1
      <4> QED BY <2>3, <4>1
    <3>2. CASE i <= Len(Pipeline)
      BY <1>0, <2>3, <3>2
    <3> QED BY <1>0, <3>1, <3>2
  <2>7. PipelineBehind'
    <3> SUFFICES ASSUME NEW i \in 1..Len(Pipeline')
                 PROVE  stage'[Pipeline'[i]] = "visible" /\ stamp'[Pipeline'[i]] <= lastSeen'
      BY DEF PipelineBehind
    <3>1. CASE i \in 1..Len(Pipeline) /\ Pipeline'[i] = Pipeline[i]
      BY <1>2, <3>1
    <3>2. CASE \E k \in 1..Len(s) : i = Len(Pipeline) + k /\ Pipeline'[i] = s[k]
      BY <2>4, <2>5, <3>2
    <3> QED BY <2>6, <3>1, <3>2
  <2>8. MirroredInOrder'
    <3> SUFFICES ASSUME NEW i \in 1..Len(Pipeline'), NEW j \in 1..Len(Pipeline'), i < j
                 PROVE  Pipeline'[i] # Pipeline'[j] /\ stamp[Pipeline'[i]] <= stamp[Pipeline'[j]]
      BY <2>4 DEF MirroredInOrder
    <3>1. CASE j \in 1..Len(Pipeline) /\ Pipeline'[j] = Pipeline[j]
      <4>1. i \in 1..Len(Pipeline) /\ Pipeline'[i] = Pipeline[i]
        BY <1>0, <2>3, <3>1
      <4> QED BY <1>0, <3>1, <4>1 DEF MirroredInOrder
    <3>2. ASSUME NEW k \in 1..Len(s), j = Len(Pipeline) + k, Pipeline'[j] = s[k]
          PROVE  Pipeline'[i] # Pipeline'[j] /\ stamp[Pipeline'[i]] <= stamp[Pipeline'[j]]
      <4>1. CASE i \in 1..Len(Pipeline) /\ Pipeline'[i] = Pipeline[i]
        <5>1. Pipeline'[i] \in Events /\ stamp[Pipeline'[i]] <= lastSeen
          BY <1>2, <4>1
        <5>2. lastSeen < stamp[s[k]] /\ s[k] \in Events
          BY <2>5
        <5>3. stamp[Pipeline'[i]] < stamp[s[k]]
          BY <1>1, <5>1, <5>2
        <5> QED BY <1>1, <3>2, <5>1, <5>2, <5>3
      <4>2. ASSUME NEW m \in 1..Len(s), i = Len(Pipeline) + m, Pipeline'[i] = s[m]
            PROVE  Pipeline'[i] # Pipeline'[j] /\ stamp[Pipeline'[i]] <= stamp[Pipeline'[j]]
        <5>1. m < k
          BY <1>0, <2>2, <3>2, <4>2
        <5> QED BY <2>2, <3>2, <4>2, <5>1
      <4> QED BY <2>6, <4>1, <4>2
    <3> QED BY <2>6, <3>1, <3>2
  <2> QED BY <2>7, <2>8
<1>5. CASE Disconnect
  <2>1. Pipeline' = mirrored /\ mirrored \in Seq(Events) /\ Len(mirrored) \in Nat
    BY <1>0, <1>5, DisconnectCuts, LenProperties DEF TypeOK
  <2>2. Len(Pipeline') <= Len(Pipeline) /\ \A i \in 1..Len(Pipeline') : Pipeline'[i] = Pipeline[i]
    BY <1>0, <1>5, <2>1, DisconnectCuts
  <2> QED BY <1>3, <2>1, <2>2
<1>6. CASE ~Poll /\ ~Disconnect
  <2>1. Pipeline' = Pipeline
    BY <1>0, <1>6, PipelineUnchanged
  <2> QED BY <1>0, <1>3, <2>1
<1> QED BY <1>4, <1>5, <1>6

-----------------------------------------------------------------------------
(***************************************************************************)
(* What is missed.                                                         *)
(***************************************************************************)
\* An excuse for a committed event holds for good, as long as the client stays.
Excused(e) == InPipeline(e) \/ e \in late \/ Tied(e)

LEMMA ExcuseKept ==
    ASSUME Inv, [Next]_vars, ~Disconnect, NEW e \in Events, stage[e] = "visible", Excused(e)
    PROVE  Excused(e)'
<1>0. TypeOK /\ FinitelyMany /\ Steady /\ Pipeline \in Seq(Events)
  BY SteadyStep, PipelineType DEF Inv
<1>1. CASE Tied(e)
  <2>1. PICK f \in Events \ {e} : stage[f] = "visible" /\ stamp[f] = stamp[e]
    BY <1>1 DEF Tied
  <2>2. stage'[f] = "visible" /\ stamp'[f] = stamp'[e]
    BY <1>0, <2>1 DEF Steady
  <2> QED BY <2>2 DEF Excused, Tied
<1>2. CASE e \in late
  <2>1. late \subseteq late'
    BY DEF Next, Tick, Stamp, Commit, Abort, Connect, Poll, Send, Mirror, Disconnect, vars
  <2> QED BY <1>2, <2>1 DEF Excused
<1>3. CASE InPipeline(e) /\ ~Poll
  <2>1. Pipeline' = Pipeline
    BY <1>0, <1>3, PipelineUnchanged
  <2>2. InPipeline(e)'
    BY <1>3, <2>1 DEF InPipeline
  <2> QED BY <2>2 DEF Excused
<1>4. CASE InPipeline(e) /\ Poll
  <2>1. PICK s \in Selections(Fresh) : outbox' = s
    BY <1>4 DEF Poll
  <2>2. /\ Len(Pipeline) \in Nat /\ Len(s) \in Nat
        /\ Len(Pipeline') = Len(Pipeline) + Len(s)
        /\ \A i \in 1..Len(Pipeline) : Pipeline'[i] = Pipeline[i]
    BY <1>0, <1>4, <2>1, PollAppends
  <2>3. PICK i \in 1..Len(Pipeline) : Pipeline[i] = e
    BY <1>4 DEF InPipeline
  <2>4. i \in 1..Len(Pipeline') /\ Pipeline'[i] = e
    BY <2>2, <2>3
  <2>5. InPipeline(e)'
    BY <2>4 DEF InPipeline
  <2> QED BY <2>5 DEF Excused
<1> QED BY <1>1, <1>2, <1>3, <1>4 DEF Excused

\* A poll that passes an event sends it, or breaks off at another one with the
\* same stamp.
LEMMA PollExcuses ==
    ASSUME Inv, Poll, NEW e \in Events, Passed(e)', ~Passed(e)
    PROVE  Excused(e)'
<1>0. TypeOK /\ FinitelyMany
  BY DEF Inv
<1>1. open /\ UNCHANGED <<stage, stamp, opened>>
  BY DEF Poll, ingestVars
<1>2. e \in Fresh /\ stamp[e] <= lastSeen'
  BY <1>0, <1>1 DEF Passed, Fresh, TypeOK
<1>3. PICK s \in Selections(Fresh) :
          outbox' = s /\ lastSeen' = stamp[s[Len(s)]] /\ s[Len(s)] \in Fresh
  BY <1>0, PollAdvances
<1>4. CASE \E i \in 1..Len(s) : s[i] = e
  <2>1. PICK i \in 1..Len(s) : s[i] = e
    BY <1>4
  <2>2. /\ Len(Pipeline) \in Nat /\ Len(s) \in Nat
        /\ Len(Pipeline') = Len(Pipeline) + Len(s)
        /\ Pipeline'[Len(Pipeline) + i] = s[i]
    BY <1>0, <1>3, PollAppends
  <2>3. Len(Pipeline) + i \in 1..Len(Pipeline')
    BY <2>2
  <2>4. InPipeline(e)'
    BY <2>1, <2>2, <2>3 DEF InPipeline
  <2> QED BY <2>4 DEF Excused
<1>5. CASE \A i \in 1..Len(s) : s[i] # e
  <2>1. /\ Len(s) >= 1 /\ Len(s) \in Nat
        /\ stamp[s[Len(s)]] <= stamp[e]
    BY <1>0, <1>2, <1>3, <1>5, SelectionsAre, LenProperties DEF Poll
  <2>2. s[Len(s)] # e
    BY <1>5, <2>1
  <2>3. stamp[s[Len(s)]] = stamp[e]
    BY <1>0, <1>2, <1>3, <2>1 DEF TypeOK, Fresh
  <2>4. Tied(e)'
    BY <1>1, <1>3, <2>2, <2>3 DEF Tied, Fresh
  <2> QED BY <2>4 DEF Excused
<1> QED BY <1>4, <1>5

LEMMA MissedStep ==
    ASSUME Inv, [Next]_vars
    PROVE  OnlyLateMissed'
<1> SUFFICES ASSUME NEW e \in Events, Passed(e)'
             PROVE  Excused(e)'
  BY DEF OnlyLateMissed, Excused
<1>0. TypeOK /\ ClockLeads /\ OnlyLateMissed
  BY DEF Inv
<1>1. CASE Passed(e)
  <2>1. ~Disconnect
    BY DEF Passed, Disconnect
  <2>2. stage[e] = "visible" /\ Excused(e)
    BY <1>0, <1>1 DEF OnlyLateMissed, Excused, Passed
  <2> QED BY <2>1, <2>2, ExcuseKept
<1>2. CASE ~Passed(e)
  <2>1. ASSUME NEW f \in Events, Commit(f)
        PROVE  Excused(e)'
    <3>1. f = e
      BY <1>0, <1>2, <2>1 DEF Passed, Commit, TypeOK, serverVars
    <3>2. e \in late'
      BY <2>1, <3>1 DEF Passed, Commit, serverVars
    <3> QED BY <3>2 DEF Excused
  <2>2. ASSUME NEW f \in Events, Stamp(f) \/ Abort(f)
        PROVE  FALSE
    BY <1>0, <1>2, <2>2 DEF Passed, Stamp, Abort, TypeOK, serverVars
  <2>3. ~Connect
    BY <1>0 DEF Passed, Connect, TypeOK, ingestVars
  <2>4. ~Tick /\ ~Send /\ ~Mirror /\ ~Disconnect /\ ~UNCHANGED vars
    BY <1>2 DEF Passed, Tick, Send, Mirror, Disconnect, vars, ingestVars, serverVars
  <2> QED BY <1>2, <2>1, <2>2, <2>3, <2>4, PollExcuses DEF Next
<1> QED BY <1>1, <1>2

LEMMA NextInv == Inv /\ [Next]_vars => Inv'
BY TypeStep, ClockLeadsStep, FinitelyManyStep, OrderStep, MissedStep DEF Inv

-----------------------------------------------------------------------------
\* Every variable keeps its type, for any number of events and connections; the
\* channel never holds more than its capacity.
THEOREM StreamTypes == Spec => []TypeOK
<1>1. Inv => TypeOK  BY DEF Inv
<1> QED BY InitInv, NextInv, <1>1, PTL DEF Spec

\* The follower posts no event twice and keeps the order of created_at, over
\* any number of polls, breaks of the connection and reconnections.
THEOREM MirroredOnceInOrder == Spec => []MirroredInOrder
<1>1. Inv => MirroredInOrder  BY DEF Inv
<1> QED BY InitInv, NextInv, <1>1, PTL DEF Spec

\* Of the events stamped during a connection the server task passes over only
\* those committed behind it and those that share a stamp with another.
THEOREM NothingElseMissed == Spec => []OnlyLateMissed
<1>1. Inv => OnlyLateMissed  BY DEF Inv
<1> QED BY InitInv, NextInv, <1>1, PTL DEF Spec
=============================================================================

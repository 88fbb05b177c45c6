----------------------------- MODULE HandlerProofs -----------------------------
(***************************************************************************)
(* Lemmas about Handler: where its helpers leave a request, and the others.  *)
(***************************************************************************)
EXTENDS Handler, TLAPS

At(pc, op, who, on, as, saw) == [pc |-> pc, op |-> op, who |-> who, on |-> on, as |-> as, saw |-> saw]

Shaped(q) == q = At(q.pc, q.op, q.who, q.on, q.as, q.saw)

Moved(r, q) ==
    /\ DOMAIN req' = Requests
    /\ \A s \in Requests \ {r} : req'[s] = req[s]
    /\ req'[r] = q

\* No request forgets that it was overtaken.
Remembered ==
    /\ overtaken' \in [Requests -> BOOLEAN]
    /\ \A s \in Requests : overtaken[s] => overtaken'[s]

LEMMA GotoMoves ==
    ASSUME DOMAIN req = Requests, NEW r \in Requests, Shaped(req[r]), NEW pc, Goto(r, pc)
    PROVE  Moved(r, At(pc, req[r].op, req[r].who, req[r].on, req[r].as, req[r].saw))
<1>1. req'[r] = [req[r] EXCEPT !.pc = pc]
  BY DEF Goto
<1>2. req'[r] = At(pc, req[r].op, req[r].who, req[r].on, req[r].as, req[r].saw)
  BY <1>1 DEF Shaped, At
<1> QED BY <1>2 DEF Goto, Moved

LEMMA KeepMoves ==
    ASSUME DOMAIN req = Requests, NEW r \in Requests, Shaped(req[r]), NEW x, NEW pc, Keep(r, x, pc)
    PROVE  Moved(r, At(pc, req[r].op, req[r].who, req[r].on, req[r].as, x))
<1>1. req'[r] = [req[r] EXCEPT !.saw = x, !.pc = pc]
  BY DEF Keep
<1>2. req'[r] = At(pc, req[r].op, req[r].who, req[r].on, req[r].as, x)
  BY <1>1 DEF Shaped, At
<1> QED BY <1>2 DEF Keep, Moved

LEMMA EnterMoves ==
    ASSUME DOMAIN req = Requests, NEW r \in Requests,
           NEW pc, NEW op, NEW who, NEW on, NEW as, Enter(r, pc, op, who, on, as)
    PROVE  Moved(r, At(pc, op, who, on, as, None))
BY DEF Enter, Moved, At

LEMMA FinishMoves ==
    ASSUME DOMAIN req = Requests, NEW r \in Requests, Finish(r)
    PROVE  Moved(r, At("over", None, None, None, None, None))
BY DEF Finish, Over, Idle, Moved, At

\* Whom a step overtakes.
LEMMA Overtakes ==
    ASSUME overtaken \in [Requests -> BOOLEAN], NEW r, NEW relying, Overtake(r, relying)
    PROVE  /\ Remembered
           /\ \A s \in Requests : s # r /\ Busy(s) /\ s \in relying => overtaken'[s]
           /\ r \in Requests => overtaken'[r] = overtaken[r]
BY DEF Overtake, Remembered
=============================================================================

----------------------------- MODULE RedisList -----------------------------
(***************************************************************************)
(* The Redis list commands the backend uses on terusin:queue.  The list is *)
(* a sequence whose head is the left end: LPUSH adds on the left, BRPOP     *)
(* takes from the right, LREM key 0 id removes every copy of an id.         *)
(*                                                                         *)
(* Lrem is written as a recursive function rather than with SelectSeq or   *)
(* SequencesExt!Remove: the proof system has no definition of SelectSeq, so *)
(* nothing could be proved about a queue that is scrubbed with it.          *)
(***************************************************************************)
EXTENDS Naturals, Sequences

Lpush(list, id) == <<id>> \o list

\* The id a BRPOP of a non-empty list returns, and what it leaves behind.
BrpopId(list) == list[Len(list)]
BrpopRest(list) == SubSeq(list, 1, Len(list) - 1)

Lrem(list, id) ==
    LET kept[i \in 0..Len(list)] ==
            IF i = 0 THEN << >>
            ELSE IF list[i] = id THEN kept[i - 1]
            ELSE Append(kept[i - 1], list[i])
    IN  kept[Len(list)]

Members(list) == {list[i] : i \in 1..Len(list)}

\* No id occurs twice.
Distinct(list) == \A i, j \in 1..Len(list) : list[i] = list[j] => i = j
=============================================================================

---------------------------- MODULE ResourcesMC ----------------------------
(***************************************************************************)
(* An instance of Resources for TLC.                                       *)
(***************************************************************************)
EXTENDS Resources

CONSTANTS ann, k1, k2, stripe, star, t1, t2, fallback, shop, none

MCRequests == 1..2
MCOlds     == {3, 4}
MCSources  == {stripe, star}
MCTargets  == {t1, t2}
MCHosts    == {shop}
MCLimit    == [resource \in {"providers", "domains", "api_keys"} |-> 1]
MCUsers    == {ann}
MCKeys     == {k1, k2}
MCOldKeys  == {k1}

Two(first, second) == [k \in MCOlds |-> IF k = 3 THEN first ELSE second]

\* Two providers of one source, or a provider, on or off, and a hook of it.
MCOldRules ==
    {Two(Provider(stripe, t1, TRUE), Provider(stripe, t2, TRUE)),
     Two(Provider(stripe, t1, TRUE), Hook(3, stripe, None, "success", "slack")),
     Two(Provider(stripe, t1, FALSE), Hook(3, stripe, t2, "success", "webhook"))}
=============================================================================

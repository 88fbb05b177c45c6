----------------------------- MODULE WorkspaceMC -----------------------------
(***************************************************************************)
(* Instances of SignIn, and with it of Workspace, for TLC.                 *)
(***************************************************************************)
EXTENDS SignIn, TLC

CONSTANTS ann, bob, gil, gilGoogle, gilGithub, f1, ours, none, gone

MCEmails     == {ann, bob, gil}
MCFounders   == {ann, bob}
MCIdentities == {gilGoogle, gilGithub}
MCEmailOf    == [i \in MCIdentities |-> gil]
MCInvites    == 1..2
MCRequests   == 1..2
MCFlows      == {f1}
MCSymmetry   == Permutations(MCFounders)
=============================================================================

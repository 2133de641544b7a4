----------------------------- MODULE MCCampaign -----------------------------
(* The rounds of a campaign, for TLC. *)
EXTENDS CampaignInvariant, TLC

\* Names and labels are interchangeable; the runs check safety only.
Symmetry == Permutations(Names) \cup Permutations(Rounds)
=============================================================================

----------------------------- MODULE MCPromotion -----------------------------
(* Pipelines and promote commands together, for TLC. *)
EXTENDS PromotionInvariant, TLC

\* Promote processes differ in nothing but their arguments, which Init gives
\* every combination of; the runs that use this check safety only.
PromoterSymmetry == Permutations(Promoters)
=============================================================================

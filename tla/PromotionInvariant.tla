------------------------- MODULE PromotionInvariant -------------------------
(***************************************************************************)
(* Why PromotedHasBundle and OnePromotion hold, as an inductive invariant. *)
(* The row that promote() reads once does not change its source hash any   *)
(* more, and a copy is only kept when it was compared with that hash.      *)
(***************************************************************************)
EXTENDS Promotion, EvidenceInvariant

\* States after which a pipeline binds no source.
Final == {"PROMOTABLE", "PROMOTED", "FAILED"}

\* Where the pipeline of a run can be once its row is final.
Over(l) ==
    \/ l.op \in {"done", "raised", "crashed", "except", "readiness", "finish"}
    \/ l.op \in {"update", "emit"} /\ l.what \in Final

\* Pipelines do not promote, and a final row has a pipeline that is over.
RowsSettled ==
    \A r \in Runs : /\ pc[r].op \in StateOps => pc[r].what # "PROMOTED"
                    /\ state[r] \in Final => Over(pc[r])

Compared  == {"transition", "update", "emit", "promoted"}
Described == Compared \cup {"check"}
Made      == Described \cup {"copy", "describe"}
Before    == {"source", "integrity", "mkdir"}

\* What a promotion has done when its program counter is o.
Reached(p, o) ==
    /\ o \in Before \cup Made \/ bundle[p] # "absent" => state[prun[p]] \in Final
    /\ o \in Before \cup {"idle"} => bundle[p] = "absent"
    /\ o \in Made => bundle[p] # "absent"
    /\ o \in Described => bundle[p] = "described"
    /\ o \in Compared => copied[p] = sourceHash[prun[p]]

\* Nothing withdraws the bundle of a promoted run.
BundleStays ==
    \A r \in Runs : state[r] = "PROMOTED" =>
        \E p \in Promoters : /\ prun[p] = r /\ bundle[p] = "described" /\ copied[p] = sourceHash[r]
                             /\ ppc[p] \in {"emit", "promoted", "refused", "crashed"}

\* A directory has one maker.
OneMaker ==
    \A p, q \in Promoters :
        bundle[p] # "absent" /\ bundle[q] # "absent" /\ Path(p) = Path(q) => p = q

\* The inductive invariant.
PInv ==
    /\ PTypeOK /\ RowsSettled /\ BundleStays /\ OneMaker
    /\ \A p \in Promoters : Reached(p, ppc[p])

-----------------------------------------------------------------------------
(* Why the evidence of a run still stands when its row says PROMOTED.      *)

\* All evidence of the run is there, and what its own commands measured is what it
\* is bound to.
Passed(r) ==
    /\ sourceHash[r] = candidateHash[r]
    /\ \A e \in evidence : Own(e, r) => /\ e.source = candidateHash[r]
                                      /\ e.protected = integrityHash[r]
    /\ \A j \in 1 .. NumGates : Have(r, "gate", j)
    /\ Have(r, "benchmark", 1)
    /\ \A j \in 1 .. NumProfilers : Have(r, "candidate-profile", j)

\* A promotion under way is of a run that has passed, even if its pipeline has
\* failed since.
MeasuredInv ==
    /\ PInv /\ IInv
    /\ \A p \in Promoters : ppc[p] \in Before \cup Made => Passed(prun[p])
=============================================================================

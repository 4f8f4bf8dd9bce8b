-------------------------- MODULE MCLedgerControl --------------------------
(***************************************************************************)
(* Model-checking instances of LedgerControl.                              *)
(***************************************************************************)
EXTENDS LedgerControl, TLC

CONSTANTS v1, w1, w2, a1

OneVerifier == {v1}
OneWorker   == {w1}
TwoWorkers  == {w1, w2}
NoAdmin     == {}
OneAdmin    == {a1}

\* The lifecycle of END_TO_END_STUDY_GUIDE.md:466, and the approval without a review
\* that test-repair-flow.sh makes.
DocumentedMoves == { <<"OPEN", "UNDER_REVIEW">>, <<"OPEN", "APPROVED">>,
                     <<"UNDER_REVIEW", "APPROVED">>, <<"UNDER_REVIEW", "REJECTED">> }

\* Every incident may be approved.
Approvals == { <<"OPEN", "APPROVED">> }

\* Repair workers are interchangeable.
Interchangeable == Permutations(RepairWorkers)
=============================================================================

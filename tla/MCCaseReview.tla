---------------------------- MODULE MCCaseReview ----------------------------
(* Instances of CaseReview for TLC.                                        *)
EXTENDS CaseReview

CONSTANTS c1, c2

\* One case in review, one blocked by the engine.
MixedDecided == [c \in Cases |-> IF c = c1 THEN "VERIFY" ELSE "BLOCK"]

\* The case in review asks for less than the blocked one.
MixedRefund == [c \in Cases |-> IF c = c1 THEN 1 ELSE 2]

\* A start reads the files, or falls back to cases that are blocked already.
AnyFiles == {Cases, {c2}}
=============================================================================

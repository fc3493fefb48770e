--------------------------- MODULE MCIssueStore ----------------------------
(* Instances of IssueStore for TLC.                                        *)
EXTENDS IssueStore, TLC

CONSTANTS w1, w2

OneOfEach == w1 :> TRUE @@ w2 :> FALSE

KeySymmetry == Permutations(Keys)
=============================================================================

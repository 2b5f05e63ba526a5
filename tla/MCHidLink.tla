------------------------------ MODULE MCHidLink ------------------------------
(***************************************************************************)
(* Small instances of HidLink.                                             *)
(***************************************************************************)
EXTENDS HidLink, TLC

CONSTANTS t1, t2

MCThreads == {t1, t2}
\* The threads are alike.
MCSymmetry == Permutations(MCThreads)

\* Two connections made by overlapping calls need six numbers and 0, sessions one
\* after the other three and what other code takes.
MCMaxFd == [u \in Uses |-> IF u = "connects" THEN 6 ELSE 5]
=============================================================================

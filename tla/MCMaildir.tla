----------------------------- MODULE MCMaildir -----------------------------
(***************************************************************************)
(* Instances of Maildir for TLC.                                           *)
(***************************************************************************)
EXTENDS Maildir, TLC

\* Recipients are interchangeable, and so are the goroutines of requests; used for
\* the safety properties only.
Symm == Permutations(Recipients) \cup Permutations(Requests)
=============================================================================

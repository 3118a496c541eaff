---------------------------- MODULE MCConfirmation ----------------------------
(* Confirmation on small sets of recordings and submissions.               *)
EXTENDS Confirmation, TLC

\* Submissions are interchangeable, and so are recordings.
Interchangeable == Permutations(Posts) \cup Permutations(Recordings)
=============================================================================

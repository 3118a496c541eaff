----------------------------- MODULE MCReviewDesk -----------------------------
(* ReviewDesk on small sets of requests and file names.                    *)
EXTENDS ReviewDesk, TLC

\* Requests are interchangeable, and so are file names.
Interchangeable == Permutations(Requests) \cup Permutations(Names)

\* Bound: a directory nobody asks anything of sees one run of up to three rounds,
\* whatever documents and judge are like.  (Only documents that pass the gate have
\* dropped claims: the others ask for a revision anyway.)
Alone ==
    /\ runs' <= 1 /\ \A q \in Requests : req'[q] = "none"
    /\ \A d \in DOMAIN drafts' : drafts'[d].refused > 0 => drafts'[d].gate = "ok"

\* Bound: beside requests, or in a second run, the author never points at a
\* retrieval, nothing is dropped and the judge has no finding; there are two
\* documents, or three rounds of the same hard failure, and no failure after
\* requests and runs have met or failed already.
Fails == \/ at # "failed" /\ at' = "failed"
         \/ \E q \in Requests : req[q] \in Saving /\ req'[q] = "over"
SameHardFailure == \A d \in DOMAIN drafts' : drafts'[d] = drafts'[1] /\ drafts'[d].gate = "hard"
SmallDesk ==
    /\ \A d \in DOMAIN drafts' : drafts'[d].proved = 0 /\ drafts'[d].refused = 0
    /\ \A i \in DOMAIN rounds' : rounds'[i].fails = 0
    /\ Len(drafts') <= 2 \/ (Len(drafts') = 3 /\ SameHardFailure)
    /\ Fails => ~disturbed

Bounded == Alone \/ SmallDesk
=============================================================================

--------------------------- MODULE MCRecorderSession ---------------------------
(* RecorderSession on small sets of actions, notes and tabs.               *)
EXTENDS RecorderSession, TLC

\* Actions, notes and tabs are interchangeable.
Interchangeable == Permutations(Actions) \cup Permutations(Notes) \cup Permutations(Frames)
================================================================================

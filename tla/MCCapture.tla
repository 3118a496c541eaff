------------------------------ MODULE MCCapture ------------------------------
(* Capture for a page with a frame inside it.                              *)
EXTENDS Capture

MCFrames  == {"top", "inner"}
MCFrameId == [top |-> 0, inner |-> 3]

\* The application's order, which sends the card, and a beacon.
order  == [ours |-> TRUE, writes |-> TRUE, value |-> "card"]
beacon == [ours |-> FALSE, writes |-> TRUE, value |-> NoValue]

MCTyped == [top |-> {"address"}, inner |-> {NoValue}]
MCLines == [top |-> {}, inner |-> {"card"}]
MCKinds == [top |-> {order, beacon}, inner |-> {}]
==============================================================================

----------------------------- MODULE ConfirmGate -----------------------------
(***************************************************************************)
(* The hold between the guess and the author (server/api/confirm.py).      *)
(*                                                                         *)
(* A call of hold makes an event of its own, files it under the recording  *)
(* and waits for it; release takes the filed event away and sets it.  A    *)
(* holder calls hold at most once, so the event is named after the holder. *)
(* The wait ends when the event is set or when the window is over, which   *)
(* may be at any moment: the timer runs beside everything else.            *)
(***************************************************************************)
CONSTANTS Recordings, Holders, NoHolder

VARIABLES open,   \* _open: the holder whose event is filed for a recording
          fired   \* the holders whose event is set

gateVars == <<open, fired>>

GateTypeOK == /\ open \in [Recordings -> Holders \cup {NoHolder}]
              /\ fired \in SUBSET Holders

GateInit == /\ open = [r \in Recordings |-> NoHolder]
            /\ fired = {}

\* Entering hold: a second hold of the recording replaces the first.
FileHold(r, h) == /\ open' = [open EXCEPT ![r] = h]
                  /\ UNCHANGED fired

\* Leaving hold, however the wait ended: only its own event is taken away.
UnfileHold(r, h) == /\ open' = IF open[r] = h THEN [open EXCEPT ![r] = NoHolder] ELSE open
                    /\ UNCHANGED fired

\* release: True when an event was filed, and then that event is set.
ReleaseHolder(r) == /\ open[r] # NoHolder
                    /\ open' = [open EXCEPT ![r] = NoHolder]
                    /\ fired' = fired \cup {open[r]}

ReleaseNobody(r) == /\ open[r] = NoHolder
                    /\ UNCHANGED gateVars

ForgetHolds == /\ open' = [r \in Recordings |-> NoHolder]
               /\ fired' = {}

=============================================================================

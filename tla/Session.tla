------------------------------- MODULE Session -------------------------------
(***************************************************************************)
(* What the utility promises an application about one device: a request is *)
(* accepted or refused, later requests are turned away until the session   *)
(* is over, and a session ends at most once, either with one closing       *)
(* answer or in silence.  Between the two only a failure to create the     *)
(* device's buffer may be reported.  The answers are those of the object   *)
(* that stands in converterList for the device.                            *)
(***************************************************************************)

VARIABLES
    status,     \* "none", "open" after an accepted, "refused" after a bad request
    answer      \* the answer sent by the last step, or "none"

Refusals == {"tooBig", "empty"}
Closings == {"ok", "badCrc", "timeout"}

Init == status = "none" /\ answer = "none"

Accept  == status = "none" /\ status' = "open" /\ answer' = "accepted"

Refuse  == status = "none" /\ status' = "refused" /\ answer' \in Refusals

Busy    == status # "none" /\ status' = status /\ answer' = "busy"

Report  == status # "none" /\ status' = status /\ answer' = "createError"

Work    == status # "none" /\ status' = status /\ answer' = "none"

Close   == status # "none" /\ status' = "none" /\ answer' \in Closings

Abandon == status # "none" /\ status' = "none" /\ answer' = "none"

Next == Accept \/ Refuse \/ Busy \/ Report \/ Work \/ Close \/ Abandon

Spec == Init /\ [][Next]_<<status, answer>>

=============================================================================

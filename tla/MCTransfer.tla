------------------------------ MODULE MCTransfer ------------------------------
(***************************************************************************)
(* Instances of Transfer.  Blocks have three bytes, so that the four bytes *)
(* of data of "large" make a buffer of three blocks, the last of them      *)
(* short; "huge" is more than the device takes.                            *)
(***************************************************************************)
EXTENDS Transfer

MCDataSize == [r \in Requests |-> CASE r = "empty" -> 0
                                    [] r = "small" -> 2
                                    [] r = "huge"  -> 6
                                    [] OTHER       -> 4]

MCGarbage == {-1, 7}

=============================================================================

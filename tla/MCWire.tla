-------------------------------- MODULE MCWire --------------------------------
(***************************************************************************)
(* The instance of Wire: requests and replies of the sizes at which blocks *)
(* are filled exactly, the offset passes 255, and the limits are reached.  *)
(***************************************************************************)
EXTENDS Wire

Rising(n) == [i \in 1 .. n |-> (7 * i) % 256]

Ones(n) == [i \in 1 .. n |-> 255]

MCRequests == {1, 46, 47, 89, 90, 253, 512}

\* Every second size with all bits set.
MCRequestBytes == [n \in MCRequests |-> IF n % 2 = 0 THEN Ones(n) ELSE Rising(n)]

MCDataSize == [n \in MCRequests |-> n]

\* The last two are passed over as status messages: "overdue" is in the one, and
\* in a frame of the other, of 37 bytes, that begins at offset 111, an "o".
MCReplyBytes == {Rising(1), Rising(46), Ones(47), Rising(300), Rising(1024),
                 Rising(9) \o OverdueBytes \o Ones(9),
                 Rising(108) \o Tail(OverdueBytes) \o Ones(9)}

=============================================================================

----------------------------- MODULE MCConverter -----------------------------
(***************************************************************************)
(* Converter under a device that may answer anything at any time.          *)
(***************************************************************************)
EXTENDS Converter

\* One request that fits a packet, one of three blocks, two refused ones.
MCRequests == {"small", "large", "empty", "big"}

MCDataSize == [r \in MCRequests |-> CASE r = "small" -> 2
                                      [] r = "large" -> 7
                                      [] r = "empty" -> 0
                                      [] r = "big"   -> 9]

\* Block answers from every block boundary, one in between, one that wraps
\* the 16-bit counter to a boundary, with a whole or a last block written; an
\* answer that wrote nothing; errors at the start, in the middle, at the end.
MCFrames ==
    {Frame("DEV_CREATE_BUFFER_CMD", rc, 0, 0, <<>>) : rc \in 0 .. 1}
    \cup {Frame("SEND_DATA_BLOCK_CMD", 0, off, len, <<>>) :
              off \in {0, 2, 4, 8, 14}, len \in {2, 4}}
    \cup {Frame("SEND_DATA_BLOCK_CMD", 0, 4, 0, <<>>)}
    \cup {Frame("SEND_DATA_BLOCK_CMD", 4, off, 0, <<>>) : off \in {0, 4, 10}}
    \cup {Frame("FINISH_SEND_DATA_CMD", 0, 0, 0, <<>>),
          Frame("RECEIVE_PACKAGE_CMD", 0, 0, 0, <<>>),
          Frame("DEV_CREATE_BUFFER", 0, 0, 2, <<>>),
          Frame("DEV_RECEIVE_DATA_BLOCK_CMD", 0, 0, 0, <<"w">>),
          Frame("DEV_RECEIVE_DATA_BLOCK_CMD", 0, 2, 0, <<"w">>),
          Frame("DEV_RECEIVE_DATA_BLOCK_CMD", 0, 3, 0, <<>>),
          Frame("DEV_FINISH_RECV_DATA_CMD", 0, 0, 0, <<"w", "w">>)}

\* A negative value, and one a block answer may meet.
MCGarbage == {-2, 4}

=============================================================================

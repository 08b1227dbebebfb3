--------------------------------- MODULE Pipe ---------------------------------
(***************************************************************************)
(* What one direction of the traffic between the main thread and the       *)
(* parser thread should be: a pipe that loses, doubles and reorders        *)
(* nothing, and that delivers what is put into it while it is open.  A     *)
(* pipe that is closing owes no delivery any more; a closed one has        *)
(* dropped the rest.  Of a broken one nothing can be said.                 *)
(***************************************************************************)
EXTENDS Sequences, SequencesExt

CONSTANT Items

VARIABLES
    contents,   \* what has been put in and not taken out, the oldest first
    state       \* "open", "closing", "closed" or "broken"

Init == contents = <<>> /\ state = "open"

Works == state \in {"open", "closing"}

Put   == Works /\ UNCHANGED state /\ \E x \in Items : contents' = Append(contents, x)

Take  == Works /\ UNCHANGED state /\ contents # <<>> /\ contents' = Tail(contents)

Close == state = "open" /\ state' = "closing" /\ UNCHANGED contents

Drop  == state = "closing" /\ state' = "closed" /\ contents' = <<>>

Break == Works /\ state' = "broken" /\ UNCHANGED contents

Broken == state = "broken" /\ UNCHANGED state

Next == Put \/ Take \/ Close \/ Drop \/ Break \/ Broken

Spec == Init /\ [][Next]_<<contents, state>>

Inside(x) == state = "open" /\ x \in ToSet(contents)

\* What is in an open pipe comes out of it.
Delivers == \A x \in Items : Inside(x) ~> ~Inside(x)

=============================================================================

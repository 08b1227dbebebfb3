--------------------------- MODULE MCWebApiServer ---------------------------
(***************************************************************************)
(* Instances of WebApiServer.  Blank stands for a frame without deviceEui, *)
(* which every Converter takes for its own.                                *)
(***************************************************************************)
EXTENDS WebApiServer, TLC

CONSTANT Blank

MCContained == [e \in Euis |-> {e, Blank} \cap Addresses]

\* The invariants treat applications alike, and devices too.
Symmetry == Permutations(Clients) \cup Permutations(Euis)

=============================================================================

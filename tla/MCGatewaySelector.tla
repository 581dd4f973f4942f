-------------------------- MODULE MCGatewaySelector --------------------------
(* GatewaySelector with two groups: one like GOOGLE_AI, whose default is   *)
(* the first of its list, one like GEOHIDE, whose default is not; "c" is   *)
(* an address that only one of them lists.                                 *)
EXTENDS GatewaySelector, TLC

CONSTANTS g1, g2, a, b, c

MCGroups == {g1, g2}
MCAddresses == {a, b, c}
MCCandidates == (g1 :> <<a, b, c>>) @@ (g2 :> <<b, a>>)
MCDefault == (g1 :> a) @@ (g2 :> a)
Symmetry == Permutations(Selectors)

=============================================================================

---------------------------- MODULE MCAssertions ----------------------------
(* Assertions with three credentials of one relying party, one for each      *)
(* level of credProtect, and one of another.                                 *)
EXTENDS Assertions, TLC

CONSTANTS a, b, x, y

MCRps == {a, b}
MCRpOf == <<a, a, a, b>>
MCProtect == <<1, 3, 2, 1>>
MCHasSecret == <<TRUE, TRUE, FALSE, TRUE>>
MCClients == {x, y}
MCAllowLists == {<<>>, <<3, 2, 4, 3>>}
ClientSymmetry == Permutations(MCClients)

ASSUME Constants == ConstantsOK
=============================================================================

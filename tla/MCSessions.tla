----------------------------- MODULE MCSessions -----------------------------
(* Two tabs of one browser, and a tab of another one; or one tab in each. *)
EXTENDS Sessions, TLC

CONSTANTS desktop, laptop, first, second, third

TwoBrowsers == first :> desktop @@ second :> desktop @@ third :> laptop

OneTabEach == first :> desktop @@ third :> laptop

TabSymmetry == Permutations({first, second})

=============================================================================

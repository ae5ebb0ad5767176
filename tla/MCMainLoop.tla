----------------------------- MODULE MCMainLoop -----------------------------
(* Intervals of one to three minutes against ticks of up to two: ticks are *)
(* shorter than, as long as and longer than their interval.                *)
EXTENDS MainLoop

Config(on, buy, list) ==
    [enabled |-> on, interval |-> [k \in Kinds |-> IF k = "buy" THEN buy ELSE list]]

MCDefault == Config(TRUE, 1, 3)
MCConfigs == {MCDefault, Config(FALSE, 1, 3), Config(TRUE, 3, 1)}
=============================================================================

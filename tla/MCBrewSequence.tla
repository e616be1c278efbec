--------------------------- MODULE MCBrewSequence ---------------------------
(* Instances of BrewSequence for TLC: a drink without and one with milk,   *)
(* and a direct key whose stored recipe has a strength that has no name in *)
(* Home Assistant.                                                         *)
EXTENDS BrewSequence, TLC

C(i, t, p, b) == [intensity |-> i, temperature |-> t, portion |-> p,
                  blend |-> b]
MCStored == [s \in Slots |->
    CASE s = 201 -> [type |-> 1, c1 |-> C(3, 1, 5, 1), c2 |-> C(0, 0, 0, 0)]
      [] s = 213 -> [type |-> 13, c1 |-> C(1, 0, 30, 1), c2 |-> C(2, 1, 17, 1)]
      [] OTHER   -> [type |-> 24, c1 |-> C(7, 2, 51, 1), c2 |-> C(0, 0, 0, 0)]]
MCCalls == {[overrides |-> NoOverride, cups |-> None],
            [overrides |-> [intensity |-> 4, temperature |-> None, ml |-> 43,
                            blend |-> 2], cups |-> TRUE]}
MCEdits == {[intensity |-> 0, temperature |-> 2, ml |-> 100, blend |-> 1,
             cups |-> TRUE]}
=============================================================================

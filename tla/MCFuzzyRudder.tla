--------------------------- MODULE MCFuzzyRudder ---------------------------
(* fuzzyrudderinputthree as it stands: mydirection is 0, the gyroscope turns. *)
EXTENDS FuzzyRudder

MCDirections == {0}
MCTurns == {-60, -20, -5, 0, 5, 20, 60}

InputThreeSpec == sketch = "fuzzyrudderinputthree" /\ Spec
=============================================================================

--------------------------- MODULE MCSailboatMaster ---------------------------
(* Small instances of the main program.  The times of the legs and of the  *)
(* log are those of the code; an iteration takes 20 s or more, a clock     *)
(* wraps after 7 minutes.                                                  *)
EXTENDS SailboatMaster

(* Readings that give 49 and 311 degrees, and the angles between them      *)
(* where the branches of the sail trim meet.                               *)
EdgeReadings == {853, 572}
EdgeWinds == {50, 179, 180, 310}
=============================================================================

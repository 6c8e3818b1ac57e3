---------------------------- MODULE MCGpsInterrupt ----------------------------
(* Three sentences, the second of a kind parse() does not know.              *)
EXTENDS GpsInterrupt

MCKind == << "GGA", "OTHER", "RMC" >>
MCHasFix == << TRUE, FALSE, TRUE >>
=============================================================================

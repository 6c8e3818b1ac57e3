----------------------------- MODULE MCGpsPolling -----------------------------
(* Three sentences, the second of a kind parse() does not know.            *)
EXTENDS GpsPolling

MCKind == << "RMC", "OTHER", "GGA" >>
MCHasFix == << TRUE, TRUE, FALSE >>
=============================================================================

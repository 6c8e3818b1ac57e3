------------------------------- MODULE MCSdFile -------------------------------
(* Small volumes for the file library.  The files of the root directory    *)
(* are interchangeable.                                                    *)
EXTENDS SdFile, TLC

NameSymmetry == Permutations(Names)
=============================================================================

--------------------------- MODULE MCShmTransport ---------------------------
(***************************************************************************)
(* ShmTransport for TLC.                                                   *)
(***************************************************************************)
EXTENDS ShmTransport, TLC

\* Writing processes are alike.
WriterSymmetry == Permutations(Writer)

\* What follows a mishap is not explored: the properties say nothing of it.
NoMishap == mishap = {}
=============================================================================

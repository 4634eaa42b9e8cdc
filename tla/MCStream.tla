------------------------------ MODULE MCStream ------------------------------
(* A small instance of Stream for TLC. *)
EXTENDS Stream

\* One message fits the buffer exactly, one needs it enlarged twice.
MCLength == <<2, 5, 1, 3, 4>>
=============================================================================

----------------------------- MODULE MCLogFifo ------------------------------
(* A log of up to three messages, and one that can hold none.              *)
EXTENDS LogFifo

MCSizes == {0, 1, 3}
=============================================================================

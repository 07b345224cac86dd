------------------------------ MODULE MCLogMtime ------------------------------
(* An instance of LogMtime for TLC: only the first directory may fail.     *)
EXTENDS LogMtime

MCUnreadable == {1}
=============================================================================

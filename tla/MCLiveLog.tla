------------------------------ MODULE MCLiveLog ------------------------------
(***************************************************************************)
(* A small instance of LiveLog for TLC.                                    *)
(***************************************************************************)
EXTENDS LiveLog
CONSTANTS r1, r2, r3
=============================================================================

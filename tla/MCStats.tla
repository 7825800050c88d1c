------------------------------ MODULE MCStats -------------------------------
EXTENDS Stats

(* Durations of a window: a sleep of one second, late by up to a half. *)
MCDurations == {1000, 1500}

(* Sleeps that last exactly a second. *)
MCOneSecond == {1000}

=============================================================================

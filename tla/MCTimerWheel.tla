---------------------------- MODULE MCTimerWheel ---------------------------
(***************************************************************************)
(* A wheel of four slots of two milliseconds, two Timestamp units to the   *)
(* millisecond: delays below one slot, inside the first turn and beyond    *)
(* it, and times that fall between two milliseconds.                       *)
(***************************************************************************)
EXTENDS TimerWheel

MCDelays == {0, 1, 6, 19}

=============================================================================

---------------------------- MODULE MCRunSession ----------------------------
(* The rates are 1 to 3 in steps of one, a segment is two ticks long and the  *)
(* dwell time as well, and two frames are already more than the queue should  *)
(* hold.  Between two frames one tick passes at most; the clock is set to any *)
(* value.                                                                     *)
EXTENDS RunSession
============================================================================

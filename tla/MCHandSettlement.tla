-------------------------- MODULE MCHandSettlement --------------------------
(***************************************************************************)
(* Readings below mangan, at it, and at the edge of thirteen han; a single *)
(* and a double yakuman, the payment of which fits or not; counters that   *)
(* fit and that overflow in different steps.                               *)
(***************************************************************************)
EXTENDS HandSettlement

MCNormalReadings ==
  {[yaku_han |-> 1, bonus |-> 0, fu |-> 30], [yaku_han |-> 2, bonus |-> 1, fu |-> 25],
   [yaku_han |-> 4, bonus |-> 0, fu |-> 40], [yaku_han |-> 6, bonus |-> 6, fu |-> 30]}
MCMultipliers == {1, 2}
MCCounters == {0, 17, 30000}
==============================================================================

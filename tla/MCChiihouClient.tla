--------------------------- MODULE MCChiihouClient ---------------------------
EXTENDS ChiihouClient, TLC

CONSTANTS me, other, t1

MCEveryone == {me, other}
MCSeatings == {<<me, other>>}
\* Our own draw, a discard of each player (ours is held after the draw only), and a
\* draw that is not ours.
MCTableNotes ==
  {[kind |-> "tsumo", player |-> me, tile |-> t1],
   [kind |-> "sutehai", player |-> me, tile |-> t1],
   [kind |-> "sutehai", player |-> other, tile |-> t1],
   [kind |-> "tsumo", player |-> other, tile |-> t1]}
==============================================================================

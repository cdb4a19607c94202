------------------------- MODULE MCChiihouMatchState -------------------------
EXTENDS ChiihouMatchState, TLC

CONSTANTS me, other

Man(number) == [suit |-> "man", number |-> number]
MCPais == {Man(1), Man(2), Man(3)}
Times(count, tile) == [i \in 1..count |-> tile]

MCEveryone == {me, other}
MCSeatings == {<<me, other>>}
MCHands == {<<Man(1)>>}
MCDraws == {Man(1)}
MCIndicators == {Man(1)}
\* A run, melds of one tile, the tile added to a pon, and lists that are no meld.
MCOpenTiles ==
  {<<Man(3), Man(1), Man(2)>>, Times(3, Man(1)), Times(4, Man(1)), <<Man(1)>>,
   Times(3, Man(2)), <<Man(1), Man(1), Man(2)>>, Times(2, Man(1))}
==============================================================================

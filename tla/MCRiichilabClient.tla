-------------------------- MODULE MCRiichilabClient --------------------------
EXTENDS RiichilabClient

MCPlayers == 0..1
FiveMan == 4

\* Faces: the two fives of a suit and one the converter cannot read.
Five == [type |-> FiveMan, red |-> FALSE]
RedFive == [type |-> FiveMan, red |-> TRUE]
Unreadable == [type |-> 34, red |-> FALSE]

Plain(kind) == [kind |-> kind, pai |-> Absent, consumed |-> <<>>]
Discard(pai) == [kind |-> "dahai", pai |-> pai, consumed |-> <<>>]
Meld(kind, pai, consumed) == [kind |-> kind, pai |-> pai, consumed |-> consumed]

WinPonOrPass == <<Plain("hora"), Meld("pon", Five, <<Five, RedFive>>), Plain("none")>>
\* An offer that leaves nothing: the fallback must not open the hand.
OnlyPon == <<Meld("pon", Unreadable, <<Five, RedFive>>)>>

\* The first of these is not shown to the agents.
Discards == <<Discard(Unreadable), Discard(RedFive), Discard(Five)>>

MCReactionOffers == {OnlyPon, WinPonOrPass}
MCTurnOffers == {Discards}
MCTiles == {FiveMan}

\* Every agent comes to an answer, also the ones the run does not use.
ASSUME AgentsAnswer ==
  \A kind \in {"normal", "tsumogiri", "menzen", "nodocchi"},
     offer \in MCReactionOffers \cup MCTurnOffers, tile \in {Absent, TileIdOf(Five)} :
    Responses(kind, offer, tile) # {}
==============================================================================

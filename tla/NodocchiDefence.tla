--------------------------- MODULE NodocchiDefence ---------------------------
(***************************************************************************)
(* NodocchiAgent with its defences: what push_pull.rs takes from the       *)
(* threats and what fold_defense.rs answers come from one view of the      *)
(* table.                                                                  *)
(***************************************************************************)
EXTENDS NodocchiCalls, FoldDefence

\* What a view can be: a river holds no more tiles than were discarded, and every tile
\* that can be seen in a river is visible.  Nobody wins on a tile on which he cannot
\* win, and an open hand is counted only if its winds are known.
IsView(v) ==
    /\ Opponents(v) \subseteq 0 .. 3
    /\ v.dahai \in Seq(Legal(v))
    /\ \A player \in Opponents(v) :
          LET seat == v.seats[player]
          IN  /\ Cardinality(seat.river) <= seat.discards
              /\ \A tile \in seat.river : VisibleCount(v, tile) >= 1
              /\ v.risk[player] # None =>
                    /\ ~seat.reached => v.oya # None /\ v.round_wind # None
                    /\ v.risk[player].total \in Nat
                    /\ \A tile \in Legal(v) :
                          /\ v.risk[player].wins[tile] \in 0 .. v.risk[player].total
                          /\ RonSafe(v, tile, player) => v.risk[player].wins[tile] = 0
    /\ \A tile \in DOMAIN v.visible : v.visible[tile] \in 0 .. 4

\* A hand before its discard, facing what the view shows.
Faces(p, v) ==
    /\ IsView(v)
    /\ p.dahai = v.dahai
    /\ Discards(p) = Legal(v)
    /\ p.reachers = Cardinality(Reachers(v))
    /\ p.dealer_reacher = \E player \in Reachers(v) : IsDealer(v, player)
    /\ p.open_hands = OpenHandLevel(v)
    /\ p.safe = SafeAgainst(v, Attackers(v))
    /\ p.defence = [family \in Families |-> DefenceChoice(v, family)]

\* Only a position of this kind has a view.
ASSUME FacingAssumption ==
    /\ \A p \in FacingPositions : "view" \in DOMAIN p /\ Faces(p, p.view)
    /\ \A p \in PlainPositions : "view" \notin DOMAIN p
    /\ \A p \in KanPositions : "view" \notin DOMAIN p

-----------------------------------------------------------------------------
(* A tile is safer than another one against an attacker who may win on that: he  *)
(* cannot win on it, or wins with fewer hands; if hands cannot be counted, he    *)
(* let it pass, or it is the better one of two honors or of two suited tiles.    *)
SaferFor(v, tile, other, player) ==
    /\ ~Covered(v, other, player)
    /\ \/ RonSafe(v, tile, player)
       \/ /\ RiskIsKnown(v, Attackers(v))
          /\ RatioLess(Risk(v, tile, player), Risk(v, other, player))
       \/ /\ ~RiskIsKnown(v, Attackers(v))
          /\ \/ SameHandPassed(v, tile, player)
             \/ /\ IsHonor(tile) /\ IsHonor(other)
                /\ \/ HonorRank(v, tile) > HonorRank(v, other)
                   \/ /\ HonorRank(v, tile) = HonorRank(v, other)
                      /\ HonorValue(v, tile, player) # None
                      /\ HonorValue(v, other, player) # None
                      /\ HonorValue(v, tile, player) < HonorValue(v, other, player)
             \/ /\ ~IsHonor(tile) /\ ~IsHonor(other)
                /\ SuitedRank(v, tile, {player}) > SuitedRank(v, other, {player})

(* Who folds defends against everybody who attacks, however they attack: it      *)
(* discards what nobody can win on, if it can; else what everybody let pass or   *)
(* cannot win on; else, if hands can be counted, a tile whose worst risk is the  *)
(* least; and never a tile while another is safer against every attacker.        *)
FoldPlaysTheSafest ==
    Decided /\ "view" \in DOMAIN position /\ decision.source = "Defence" =>
        LET v        == position.view
            played   == decision.action[2]
            SafeFor(tile)    == \A player \in Attackers(v) : RonSafe(v, tile, player)
            CoveredFor(tile) == \A player \in Attackers(v) : Covered(v, tile, player)
        IN  \A tile \in Legal(v) :
               /\ SafeFor(tile) => SafeFor(played)
               /\ CoveredFor(tile) => CoveredFor(played)
               /\ ~CoveredFor(played) /\ RiskIsKnown(v, Attackers(v)) =>
                     \E worst \in Attackers(v) : \A player \in Attackers(v) :
                        ~RatioLess(Risk(v, tile, worst), Risk(v, played, player))
               /\ \E player \in Attackers(v) : ~SaferFor(v, tile, played, player)
=============================================================================

------------------------------ MODULE FoldDefence ------------------------------
(***************************************************************************)
(* What to discard when folding: bot-core/src/fold_defense.rs and the      *)
(* three defences behind it (defense/, open_hand_defense.rs,               *)
(* combined_defense.rs), with the classification of the attackers          *)
(* (threat.rs, open_hand_threat.rs).  Pure operators over a view, which is *)
(* what the table shows:                                                   *)
(*   seats       a record for each opponent: reached, melds, han (visible  *)
(*               in the melds), discards (their number), river, and the    *)
(*               tiles that passed the seat (after_reach, temporary,       *)
(*               same_hand)                                                *)
(*   oya, round_wind   None while unknown                                  *)
(*   visible     how many copies of a tile can be seen                     *)
(*   risk        for each opponent the hands it may hold, counted: total,  *)
(*               and those that win on a tile; None if they cannot be      *)
(*   dahai       the legal discards, in the order of the offer             *)
(* Tiles are types: red fives are ActionConvert's subject.                 *)
(***************************************************************************)
EXTENDS PushPull, Sequences, SequencesExt, TLC

Suits == {"m", "p", "s"}
Winds == <<"E", "S", "W", "N">>

IsHonor(tile)  == tile[1] \notin Suits
IsDragon(tile) == tile[1] = "dragon"

Opponents(v) == DOMAIN v.seats
Legal(v)     == ToSet(v.dahai)

\* The first offered discard out of a set, None if there is none.
FirstLegal(v, tiles) ==
    IF Legal(v) \cap tiles = {} THEN None
    ELSE v.dahai[Min({i \in DOMAIN v.dahai : v.dahai[i] \in tiles})]

(***************************************************************************)
(* Who attacks.                                                            *)
(***************************************************************************)
IsDealer(v, player) == v.oya = player

\* classify_open_hand_threat
IsDanger(v, player) ==
    LET seat == v.seats[player]
    IN  \/ seat.melds >= 3
        \/ seat.melds >= 2 /\ seat.han >= 2
        \/ seat.melds >= 2 /\ IsDealer(v, player)

IsCaution(v, player) ==
    LET seat == v.seats[player]
    IN  /\ ~IsDanger(v, player)
        /\ \/ seat.melds >= 2 /\ seat.discards >= 9
           \/ seat.melds >= 1 /\ seat.discards >= 12

Reachers(v) == {player \in Opponents(v) : v.seats[player].reached}

ActionableOpenHands(v) ==
    {player \in Opponents(v) \ Reachers(v) : IsDanger(v, player) \/ IsCaution(v, player)}

OpenHandLevel(v) ==
    CASE ActionableOpenHands(v) = {}                              -> "none"
      [] \E player \in ActionableOpenHands(v) : IsDanger(v, player) -> "danger"
      [] OTHER                                                    -> "caution"

\* threat_defense_targets
Attackers(v) == Reachers(v) \cup ActionableOpenHands(v)

(***************************************************************************)
(* What is known of one tile and one attacker.                             *)
(***************************************************************************)
\* is_ron_safe_for_target: the attacker cannot win on the tile.
RonSafe(v, tile, player) ==
    LET seat == v.seats[player]
    IN  \/ tile \in seat.river
        \/ seat.reached /\ tile \in seat.after_reach
        \/ ~seat.reached /\ tile \in seat.temporary

\* The attacker let the tile pass with the hand it still has.
SameHandPassed(v, tile, player) ==
    ~v.seats[player].reached /\ tile \in v.seats[player].same_hand

Covered(v, tile, player) == RonSafe(v, tile, player) \/ SameHandPassed(v, tile, player)

\* Those for whom only a heuristic speaks.
HeuristicTargets(v, tile, targets) == {player \in targets : ~Covered(v, tile, player)}

VisibleCount(v, tile) == IF tile \in DOMAIN v.visible THEN v.visible[tile] ELSE 0

HonorRank(v, tile) == Min({VisibleCount(v, tile), 3})

SeatWind(v, player) == Winds[((player + 4 - v.oya) % 4) + 1]

\* 0 for a guest wind, 1 for a value honor, 2 for a double wind, None while unknown.
HonorValue(v, tile, player) ==
    CASE IsDragon(tile)                                                      -> 1
      [] ~IsDragon(tile) /\ (v.round_wind = None \/ v.oya = None)            -> None
      [] ~IsDragon(tile) /\ v.round_wind # None /\ v.oya # None              ->
            Cardinality({wind \in {<<"round", v.round_wind>>, <<"seat", SeatWind(v, player)>>} :
                            wind[2] = tile[2]})

\* The most dangerous of the values that are known.
HonorValueAmong(v, tile, targets) ==
    LET values == {HonorValue(v, tile, player) : player \in targets} \ {None}
    IN  IF values = {} THEN None ELSE Max(values)

\* The two ways of waiting on both sides: the tiles that are needed, and the tile on
\* the other side, if there is one.
Routes(tile) ==
    LET n == tile[2]
    IN  {[needs |-> {<<tile[1], n + d>>, <<tile[1], n + 2 * d>>},
          partner |-> IF n + 3 * d \in 1 .. 9 THEN <<tile[1], n + 3 * d>> ELSE None] :
            d \in {d \in {-1, 1} : n + 2 * d \in 1 .. 9}}

\* 2 if no route can be filled, 1 if only from a single copy, 0 otherwise.
RouteRank(v, route) ==
    LET seen == Max({VisibleCount(v, tile) : tile \in route.needs})
    IN  CASE seen >= 4 -> 2 [] seen = 3 -> 1 [] OTHER -> 0

WallRank(v, tile) == Min({RouteRank(v, route) : route \in Routes(tile)})

\* 2 if the other side of every route is in the river, 1 if of one of two.
SujiRank(v, tile, player) ==
    LET partners == {route.partner : route \in Routes(tile)} \ {None}
        found    == partners \cap v.seats[player].river
    IN  CASE found = {}                       -> 0
          [] found # {} /\ found = partners   -> 2
          [] found # {} /\ found # partners   -> 1

SujiRankAmong(v, tile, targets) ==
    IF targets = {} THEN 0 ELSE Min({SujiRank(v, tile, player) : player \in targets})

NoSafety == 0
Suji     == 2

\* Walls come before suji: NoSafety < HalfSuji < Suji < OneChance < NoChance.
SuitedRank(v, tile, targets) ==
    CASE WallRank(v, tile) = 2 -> 4
      [] WallRank(v, tile) = 1 -> 3
      [] OTHER                 -> SujiRankAmong(v, tile, targets)

(***************************************************************************)
(* The stages of a defence against `targets', each a discard or None.      *)
(***************************************************************************)
SafeAgainst(v, targets) ==
    {tile \in Legal(v) : targets # {} /\ \A player \in targets : RonSafe(v, tile, player)}

SafeChoice(v, targets) == FirstLegal(v, SafeAgainst(v, targets))

RonSafeCount(v, tile, targets) == Cardinality({player \in targets : RonSafe(v, tile, player)})

PassedAgainst(v, targets) ==
    {tile \in Legal(v) : /\ \A player \in targets : Covered(v, tile, player)
                         /\ \E player \in targets : ~RonSafe(v, tile, player)}

PassedChoice(v, targets) ==
    FirstLegal(v, {tile \in PassedAgainst(v, targets) :
                     \A other \in PassedAgainst(v, targets) :
                        RonSafeCount(v, other, targets) <= RonSafeCount(v, tile, targets)})

\* The hands of every target can be counted, and some are ready.
RiskIsKnown(v, targets) ==
    \A player \in targets : v.risk[player] # None /\ v.risk[player].total > 0

Risk(v, tile, player) == <<v.risk[player].wins[tile], v.risk[player].total>>

RatioLess(a, b) == a[1] * b[2] < b[1] * a[2]

\* The targets for whom a tile is at least as risky.
AtLeast(v, tile, targets, risk) == {player \in targets : ~RatioLess(Risk(v, tile, player), risk)}

\* With the worst risks first, those of a tile come before those of another one: fewer of
\* them reach some risk, and the higher ones are the same.
VectorLess(v, tile, other, targets) ==
    LET count(t, risk) == Cardinality(AtLeast(v, t, targets, risk))
    IN  \E worst \in targets :
           LET risk == Risk(v, other, worst)
           IN  /\ count(tile, risk) < count(other, risk)
               /\ \A t \in {tile, other}, player \in targets :
                     RatioLess(risk, Risk(v, t, player)) =>
                        count(tile, Risk(v, t, player)) = count(other, Risk(v, t, player))

\* select_lexicographic_minimax_action
RiskChoice(v, targets) ==
    FirstLegal(v, {tile \in Legal(v) :
                     \A other \in Legal(v) : ~VectorLess(v, other, tile, targets)})

TargetHonorValue(v, tile, targets) ==
    HonorValueAmong(v, tile, HeuristicTargets(v, tile, targets))

TargetSuitedRank(v, tile, targets) ==
    SuitedRank(v, tile, HeuristicTargets(v, tile, targets))

\* The honors seen most often, in their order; among those before the first of unknown
\* value the first of the least value.
HonorChoice(v, targets) ==
    LET honors   == {tile \in Legal(v) : IsHonor(tile)}
        group    == {i \in DOMAIN v.dahai : /\ v.dahai[i] \in honors
                                            /\ \A other \in honors :
                                                  HonorRank(v, other) <= HonorRank(v, v.dahai[i])}
        value(i) == TargetHonorValue(v, v.dahai[i], targets)
        run      == {i \in group : \A j \in group : j <= i => value(j) # None}
    IN  CASE honors = {}              -> None
          [] honors # {} /\ run = {}  -> v.dahai[Min(group)]
          [] honors # {} /\ run # {}  ->
                FirstLegal(v, {v.dahai[i] : i \in {i \in run : \A j \in run : value(i) <= value(j)}})

SuitedChoice(v, targets) ==
    LET suited == {tile \in Legal(v) : ~IsHonor(tile) /\
                                       TargetSuitedRank(v, tile, targets) # NoSafety}
    IN  FirstLegal(v, {tile \in suited : \A other \in suited :
            TargetSuitedRank(v, other, targets) <= TargetSuitedRank(v, tile, targets)})

\* suited_safety_outweighs_honor
Outweighs(v, suited, honor, targets) ==
    /\ HonorRank(v, honor) = 1
    /\ TargetHonorValue(v, honor, targets) = 2
    /\ TargetSuitedRank(v, suited, targets) >= Suji

\* Honors before suits; only the defence against riichi knows an exception.
LegacyChoice(v, family, targets) ==
    LET honor  == HonorChoice(v, targets)
        suited == SuitedChoice(v, targets)
    IN  IF \/ honor = None
           \/ family = "reach" /\ suited # None /\ Outweighs(v, suited, honor, targets)
        THEN suited ELSE honor

\* Whom a defence defends against.
Targets(v, family) ==
    CASE family = "reach"     -> Reachers(v)
      [] family = "open_hand" -> ActionableOpenHands(v)
      [] family = "combined"  ->
            IF Reachers(v) # {} /\ ActionableOpenHands(v) # {} THEN Attackers(v) ELSE {}

\* Mutant: the stage before the exact comparison is left out.
Mutant_DefenceChoice(v, family) ==
    LET targets == Targets(v, family)
    IN  IF targets = {} \/ v.dahai = <<>> THEN None
        ELSE CASE SafeChoice(v, targets) # None -> SafeChoice(v, targets)
               [] SafeChoice(v, targets) = None /\ RiskIsKnown(v, targets)
                                                -> RiskChoice(v, targets)
               [] OTHER                         -> LegacyChoice(v, family, targets)

\* The discard a defence answers with, None if it has none.
DefenceChoice(v, family) ==
    LET targets == Targets(v, family)
    IN  IF targets = {} \/ v.dahai = <<>> THEN None
        ELSE CASE SafeChoice(v, targets) # None -> SafeChoice(v, targets)
               [] SafeChoice(v, targets) = None /\ PassedChoice(v, targets) # None
                                                -> PassedChoice(v, targets)
               [] /\ SafeChoice(v, targets) = None
                  /\ PassedChoice(v, targets) = None
                  /\ RiskIsKnown(v, targets)    -> RiskChoice(v, targets)
               [] OTHER                         -> LegacyChoice(v, family, targets)
=============================================================================

-------------------------- MODULE MCNodocchiDecision --------------------------
(* Positions to decide in: two discardable tiles under every threat, a hand with *)
(* one or two kans, tables at which one to three calls are offered, and views of *)
(* the table to defend in.                                                       *)
EXTENDS NodocchiDefence

CONSTANTS A, B, Pon     \* two tile types and a call

NoDefence == [family \in Families |-> None]

\* A hand of two shanten before its discard, nothing else to do and nobody attacking.
Quiet ==
    [hora |-> FALSE, ryukyoku |-> "absent", call |-> None, reach |-> FALSE,
     shanten |-> [tile \in {A, B} |-> 2], selected |-> A, dahai |-> <<A, B>>, pass |-> FALSE,
     defence |-> NoDefence, reachers |-> 0, dealer_reacher |-> FALSE, open_hands |-> "none",
     wait |-> None, total |-> None, value |-> None, safe |-> {},
     kans |-> {}, own_reached |-> "no", own_draw |-> TRUE,
     remaining |-> 12, types |-> 3, offense |-> None]

\* What the server offers besides discards.
Declarations ==
    {[Quiet EXCEPT !.hora = h, !.ryukyoku = r] :
        h \in BOOLEAN, r \in {"absent", "declare", "continue"}}
    \cup {[Quiet EXCEPT !.hora = h, !.call = c, !.pass = TRUE, !.dahai = <<>>,
                        !.shanten = <<>>, !.selected = None, !.own_draw = FALSE] :
             h \in BOOLEAN, c \in {Pon, None}}

Threats ==
    {[r |-> r, d |-> d, o |-> o] : r \in 0..2, d \in BOOLEAN, o \in OpenHands} \
        {[r |-> 0, d |-> TRUE, o |-> o] : o \in OpenHands}

Shantens == UNION {[S -> 0..3] : S \in SUBSET {A, B}}

Selections(s) ==
    IF DOMAIN s = {} THEN {None}
    ELSE {t \in DOMAIN s : \A u \in DOMAIN s : s[t] <= s[u]}

Waits == {[furiten |-> "no", remaining |-> 6], [furiten |-> "no", remaining |-> 5],
          [furiten |-> "yes", remaining |-> 8], [furiten |-> "unknown", remaining |-> 8]}

\* The value of the selected discard: wait and total of a tenpai, value of one shanten.
Offenses(s, t) ==
    IF t = None \/ s[t] >= 2 THEN {<<None, None, None>>}
    ELSE IF s[t] = 1 THEN {<<None, None, v>> : v \in {None, 750, 1000, 1500}}
    ELSE {<<w, None, None>> : w \in Waits}
         \cup {<<[furiten |-> "no", remaining |-> 4], total, None>> : total \in {15600, 23400}}

Defences == [Families -> {None, B}]

\* The hand and the discard the selection prefers; small, so that the set of all
\* positions is a single comprehension.
Hands ==
    UNION {UNION {{[Quiet EXCEPT !.shanten = s, !.selected = t, !.wait = o[1], !.total = o[2],
                                 !.value = o[3], !.reach = r] :
                      o \in Offenses(s, t),
                      r \in IF t # None /\ s[t] = 0 THEN BOOLEAN ELSE {FALSE}}
                  : t \in Selections(s)} : s \in Shantens}

Discarding ==
    {[hand EXCEPT !.safe = safe, !.defence = d, !.reachers = threat.r,
                  !.dealer_reacher = threat.d, !.open_hands = threat.o] :
        hand \in Hands, safe \in SUBSET {A, B}, d \in Defences, threat \in Threats}

-----------------------------------------------------------------------------
Value(mode, total) == [mode |-> mode, total |-> total]
Hand(s, r, o) == [shanten |-> s, remaining |-> r, types |-> 3, offense |-> o]

\* The hand after a kan: as good, with fewer tiles to wait for, worth less, in another
\* mode, of unknown value, or of another shanten.
KanHands == {Hand(0, 12, Value("reach", 40)), Hand(0, 11, Value("reach", 40)),
             Hand(0, 12, Value("reach", 10)), Hand(0, 12, Value("damaten", 40)),
             Hand(0, 12, None), Hand(1, 12, None)}

Kans(tile, kinds) ==
    {[kind |-> k, tile |-> tile, formed |-> f, hard_safe |-> s, hand |-> h] :
        k \in kinds, f \in BOOLEAN, s \in BOOLEAN, h \in KanHands}

KanSets == {{k} : k \in Kans(A, KanKinds)}
           \cup {{k, l} : k \in Kans(A, {"ankan"}), l \in Kans(B, {"kakan"})}

MCKanPositions ==
    {[Quiet EXCEPT !.kans = kans, !.own_reached = own, !.own_draw = draw,
                   !.reachers = threat[1], !.open_hands = threat[2],
                   !.shanten = [tile \in {A} |-> 0], !.dahai = <<A>>, !.reach = FALSE,
                   !.wait = [furiten |-> "no", remaining |-> 12], !.total = threat[3],
                   !.offense = Value("reach", threat[3]), !.defence["reach"] = threat[4],
                   !.defence["open_hand"] = threat[4]] :
        kans \in KanSets, own \in OwnReached, draw \in BOOLEAN,
        threat \in {<<0, "none", 30, None>>, <<1, "none", 30, None>>,
                    <<1, "none", 30, A>>, <<0, "danger", 30, A>>, <<0, "danger", 16000, A>>}}

-----------------------------------------------------------------------------
(* Views to defend in: two suited tiles with their suji and walls, a wind and a  *)
(* dragon, one or two attackers.                                                 *)
M(n)    == <<"m", n>>
East    == <<"wind", "E">>
White   == <<"dragon", "P">>
Tiles   == {M(4), M(5), East, White}

Riichi ==
    [reached |-> TRUE, melds |-> 0, han |-> 0, discards |-> 6,
     river |-> {}, after_reach |-> {}, temporary |-> {}, same_hand |-> {}]

OpenHand(melds, han, discards) ==
    [Riichi EXCEPT !.reached = FALSE, !.melds = melds, !.han = han, !.discards = discards]

Nobody == OpenHand(0, 0, 6)

\* A hand in riichi may hold concealed kans, which count as melds.
RiichiWithKan == [Riichi EXCEPT !.melds = 1]

\* One attacker of either kind, two of a kind, one of each; and some who are none.
Attacks ==
    {<<Riichi, Nobody>>, <<Riichi, OpenHand(1, 2, 11)>>, <<OpenHand(2, 1, 9), Nobody>>,
     <<Riichi, RiichiWithKan>>, <<OpenHand(2, 2, 6), OpenHand(1, 0, 12)>>,
     <<RiichiWithKan, OpenHand(3, 0, 6)>>,
     <<OpenHand(2, 0, 6), Riichi>>}

Seen(rivers, more) ==
    [tile \in UNION rivers \cup DOMAIN more |->
        Max({IF \E river \in rivers : tile \in river THEN 1 ELSE 0,
             IF tile \in DOMAIN more THEN more[tile] ELSE 0})]

With(seat, river, passed, same_hand) ==
    [seat EXCEPT !.river = river, !.same_hand = same_hand,
                 !.after_reach = IF seat.reached THEN passed ELSE {},
                 !.temporary = IF seat.reached THEN {} ELSE passed]

View(seats, oya, more, dahai, risk) ==
    [seats |-> seats, oya |-> oya, round_wind |-> "E", dahai |-> dahai,
     visible |-> Seen({seats[1].river, seats[2].river}, more), risk |-> risk]

Unknown == [player \in 1 .. 2 |-> None]

\* Nobody wins on a tile he has discarded or let pass in riichi.
Counted(seats, wins, total) ==
    [player \in 1 .. 2 |->
        [total |-> total[player],
         wins |-> [tile \in Tiles |->
            IF \/ tile \in seats[player].river
               \/ tile \in seats[player].after_reach \cup seats[player].temporary
            THEN 0 ELSE Min({wins[player][tile], total[player]})]]]

Win(a, b, c, d) == [tile \in Tiles |->
    CASE tile = M(4) -> a [] tile = M(5) -> b [] tile = East -> c [] tile = White -> d]

Offered4 == {<<M(4), M(5), East, White>>, <<White, East, M(5), M(4)>>}

\* What passed: the tiles nobody, the first, the second or both cannot win on.
PassedViews ==
    {View(<<With(attack[1], {}, p[1], p[2]), With(attack[2], {}, q[1], q[2])>>, 0, <<>>, offer,
          Unknown) :
        attack \in Attacks, offer \in Offered4,
        p \in (SUBSET {M(4), East}) \X {{}, {M(5)}, {M(4), M(5)}},
        q \in (SUBSET {M(4), White}) \X {{}, {M(4)}, {M(5), East}}}

\* What the rivers and the walls say, with winds known and unknown.
HeuristicViews ==
    {View(<<With(attack[1], r, {}, {}), With(attack[2], s, {}, {})>>, oya, more, offer, Unknown) :
        attack \in Attacks,
        r \in {{}, {M(1)}, {M(1), M(7)}, {M(1), M(2), M(8)}}, s \in {{}, {M(1), M(7)}, {M(8), East}},
        oya \in {None, 0, 1},
        more \in {<<>>, M(3) :> 3 @@ East :> 1, M(3) :> 4 @@ M(6) :> 3 @@ M(7) :> 4, East :> 3 @@ White :> 2},
        offer \in {<<White, East, M(5), M(4)>>, <<M(4), M(5)>>}}

\* What the counted hands say.
RiskViews ==
    {LET seats == <<With(attack[1], r, {}, {}), With(attack[2], {}, p, same)>>
     IN  View(seats, 0, <<>>, offer, Counted(seats, wins, total)) :
        attack \in Attacks, offer \in Offered4, r \in {{}, {M(4)}, {M(5)}},
        p \in {{}, {East}, {White}}, same \in {{}, {M(5)}},
        wins \in {Win(1, 1, 2, 2), Win(2, 3, 3, 1), Win(3, 0, 1, 2)}
                 \X {Win(2, 1, 0, 1), Win(1, 3, 2, 1)},
        total \in {<<10, 5>>, <<10, 0>>}}

Views == PassedViews \cup HeuristicViews \cup RiskViews

\* A hand of two shanten with nothing else to do, facing what the view shows.
Facing(hand, v) ==
    [view |-> v] @@
    [hand EXCEPT !.dahai = v.dahai,
                 !.shanten = [tile \in Legal(v) |-> 2],
                 !.selected = v.dahai[1],
                 !.reachers = Cardinality(Reachers(v)),
                 !.dealer_reacher = \E player \in Reachers(v) : IsDealer(v, player),
                 !.open_hands = OpenHandLevel(v),
                 !.safe = SafeAgainst(v, Attackers(v)),
                 !.defence = [family \in Families |-> DefenceChoice(v, family)]]

MCFacingPositions == {Facing(Quiet, v) : v \in Views}

MCTileTypes == {A, B} \cup Tiles

MCPlainPositions == Declarations \cup Discarding
-----------------------------------------------------------------------------
(* Calls, and the tables at which they are offered.                              *)

\* A call that leaves a hand of some shanten after either discard.
To(shanten) ==
    [name |-> "first", key |-> <<"meld", "black">>,
     discards |-> [tile \in {A, B} |-> shanten], discard |-> A, rank |-> 1,
     wait |-> None, yaku |-> {}, total |-> None, push_value |-> 1000, safe |-> {},
     value |-> None, han |-> "below", ron_yaku |-> "below"]

ToTenpai ==
    [To(0) EXCEPT !.wait = [furiten |-> "no", history |-> "no", remaining |-> 6], !.yaku = {"present"}]

NoDiscard == [To(0) EXCEPT !.discards = <<>>, !.discard = None]

Table ==
    [reached |-> FALSE, drawn |-> FALSE, melds |-> 0, shanten |-> 1, source_known |-> TRUE,
     draws |-> 12, open_hands |-> "none", pass |-> [kind \in Kinds |-> 2], parallel |-> TRUE,
     calls |-> <<To(1)>>]

\* What keeps a call from being evaluated.
HurdleTables ==
    {[Table EXCEPT !.reached = r, !.drawn = d, !.melds = m, !.shanten = s,
                   !.calls = <<[ToTenpai EXCEPT !.key = k]>>] :
        r \in BOOLEAN, d \in BOOLEAN, m \in {None, 3, 4}, s \in {0, 1, 4},
        k \in {None, <<"meld", "black">>}}

\* Either furiten of a wait, the permanent one and that of missed wins.
CallFuriten == {<<f, "no">> : f \in Furiten} \cup {<<"no", f>> : f \in Furiten}

\* Tenpai of every kind, beside a plain one.
TenpaiTables ==
    {[Table EXCEPT !.open_hands = o,
                   !.calls = <<[ToTenpai EXCEPT !.wait = [furiten |-> f[1], history |-> f[2],
                                                          remaining |-> n],
                                                !.yaku = y, !.total = v, !.rank = r],
                               [ToTenpai EXCEPT !.name = "second", !.key[2] = "red"]>>] :
        f \in CallFuriten, n \in {0, 2, 3, 6}, o \in OpenHands, v \in {None, 15600},
        y \in {{"present"}, {"present", "absent"}, {"present", "unknown"}}, r \in {1, 2}}

CallsFrom(shanten) ==
    CASE shanten = 1 ->
            {ToTenpai, NoDiscard, To(2)}
            \cup {[To(1) EXCEPT !.value = v, !.push_value = p] :
                    v \in {None, 1, 3, 4}, p \in {None, 1000}}
      [] shanten = 2 ->
            {To(3)}
            \cup {[To(1) EXCEPT !.value = v, !.han = h, !.push_value = p] :
                    v \in {None, 1, 3}, h \in {"at_least", "unknown"}, p \in {None, 1000}}
            \cup {[To(2) EXCEPT !.value = v, !.ron_yaku = y, !.safe = safe] :
                    v \in {1, 5}, y \in {"at_least", "below", "unknown"}, safe \in {{}, {A}}}
      [] shanten = 3 ->
            {To(3)}
            \cup {[To(2) EXCEPT !.value = v, !.han = h, !.safe = safe] :
                    v \in {None, 1, 3}, h \in {"at_least", "below"}, safe \in {{}, {A}}}

Second(c) == [c EXCEPT !.name = "second", !.key[2] = "red"]

\* Two calls that differ, and the first of them offered twice.
Offers(shanten) ==
    {<<c, Second(d)>> : c \in CallsFrom(shanten), d \in CallsFrom(shanten)}
    \cup {<<c, [c EXCEPT !.name = "twin"], Second(To(shanten - 1))>> : c \in CallsFrom(shanten)}

\* What the comparisons read besides the calls.
Situations ==
    {<<TRUE, 2, 12, "none", TRUE>>, <<TRUE, 2, 12, "danger", FALSE>>, <<TRUE, 2, 10, "danger", TRUE>>,
     <<TRUE, 2, 11, "none", FALSE>>, <<TRUE, 2, 9, "none", TRUE>>, <<TRUE, 2, None, "none", TRUE>>,
     <<TRUE, None, 12, "none", TRUE>>, <<FALSE, 2, 12, "none", TRUE>>}

ComparisonTables ==
    UNION {{[Table EXCEPT !.shanten = shanten, !.calls = offer, !.source_known = s[1],
                          !.pass = [kind \in Kinds |-> s[2]], !.draws = s[3],
                          !.open_hands = s[4], !.parallel = s[5]] :
               offer \in Offers(shanten), s \in Situations} : shanten \in 1 .. 3}

MCCallTables == HurdleTables \cup TenpaiTables \cup ComparisonTables
=============================================================================

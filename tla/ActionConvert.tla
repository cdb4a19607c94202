---------------------------- MODULE ActionConvert ----------------------------
(***************************************************************************)
(* From the actions a request offers to the one reply the client sends     *)
(* (src/convert.rs, the small agents of bot-core and the response builders *)
(* of src/validation_policy.rs and src/client.rs).                         *)
(*                                                                         *)
(* The server names tiles by faces, the agents by tile ids, and the way    *)
(* back goes through the offer itself, so that a reply repeats what the    *)
(* server wrote.  An offered action is [kind, pai, consumed], with Absent  *)
(* and <<>> for what its kind does not carry; a LegalAction is the same    *)
(* with ids; a reply is an offered action and the tsumogiri flag.          *)
(***************************************************************************)
EXTENDS Naturals, FiniteSets, SequencesExt

CONSTANT Absent   \* the None of an Option

TileTypes == 0..33
FiveTypes == {4, 13, 22}          \* 5m, 5p, 5s: the types with a red tile
Readable(pai) ==
  pai # Absent /\ pai.type \in TileTypes /\ (pai.red => pai.type \in FiveTypes)

\* Mutant: the red five and the plain one get the same id.
Mutant_TileIdOf(pai) == IF ~Readable(pai) THEN Absent ELSE 4 * pai.type

\* temporary_tile_id_from_mjai_pai: the first id of the type; among the fives
\* the first one is the red tile.
TileIdOf(pai) ==
  IF ~Readable(pai) THEN Absent
  ELSE 4 * pai.type + (IF pai.type \in FiveTypes /\ ~pai.red THEN 1 ELSE 0)

TileIdsOf(pais) == [i \in DOMAIN pais |-> TileIdOf(pais[i])]

LegalAction(kind, tile, consumed) == [kind |-> kind, tile |-> tile, consumed |-> consumed]
NoneAction == LegalAction("none", Absent, <<>>)

\* An action with a face that cannot be read is not shown to the agents.
Convertible(offered) ==
  /\ offered.pai # Absent => TileIdOf(offered.pai) # Absent
  /\ \A i \in DOMAIN offered.consumed : TileIdOf(offered.consumed[i]) # Absent

\* possible_action_to_legal_action
ToLegal(offered) == LegalAction(offered.kind, TileIdOf(offered.pai), TileIdsOf(offered.consumed))

LegalActions(offer) ==
  LET readable == SelectSeq(offer, Convertible)
  IN  [i \in DOMAIN readable |-> ToLegal(readable[i])]

\* mjai_pais_match_tile_ids: the same tiles in any order.
SameTiles(ids, others) ==
  /\ Len(ids) = Len(others)
  /\ \A id \in ToSet(ids) :
       Cardinality({i \in DOMAIN ids : ids[i] = id}) =
       Cardinality({i \in DOMAIN others : others[i] = id})

\* The first element of a sequence that passes Test, as Iterator::find.
Find(seq, Test(_)) ==
  IF \A i \in DOMAIN seq : ~Test(seq[i]) THEN Absent
  ELSE seq[CHOOSE i \in DOMAIN seq : Test(seq[i]) /\ \A j \in 1..(i - 1) : ~Test(seq[j])]
FirstKind(kinds, actions) ==
  Find(kinds, LAMBDA kind : \E i \in DOMAIN actions : actions[i].kind = kind)
FirstOfKind(actions, kind) == Find(actions, LAMBDA action : action.kind = kind)

------------------------------------------------------------------------------
(* The way back. *)

\* Mutant: without a drawn tile every discard is reported as the drawn one.
Mutant_ReplyOf(offered, drawn) ==
  [action |-> offered,
   tsumogiri |-> offered.kind = "dahai" /\ (drawn = Absent \/ TileIdOf(offered.pai) = drawn)]

ReplyOf(offered, drawn) ==
  [action |-> offered,
   tsumogiri |-> offered.kind = "dahai" /\ drawn # Absent /\ TileIdOf(offered.pai) = drawn]

Matches(chosen, offered) ==
  /\ offered.kind = chosen.kind
  /\ TileIdOf(offered.pai) = chosen.tile
  /\ SameTiles(TileIdsOf(offered.consumed), chosen.consumed)

\* Mutant: the unchecked conversion, which never looks at the offer.
Mutant_Checked(chosen, offer, drawn) ==
  IF chosen.kind \in {"hora", "ryukyoku", "reach", "none"}
  THEN ReplyOf([kind |-> chosen.kind, pai |-> Absent, consumed |-> <<>>], drawn)
  ELSE LET offered == Find(offer, LAMBDA a : Matches(chosen, a))
       IN  IF offered = Absent THEN Absent ELSE ReplyOf(offered, drawn)

\* checked_legal_action_to_mjai_action: nothing that was not offered.
Checked(chosen, offer, drawn) ==
  LET offered == Find(offer, LAMBDA a : Matches(chosen, a))
  IN  IF offered = Absent THEN Absent ELSE ReplyOf(offered, drawn)

\* Chi, pon and daiminkan are missing: the fallback never opens the hand.
FallbackKinds == <<"none", "dahai", "ryukyoku", "hora", "reach", "ankan", "kakan">>

\* Mutant: a none is sent when nothing else is found, offered or not.
Mutant_Fallback(offer, drawn) ==
  LET kind == FirstKind(FallbackKinds, offer)
  IN  IF kind = Absent THEN ReplyOf([kind |-> "none", pai |-> Absent, consumed |-> <<>>], drawn)
      ELSE ReplyOf(FirstOfKind(offer, kind), drawn)

\* fallback_mjai_action_from_possible_actions works on the faces, so that an
\* unreadable one can still be discarded.
Fallback(offer, drawn) ==
  LET kind == FirstKind(FallbackKinds, offer)
  IN  IF kind = Absent THEN Absent ELSE ReplyOf(FirstOfKind(offer, kind), drawn)

------------------------------------------------------------------------------
(* The agents. *)

DrawnDahai(legal, drawn) ==
  IF drawn = Absent THEN Absent
  ELSE Find(legal, LAMBDA action : action.kind = "dahai" /\ action.tile = drawn)

\* The normal agent's order of kinds; of the discards it takes the drawn tile.
NormalKinds == <<"hora", "ryukyoku", "reach", "dahai">>

NormalAct(legal, drawn) ==
  LET kind == FirstKind(NormalKinds, legal)
  IN  CASE kind = Absent -> NoneAction
        [] kind = "dahai" /\ DrawnDahai(legal, drawn) # Absent -> DrawnDahai(legal, drawn)
        [] OTHER -> FirstOfKind(legal, kind)

TsumogiriAct(legal, drawn) ==
  IF DrawnDahai(legal, drawn) # Absent THEN DrawnDahai(legal, drawn) ELSE NoneAction

IsMenzenCompatible(action) == action.kind \notin {"chi", "pon", "daiminkan", "kakan"}

\* NodocchiAgent takes a legal action or none; which one it takes is not modelled.
NodocchiChoices(legal) == ToSet(legal) \cup {NoneAction}

\* What the policy of an AgentKind may choose.
PolicyChoices(kind, legal, drawn) ==
  CASE kind = "normal"    -> {NormalAct(legal, drawn)}
    [] kind = "tsumogiri" -> {TsumogiriAct(legal, drawn)}
    [] kind = "nodocchi"  -> NodocchiChoices(legal)
    [] kind = "menzen"    -> NodocchiChoices(SelectSeq(legal, IsMenzenCompatible))

\* The policy's choice if it was offered, else the normal agent's, else the
\* fallback, else no reply.
ResponseTo(choice, normal, offer, drawn) ==
  LET chosen == Checked(choice, offer, drawn)
      second == Checked(normal, offer, drawn)
  IN  IF chosen # Absent THEN chosen
      ELSE IF second # Absent THEN second
      ELSE Fallback(offer, drawn)

\* Every response the client may come to.
Responses(kind, offer, drawn) ==
  UNION {{ResponseTo(choice, normal, offer, drawn) :
            choice \in PolicyChoices(kind, legal, drawn), normal \in {NormalAct(legal, drawn)}}
         : legal \in {LegalActions(offer)}}
==============================================================================

# Verification of nodocchi

nodocchi is a mahjong AI in Rust.  Two network clients let it play, one on the
riichilab validation server (a WebSocket carrying MJAI events), one at a chiihou
table (Nostr relays).  Both reduce what they hear to a `DecisionContext`, hand it
to the agents of `bot-core`, and send back the one action the agent chose.

The project models the parts of that chain that keep state, run beside each other,
or decide under incomplete information.  TLC checks small instances; the TLA+ proof system
proves the safety properties for every instance: of the event tracker, alone and in a
legal round, both client loops with what is around them, the replay of a session, the
decision of the main agent with its calls and its defences, the discard selection, the
furiten verdict and the settlement of a hand.
Paths below are relative to `src/crates/`.

## The system and its parts

| part | state | operations | hard because | module |
| --- | --- | --- | --- | --- |
| event tracker (`riichilab-client/src/state.rs`) | riichi, double riichi, ippatsu, first turn, passed tiles, furiten history, our drawn tile | one handler per MJAI event, `on_action_response` | facts depend on the order of many events by several players; the client may join late or miss one | `ValidationState`, `MjaiRound` |
| client loop (`riichilab-client/src/client.rs`) | run state, the request being answered | read, interpret, answer, end | the server has a deadline, the answer may come late, the socket may break, a message may not parse | `RiichilabClient`, `RequestReply` |
| action conversion (`riichilab-client/src/convert.rs`, `validation_policy.rs`) | none | offered action to `LegalAction` and back, fallback | the reply must repeat what was offered, red fives included | `ActionConvert` |
| small agents (`bot-core/src/agents/`) | none | choose one legal action | the choice must survive the way back | `ActionConvert` |
| capture and replay (`riichilab-client/src/capture.rs`, `bot-scenario/src/replay.rs`) | a bounded queue, a file, a second tracker | write a record, read it back | the queue is lossy, client and server records share type names, a session may be cut off | `SessionReplay` |
| chiihou table (`chiihou-client/src/match_state.rs`) | players, round, our hand, rivers, riichi, melds, dora | four lifecycle and six table notifications | relays reorder, repeat and lose notifications; half of the draws are secret | `ChiihouMatchState` |
| chiihou loop (`chiihou-client/src/runtime.rs`, `controller.rs`, `event.rs`) | event ids seen, `next_sent_for_current_kyoku`, the task being published | receive, answer a request, publish `next`, stop | serial loop with a delay in it; publication may fail | `ChiihouClient` |
| chiihou startup (`runtime.rs`, `status.rs`, `command.rs`) | none | subscribe, fetch the table status, choose `gamestart` or `join`, publish | the status is a snapshot several bots act on | `ChiihouStartup` |
| decision of the main agent (`bot-core/src/agents/nodocchi.rs`) | none between requests | win, ryukyoku, call, kan, riichi, push/pull, discard, defence | many stages that must agree on one action, and shortcuts that must not change it | `NodocchiDecision`, `PushPull`, `KanDecision`, `NodocchiCalls` |
| call decision (`bot-core/src/call_decision.rs`) | results shared between candidates, a thread for the value of passing | prepare, evaluate, compare, gate, select | shared results, an expensive evaluation beside the calls, values on different scales | `CallDecision` |
| discard selection (`bot-core/src/discard_selection.rs`, `bot-logic/src/selection.rs`, `discard.rs`) | queue and results of the worker threads | staged search for the best discard | lazy axes, unknown values, parallel evaluation | `DiscardSelection` |
| furiten (`bot-logic/src/furiten.rs`, `bot-core/src/context.rs`) | none | judge a wait | three-valued knowledge about the hand after the discard | `Furiten` |
| settlement (`bot-logic/src/normal_score.rs`, `payment.rs`, `scoring_selection.rs`, `hand_value.rs`, `hand_settlement.rs`) | the best reading so far | score, select, settle | unknown ura dora, 32-bit arithmetic | `HandSettlement` |
| defence (`bot-core/src/fold_defense.rs`, `combined_defense.rs`, `open_hand_defense.rs`, `defense/`) | none | whom to defend against, and with which discard | several attackers of two kinds at once, each with partial evidence | `FoldDefence`, `NodocchiDefence` |
| riichi, kuikae, nine terminals (`bot-core/src/`) | none | legality and choice | inputs of the decision here | |
| chiihou protocol and decisions (`protocol.rs`, `table_notification.rs`, `decision.rs`) | none | text to notification, request to legal actions | partial information about calls | |
| observation and protocol (`riichilab-client/src/observation.rs`, `protocol.rs`) | none | decode a snapshot of the table | wide, but pure | |
| evaluation of hands (`bot-logic/src/lookahead.rs`, `bot-core/src/prospective_value.rs`, ...) | none | shanten, acceptance, expected values | numerical | |
| tools (`bot-scenario`, `bot-analysis`) | none besides the replay | print diagnostics | formatting | |

How they interact.  A client owns one task.  In riichilab it reads a message,
parses it, writes it to the capture, feeds the tracker (`ValidationState::on_event`),
and, if the message is a request, builds a context from the observation and the
tracker, asks the agent, checks the choice against the offer, sends it, and tells the
tracker what it sent.  Nothing is read in between, so the concurrency is between the
client, the wire, the server and the capture's writer thread.  In chiihou the loop
receives events from several relays through the SDK's channel, drops the ids it has
seen, applies notifications to the table, answers requests from a snapshot of the
table, and publishes after a configured delay during which it receives nothing.  The
agent itself is a function of its context, but two of its stages start threads: the
discard selection evaluates candidates in parallel, and the call decision evaluates
what passing is worth beside the calls.

What makes each part correct:

* tracker: in a complete round its fields are what the whole history says; in an
  incomplete one they never contradict each other, and what was not observed is
  "unknown", not "no";
* client loop: each request is answered at most once, in order, with something it
  offered; the loop ends exactly when it should, and never hangs on a request;
* conversion: a choice comes back as the offered action it stands for;
* replay: a request is replayed with the facts the live client had;
* chiihou table: no tile is counted or called twice, a new round starts from a clean
  table;
* chiihou loop: one `next` per round, replies in order, rivers without duplicates;
* chiihou startup: whoever entered hears its game, nobody is turned away but by a
  race, and bots started in order fill the table;
* decision: a diagnosis reports what is played although it takes another path, a fold
  defends against everybody who attacks, and a threat that grows never turns a fold
  into a push;
* defence: the tile played is one nobody wins on, if there is one, and no other tile is
  safer against every attacker;
* call decision: sharing and parallelism change no result, the call made is justified
  and the best one, and at one shanten it is played on;
* discard selection: staging, dropped axes and threads select what one comparison over
  all axes would;
* furiten: what is concluded before the discard holds after it;
* settlement: a known value is the best of the readings, and payments balance.

`PROJECT.json` lists under "hazards" the lines where each of these is at risk.

## Modules

### ValidationState: the tracker

The variables are the fields of the struct `ValidationState` that handlers change,
under their own names.  An `Option<bool>` is a `Fact` ("unknown", "no", "yes"); the
`Vec` of passed tiles, which never holds a tile twice, is a set; `None` is a model
value.  There is one action per handler (`OnStartGame`, `OnStartKyoku`, `OnTsumo`,
`OnReach`, `OnDahai`, `OnCall`, `OnKakan`, `OnHora`, `InvalidateReactionSource`,
`OnActionResponse`).  The helpers between them are the private methods of the
struct.  The order of calls inside a handler is in the values: a discard confirms
the pending tile with the map as it was, adds passed tiles before it establishes
the riichi, and looks at the first turn before it updates it.  `Next` puts no order
on the events, and an actor may be out of range.

### MjaiRound: a real round

Composes the same handlers with a server that plays by the rules, and keeps the
`log` of the round.  The operators in its second section (`Riichi`,
`WasDoubleRiichi`, `HasIppatsu`, `PassedSince`, `DrawDiscards`) are reference
definitions over the log, written without looking at the tracker; the properties
equate them with the tracker's fields.  The server is outside the repository; its
order of events is the one the protocol types and the tests of the client assume.

### SessionReplay: capture and replay

The tracker occurs twice, the live one and, under `r_` names through `INSTANCE`, the
one of the offline tool.  The live client hands each interpreted event and each sent
action to a channel of `Capacity` records that never blocks: a full channel drops the
record, and a process that is killed loses what the writer thread has not written.
The tool reads the file from its beginning when nobody writes to it any more.
`complete` says that nothing was dropped before the record at hand; it is ours, the
file does not have it.

### ActionConvert: offers, ids, replies

`ToLegal` and `Checked` are the two directions of the conversion, `Fallback` what
the client does if the agent's choice cannot be sent, `ResponseTo` and `Responses` the
replies of each agent.  A face is a type with a red flag, so that the ids of the
five and the red five differ as in the code.  `NodocchiAgent` is here any choice
of a legal action, or none.

### RiichilabClient and RequestReply: the loop and its promise

`RiichilabClient` extends the tracker and the conversion with the read loop
(`ReadMessage`, `SendReply`, `WithholdReply`, `FailToSend`, `ReadClose`,
`ReadError`), a connection that may close or break, and a server that sends events
and requests, accepts, rejects or overtakes replies.  `declined` is the server's own
account of a win that was passed up.  `RequestReply` is the abstract promise about
requests: each is answered at most once, in order, with something it offered.
`KeepsRequestPromise` says the loop implements it under the mapping at the end of the
module.  `EndsWhenDone` has two halves: the exit event and a lost connection end the
client (by fairness), and nothing else does (`EndsOnlyWhenDone`), neither the exit event
of the other mode nor a request without a reply.

### ChiihouMatchState: the table

One action per notification (`ApplyGameStart` to `ApplyOpen`).  The notifications
come in any order.  A rejected one is a stuttering step, except for our own discard
of a tile we do not hold, which the code rejects after it has changed the river.
`MeldsAfterOpen` and `NewlyVisible` are the two results of `open`.

### ChiihouClient: the loop around it

Composes the table with `SeenAfter` (the set of ids), the controller
(`KyokuEndEffect`, `OnStart`, `OnLifecycle`), the delayed publication (`Wait`,
`EndDelay`, `Publish`) and a server whose events the relays deliver once or more,
in order or in any order.  A request (`ReplyKinds`) leads to no reply, which is known
at once, to one that turns out after the delay not to be signable and is dropped
(`DropReply`), or to one that is published; a `next` that cannot be signed ends the
client like one that cannot be published.

### ChiihouStartup: how bots come to a table

One process per client: it takes the time, subscribes on some relays, fetches the
stored status of the table (the newest that the relays it reached had, or nothing
after the timeout), publishes `gamestart`, `join` or nothing, and listens.  Relays
keep one status each, which may be old, pass a note to the subscriptions they have,
and give a later subscription the notes since the time it names, but no ephemeral
ones.  `orderly` restricts the environment to bots started one by one; `fresh`,
`refused` and `entered` are history variables the properties are about.

### Furiten: the verdict on a wait

A round seen by one player, who knows each of the three axes (own river, same turn,
missed win in riichi) or not (`Knowledge`).  `Discard` judges, before the discard, the
hand it leaves, as the code does; the variables `river`, `same_turn` and
`riichi_missed` are the truth, and the property compares the verdict with it after
the discard.

### HandSettlement: from readings to points

The selector of the best reading meets the readings in any order, some of them
yakuman, with ura dora that may be unknown; `Finish` is its answer and `Settle` adds
the counters.  Sums are reduced to the width of the code's `u32`, with the largest
number as the constant `MaxU32`; where the code checks a sum the model does, and where
it does not, `Wrapped` wraps.

### PushPull, KanDecision, NodocchiDecision: one decision of the main agent

`PushPull` and `KanDecision` are the pure parts, operators over a position:
`DecidePushPull` with the thresholds of `push_pull.rs`, `EarlyFold` for what can be
said before a discard is selected, and `KanChoice` with its conditions.  A position
is a record: what is offered, the threats, and what the evaluations of the hand
come to.  The evaluations themselves are not modelled; which of them is read, and
when, is.  The reason of a verdict leaves out which threat it is against, because
the position says so.

`NodocchiDecision` is `decide_instrumented`: one action per early return
(`DeclareHora`, `DeclareRyukyoku`, `MakeCall`, `FoldEarly`), the selection of the
normal discard with its verdict, the options of the mode (`ByMode`) and the two
fallbacks.  `Diagnose` decides the same position again with diagnostics, for which
the code skips the early fold.  Play and diagnosis enter the selection of the normal
discard at different functions, which call the same selection
(`discard_selection.rs:468`, `:859`); they are one selected discard here, so that
`DiagnosisAgrees` is about the early fold and not about the selection.  `IsPosition` is what the repository guarantees of a
position: a dealer in riichi is one of those in riichi, the selected discard is
legal and has the fewest shanten, a defence answers with a legal discard, and the
server offers a discard or the right to do nothing.  `Neutral` is a mode the agent
can handle and the verdict never has.  The positions come in three sets, with kans
(`KanPositions`), facing a table (`FacingPositions`, see below) and without either
(`PlainPositions`), only so that each can be enumerated.

### CallDecision and NodocchiCalls: which call to make

`CallDecision` is `call_decision.rs` in its phases: the calls are prepared one by one
as far as that is cheap, then evaluated, while another thread may evaluate what passing
is worth for each comparison somebody will ask for; then compared with passing, sent
through push/pull, and one of the survivors is selected.  Calls that leave the same
hand behind the same meld share their results, as the caches of the code do.  A call
is the record of what its evaluation comes to.  A tenpai counts only if it can win on
discards (`CanRon`): neither permanent furiten nor that of missed wins, both known;
push/pull reads the permanent one alone.

`NodocchiCalls` composes both: where calls are offered, the position's call is what
the call decision selects, in both passes; afterwards the server asks the caller for a
discard (`AskForDiscard`), and that position is decided like any other.  From one
shanten the call decision has asked the very selection that follows; from two or three
it has not, so the selection that follows may be another one of the cohort
(`FollowUps`), and the hand may then be folded.

### FoldDefence and NodocchiDefence: what to discard when folding

`FoldDefence` is the three defences as operators over a view, which is what the table
shows of each opponent: riichi, open melds, river, the tiles that passed it, and its
possible hidden hands, counted, if they can be.  `Targets` is whom a defence is for:
those in riichi, those with a dangerous open hand, or, if there are both, all of them.
`DefenceChoice` goes through the stages in their order: a tile no target can win on, a
tile that each of the others let pass, the comparison of the risks with the worst
target first, and the heuristics (honors by the copies in sight and their value to
the targets, suited tiles by walls and suji).  A heuristic speaks only for targets
that neither discarded the tile nor let it pass.  Tiles are types, because the red
five is exchanged for the plain one at the end.

`NodocchiDefence` composes this with the decision: `Faces` says of a position that its
threats, safe tiles and defences come from one view, and `FacingAssumption` says it of
every position in `FacingPositions`.  `IsView` says which views a table can show: counts
of hands agree with the tiles that cannot be won on, rivers are in sight, and the offer
is a list.  The melds of a hand in riichi are its concealed kans, and nothing reads them.

### DiscardSelection: the normal discard

The comparator with its axes, and the search around it: candidates are compared on the
cheap axes first, worker threads take those that tie from a shared counter and
evaluate them in any order, an axis unknown for one of them is dropped for all, the
first unbeaten candidate is taken, and two refinements (a full evaluation of the two
best at two shanten, the long horizon for a complete tie at one) and the fallback may
change it.  `Intended` is the reference: it knows all values, has no stages and no
threads.  `Candidate` is what a discard may come to; `InputsAssumption` adds what
`bot-logic/src/lookahead.rs:2249` guarantees: looking ahead always finds the wait of a
one-shanten hand and the next acceptance of a hand further away, so that of the deep
values these cannot be unknown.  The scan of the code is `Scan`, a function over the
places of the list.

### Proofs and MC modules

`TrackerProofs` (the tracker, alone, in a legal round and in a replay),
`RiichilabClientProofs`, `ChiihouProofs` (the table and the loop), `ChiihouStartupProofs`,
`NodocchiProofs` (the decision of the main agent with its calls), `DiscardSelectionProofs`,
`HandSettlementProofs` and `FuritenProofs` hold the theorems, see below.  The MC modules only give the constants their values.

## Runs

| run | what it shows | bounds and why they are enough |
| --- | --- | --- |
| `any_events` | whatever order events arrive in, riichi, ippatsu and passed tiles belong together, unknown stays unknown, riichi furiten is final | two seats, one actor out of range, one tile: a handler compares an actor only with the seat and a tile with nothing, and the theorems lift the bound |
| `round_history` | in a legal round every field equals what the log says | three seats, two tiles, eight events: enough for riichi, its one-shot window, a call that closes it, a missed win, and the discard that ends same-turn furiten; the theorems lift the bounds |
| `client` | only offered actions, once, in order; red fives survive; a declined win is furiten; every request is disposed of and the client ends when it should | two seats, five events, two requests, one message that cannot be read, a connection that may break: two requests let a late reply meet a later request; the theorems lift the bounds of the safety properties |
| `session_replay` | a replayed request has the facts the live client had | two seats, one tile, four events, a channel of two records, which overflows; the theorem lifts the bounds |
| `chiihou_table` | tiles are counted and called once | two seats, three tiles, two discards, two melds: enough for a pon that becomes a kan and for a second call of the same discard; the theorems lift the bounds |
| `chiihou_loop` | one `next` per round, replies in order, rivers of this round only, and what has to be published is | six notes, relays that repeat them in order: two rounds with a repeated end and a request fit; the theorems lift the bounds of the safety properties |
| `table_entry` | entrants hear their game, whoever is turned away was overtaken, bots started in order fill the table | three bots for two places, one relay, three starts in all (so one bot may restart), one note of the game; the theorems lift the bounds of the safety properties |
| `decision` | the early fold changes nothing, folds defend and discard the safest tile, a growing threat never invites, sharing and threads change no call, the call made is justified and the best, and from one shanten it is played on | two discards of zero to three shanten each, up to two players in riichi with or without the dealer, three levels of open hands, values on both sides of each threshold, every answer of three defences; one kan of any kind or two, six hands after it; one to three calls from one to three shanten, two of them twins; two attackers (riichi, open hands, a dealer, or both kinds), two suited tiles, a wind and a dragon to discard, with rivers, walls, passed tiles and counted hands: two attackers are enough for evidence that holds against one and not the other; the theorems lift the bounds |
| `hand_settlement` | a reported value is the best one, payments balance and no sum wraps | readings from below mangan to counted yakuman, double yakuman, up to two ura dora, counters of zero, some and almost all of the width |
| `furiten` | the verdict before the discard is true after it | three tiles (one to wait for, one to discard, one more), every knowledge |
| `discard_selection` | staging, dropped axes and threads select what one comparison over all axes would | families of triples of candidates, one per axis and stage, all orders, two workers: an axis is dropped or a tie refined only if at least two candidates compete, and a third shows whether the rest is affected; the theorem lifts the bounds |
| `cyclic_order` | see Findings | one triple |

`CHECK_DEADLOCK FALSE` is used where the system ends: a client that has stopped
(`client`, `chiihou_loop`, `session_replay`), bots whose starts are used up
(`table_entry`), and an agent or a selector that has its answer (`decision`,
`hand_settlement`, `discard_selection`, `cyclic_order`).

### Fairness

Each client is one asynchronous task and the runtime schedules it, and an agent
always returns, so `RiichilabClient` has weak fairness of the task as a whole
(`ClientStep`).  `ChiihouClient` has weak fairness of `FirstArrival` (what has been
published reaches the client, in the runs with ordered relays) and of `EndDelay` (a
timer fires).  `ChiihouStartup` assumes for its one liveness property that a bot is
started, that its process goes on, that some relay is within reach and that the server
reads commands and starts a full table.  No fairness is assumed of repetition, of
failures or of shutdown, and none of the servers elsewhere.

### Findings

`cyclic_order` is expected to fail: it contradicts `selection.rs:459`.  Two axes
compare only if both candidates have the feature (a wait on one tile for seven pairs,
a standard shape of one shanten), so that three candidates can beat each other in a
circle and the one that is chosen depends on the order in which they are listed.  The
comment says of another axis that this must not be, and takes it out for all
candidates at once.  `discard_selection` checks the choice where those two axes apply
to all that compete or to none (`Uniform`).

Other places where code and text do not quite meet were found while modelling.  They
are preconditions of the properties:

* an event the live loop cannot parse is skipped (`client.rs:335`), and the tile
  pending before it stays the source of the next reaction; `state.rs:172` says that
  the source is not guessed across such an event, but only the replay calls the
  handler.  `DeclinedWinIsFuriten` therefore asks that no message was garbled;
* for the same reason the drawn tile the tracker remembers may be that of an earlier
  turn if our own discard could not be parsed.  It is used when the observation does not
  decode, and then a discard after a call is reported as the drawn tile.
  `TsumogiriIsTheDrawnTile` asks that no message was garbled, too;
* the tracker learns what the client sent, not what the server accepted: a win sent
  after the deadline leaves same-turn furiten at "no".  `DeclinedWinIsFuriten` speaks
  of wins the server has seen declined, by the client;
* the flag that suppresses a second `next` is reset by the start of a round only.  If
  a relay loses that notification the next end of a round is silent, against
  `docs/chiihou.md:23`.  `chiihou_loop` has ordered relays that lose nothing
  (`Ordered`);
* the capture drops records without a trace, so that a fact that cannot be restored may
  be replayed as a known one, where `docs/bot-scenario.md:841` says it is unknown:
  `ReplayIsTheSession` asks for `complete`;
* a call from two or three shanten is justified by a discard that the agent may then
  not select: `OneShantenCallIsPlayedOn` is stated for one shanten only;
* the riichi discard of the chiihou client (`decision.rs:274`) is selected again,
  without riichi among the legal actions, so it may differ from the discard whose
  riichi was decided.  Not modelled.

## Proofs

Everything below is proved for every value of the constants that satisfies the named
assumptions; TLC evaluates the assumptions on each run.

`TrackerProofs`, its first part, from `SeatAssumption`, `TileAssumption`, `TrackedAssumption`
and `PendingAssumption` (`None` is none of the values it stands in for):

* `TypeCorrect`: the type invariant;
* `RiichiFactsCorrect`, `KnownTogetherCorrect`: the two consistency invariants;
* `MissedWinCorrect`: riichi furiten is recorded against our own riichi only;
* `RiichiFuritenLasts`: the action property that only the two resets end it.

Each invariant is proved inductive together with the types; the proof of a step has
one case per handler, and the case says which fields the handler touches.
`RiichiFactsNeedRiichi` is inductive because a discard establishes a riichi and its
one-shot window in one step and no handler but a reset takes a riichi back.
`MissedWinNeedsOwnRiichi`, which is proved and not among the runs, needs nothing else:
the seat changes only in `OnStartGame`, which also resets the furiten facts.  `RiichiFuritenLasts` follows
from the types and `Next`.

`TrackerProofs`, its second part, from the assumptions of the tracker and of `MjaiRound` about seats,
tiles and bounds, for every number of players, tiles and events:

* `RiichiCorrect`, `IppatsuCorrect`, `PassedTilesCorrect`, `FuritenCorrect` and
  `ReactionSourceCorrect`: in a legal round each field of the tracker is what the
  definitions over the log say.  The invariant (`RoundInv`, theorem `RoundInvCorrect`)
  has all five and four facts they rest on: the types, that the stage of the round is
  what the end of the log says (`StageFitsLog`), that `first_turn` lists those who have
  discarded (`FirstTurnIsTracked`), and that `own_tsumo_pending_discard` is a draw of
  ours that is not followed by a discard (`OwnDrawIsTracked`).  None of the five is
  inductive without them: a double riichi is judged by the first turn, and same-turn
  furiten ends with a discard only after a draw.  A definition over the log changes
  with one new entry in a way that depends on that entry only; the lemmas in the first
  part say how, for each definition.  The steps of a round are then brought into one
  form (`RoundSteps`: a draw, a declaration, a discard, a meld, a win or a missed win,
  with what each does to tracker and log), and there is one lemma per conjunct;
* `RoundsAreEventStreams`: a legal round is a behaviour of `ValidationState`'s `Spec`,
  so that the theorems above hold of it.

`TrackerProofs`, its third part, for any seats, tiles, number of events and size of the
queue, from the assumptions of the tracker and of `SessionReplay`:

* `ReplayCorrect`: a request whose records have no gap before it is replayed with the
  facts the live client had.  Six fields of the tracker decide these facts (`FactsOf`),
  and only the server's events change them (`After`; `LiveFollows`, `ToolFollows`): what
  we send, and what the capture records of it, touches none of them.  The invariant
  (`ReplayInv`) says that the records not read yet, in the file and then in the channel,
  lead from the tool's six fields to the live ones as long as nothing was dropped
  (`TraceInv`), and that a recorded request carries the facts of its place in that
  trace.  A record dropped, a process killed and a file read while it is incomplete are
  steps of the proof like the others (`CapturingKeepsTrace`, `ReplayingKeepsInv`).

`RiichilabClientProofs`, for every set of offers, every table, agent and pace of the
server, from `ClientAssumption`, `OfferAssumption` (an offer has as many actions as it
names), `ShapeAssumption` (what an action carries goes with its kind) and
`MarkerAssumption`:

* `NeverRejectedCorrect`: no reply is ever rejected.  The invariant (`ClientInv`) says
  that requests lie on the wire in the order in which they were asked, behind the one
  in hand (`RequestsInOrder`), that those not reached are unanswered
  (`LaterIsUnanswered`), and that a reply on its way repeats an action of the offer
  whose id it carries (`SentWasOffered`), so that the server finds nothing to reject
  (`NothingRejected`).  That the checked conversion, the fallback and each agent's
  builder answer with an action of the offer are lemmas about `ActionConvert`; the
  first of several matches exists because `<` is well founded;
* `PromiseKept`: the loop implements `RequestReply`.  `ServeRequest` maps to `Ask`,
  `SendReply` to `Reply`, `WithholdReply` to `Withhold`, and every other step to a
  stutter; the order of the answers is `LaterIsUnanswered`;
* `TsumogiriCorrect`, `DeclinedWinCorrect`: what the client says of its drawn tile and
  what it remembers of a win it passed up agree with the table the server had when it
  asked.  Neither is inductive, because the client lags behind the server by whatever is
  on the way.  The invariant (`StepInv`, theorem `TrackerKeepsStep`) therefore speaks of
  what the tracker will hold after the first n messages on the way (`DrawnIs`,
  `KnownAfter`), and says that this is what the server had at the request which is the
  n-th of them (`DrawIsTracked`, `SeatIsTracked`, `RoundIsKnown`); that behind an open
  request there are only verdicts, because the server waits (`GameWaits`); and that from
  the reply on a declined win is furiten with nothing on the way that forgets it
  (`PassIsFuriten`).  All of it assumes that no message was garbled so far, see
  Findings.  There is one lemma for each kind of step, and one for each kind of event
  the server may send (`EventStep`);
* `EndsOnlyWhenDoneCorrect`: the safety half of `EndsWhenDone`, for either exit
  condition;
* `ChoiceSurvivesCorrect`: the checked conversion gives back an offered action with the
  faces of the one the choice was made from.  The ids of the consumed tiles are compared
  as multisets; that lists of ids with equal counts come from equal bags of faces is
  proved by counting places (`CopiesAddUp`, by least counterexample; `CopiesAgree`,
  `SameTilesSameBag`), and needs that the id of a readable face determines the face
  (`FaceOfId`).

`ChiihouStartupProofs`, for any bots, relays, places, starts and notes
(`StartupAssumption`):

* `StartupTypeCorrect`: the type invariant;
* `HearingCorrect`: who entered by its own command has every later note to it that went
  over one of its relays.  Inductive with the remark that who has not entered has no
  note behind it (`NotEnteredYet`);
* `RaceCorrect`: who is turned away had read an old status or was overtaken.  The
  invariant adds that a bot with a current status asks for what the table offers now
  (`AsksForWhatThereIs`), which the server accepts (`OfferIsAccepted`).

`ChiihouProofs`, for any players, tiles, notifications and numbers of events, from
`TableAssumption`, `OptionAssumption`, `NoteAssumption` (what a table notification
carries) and `TaskAssumption` (`None` is no task):

* `RepliesCorrect`, `NextsCorrect`, `RiversCorrect`: what the loop promises under relays
  that keep the order, for however many repetitions.  They have the hypothesis `Ordered`,
  as the run has it, because without it they are false: a start that comes after the
  discards of its round empties the river (see Findings).  The invariant (`LoopInv`,
  theorem `LoopCorrect`) says that what arrived is the first part of what was published
  and what was handled is the part of it that is for us (`ArrivedInOrder`), that tasks are
  issued in the order of the events they come from (`IssuedInOrder`), and that
  `next_sent_for_current_kyoku` is up exactly if an end arrived after the last start
  (`FlagFollowsTheRound`), from which each round has one `next` (`OneNextEach`).  The
  rivers add that a game starts once, before anything else of it (`GameStartsFirst`), so
  that the seat of a discard is still the seat under which it was filed;
* `CallsCorrect`, `CountsCorrect`: of the table alone, in any order of notifications.
  That no discard is called twice is inductive only with the open claim counted among
  the calls (`CallsAreCovered`); that newly visible tiles and calls add up to the melds
  (`TilesAreCounted`) needs that a call takes its tile from the claim, and one copy of it
  only (`NewlyVisibleAre`).  Both count places in rivers and melds; the lemmas say what a
  new discard, a new meld and an extended pon add.  Every step of the table has one of
  five effects on what is counted (`TableEffects`).

`NodocchiProofs`, its first part, for every set of positions that satisfy `IsPosition`
(`PositionAssumption`), any tiles, evaluations and number of kans:

* `EarlyFoldCorrect`: an early fold is the verdict of every discard of the cohort.
  Two or more shanten leave one exception, a safe discard at two shanten against
  open hands, and the early fold rules it out for the whole cohort (`EarlyVerdict`);
* `DiagnosisCorrect`: the diagnosis reports what was played.  The invariant
  (`OutcomeInv`) says that every pass ends with `Outcome`, the decision without the
  shortcut; an early play is that outcome because a fold asks for the kan of a hand
  in riichi, which does not read the discard, then the defence, and comes back with
  nothing if both are silent (`EarlyPlayIsFinal`);
* `FoldCorrect`, `KanCorrect`: from an invariant that says which mode and option a
  decision came from (`ModeInv`).  `KanTakesNoRisk` is proved and not among the runs;
* `GrowingThreatCorrect`: each excuse to push needs a threat that is small enough and
  none of them opens when the threat grows (`ThreatGrows`, `NoNewExcuse`).

These are about `NodocchiDecision` with any call and any answers of the defences in the
position.  For the calls of `CallDecision` and the defences of `FoldDefence` see below.

`NodocchiProofs`, its second part, for every set of tables and any number of calls at each, from
`TableAssumption`, `MarkerAssumption`, `VerdictAssumption`, and those of the agent:

* `ShortcutsCorrect`, `PassOnceCorrect`: the invariant (`CallInv`) has a part for every
  phase.  A call whose result is shared names an earlier one that leaves the same state
  (`SourcesOK`); what a candidate stands at is a function of the call and the table
  (`Base`, `AfterPolicies`, `OnItsOwn`), which is why the thread beside it does not
  matter; passing has been evaluated once for each comparison asked for up to now, by
  whoever came first.  At the end a twin stands where its source does
  (`TwinsComeToTheSame`), and that is what it comes to alone;
* `JustifiedCorrect`, `BestCallCorrect`: which gates a call has passed is read off what
  it stands at.  Finitely many calls have a best one by least counterexample
  (`BestExists`), and the order among the calls that pass (`WinnersAreRanked`) is the
  one the selection follows (`Precedence`);
* `CallsDiagnosisCorrect`, `CallsEarlyFoldCorrect`, `PlayedOnCorrect`: the agent around
  the decision.  The invariant (`CalledInv`) says that the position it decides is the one
  that was offered with the choice the table alone determines (`OwnChoice`), so that
  asked again it decides the same; `EarlyVerdict` and `EarlyPlayIsFinal` need no more of
  a position than that its discards are evaluated (`Evaluates`), which a call leaves true;
* `CallsFoldCorrect`, `CallsGrowingThreatCorrect`: the same for a fold after a call and
  for a threat that grows, from `ModeInv` and from what is known of the threats and
  values of a position (`Judged`), which the hand after a call inherits from the table
  and from the call.

`NodocchiProofs`, its third part, for every view of the table (`IsView`), any number of
tiles to discard and any evidence, from `FacingAssumption`:

* `FoldDiscardCorrect`: who folds discards the safest tile.  A fold asks the defence
  whose targets are all attackers (`RoutesToAll`), and nothing but a fold plays a
  defence's discard (`DefenceFolds`).  The defence is then judged stage by stage
  (`DefenceIsSafest`): a stage is reached only if no tile is as safe as the earlier ones
  ask.  In each stage the tile taken is the best of finitely many, which
  `GreatestExists` proves by least counterexample.  For the comparison of risks the
  order of ratios is a matter of multiplying out (`RatioOrder`), and if one tile's risks
  come no later than another's, with the worst first, its worst risk is no greater
  (`RiskIsLeast`); for the heuristics a tile that is better for every target is better
  for the targets together (`HonorIsBest`, `BetterSuited`).  That no position without a
  view gets one (`ViewInv`) connects this with the steps of the agent.

`DiscardSelectionProofs`, for every list of candidates, any number of threads and
whatever is unknown, from `InputsAssumption`:

* `ChoiceCorrect`: the selected discard is the intended one, under the hypothesis
  `Uniform` that the property has in the run too, and without which it is false (see
  Findings).  The invariant (`Selecting`, theorem `SelectionWorks`) says that every place
  taken off the queue is held by a thread or has its own candidate's result (`Worked`),
  and what each pass knows (`Passes`): when the comparison starts, the metrics are
  `Ready`, a function of the candidates without threads or stages.  Four lemmas then
  compare the four ways to end with `Intended` (`DecideIsIntended`,
  `TwoShantenIsIntended`, `FullIsIntended`, `FallbackIsIntended`).  They rest on three
  facts.  A scan keeps the earliest of those that nothing is ahead of, if they are ahead
  of all others and ordered among themselves (`ScanKeepsTheFirst`); the best tier is
  (`BestTierIs`, by a rank).  Within the tier the comparator is the lexicographic
  verdict of thirteen merits (`ViewsCompareMerits`), because an axis kept only if the
  whole cohort has a value compares like a merit that counts only if the whole tier has
  it (`KeptIsMerit`).  And the metrics hold every value that counts
  (`ReadyIsMeasured`).  The second of the two best is found among the others alone, so
  the same lemmas are used for a part of the list (`SecondIs`), for the pair with its
  full values, and with the long horizon as a fourteenth merit.

`HandSettlementProofs`, for all readings, counters and widths (`ReadingAssumption`,
`WidthAssumption`, `NoneAssumption`):

* `BestValue`: a reported value is the best.  The invariant says that the readings met
  so far are judged (`NormalsJudged`, `YakumansJudged`), that an error names its reason
  (`ErrorsAreNamed`) and that an outcome is what they come to (`OutcomeOK`).  That
  payments grow with the basic points, and these with han, and that a yakuman is worth
  as much as any counted hand (`YakumanDominates`), are lemmas on integers;
* `SettlementIsBalanced`: what was settled had passed the checks (`SettledWasChecked`),
  and the unchecked additions are bounded by the checked one;
* `SelectionIsSound`: the inductive invariant itself.

`FuritenProofs`, for every set of tiles:

* `VerdictIsTrue`: a verdict that is not "unknown" is the truth after the discard;
* `VerdictIsExact`: the answer is "yes" exactly when we may win at every table that fits
  what is known (`Worlds`, `Possible`), and "no" exactly when we may win at none, so that
  unknown facts are neither guessed nor wasted.

Every invariant a passing run checks has a theorem.  Only model-checked is liveness, which is
beyond the prover, as are `ENABLED` and induction over data.

## Not modelled, and why

* Text: serde and the notification parsers, configuration, logs.  A message that
  parses and one that does not are different messages in the models.
* The evaluation of hands (shanten, acceptance, yaku, expected values, the
  counting of hidden hands): large pure functions on a hand of 14 tiles out of 34 types.  Their state
  spaces are out of TLC's reach, and what they compute recursively is out of the
  prover's.  The models take their results as facts of a position, a call, a candidate
  or a reading, and say which of them is read, when, and by which thread.
* Time: deadlines are races between the server's default and our reply, the response
  delay is a state.  No clock.
* Parallel evaluation inside `bot-logic` (rayon) is deterministic by construction
  (ordered collection) and has no shared state; the threads of `bot-core` are modelled.
* `bot-scenario` and `bot-analysis` print; the replay of a capture is modelled.
* Dealer, seat winds and remaining tiles of the chiihou table: read by the agents
  only.

## Plan

1. (done) tracker, legal round, riichilab loop, conversion, chiihou table and loop.
2. (done) Furiten, settlement, decision of the main agent, calls, defences, discard
   selection, capture and replay, chiihou startup.
3. The riichi decision with its deferral, kuikae and nine terminals; the legal actions
   of the chiihou client from partial knowledge.
4. (done) Proofs of every safety property the runs check.

--------------------------- MODULE DiscardSelection ---------------------------
(***************************************************************************)
(* How the agent chooses a normal discard: bot-core/discard_selection.rs   *)
(* around the comparator of bot-logic/selection.rs and discard.rs.  Every  *)
(* legal discard is a candidate with facts of its own.  Worker threads     *)
(* compute the deep values of the candidates that tie so far; an axis      *)
(* whose value is unknown for one candidate of such a cohort is dropped    *)
(* for the whole cohort; the first candidate nothing beats is taken, and   *)
(* two refinements may change it: the full values of the two best          *)
(* candidates at two shanten, and the long horizon that splits a complete  *)
(* tie at one shanten.                                                     *)
(*                                                                         *)
(* A candidate is a record of the numbers the axes compare.  None is an    *)
(* Option that holds no value; a field of a deep value says what its       *)
(* evaluator will return once it runs.                                     *)
(***************************************************************************)
EXTENDS Integers, FiniteSets, SequencesExt

CONSTANTS Inputs,    \* sequences of candidates, in the order they are evaluated
          Workers    \* the threads that evaluate candidates

None == -1
Option == Nat \cup {None}

Candidate ==
    [shanten : Nat, standard : Int, isolated : BOOLEAN, honor : BOOLEAN, red : BOOLEAN,
     complete : BOOLEAN, chiitoi : Option, remaining : Nat, types : Nat, penalty : Int,
     floating : Int, dora : Nat, valueHonor : Nat, expected : Option, prospective : Option,
     wait : Option, waitTypes : Option, next : Option, nextTypes : Option,
     twoShanten : Option, full : Option, threeShanten : Option, untilRyukyoku : Option,
     furiten : {"yes", "no", "unknown"}, offense : Option, selfTsumo : Option,
     continuation : Option, baseReach : BOOLEAN]

\* Looking ahead always finds the wait that a one-shanten hand will have, and the next
\* acceptance of a hand that is further away.
ASSUME InputsAssumption ==
    \A es \in Inputs :
        /\ es \in Seq(Candidate) /\ Len(es) > 0
        /\ \A i \in DOMAIN es :
              /\ es[i].shanten = 1 => None \notin {es[i].wait, es[i].waitTypes}
              /\ es[i].shanten >= 2 => None \notin {es[i].next, es[i].nextTypes}

VARIABLES evaluations,  \* the candidates: the facts and what the evaluators would return
          pass,         \* "forward" | "compare" | "full" | "fallback" | "done"
          queue,        \* the candidates this pass evaluates, by index
          next,         \* the shared counter: the next position of queue to take
          held,         \* the candidate each worker is evaluating, 0 for none
          results,      \* <<index, evaluation>> pairs the workers have pushed
          metrics,      \* the candidates with the values computed so far
          chosen        \* the index of the selected candidate, 0 before the end

vars == <<evaluations, pass, queue, next, held, results, metrics, chosen>>

-----------------------------------------------------------------------------
(* The comparator.  A verdict is 1 when the candidate is better, -1 when the *)
(* current best is, 0 when the axis does not decide.                         *)

a ?? b == IF a # 0 THEN a ELSE b

More(x, y)  == IF x > y THEN 1 ELSE IF x < y THEN -1 ELSE 0
Fewer(x, y) == More(y, x)
MoreIfKnown(x, y) == IF None \in {x, y} THEN 0 ELSE More(x, y)
Flag(b) == IF b THEN 1 ELSE 0

At(shanten, c, b, verdict) ==
    IF c.shanten = shanten /\ b.shanten = shanten THEN verdict ELSE 0

Eligible(c) == c.isolated /\ c.dora = 0 /\ ~c.red

IsolatedTile(c, b) ==
    IF c.shanten < 2 THEN 0 ELSE More(Flag(Eligible(c)), Flag(Eligible(b)))

IsolatedHonor(c, b) ==
    IF c.shanten < 2 \/ ~Eligible(c) \/ ~Eligible(b) THEN 0
    ELSE More(Flag(c.honor), Flag(b.honor))

BeforeAcceptance(c, b) ==
    Fewer(c.shanten, b.shanten) ?? IsolatedTile(c, b) ?? IsolatedHonor(c, b)

\* c.chiitoi is the rank of the one tile that completes seven pairs, 0 for an
\* honor to 5 for a five; None when the discard leaves no such wait.
ChiitoitsuWait(c, b) ==
    IF None \in {c.chiitoi, b.chiitoi} THEN 0 ELSE Fewer(c.chiitoi, b.chiitoi)

IishantenShape(c, b) ==
    IF c.standard = 1 /\ b.standard = 1
    THEN At(1, c, b, More(Flag(c.complete), Flag(b.complete))) ELSE 0

FromAcceptance(c, b) ==
    More(c.remaining, b.remaining) ?? More(c.types, b.types)
        ?? ChiitoitsuWait(c, b) ?? IishantenShape(c, b)
        ?? Fewer(c.penalty, b.penalty) ?? Fewer(c.floating, b.floating)
        ?? Fewer(c.dora, b.dora) ?? Fewer(c.valueHonor, b.valueHonor)
        ?? Fewer(Flag(c.red), Flag(b.red))

\* compare_weighted_next_acceptance applies from two shanten on.
NextAcceptance(c, b) ==
    IF c.shanten < 2 \/ b.shanten # c.shanten \/ None \in {c.next, b.next} THEN 0
    ELSE More(c.next, b.next) ?? More(c.nextTypes, b.nextTypes)

TenpaiWait(c, b) ==
    IF None \in {c.wait, b.wait} THEN 0
    ELSE At(1, c, b, More(c.wait, b.wait) ?? More(c.waitTypes, b.waitTypes))

BeforeStableOrder(c, b) ==
    BeforeAcceptance(c, b)
        ?? At(1, c, b, MoreIfKnown(c.expected, b.expected))
        ?? At(2, c, b, MoreIfKnown(c.twoShanten, b.twoShanten))
        ?? At(3, c, b, MoreIfKnown(c.threeShanten, b.threeShanten))
        ?? MoreIfKnown(c.prospective, b.prospective)
        ?? TenpaiWait(c, b)
        ?? NextAcceptance(c, b)
        ?? At(0, c, b, MoreIfKnown(c.continuation, b.continuation))
        ?? At(0, c, b, MoreIfKnown(c.selfTsumo, b.selfTsumo))
        ?? At(0, c, b, MoreIfKnown(c.offense, b.offense))
        ?? FromAcceptance(c, b)

Compare(c, b) ==
    BeforeStableOrder(c, b) ?? At(1, c, b, MoreIfKnown(c.untilRyukyoku, b.untilRyukyoku))

\* The index a left-to-right scan keeps: a later candidate must be better.
Scan(S, better) ==
    LET best[i \in 0..Max(S)] ==
            IF i = 0 THEN 0
            ELSE IF i \in S /\ (best[i - 1] = 0 \/ <<i, best[i - 1]>> \in better)
                 THEN i ELSE best[i - 1]
    IN  best[Max(S)]

Pairs(views) == (DOMAIN views) \X (DOMAIN views)

Best(views) ==
    Scan(DOMAIN views, {p \in Pairs(views) : Compare(views[p[1]], views[p[2]]) = 1})

-----------------------------------------------------------------------------
(* Which values are computed, and which axes a cohort keeps.                 *)

BestShanten(es) == Min({es[i].shanten : i \in DOMAIN es})

\* The candidates that tie with the best one before acceptance.
ForwardTargets(es) ==
    LET ahead == {p \in Pairs(es) : BeforeAcceptance(es[p[1]], es[p[2]]) = 1}
        best  == Scan(DOMAIN es, ahead)
    IN  IF es[best].shanten < 1 THEN {}
        ELSE {i \in DOMAIN es : BeforeAcceptance(es[i], es[best]) = 0}

Competing(es) == Cardinality(ForwardTargets(es)) > 1

Sorted(S) == CHOOSE s \in [1..Cardinality(S) -> S] : \A k, l \in DOMAIN s : k < l => s[k] < s[l]

Cohort(es, i) == {j \in DOMAIN es : BeforeAcceptance(es[i], es[j]) = 0}

KnownInCohort(es, i, axis) == \A j \in Cohort(es, i) : es[j][axis] # None

\* A bug: an unknown value is skipped by the comparison that meets it, and the
\* axis stays for the other candidates of the cohort.
Mutant_Keep(es, i, axis) == es[i][axis]

Keep(es, i, axis) == IF KnownInCohort(es, i, axis) THEN es[i][axis] ELSE None

\* One value axis per tenpai cohort, by what is known of its permanent furiten.
TenpaiAxis(es, i) ==
    LET furiten == {es[j].furiten : j \in Cohort(es, i)}
    IN  IF furiten = {"no"} /\ KnownInCohort(es, i, "offense") THEN "offense"
        ELSE IF furiten = {"yes"} /\ KnownInCohort(es, i, "continuation") THEN "continuation"
        ELSE IF furiten \in {{"yes"}, {"yes", "no"}} /\ KnownInCohort(es, i, "selfTsumo")
             THEN "selfTsumo"
        ELSE "none"

KeepTenpai(es, i, axis) == IF TenpaiAxis(es, i) = axis THEN es[i][axis] ELSE None

Resolve(es) ==
    [i \in DOMAIN es |->
        [es[i] EXCEPT !.expected = Keep(es, i, "expected"),
                      !.prospective = Keep(es, i, "prospective"),
                      !.twoShanten = Keep(es, i, "twoShanten"),
                      !.threeShanten = Keep(es, i, "threeShanten"),
                      !.offense = KeepTenpai(es, i, "offense"),
                      !.selfTsumo = KeepTenpai(es, i, "selfTsumo"),
                      !.continuation = KeepTenpai(es, i, "continuation")]]

ForwardFields == {"expected", "prospective", "wait", "waitTypes", "next", "nextTypes"}
TenpaiFields  == {"furiten", "offense", "selfTsumo", "continuation"}
OtherFields   == {"twoShanten", "threeShanten", "untilRyukyoku"}

\* A candidate before any deep value is computed.
Blank(e) == [f \in DOMAIN e |->
                IF f = "furiten" THEN "unknown"
                ELSE IF f \in ForwardFields \cup TenpaiFields \cup OtherFields THEN None
                ELSE e[f]]

Copy(m, e, fields) == [f \in DOMAIN m |-> IF f \in fields THEN e[f] ELSE m[f]]

TenpaiCandidates(es) == {i \in DOMAIN es : es[i].shanten = 0}

\* Wait, offence and self-draw values of the tenpai candidates, when they compete.
BaseTenpai(ms, es) ==
    [i \in DOMAIN ms |->
        IF Cardinality(TenpaiCandidates(es)) > 1 /\ es[i].shanten = 0
        THEN Copy(ms[i], es[i], {"furiten", "offense", "selfTsumo"}) ELSE ms[i]]

\* The continuation value is computed only for a cohort that is permanently
\* furiten throughout and whose every candidate the base policy would reach.
WithContinuation(ms, es) ==
    [i \in DOMAIN ms |->
        IF \A j \in Cohort(ms, i) : ms[j].furiten = "yes" /\ es[j].baseReach
        THEN Copy(ms[i], es[i], {"continuation"}) ELSE ms[i]]

CompetingAt(ms, shanten) ==
    /\ BestShanten(ms) = shanten
    /\ Cardinality({i \in DOMAIN ms : ms[i].next # None}) > 1

\* Progress-only values, for the forward targets of two shanten or of three; the
\* two-shanten axis is resolved at once.
Progress(ms, es) ==
    LET two   == CompetingAt(ms, 2)
        three == CompetingAt(ms, 3)
    IN  [i \in DOMAIN ms |->
            IF two /\ ms[i].next # None
            THEN [ms[i] EXCEPT !.twoShanten = Keep(es, i, "twoShanten")]
            ELSE IF three /\ ms[i].next # None THEN Copy(ms[i], es[i], {"threeShanten"})
            ELSE ms[i]]

\* The two best candidates; the second is found among the others alone, whose
\* axes are resolved without the first.
TopTwo(ms) ==
    LET first == Best(Resolve(ms))
    IN  <<first, Best(Resolve([i \in DOMAIN ms \ {first} |-> ms[i]]))>>

FullGate(ms, pair) ==
    /\ None \notin {ms[pair[1]].twoShanten, ms[pair[2]].twoShanten}
    /\ ms[pair[1]].twoShanten # ms[pair[2]].twoShanten
    /\ ms[pair[1]].dora # ms[pair[2]].dora

\* The one-shanten candidates that tie completely with the winner.
FallbackCohort(views) ==
    LET winner == Best(views)
        tie    == {i \in DOMAIN views : BeforeStableOrder(views[winner], views[i]) = 0}
    IN  IF views[winner].shanten # 1 \/ Cardinality(tie) < 2 THEN {} ELSE tie

\* The values count only when every candidate of the tie has one.
Fill(views, cohort, values) ==
    [i \in DOMAIN views |->
        IF i \in cohort /\ \A j \in cohort : values[j].untilRyukyoku # None
        THEN [views[i] EXCEPT !.untilRyukyoku = values[i].untilRyukyoku]
        ELSE views[i]]

-----------------------------------------------------------------------------
Idle == [w \in Workers |-> 0]

Init ==
    /\ evaluations \in Inputs
    /\ pass = "forward"
    /\ queue = IF Competing(evaluations) THEN Sorted(ForwardTargets(evaluations)) ELSE <<>>
    /\ next = 1
    /\ held = Idle
    /\ results = {}
    /\ metrics = [i \in DOMAIN evaluations |-> Blank(evaluations[i])]
    /\ chosen = 0

\* Only the one-shanten values and the full pair are spread over the workers.
Threads ==
    IF pass = "forward" /\ BestShanten(evaluations) # 1
    THEN {CHOOSE w \in Workers : TRUE} ELSE Workers

Take(w) ==
    /\ w \in Threads /\ held[w] = 0
    /\ next <= Len(queue)
    /\ held' = [held EXCEPT ![w] = queue[next]]
    /\ next' = next + 1
    /\ UNCHANGED <<evaluations, pass, queue, results, metrics, chosen>>

Push(w) ==
    /\ held[w] # 0
    /\ results' = results \cup {<<held[w], evaluations[held[w]]>>}
    /\ held' = [held EXCEPT ![w] = 0]
    /\ UNCHANGED <<evaluations, pass, queue, next, metrics, chosen>>

Joined == next > Len(queue) /\ held = Idle

\* Every result goes back to the index of its candidate; the others keep what they had.
Collected(fields) ==
    [i \in DOMAIN metrics |->
        IF \E r \in results : r[1] = i
        THEN Copy(metrics[i], (CHOOSE r \in results : r[1] = i)[2], fields)
        ELSE metrics[i]]

CollectForward ==
    /\ pass = "forward" /\ Joined
    /\ pass' = "compare"
    /\ metrics' = LET forward == Collected(ForwardFields)
                  IN  WithContinuation(BaseTenpai(Progress(forward, evaluations), evaluations),
                                       evaluations)
    /\ results' = {} /\ queue' = <<>> /\ next' = 1
    /\ UNCHANGED <<evaluations, held, chosen>>

Views == Resolve(metrics)

Finish(index) == pass' = "done" /\ chosen' = index

StartPass(name, indices) ==
    /\ pass' = name /\ queue' = indices /\ next' = 1 /\ results' = {}
    /\ UNCHANGED <<evaluations, held, metrics, chosen>>

\* production_two_shanten_selection: the progress values decide, unless the two
\* best differ both in them and in the dora they discard.
DecideTwoShanten ==
    /\ pass = "compare" /\ CompetingAt(metrics, 2)
    /\ ~FullGate(metrics, TopTwo(metrics))
    /\ Finish(TopTwo(metrics)[1])
    /\ UNCHANGED <<evaluations, queue, next, held, results, metrics>>

OpenFullGate ==
    /\ pass = "compare" /\ CompetingAt(metrics, 2)
    /\ FullGate(metrics, TopTwo(metrics))
    /\ StartPass("full", TopTwo(metrics))

\* Where the horizon already runs to the end of the round, no second value is
\* computed, which is the same as no candidate having one.
StartFallback ==
    /\ pass = "compare" /\ ~CompetingAt(metrics, 2)
    /\ FallbackCohort(Views) # {}
    /\ StartPass("fallback", Sorted(FallbackCohort(Views)))

Decide ==
    /\ pass = "compare" /\ ~CompetingAt(metrics, 2)
    /\ FallbackCohort(Views) = {}
    /\ Finish(Best(Views))
    /\ UNCHANGED <<evaluations, queue, next, held, results, metrics>>

\* The pair is compared again, on its own, with the full values.
CollectFull ==
    /\ pass = "full" /\ Joined
    /\ LET value(i) == (CHOOSE r \in results : r[1] = i)[2].full
           pair == [k \in 1..2 |-> [metrics[queue[k]] EXCEPT !.twoShanten = value(queue[k])]]
       IN  Finish(queue[Best(Resolve(pair))])
    /\ UNCHANGED <<evaluations, queue, next, held, results, metrics>>

CollectFallback ==
    /\ pass = "fallback" /\ Joined
    /\ Finish(Best(Fill(Views, FallbackCohort(Views), Collected({"untilRyukyoku"}))))
    /\ UNCHANGED <<evaluations, queue, next, held, results, metrics>>

Next ==
    \/ \E w \in Workers : Take(w) \/ Push(w)
    \/ CollectForward \/ DecideTwoShanten \/ OpenFullGate \/ CollectFull
    \/ StartFallback \/ CollectFallback \/ Decide

Spec == Init /\ [][Next]_vars
-----------------------------------------------------------------------------
(* What the choice is meant to be, from the facts alone: the most merit among *)
(* the candidates that tie before acceptance, an unknown value of one of them *)
(* counting for none of them.                                                 *)

Tier(i) ==
    LET e == evaluations[i]
    IN  <<-e.shanten, Flag(e.shanten >= 2 /\ Eligible(e)),
          Flag(e.shanten >= 2 /\ Eligible(e) /\ e.honor)>>

MoreMerit(s, t) == \E k \in DOMAIN s : s[k] > t[k] /\ \A l \in 1..(k - 1) : s[l] = t[l]

BestTier == {i \in DOMAIN evaluations :
                ~\E j \in DOMAIN evaluations : MoreMerit(Tier(j), Tier(i))}

IfAllKnown(i, S, axis) ==
    IF \A j \in S : evaluations[j][axis] # None THEN evaluations[i][axis] ELSE 0

TenpaiMerit(i, S) ==
    LET furiten   == {evaluations[j].furiten : j \in S}
        continued == \A j \in S : evaluations[j].baseReach /\ evaluations[j].continuation # None
    IN  IF furiten = {"no"} THEN IfAllKnown(i, S, "offense")
        ELSE IF furiten = {"yes"} /\ continued THEN evaluations[i].continuation
        ELSE IF furiten \in {{"yes"}, {"yes", "no"}} THEN IfAllKnown(i, S, "selfTsumo")
        ELSE 0

DeepMerit(i, S, twoShantenAxis) ==
    LET e == evaluations[i]
        v(axis) == IfAllKnown(i, S, axis)
    IN  CASE e.shanten = 0 -> <<TenpaiMerit(i, S), 0, 0, 0>>
          [] e.shanten = 1 -> <<v("expected"), v("prospective"), e.wait, e.waitTypes>>
          [] e.shanten = 2 -> <<v(twoShantenAxis), v("prospective"), e.next, e.nextTypes>>
          [] e.shanten = 3 -> <<v("threeShanten"), v("prospective"), e.next, e.nextTypes>>
          [] OTHER -> <<0, v("prospective"), e.next, e.nextTypes>>

Merit(i, S, twoShantenAxis) ==
    LET e == evaluations[i]
    IN  DeepMerit(i, S, twoShantenAxis)
        \o <<e.remaining, e.types, -e.chiitoi, Flag(e.shanten = 1 /\ e.standard = 1 /\ e.complete),
             -e.penalty, -e.floating, -e.dora, -e.valueHonor, -Flag(e.red)>>

\* The earliest candidate of S that no other of S beats.
Favourite(S, twoShantenAxis) ==
    Min({i \in S : ~\E j \in S : MoreMerit(Merit(j, S, twoShantenAxis),
                                           Merit(i, S, twoShantenAxis))})

Equals(i, S) == {j \in S : Merit(j, S, "twoShanten") = Merit(i, S, "twoShanten")}

Longest(S) == Min({i \in S : \A j \in S : evaluations[j].untilRyukyoku <= evaluations[i].untilRyukyoku})

Intended ==
    LET first  == Favourite(BestTier, "twoShanten")
        others == BestTier \ {first}
        second == Favourite(others, "twoShanten")
        known  == \A i \in BestTier : evaluations[i].twoShanten # None
        tie    == Equals(first, BestTier)
    IN  IF others = {} THEN first
        ELSE IF evaluations[first].shanten = 2
             THEN IF /\ known
                     /\ evaluations[first].twoShanten # evaluations[second].twoShanten
                     /\ evaluations[first].dora # evaluations[second].dora
                  THEN LET both == {first, second}
                       IN  IF Merit(first, both, "full") = Merit(second, both, "full") THEN first
                           ELSE Favourite(both, "full")
                  ELSE first
        ELSE IF evaluations[first].shanten = 1
                /\ \A i \in tie : evaluations[i].untilRyukyoku # None
             THEN Longest(tie)
        ELSE first

\* The two axes that compare only when both candidates have the feature apply to
\* all the candidates that compete or to none.
Uniform ==
    /\ \A i, j \in BestTier : (evaluations[i].chiitoi = None) = (evaluations[j].chiitoi = None)
    /\ \A i, j \in BestTier : (evaluations[i].standard = 1) = (evaluations[j].standard = 1)

\* Whatever the order in which candidates are listed and threads finish, and
\* whichever values are unknown, the selected discard is the intended one
\* (run_production_selection and the comparator of selection.rs).
ChoiceIsIntended == pass = "done" /\ Uniform => chosen = Intended

\* selection.rs:459: an axis that comes and goes from one comparison to the next
\* would make the order cyclic and the choice depend on the order in which the
\* candidates are listed; so the candidate chosen is beaten by no other.
ChoiceIsUnbeaten ==
    pass = "done" => \A i \in DOMAIN evaluations : Compare(Views[i], Views[chosen]) # 1
=============================================================================

-------------------------- MODULE MCDiscardSelection --------------------------
(* Small cohorts of candidates for DiscardSelection, and the three discards of *)
(* one hand whose comparison is cyclic.                                        *)
EXTENDS DiscardSelection

CONSTANTS W1, W2
MCWorkers == {W1, W2}

Plain == [shanten |-> 1, isolated |-> FALSE, honor |-> FALSE, standard |-> 1,
          chiitoi |-> None, remaining |-> 4, types |-> 1, complete |-> FALSE,
          penalty |-> 0, floating |-> 0, dora |-> 0, valueHonor |-> 0, red |-> FALSE,
          expected |-> None, prospective |-> None, wait |-> 1, waitTypes |-> 1,
          next |-> None, nextTypes |-> None, twoShanten |-> None, full |-> None,
          threeShanten |-> None, furiten |-> "unknown", offense |-> None,
          selfTsumo |-> None, continuation |-> None, baseReach |-> FALSE,
          untilRyukyoku |-> None]

Values == {None, 1, 2}

\* One shanten: the expected value, the shape and the long horizon; and apart from
\* them the prospective value and the wait.
OneShanten ==
    {[Plain EXCEPT !.expected = v[1], !.complete = v[2], !.untilRyukyoku = v[3]] :
        v \in {None, 1} \X BOOLEAN \X Values}

Waits == {[Plain EXCEPT !.prospective = v[1], !.wait = v[2], !.red = v[3]] :
            v \in {None, 1} \X {1, 2} \X BOOLEAN}

\* Two and three shanten: progress, full and next acceptance, the dora thrown
\* away, and an isolated tile among them.
Deep(shanten) == [Plain EXCEPT !.shanten = shanten, !.standard = shanten, !.next = 1,
                               !.nextTypes = 1, !.wait = None, !.waitTypes = None]

TwoShanten == {[Deep(2) EXCEPT !.twoShanten = v[1], !.full = v[2], !.dora = v[3]] :
                v \in Values \X {None, 1, 2} \X {0, 1}}

TwoProspective == {[Deep(2) EXCEPT !.twoShanten = v[1], !.full = 1, !.dora = v[2],
                                   !.prospective = v[3]] :
                     v \in {1, 2} \X {0, 1} \X Values}

Isolated == {[Deep(2) EXCEPT !.isolated = TRUE, !.honor = h, !.twoShanten = 1, !.red = r] :
                h \in BOOLEAN, r \in BOOLEAN}

ThreeShanten == {[Deep(3) EXCEPT !.threeShanten = v, !.next = n, !.red = r] :
                    v \in Values, n \in 1..2, r \in BOOLEAN}

\* Tenpai: what is known of furiten and of the values it selects.
TenpaiPlain == [Plain EXCEPT !.shanten = 0, !.standard = 0, !.wait = None, !.waitTypes = None]

Tenpai ==
    {[TenpaiPlain EXCEPT !.furiten = "yes", !.selfTsumo = v[1], !.continuation = v[2],
                         !.baseReach = v[3]] : v \in {1, 2} \X {None, 1} \X BOOLEAN}
    \cup {[TenpaiPlain EXCEPT !.furiten = "no", !.offense = o, !.selfTsumo = 1] : o \in Values}
    \cup {TenpaiPlain}

Chiitoitsu == {[TenpaiPlain EXCEPT !.standard = 1,
                             !.chiitoi = r, !.penalty = p, !.remaining = n] :
                  r \in {0, 5}, p \in {0, 8}, n \in {2, 3}}

Mixed == {Plain, [Plain EXCEPT !.expected = 2], Deep(2),
          CHOOSE e \in Isolated : TRUE, CHOOSE e \in Tenpai : e.offense = 1}

Families == {OneShanten, Waits, TwoShanten, TwoProspective, Isolated \cup {Deep(2)}, ThreeShanten, Tenpai, Chiitoitsu,
             Mixed}

Triples(S) == S \X S \X S

MCInputs == UNION {Triples(S) : S \in Families}

\* 2m2m3m3m4m4m 5p 6p6p7p7p8p8p 1s with two 2m, one 3m, two 4m, one 6p and two
\* 8p seen: 5p and 1s leave seven pairs one tile short, 8p does not; each leaves
\* one wait of three tiles, and no value is known.
NoFacts == [TenpaiPlain EXCEPT !.remaining = 3]
Throw5p == [NoFacts EXCEPT !.chiitoi = 1, !.penalty = 92]
Throw1s == [NoFacts EXCEPT !.chiitoi = 5, !.floating = 1]
Throw8p == [NoFacts EXCEPT !.penalty = 64]

CyclicInputs == {<<Throw5p, Throw8p, Throw1s>>}
=============================================================================

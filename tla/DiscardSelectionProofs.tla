------------------------ MODULE DiscardSelectionProofs ------------------------
(***************************************************************************)
(* The discard selection picks the intended discard, for any candidates,   *)
(* any number of threads and whatever is unknown.                          *)
(*                                                                         *)
(* A left-to-right scan keeps the earliest unbeaten place of any group     *)
(* that beats all others and is ordered within.  That group is the best    *)
(* tier, and within it the chain of axes is the lexicographic verdict of   *)
(* the thirteen merits, once the axes are those that the whole tier knows. *)
(* What the staged passes have computed when the comparison starts is a    *)
(* function of the candidates, Ready; the invariant Selecting says that    *)
(* the threads compute just that, and each of the four ways to end is      *)
(* compared with the intended choice.                                      *)
(***************************************************************************)
EXTENDS DiscardSelection, FiniteSetTheorems, SequenceTheorems, WellFoundedInduction, TLAPS

-----------------------------------------------------------------------------
(* Numbers: the least, the greatest, and counting up. *)

\* A set of numbers that is not empty has a least number, and Min is it.
LEMMA MinIs ==
    ASSUME NEW S \in SUBSET Nat, S # {}
    PROVE  Min(S) \in S /\ \A i \in S : Min(S) <= i
<1>1. \E i \in S : \A j \in S : i <= j
  <2>1. IsWellFoundedOn(OpToRel(<, Nat), Nat)
    BY NatLessThanWellFounded
  <2>2. PICK i \in S : \A j \in S : ~(<<j, i>> \in OpToRel(<, Nat))
    BY <2>1, WFMin
  <2>3. \A j \in S : ~(j < i)
    BY <2>2 DEF OpToRel
  <2> QED
    BY <2>3
<1> QED
  BY <1>1 DEF Min

\* A set that holds 0 and the successor of each of its numbers holds every number.
LEMMA CountingUp ==
    ASSUME NEW G, 0 \in G, \A n \in Nat : n \in G => n + 1 \in G
    PROVE  Nat \subseteq G
<1> DEFINE missing == Nat \ G
<1> SUFFICES ASSUME missing # {} PROVE FALSE
  OBVIOUS
<1>1. Min(missing) \in missing /\ \A i \in missing : Min(missing) <= i
  <2>1. missing \in SUBSET Nat
    OBVIOUS
  <2> HIDE DEF missing
  <2> QED
    BY <2>1, MinIs
<1>2. PICK n \in missing : \A i \in missing : n <= i
  BY <1>1
<1>3. n # 0 /\ n - 1 \in Nat /\ n - 1 \notin missing
  BY <1>2
<1> QED
  BY <1>2, <1>3

\* A bounded set of numbers that is not empty has a greatest number, and Max is it.
LEMMA MaxIs ==
    ASSUME NEW n \in Nat, NEW S \in SUBSET (0 .. n), S # {}
    PROVE  Max(S) \in S /\ \A i \in S : Max(S) >= i
<1> DEFINE above == {k \in Nat : \A i \in S : i <= k}
<1>1. n \in above /\ above \in SUBSET Nat
  OBVIOUS
<1>2. PICK k \in above : \A l \in above : k <= l
  <2> HIDE DEF above
  <2> QED
    BY <1>1, MinIs
<1>3. k \in S
  <2> SUFFICES ASSUME k \notin S PROVE FALSE
    OBVIOUS
  <2>1. k # 0
    <3>1. \A i \in S : i \in Nat /\ i <= k
      OBVIOUS
    <3>2. PICK i \in S : TRUE
      OBVIOUS
    <3> QED
      BY <3>1, <3>2
  <2>2. k - 1 \in above
    BY <2>1
  <2> QED
    BY <1>2, <2>2
<1> QED
  BY <1>3 DEF Max

-----------------------------------------------------------------------------
(* The scan. *)

\* What a scan keeps at place i, from what it kept at the place before.
Kept(g, i, S, better) ==
    IF i = 0 THEN 0
    ELSE IF i \in S /\ (g[i - 1] = 0 \/ <<i, g[i - 1]>> \in better) THEN i ELSE g[i - 1]

\* The table of what a scan keeps.
IsScan(g, n, S, better) == g = [i \in 0 .. n |-> Kept(g, i, S, better)]

\* The table a scan fills, one place after the other, exists for every length.
LEMMA ScanExists ==
    ASSUME NEW S, NEW better, NEW n \in Nat
    PROVE  \E g : IsScan(g, n, S, better)
<1> DEFINE G == {m \in Nat : \E g : IsScan(g, m, S, better)}
<1>1. 0 \in G
  <2> DEFINE g == [i \in 0 .. 0 |-> 0]
  <2>1. IsScan(g, 0, S, better)
    BY DEF IsScan, Kept
  <2> QED
    BY <2>1
<1>2. ASSUME NEW m \in Nat, m \in G PROVE m + 1 \in G
  <2>1. PICK g : IsScan(g, m, S, better)
    BY <1>2
  <2> DEFINE last == IF m + 1 \in S /\ (g[m] = 0 \/ <<m + 1, g[m]>> \in better) THEN m + 1 ELSE g[m]
             h    == [i \in 0 .. m + 1 |-> IF i = m + 1 THEN last ELSE g[i]]
  <2>2. \A i \in 0 .. m : g[i] = Kept(g, i, S, better)
    BY <2>1 DEF IsScan
  <2>3. \A i \in 0 .. m + 1 : h[i] = Kept(h, i, S, better)
    <3>1. TAKE i \in 0 .. m + 1
    <3>2. CASE i = m + 1
      <4>1. i # 0 /\ i - 1 = m /\ h[m] = g[m] /\ h[i] = last
        BY <3>2
      <4> QED
        BY <3>2, <4>1 DEF Kept
    <3>3. CASE i = 0
      <4>1. h[i] = g[0] /\ g[0] = Kept(g, 0, S, better)
        BY <2>2, <3>3
      <4> QED
        BY <3>3, <4>1 DEF Kept
    <3>4. CASE i \in 1 .. m
      <4>1. h[i] = g[i] /\ h[i - 1] = g[i - 1] /\ i # 0
        BY <3>4
      <4> QED
        BY <2>2, <3>4, <4>1 DEF Kept
    <3> QED
      BY <3>2, <3>3, <3>4
  <2>4. h = [i \in 0 .. m + 1 |-> h[i]]
    OBVIOUS
  <2>5. IsScan(h, m + 1, S, better)
    <3> HIDE DEF h
    <3> QED
      BY <2>3, <2>4 DEF IsScan
  <2> QED
    BY <2>5
<1>3. n \in G
  <2> HIDE DEF G
  <2> QED
    BY <1>1, <1>2, CountingUp
<1> QED
  BY <1>3

\* Scan is the last entry of such a table.
LEMMA ScanIs ==
    ASSUME NEW S, NEW better, Max(S) \in Nat
    PROVE  \E g : IsScan(g, Max(S), S, better) /\ Scan(S, better) = g[Max(S)]
<1>1. \E g : IsScan(g, Max(S), S, better)
  BY ScanExists
<1> DEFINE best == CHOOSE g : IsScan(g, Max(S), S, better)
<1>2. IsScan(best, Max(S), S, better)
  BY <1>1
<1>3. Scan(S, better) = best[Max(S)]
  BY DEF Scan, IsScan, Kept
<1> QED
  BY <1>2, <1>3

\* The places of G are ahead of all others of S, and a place of G that is ahead of another is
\* ahead of any third one, or the third is ahead of the other.
Leads(G, S, better) ==
    /\ G \subseteq S
    /\ \A i \in G, j \in S \ G : <<i, j>> \in better /\ <<j, i>> \notin better
    /\ \A i, j \in G : i # j /\ <<i, j>> \in better => <<j, i>> \notin better
    /\ \A i, j, k \in G : i # j /\ <<i, j>> \in better => <<i, k>> \in better \/ <<k, j>> \in better

\* The places of G that no other of G is ahead of.
Unbeaten(G, better) == {i \in G : \A j \in G : j # i => <<j, i>> \notin better}

\* However the other places compare, a left-to-right scan keeps the earliest place of G that no
\* other of G is ahead of.
LEMMA ScanKeepsTheFirst ==
    ASSUME NEW n \in Nat, NEW S, \A i \in S : i \in 1 .. n, NEW better, NEW G, G # {},
           Leads(G, S, better)
    PROVE  /\ Unbeaten(G, better) # {}
           /\ Scan(S, better) = Min(Unbeaten(G, better))
<1>1. Max(S) \in S /\ \A i \in S : i <= Max(S)
  <2>1. S # {}
    BY DEF Leads
  <2>2. S \in SUBSET (0 .. n)
    OBVIOUS
  <2>3. Max(S) \in S /\ \A i \in S : Max(S) >= i
    BY <2>1, <2>2, MaxIs
  <2>4. \A i, j \in S : j >= i => i <= j
    OBVIOUS
  <2> QED
    BY <2>3, <2>4
<1> HIDE DEF Leads
<1>2. PICK g : IsScan(g, Max(S), S, better) /\ Scan(S, better) = g[Max(S)]
  BY <1>1, ScanIs
<1> DEFINE upTo(i) == {j \in G : j <= i}
           ok(i) == /\ g[i] \in 0 .. i
                    /\ g[i] # 0 => g[i] \in S
                    /\ upTo(i) # {} => /\ g[i] \in G
                                       /\ \A j \in upTo(i) : /\ j # g[i] => <<j, g[i]>> \notin better
                                                             /\ j < g[i] => <<g[i], j>> \in better
           H == {i \in Nat : i <= Max(S) => ok(i)}
<1>3. 0 \in H
  <2>1. g[0] = 0
    BY <1>1, <1>2 DEF IsScan, Kept
  <2>2. upTo(0) = {}
    BY DEF Leads
  <2> QED
    BY <2>1, <2>2
<1>4. ASSUME NEW i \in Nat, i \in H PROVE i + 1 \in H
  <2> SUFFICES ASSUME i + 1 <= Max(S) PROVE ok(i + 1)
    OBVIOUS
  <2> DEFINE c == i + 1
             b == g[i]
  <2>1. ok(i)
    BY <1>1, <1>4
  <2>2. g[c] = IF c \in S /\ (b = 0 \/ <<c, b>> \in better) THEN c ELSE b
    BY <1>1, <1>2 DEF IsScan, Kept
  <2>3. upTo(c) = IF c \in G THEN upTo(i) \cup {c} ELSE upTo(i)
    BY DEF Leads
  <2>4. c \in Nat /\ c # 0 /\ c \in 0 .. c /\ (b \in 0 .. i => b \in 0 .. c) /\ c \notin upTo(i)
    OBVIOUS
  <2>5. \A j \in upTo(i) : j \in G /\ j < c
    BY DEF Leads
  <2> SUFFICES ok(c)
    OBVIOUS
  <2> HIDE DEF c, upTo
  <2>6. CASE c \notin G /\ upTo(i) = {}
    BY <2>1, <2>2, <2>3, <2>4, <2>6
  <2>7. CASE c \notin G /\ upTo(i) # {}
    <3>1. b \in G /\ b # 0
      BY <2>1, <2>7 DEF Leads
    <3>2. g[c] = b
      BY <2>2, <2>7, <3>1 DEF Leads
    <3> QED
      BY <2>1, <2>3, <2>4, <2>7, <3>2
  <2>8. CASE c \in G /\ b \notin G
    <3>1. upTo(i) = {} /\ upTo(c) = {c}
      BY <2>1, <2>3, <2>8
    <3>2. g[c] = c /\ c \in S
      BY <2>1, <2>2, <2>8 DEF Leads
    <3> QED
      BY <2>4, <2>8, <3>1, <3>2
  <2>9. CASE c \in G /\ b \in G
    <3>1. upTo(i) # {} /\ b # 0 /\ c \in S
      BY <2>1, <2>9 DEF Leads, upTo
    <3>2. b < c
      BY <2>1 DEF c
    <3>3. CASE <<c, b>> \in better
      <4>1. g[c] = c
        BY <2>2, <3>1, <3>3
      <4>2. b # c
        BY <2>1, <2>4, <3>2
      <4>3. <<b, c>> \notin better
        BY <2>9, <3>3, <4>2 DEF Leads
      <4>4. ASSUME NEW j \in upTo(i)
            PROVE  <<j, c>> \notin better /\ <<c, j>> \in better
        <5>1. j \in G /\ j # c
          BY <2>4, <2>5
        <5>2. CASE j = b
          BY <3>3, <4>3, <5>2
        <5>3. CASE j # b
          <6>1. <<j, b>> \notin better
            BY <2>1, <5>3
          <6> QED
            BY <2>9, <3>3, <4>2, <4>3, <5>1, <6>1 DEF Leads
        <5> QED
          BY <5>2, <5>3
      <4> QED
        BY <2>3, <2>4, <2>9, <3>1, <4>1, <4>4
    <3>4. CASE <<c, b>> \notin better
      <4>1. g[c] = b
        BY <2>2, <3>1, <3>4
      <4>2. ~(c < b)
        BY <2>1, <2>4, <3>2
      <4> QED
        BY <2>1, <2>3, <2>4, <2>9, <3>1, <3>4, <4>1, <4>2
    <3> QED
      BY <3>3, <3>4
  <2> QED
    BY <2>6, <2>7, <2>8, <2>9
<1>5. ok(Max(S))
  <2>1. Max(S) \in H
    <3> HIDE DEF H
    <3> QED
      BY <1>1, <1>3, <1>4, CountingUp
  <2> QED
    BY <2>1
<1>6. upTo(Max(S)) = G
  BY <1>1 DEF Leads
<1> DEFINE b == g[Max(S)]
           U == Unbeaten(G, better)
<1>7. b \in U /\ \A j \in G : j < b => j \notin U
  <2>1. b \in G /\ \A j \in G : j # b => <<j, b>> \notin better
    BY <1>5, <1>6
  <2>2. \A j \in G : j < b => j # b
    <3>1. \A j \in G : j \in Int
      BY DEF Leads
    <3> QED
      BY <2>1, <3>1
  <2>3. \A j \in G : j < b => <<b, j>> \in better
    BY <1>5, <1>6
  <2> HIDE DEF b
  <2> QED
    BY <2>1, <2>2, <2>3 DEF Unbeaten
<1>8. Min(U) = b
  <2>1. U \in SUBSET Nat /\ U # {}
    BY <1>1, <1>7 DEF Unbeaten, Leads
  <2>2. Min(U) \in U /\ \A j \in U : Min(U) <= j
    BY <2>1, MinIs
  <2>3. Min(U) <= b /\ ~(Min(U) < b) /\ Min(U) \in Nat /\ b \in Nat
    BY <1>7, <2>1, <2>2 DEF Unbeaten
  <2> QED
    BY <2>3
<1> QED
  BY <1>2, <1>7, <1>8

\* Whatever the comparison, a scan keeps one of the places it was given.
LEMMA ScanIsOne ==
    ASSUME NEW n \in Nat, NEW S, \A i \in S : i \in 1 .. n, S # {}, NEW better
    PROVE  Scan(S, better) \in S
<1>1. Max(S) \in S /\ \A i \in S : i <= Max(S)
  <2>1. S \in SUBSET (0 .. n)
    OBVIOUS
  <2>2. Max(S) \in S /\ \A i \in S : Max(S) >= i
    BY <2>1, MaxIs
  <2>3. \A i, j \in S : j >= i => i <= j
    OBVIOUS
  <2> QED
    BY <2>2, <2>3
<1>2. PICK g : IsScan(g, Max(S), S, better) /\ Scan(S, better) = g[Max(S)]
  BY <1>1, ScanIs
<1> DEFINE ok(i) == g[i] \in S \cup {0} /\ (i \in S => g[i] \in S)
           H == {i \in Nat : i <= Max(S) => ok(i)}
<1>3. 0 \in H
  <2>1. g[0] = 0
    BY <1>1, <1>2 DEF IsScan, Kept
  <2>2. 0 \notin S
    OBVIOUS
  <2> QED
    BY <2>1, <2>2
<1>4. ASSUME NEW i \in Nat, i \in H PROVE i + 1 \in H
  <2> SUFFICES ASSUME i + 1 <= Max(S) PROVE ok(i + 1)
    OBVIOUS
  <2>1. ok(i)
    BY <1>1, <1>4
  <2>2. g[i + 1] = IF i + 1 \in S /\ (g[i] = 0 \/ <<i + 1, g[i]>> \in better) THEN i + 1 ELSE g[i]
    BY <1>1, <1>2 DEF IsScan, Kept
  <2> QED
    BY <2>1, <2>2
<1>5. Max(S) \in H
  <2> HIDE DEF H
  <2> QED
    BY <1>1, <1>3, <1>4, CountingUp
<1> QED
  BY <1>1, <1>2, <1>5

-----------------------------------------------------------------------------
(* Lexicographic order, and the chain of axes that decides it. *)

\* The verdict of the first n merits.
Verdict(s, t, n) ==
    IF \E k \in 1 .. n : s[k] > t[k] /\ \A l \in 1 .. (k - 1) : s[l] = t[l] THEN 1
    ELSE IF \E k \in 1 .. n : t[k] > s[k] /\ \A l \in 1 .. (k - 1) : s[l] = t[l] THEN -1
    ELSE 0

\* The first n places hold integers.
Numbers(s, n) == \A k \in 1 .. n : s[k] \in Int

\* Two lists are equal, or differ at a first place.
LEMMA FirstDifference ==
    ASSUME NEW n \in Nat, NEW s, NEW t
    PROVE  \/ \A k \in 1 .. n : s[k] = t[k]
           \/ \E k \in 1 .. n : s[k] # t[k] /\ \A l \in 1 .. (k - 1) : s[l] = t[l]
<1> DEFINE apart == {k \in 1 .. n : s[k] # t[k]}
<1> SUFFICES ASSUME apart # {}
             PROVE  \E k \in 1 .. n : s[k] # t[k] /\ \A l \in 1 .. (k - 1) : s[l] = t[l]
  OBVIOUS
<1>1. Min(apart) \in apart /\ \A k \in apart : Min(apart) <= k
  <2>1. apart \in SUBSET Nat
    OBVIOUS
  <2> HIDE DEF apart
  <2> QED
    BY <2>1, MinIs
<1>2. PICK k \in apart : \A l \in apart : k <= l
  BY <1>1
<1>3. \A l \in 1 .. (k - 1) : l \in 1 .. n /\ l \notin apart
  BY <1>2
<1> QED
  BY <1>2, <1>3

\* The first place that differs decides.
LEMMA FirstDecides ==
    ASSUME NEW n \in Nat, NEW s, NEW t, Numbers(s, n), Numbers(t, n), NEW k \in 1 .. n,
           s[k] # t[k], \A l \in 1 .. (k - 1) : s[l] = t[l]
    PROVE  Verdict(s, t, n) = More(s[k], t[k]) /\ More(s[k], t[k]) # 0
<1>1. s[k] \in Int /\ t[k] \in Int
  BY DEF Numbers
<1>2. \A m \in 1 .. n : (\A l \in 1 .. (m - 1) : s[l] = t[l]) /\ s[m] # t[m] => m = k
  <2> TAKE m \in 1 .. n
  <2> SUFFICES ASSUME \A l \in 1 .. (m - 1) : s[l] = t[l], s[m] # t[m] PROVE m = k
    OBVIOUS
  <2>1. ~(m < k)
    OBVIOUS
  <2>2. ~(k < m)
    OBVIOUS
  <2> QED
    BY <2>1, <2>2
<1>3. CASE s[k] > t[k]
  BY <1>1, <1>3 DEF Verdict, More
<1>4. CASE t[k] > s[k]
  <2>1. ~\E m \in 1 .. n : s[m] > t[m] /\ \A l \in 1 .. (m - 1) : s[l] = t[l]
    <3> SUFFICES ASSUME NEW m \in 1 .. n, s[m] > t[m], \A l \in 1 .. (m - 1) : s[l] = t[l]
                 PROVE  FALSE
      OBVIOUS
    <3>1. s[m] \in Int /\ t[m] \in Int
      BY DEF Numbers
    <3>2. m = k
      BY <1>2, <3>1
    <3> QED
      BY <1>1, <1>4, <3>2
  <2> QED
    BY <1>1, <1>4, <2>1 DEF Verdict, More
<1> QED
  BY <1>1, <1>3, <1>4

\* No axis decides exactly when the lists are equal.
LEMMA EqualIsZero ==
    ASSUME NEW n \in Nat, NEW s, NEW t, Numbers(s, n), Numbers(t, n)
    PROVE  (Verdict(s, t, n) = 0) <=> \A k \in 1 .. n : s[k] = t[k]
<1>1. ASSUME \A k \in 1 .. n : s[k] = t[k] PROVE Verdict(s, t, n) = 0
  <2>1. \A k \in 1 .. n : ~(s[k] > t[k]) /\ ~(t[k] > s[k])
    BY <1>1 DEF Numbers
  <2> QED
    BY <2>1 DEF Verdict
<1>2. ASSUME Verdict(s, t, n) = 0 PROVE \A k \in 1 .. n : s[k] = t[k]
  <2> SUFFICES ASSUME ~\A k \in 1 .. n : s[k] = t[k] PROVE FALSE
    OBVIOUS
  <2>1. PICK k \in 1 .. n : s[k] # t[k] /\ \A l \in 1 .. (k - 1) : s[l] = t[l]
    BY FirstDifference
  <2> QED
    BY <1>2, <2>1, FirstDecides
<1> QED
  BY <1>1, <1>2

\* One more merit is one more axis at the end of the chain.
LEMMA NextAxis ==
    ASSUME NEW n \in Nat, NEW s, NEW t, Numbers(s, n + 1), Numbers(t, n + 1)
    PROVE  Verdict(s, t, n + 1) = Verdict(s, t, n) ?? More(s[n + 1], t[n + 1])
<1>1. Numbers(s, n) /\ Numbers(t, n)
  BY DEF Numbers
<1>2. CASE \A k \in 1 .. n : s[k] = t[k]
  <2>1. Verdict(s, t, n) = 0
    BY <1>1, <1>2, EqualIsZero
  <2>2. CASE s[n + 1] = t[n + 1]
    <3>1. \A k \in 1 .. n + 1 : s[k] = t[k]
      BY <1>2, <2>2
    <3>2. Verdict(s, t, n + 1) = 0
      BY <3>1, EqualIsZero
    <3>3. More(s[n + 1], t[n + 1]) = 0
      BY <2>2 DEF More, Numbers
    <3> QED
      BY <2>1, <3>2, <3>3 DEF ??
  <2>3. CASE s[n + 1] # t[n + 1]
    <3>1. \A l \in 1 .. ((n + 1) - 1) : s[l] = t[l]
      BY <1>2
    <3>2. Verdict(s, t, n + 1) = More(s[n + 1], t[n + 1])
      BY <2>3, <3>1, FirstDecides
    <3> QED
      BY <2>1, <3>2 DEF ??
  <2> QED
    BY <2>2, <2>3
<1>3. CASE ~\A k \in 1 .. n : s[k] = t[k]
  <2>1. PICK k \in 1 .. n : s[k] # t[k] /\ \A l \in 1 .. (k - 1) : s[l] = t[l]
    BY <1>3, FirstDifference
  <2>2. Verdict(s, t, n) = More(s[k], t[k]) /\ More(s[k], t[k]) # 0
    BY <1>1, <2>1, FirstDecides
  <2>3. Verdict(s, t, n + 1) = More(s[k], t[k])
    <3>1. k \in 1 .. n + 1
      OBVIOUS
    <3> QED
      BY <2>1, <3>1, FirstDecides
  <2> QED
    BY <2>2, <2>3 DEF ??
<1> QED
  BY <1>2, <1>3

\* Without an axis nothing is decided.
LEMMA NoAxis == \A s, t : Verdict(s, t, 0) = 0
BY DEF Verdict

\* A verdict is 1, 0 or -1, and is reversed when the lists change places.
LEMMA VerdictSwaps ==
    ASSUME NEW n \in Nat, NEW s, NEW t, Numbers(s, n), Numbers(t, n)
    PROVE  /\ Verdict(s, t, n) \in {-1, 0, 1}
           /\ (Verdict(s, t, n) = 1) <=> (Verdict(t, s, n) = -1)
<1>1. CASE \A k \in 1 .. n : s[k] = t[k]
  <2>1. Verdict(s, t, n) = 0 /\ Verdict(t, s, n) = 0
    BY <1>1, EqualIsZero
  <2> QED
    BY <2>1
<1>2. CASE ~\A k \in 1 .. n : s[k] = t[k]
  <2>1. PICK k \in 1 .. n : s[k] # t[k] /\ \A l \in 1 .. (k - 1) : s[l] = t[l]
    BY <1>2, FirstDifference
  <2>2. Verdict(s, t, n) = More(s[k], t[k])
    BY <2>1, FirstDecides
  <2>3. Verdict(t, s, n) = More(t[k], s[k])
    BY <2>1, FirstDecides
  <2>4. s[k] \in Int /\ t[k] \in Int
    BY DEF Numbers
  <2> QED
    BY <2>2, <2>3, <2>4 DEF More
<1> QED
  BY <1>1, <1>2

\* What is better than another is better than a third one, or the third than the other.
LEMMA VerdictParts ==
    ASSUME NEW n \in Nat, NEW s, NEW t, NEW u, Numbers(s, n), Numbers(t, n), Numbers(u, n),
           Verdict(s, t, n) = 1
    PROVE  Verdict(s, u, n) = 1 \/ Verdict(u, t, n) = 1
<1>1. PICK k \in 1 .. n : s[k] # t[k] /\ \A l \in 1 .. (k - 1) : s[l] = t[l]
  BY EqualIsZero, FirstDifference
<1>2. Verdict(s, t, n) = More(s[k], t[k])
  BY <1>1, FirstDecides
<1>3. \A m \in 1 .. n : s[m] \in Int /\ t[m] \in Int /\ u[m] \in Int
  BY DEF Numbers
<1>4. s[k] > t[k]
  BY <1>2, <1>3 DEF More
<1>5. CASE \A m \in 1 .. k : s[m] = u[m]
  <2>1. u[k] > t[k] /\ \A l \in 1 .. (k - 1) : u[l] = t[l]
    BY <1>1, <1>4, <1>5
  <2> QED
    BY <2>1 DEF Verdict
<1>6. CASE ~\A m \in 1 .. k : s[m] = u[m]
  <2>1. PICK m \in 1 .. k : s[m] # u[m] /\ \A l \in 1 .. (m - 1) : s[l] = u[l]
    <3>1. k \in Nat
      OBVIOUS
    <3> QED
      BY <1>6, <3>1, FirstDifference
  <2>2. m \in 1 .. n
    OBVIOUS
  <2>3. CASE s[m] > u[m]
    BY <2>1, <2>2, <2>3 DEF Verdict
  <2>4. CASE u[m] > s[m]
    <3>1. u[m] > t[m]
      BY <1>1, <1>3, <1>4, <2>2, <2>4
    <3>2. \A l \in 1 .. (m - 1) : u[l] = t[l]
      BY <1>1, <2>1
    <3> QED
      BY <2>2, <3>1, <3>2 DEF Verdict
  <2> QED
    BY <1>3, <2>1, <2>2, <2>3, <2>4
<1> QED
  BY <1>5, <1>6

\* The lexicographic order of the intended choice is the verdict of the chain of axes.
LEMMA MoreMeritIs ==
    ASSUME NEW n \in Nat, NEW s, NEW t, DOMAIN s = 1 .. n
    PROVE  MoreMerit(s, t) <=> Verdict(s, t, n) = 1
BY DEF MoreMerit, Verdict

-----------------------------------------------------------------------------
(* The tiers before acceptance. *)

\* The lower, the better: fewer shanten, then an isolated tile, then an isolated honor.
Rank(e) ==
    4 * e.shanten + 2 * (1 - Flag(e.shanten >= 2 /\ Eligible(e)))
        + (1 - Flag(e.shanten >= 2 /\ Eligible(e) /\ e.honor))

\* The rank of a candidate is a number between four times its shanten and three more.
LEMMA RankIsNat ==
    ASSUME NEW e, e.shanten \in Nat
    PROVE  Rank(e) \in Nat /\ Rank(e) \in 4 * e.shanten .. 4 * e.shanten + 3
BY DEF Rank, Flag

\* The axes before acceptance compare one number, the rank.
LEMMA BeforeIsRank ==
    ASSUME NEW c, NEW b, c.shanten \in Nat, b.shanten \in Nat
    PROVE  BeforeAcceptance(c, b) = Fewer(Rank(c), Rank(b))
<1>1. CASE c.shanten < b.shanten
  <2>1. BeforeAcceptance(c, b) = 1
    BY <1>1 DEF BeforeAcceptance, ??, Fewer, More
  <2>2. Rank(c) < Rank(b)
    BY <1>1, RankIsNat
  <2> QED
    BY <2>1, <2>2, RankIsNat DEF Fewer, More
<1>2. CASE c.shanten > b.shanten
  <2>1. BeforeAcceptance(c, b) = -1
    BY <1>2 DEF BeforeAcceptance, ??, Fewer, More
  <2>2. Rank(c) > Rank(b)
    BY <1>2, RankIsNat
  <2> QED
    BY <2>1, <2>2, RankIsNat DEF Fewer, More
<1>3. CASE c.shanten = b.shanten /\ c.shanten < 2
  BY <1>3 DEF BeforeAcceptance, ??, Fewer, More, Rank, Flag, IsolatedTile, IsolatedHonor
<1>4. CASE c.shanten = b.shanten /\ c.shanten >= 2
  <2>1. Fewer(c.shanten, b.shanten) = 0
    BY <1>4 DEF Fewer, More
  <2>2. BeforeAcceptance(c, b) =
          IsolatedTile(c, b) ?? IsolatedHonor(c, b)
    BY <2>1 DEF BeforeAcceptance, ??
  <2>3. CASE Eligible(c) /\ Eligible(b)
    BY <1>4, <2>2, <2>3 DEF ??, Fewer, More, Rank, Flag, IsolatedTile, IsolatedHonor
  <2>4. CASE Eligible(c) /\ ~Eligible(b)
    BY <1>4, <2>2, <2>4 DEF ??, Fewer, More, Rank, Flag, IsolatedTile, IsolatedHonor
  <2>5. CASE ~Eligible(c) /\ Eligible(b)
    BY <1>4, <2>2, <2>5 DEF ??, Fewer, More, Rank, Flag, IsolatedTile, IsolatedHonor
  <2>6. CASE ~Eligible(c) /\ ~Eligible(b)
    BY <1>4, <2>2, <2>6 DEF ??, Fewer, More, Rank, Flag, IsolatedTile, IsolatedHonor
  <2> QED
    BY <2>3, <2>4, <2>5, <2>6
<1> QED
  BY <1>1, <1>2, <1>3, <1>4

\* The tier of a candidate as a list, for the order of its rank.
LEMMA TierIsRank ==
    ASSUME NEW i, NEW j, evaluations[i].shanten \in Nat, evaluations[j].shanten \in Nat
    PROVE  MoreMerit(Tier(j), Tier(i)) <=> Rank(evaluations[j]) < Rank(evaluations[i])
<1> DEFINE s == Tier(j)
           t == Tier(i)
<1>1. /\ DOMAIN s = 1 .. 3 /\ DOMAIN t = 1 .. 3
      /\ s[1] = -evaluations[j].shanten /\ t[1] = -evaluations[i].shanten
      /\ s[2] = Flag(evaluations[j].shanten >= 2 /\ Eligible(evaluations[j]))
      /\ t[2] = Flag(evaluations[i].shanten >= 2 /\ Eligible(evaluations[i]))
      /\ s[3] = Flag(evaluations[j].shanten >= 2 /\ Eligible(evaluations[j]) /\ evaluations[j].honor)
      /\ t[3] = Flag(evaluations[i].shanten >= 2 /\ Eligible(evaluations[i]) /\ evaluations[i].honor)
  BY DEF Tier
<1>2. s[2] \in 0 .. 1 /\ s[3] \in 0 .. 1 /\ t[2] \in 0 .. 1 /\ t[3] \in 0 .. 1
  BY <1>1 DEF Flag
<1>3. /\ Rank(evaluations[j]) = -4 * s[1] + 2 * (1 - s[2]) + (1 - s[3])
      /\ Rank(evaluations[i]) = -4 * t[1] + 2 * (1 - t[2]) + (1 - t[3])
  <2> HIDE DEF s, t
  <2> QED
    BY <1>1 DEF Rank
<1>4. s[1] \in Int /\ t[1] \in Int
  <2> HIDE DEF s, t
  <2> QED
    BY <1>1
<1> HIDE DEF s, t
<1>5. MoreMerit(s, t) <=> \/ s[1] > t[1]
                          \/ s[1] = t[1] /\ s[2] > t[2]
                          \/ s[1] = t[1] /\ s[2] = t[2] /\ s[3] > t[3]
  <2>1. MoreMerit(s, t) <=> \E k \in {1, 2, 3} : s[k] > t[k] /\ \A l \in 1 .. (k - 1) : s[l] = t[l]
    <3>1. 1 .. 3 = {1, 2, 3}
      OBVIOUS
    <3> QED
      BY <1>1, <3>1 DEF MoreMerit
  <2>2. 1 .. (1 - 1) = {} /\ 1 .. (2 - 1) = {1} /\ 1 .. (3 - 1) = {1, 2}
    OBVIOUS
  <2> QED
    BY <2>1, <2>2
<1>6. MoreMerit(s, t) <=> Rank(evaluations[j]) < Rank(evaluations[i])
  BY <1>2, <1>3, <1>4, <1>5
<1> QED
  BY <1>6 DEF s, t

\* The candidates that nothing beats before acceptance.
Lowest(vs) == {i \in DOMAIN vs : \A j \in DOMAIN vs : Rank(vs[i]) <= Rank(vs[j])}

\* Views: records with shanten numbers, listed by some of the places 1 .. n.
AreViews(vs, n) ==
    /\ n \in Nat
    /\ \A i \in DOMAIN vs : i \in 1 .. n
    /\ \A i \in DOMAIN vs : vs[i].shanten \in Nat

\* The candidates of the lowest rank exist, agree in rank and shanten, and are below all others.
LEMMA LowestIs ==
    ASSUME NEW n, NEW vs, AreViews(vs, n), DOMAIN vs # {}
    PROVE  /\ Lowest(vs) # {}
           /\ \A i, j \in Lowest(vs) : /\ Rank(vs[i]) = Rank(vs[j])
                                       /\ vs[i].shanten = vs[j].shanten
           /\ \A i \in Lowest(vs), j \in (DOMAIN vs) \ Lowest(vs) : Rank(vs[i]) < Rank(vs[j])
           /\ \A i \in Lowest(vs), j \in DOMAIN vs : vs[i].shanten <= vs[j].shanten
<1>1. \A i \in DOMAIN vs : Rank(vs[i]) \in Nat /\ vs[i].shanten \in Nat
                           /\ Rank(vs[i]) >= 4 * vs[i].shanten /\ Rank(vs[i]) <= 4 * vs[i].shanten + 3
  BY RankIsNat DEF AreViews
<1>2. Lowest(vs) # {}
  <2> DEFINE ranks == {Rank(vs[i]) : i \in DOMAIN vs}
  <2>1. ranks \in SUBSET Nat /\ ranks # {}
    BY <1>1
  <2>2. PICK r \in ranks : \A q \in ranks : r <= q
    <3> HIDE DEF ranks
    <3> QED
      BY <2>1, MinIs
  <2>3. PICK i \in DOMAIN vs : r = Rank(vs[i])
    OBVIOUS
  <2> QED
    BY <2>2, <2>3 DEF Lowest
<1>3. \A i, j \in Lowest(vs) : Rank(vs[i]) = Rank(vs[j])
  <2> TAKE i, j \in Lowest(vs)
  <2>1. Rank(vs[i]) <= Rank(vs[j]) /\ Rank(vs[j]) <= Rank(vs[i])
    BY DEF Lowest
  <2>2. Rank(vs[i]) \in Nat /\ Rank(vs[j]) \in Nat
    BY <1>1 DEF Lowest
  <2> QED
    BY <2>1, <2>2
<1>4. \A i \in Lowest(vs), j \in DOMAIN vs : vs[i].shanten <= vs[j].shanten
  <2> TAKE i \in Lowest(vs), j \in DOMAIN vs
  <2>1. Rank(vs[i]) <= Rank(vs[j])
    BY DEF Lowest
  <2>2. i \in DOMAIN vs
    BY DEF Lowest
  <2> QED
    BY <1>1, <2>1, <2>2
<1>5. \A i, j \in Lowest(vs) : vs[i].shanten = vs[j].shanten
  <2> TAKE i, j \in Lowest(vs)
  <2>1. i \in DOMAIN vs /\ j \in DOMAIN vs
    BY DEF Lowest
  <2>2. vs[i].shanten <= vs[j].shanten /\ vs[j].shanten <= vs[i].shanten
    BY <1>4, <2>1
  <2> QED
    BY <1>1, <2>1, <2>2
<1>6. \A i \in Lowest(vs), j \in (DOMAIN vs) \ Lowest(vs) : Rank(vs[i]) < Rank(vs[j])
  <2> TAKE i \in Lowest(vs), j \in (DOMAIN vs) \ Lowest(vs)
  <2>1. i \in DOMAIN vs /\ Rank(vs[i]) <= Rank(vs[j])
    BY DEF Lowest
  <2>2. PICK k \in DOMAIN vs : ~(Rank(vs[j]) <= Rank(vs[k]))
    BY DEF Lowest
  <2>3. Rank(vs[i]) <= Rank(vs[k])
    BY DEF Lowest
  <2> QED
    BY <1>1, <2>1, <2>2, <2>3
<1> QED
  BY <1>2, <1>3, <1>4, <1>5, <1>6

\* The verdict before acceptance, between candidates of the lowest rank and others.
LEMMA BeforeDecides ==
    ASSUME NEW n, NEW vs, AreViews(vs, n), DOMAIN vs # {}, NEW i \in Lowest(vs),
           NEW j \in DOMAIN vs
    PROVE  /\ j \in Lowest(vs) => BeforeAcceptance(vs[i], vs[j]) = 0
           /\ j \notin Lowest(vs) => /\ BeforeAcceptance(vs[i], vs[j]) = 1
                                     /\ BeforeAcceptance(vs[j], vs[i]) = -1
<1>1. i \in DOMAIN vs
  BY DEF Lowest
<1>2. vs[i].shanten \in Nat /\ vs[j].shanten \in Nat
  BY <1>1 DEF AreViews
<1>3. Rank(vs[i]) \in Nat /\ Rank(vs[j]) \in Nat
  BY <1>2, RankIsNat
<1>4. /\ BeforeAcceptance(vs[i], vs[j]) = More(Rank(vs[j]), Rank(vs[i]))
      /\ BeforeAcceptance(vs[j], vs[i]) = More(Rank(vs[i]), Rank(vs[j]))
  BY <1>2, BeforeIsRank DEF Fewer
<1>5. CASE j \in Lowest(vs)
  <2>1. Rank(vs[i]) = Rank(vs[j])
    BY <1>5, LowestIs
  <2> QED
    BY <1>3, <1>4, <1>5, <2>1 DEF More
<1>6. CASE j \notin Lowest(vs)
  <2>1. Rank(vs[i]) < Rank(vs[j])
    BY <1>6, LowestIs
  <2> QED
    BY <1>3, <1>4, <1>6, <2>1 DEF More
<1> QED
  BY <1>5, <1>6

\* The forward targets are the candidates of the lowest rank, none in tenpai.
LEMMA ForwardTargetsAre ==
    ASSUME NEW n, NEW vs, AreViews(vs, n), DOMAIN vs # {}, NEW i \in Lowest(vs)
    PROVE  ForwardTargets(vs) = IF vs[i].shanten < 1 THEN {} ELSE Lowest(vs)
<1> DEFINE ahead == {p \in Pairs(vs) : BeforeAcceptance(vs[p[1]], vs[p[2]]) = 1}
           G     == Lowest(vs)
           best  == Scan(DOMAIN vs, ahead)
<1>1. G # {} /\ G \subseteq DOMAIN vs
  BY LowestIs DEF Lowest
<1>2. \A k, l \in DOMAIN vs : <<k, l>> \in ahead <=> BeforeAcceptance(vs[k], vs[l]) = 1
  BY DEF Pairs
<1>3. Leads(G, DOMAIN vs, ahead)
  <2>1. \A k, l \in G : <<k, l>> \notin ahead
    <3> TAKE k, l \in G
    <3>1. BeforeAcceptance(vs[k], vs[l]) = 0
      BY <1>1, BeforeDecides
    <3> QED
      BY <1>1, <1>2, <3>1
  <2>2. \A k \in G, l \in (DOMAIN vs) \ G : <<k, l>> \in ahead /\ <<l, k>> \notin ahead
    <3> TAKE k \in G, l \in (DOMAIN vs) \ G
    <3>1. BeforeAcceptance(vs[k], vs[l]) = 1 /\ BeforeAcceptance(vs[l], vs[k]) = -1
      BY BeforeDecides
    <3> QED
      BY <1>1, <1>2, <3>1
  <2> HIDE DEF G, ahead
  <2> QED
    BY <1>1, <2>1, <2>2 DEF Leads
<1>4. best \in G
  <2>1. Unbeaten(G, ahead) # {} /\ best = Min(Unbeaten(G, ahead))
    <3> HIDE DEF G, ahead
    <3> QED
      BY <1>1, <1>3, ScanKeepsTheFirst DEF AreViews
  <2>2. Unbeaten(G, ahead) \in SUBSET Nat
    BY <1>1 DEF Unbeaten, AreViews
  <2> HIDE DEF ahead, best, G
  <2> QED
    BY <2>1, <2>2, MinIs DEF Unbeaten
<1>5. vs[best].shanten = vs[i].shanten
  BY <1>4, LowestIs
<1>6. {k \in DOMAIN vs : BeforeAcceptance(vs[k], vs[best]) = 0} = G
  <2>1. ASSUME NEW k \in DOMAIN vs
        PROVE  BeforeAcceptance(vs[k], vs[best]) = 0 <=> k \in G
    <3>1. best \in DOMAIN vs
      BY <1>1, <1>4
    <3>2. CASE k \in G
      BY <1>4, <3>1, <3>2, BeforeDecides
    <3>3. CASE k \notin G
      BY <1>4, <3>3, BeforeDecides
    <3> QED
      BY <3>2, <3>3
  <2> QED
    BY <1>1, <2>1
<1>7. ForwardTargets(vs) = IF vs[best].shanten < 1 THEN {}
                           ELSE {k \in DOMAIN vs : BeforeAcceptance(vs[k], vs[best]) = 0}
  BY DEF ForwardTargets
<1> HIDE DEF best
<1> QED
  BY <1>5, <1>6, <1>7

\* The best tier of the intended choice is the candidates of the lowest rank.
LEMMA BestTierIs ==
    ASSUME evaluations \in Inputs
    PROVE  /\ AreViews(evaluations, Len(evaluations))
           /\ DOMAIN evaluations = 1 .. Len(evaluations) /\ DOMAIN evaluations # {}
           /\ \A i \in DOMAIN evaluations : evaluations[i] \in Candidate
           /\ BestTier = Lowest(evaluations)
<1>1. evaluations \in Seq(Candidate) /\ Len(evaluations) > 0
  BY InputsAssumption
<1>2. \A i \in DOMAIN evaluations : evaluations[i] \in Candidate
  BY <1>1
<1>3. \A i \in DOMAIN evaluations : evaluations[i].shanten \in Nat
  BY <1>2 DEF Candidate
<1>4. AreViews(evaluations, Len(evaluations)) /\ DOMAIN evaluations = 1 .. Len(evaluations)
  BY <1>1, <1>3 DEF AreViews
<1>5. DOMAIN evaluations # {}
  BY <1>1, <1>4
<1>6. \A i, j \in DOMAIN evaluations :
         ~MoreMerit(Tier(j), Tier(i)) <=> Rank(evaluations[i]) <= Rank(evaluations[j])
  <2> TAKE i, j \in DOMAIN evaluations
  <2>1. MoreMerit(Tier(j), Tier(i)) <=> Rank(evaluations[j]) < Rank(evaluations[i])
    BY <1>3, TierIsRank
  <2>2. Rank(evaluations[i]) \in Nat /\ Rank(evaluations[j]) \in Nat
    BY <1>3, RankIsNat
  <2> QED
    BY <2>1, <2>2
<1>7. BestTier = Lowest(evaluations)
  BY <1>6 DEF BestTier, Lowest
<1> QED
  BY <1>2, <1>4, <1>5, <1>7

-----------------------------------------------------------------------------
(* The comparator is a chain of axes. *)

\* An axis that decides ends the chain,
LEMMA ChainLeft == \A a, b : a # 0 => (a ?? b) = a
BY DEF ??

\* one that does not leaves it to the next,
LEMMA ChainRight == \A a : (0 ?? a) = a
BY DEF ??

\* an axis that never decides can be left out,
LEMMA ChainNone == \A a : (a ?? 0) = a
BY DEF ??

\* and how a chain is bracketed does not matter.
LEMMA ChainAssoc == \A a, b, c : (a ?? (b ?? c)) = ((a ?? b) ?? c)
BY DEF ??

\* If the axes before acceptance decide, all comparisons end with them.
LEMMA BeforeIsFirst ==
    ASSUME NEW c, NEW b, BeforeAcceptance(c, b) # 0
    PROVE  /\ Compare(c, b) = BeforeAcceptance(c, b)
           /\ BeforeStableOrder(c, b) = BeforeAcceptance(c, b)
<1>1. BeforeStableOrder(c, b) = BeforeAcceptance(c, b)
  BY ChainLeft DEF BeforeStableOrder
<1> QED
  BY <1>1, ChainLeft DEF Compare

\* A lone candidate of the best tier is chosen, whatever is known of it.
LEMMA BestIsAlone ==
    ASSUME NEW n, NEW vs, AreViews(vs, n), NEW i, Lowest(vs) = {i}
    PROVE  Best(vs) = i
<1> DEFINE better == {p \in Pairs(vs) : Compare(vs[p[1]], vs[p[2]]) = 1}
<1>1. i \in DOMAIN vs
  BY DEF Lowest
<1>2. \A j \in DOMAIN vs : j # i => <<i, j>> \in better /\ <<j, i>> \notin better
  <2> TAKE j \in DOMAIN vs
  <2> SUFFICES ASSUME j # i PROVE <<i, j>> \in better /\ <<j, i>> \notin better
    OBVIOUS
  <2>1. BeforeAcceptance(vs[i], vs[j]) = 1 /\ BeforeAcceptance(vs[j], vs[i]) = -1
    BY <1>1, BeforeDecides
  <2>2. Compare(vs[i], vs[j]) = 1 /\ Compare(vs[j], vs[i]) = -1
    BY <2>1, BeforeIsFirst
  <2> QED
    BY <1>1, <2>2 DEF Pairs
<1>3. Best(vs) = Scan(DOMAIN vs, better)
  BY DEF Best
<1> HIDE DEF better
<1>4. Leads({i}, DOMAIN vs, better)
  BY <1>1, <1>2 DEF Leads
<1>5. Unbeaten({i}, better) = {i}
  BY DEF Unbeaten
<1>6. Scan(DOMAIN vs, better) = Min({i})
  BY <1>4, <1>5, ScanKeepsTheFirst DEF AreViews
<1>7. Min({i}) = i
  <2>1. {i} \in SUBSET Nat
    BY <1>1 DEF AreViews
  <2> QED
    BY <2>1, MinIs
<1> QED
  BY <1>3, <1>6, <1>7

\* The places of G whose merits nobody of G exceeds.
Favoured(G, m, d) == {i \in G : \A j \in G : Verdict(m[j], m[i], d) # 1}

\* If the comparator is the verdict of a list of merits within the best tier, the scan keeps
\* the first candidate of the tier with the most merit.
LEMMA BestIs ==
    ASSUME NEW n, NEW vs, AreViews(vs, n), DOMAIN vs # {}, NEW d \in Nat, NEW m,
           \A i \in Lowest(vs) : Numbers(m[i], d),
           \A i, j \in Lowest(vs) : Compare(vs[i], vs[j]) = Verdict(m[i], m[j], d)
    PROVE  /\ Favoured(Lowest(vs), m, d) # {}
           /\ Best(vs) = Min(Favoured(Lowest(vs), m, d))
<1> DEFINE better == {p \in Pairs(vs) : Compare(vs[p[1]], vs[p[2]]) = 1}
           G      == Lowest(vs)
<1>1. G # {} /\ G \subseteq DOMAIN vs
  BY LowestIs DEF Lowest
<1>2. \A k, l \in DOMAIN vs : <<k, l>> \in better <=> Compare(vs[k], vs[l]) = 1
  BY DEF Pairs
<1>3. \A k, l \in G : <<k, l>> \in better <=> Verdict(m[k], m[l], d) = 1
  BY <1>1, <1>2
<1>4. \A k \in G, l \in (DOMAIN vs) \ G : <<k, l>> \in better /\ <<l, k>> \notin better
  <2> TAKE k \in G, l \in (DOMAIN vs) \ G
  <2>1. BeforeAcceptance(vs[k], vs[l]) = 1 /\ BeforeAcceptance(vs[l], vs[k]) = -1
    BY BeforeDecides
  <2>2. Compare(vs[k], vs[l]) = 1 /\ Compare(vs[l], vs[k]) = -1
    BY <2>1, BeforeIsFirst
  <2> QED
    BY <1>1, <1>2, <2>2
<1>5. \A k, l \in G : <<k, l>> \in better => <<l, k>> \notin better
  <2> TAKE k, l \in G
  <2>1. (Verdict(m[k], m[l], d) = 1) <=> (Verdict(m[l], m[k], d) = -1)
    BY VerdictSwaps
  <2> QED
    BY <1>3, <2>1
<1>6. \A k, l, o \in G : <<k, l>> \in better => <<k, o>> \in better \/ <<o, l>> \in better
  <2> TAKE k, l, o \in G
  <2>1. Numbers(m[k], d) /\ Numbers(m[l], d) /\ Numbers(m[o], d)
    OBVIOUS
  <2> HIDE DEF better, G
  <2> QED
    BY <1>3, <2>1, VerdictParts
<1>7. Best(vs) = Scan(DOMAIN vs, better)
  BY DEF Best
<1>8. Unbeaten(G, better) = Favoured(G, m, d)
  <2> HIDE DEF better, G
  <2> QED
    <3>1. \A k \in G : Verdict(m[k], m[k], d) # 1
      <4> TAKE k \in G
      <4>1. Numbers(m[k], d)
        BY DEF G
      <4>2. Verdict(m[k], m[k], d) = 0
        BY <4>1, EqualIsZero
      <4> QED
        BY <4>2
    <3> QED
      BY <1>3, <3>1 DEF Unbeaten, Favoured
<1> HIDE DEF better, G
<1>9. Leads(G, DOMAIN vs, better)
  BY <1>1, <1>4, <1>5, <1>6 DEF Leads
<1>10. Unbeaten(G, better) # {} /\ Scan(DOMAIN vs, better) = Min(Unbeaten(G, better))
  BY <1>1, <1>9, ScanKeepsTheFirst DEF AreViews
<1> QED
  BY <1>7, <1>8, <1>10 DEF G

\* The scan keeps one of the candidates.
LEMMA BestIsOne ==
    ASSUME NEW n, NEW vs, AreViews(vs, n), DOMAIN vs # {}
    PROVE  Best(vs) \in DOMAIN vs
BY ScanIsOne DEF AreViews, Best

-----------------------------------------------------------------------------
(* What a candidate merits. *)

\* The type of each fact of a candidate.
LEMMA CandidateIs ==
    ASSUME NEW e \in Candidate
    PROVE  /\ e.shanten \in Nat /\ e.standard \in Int /\ e.isolated \in BOOLEAN
           /\ e.honor \in BOOLEAN /\ e.red \in BOOLEAN /\ e.complete \in BOOLEAN
           /\ e.chiitoi \in Option /\ e.remaining \in Nat /\ e.types \in Nat
           /\ e.penalty \in Int /\ e.floating \in Int /\ e.dora \in Nat /\ e.valueHonor \in Nat
           /\ e.expected \in Option /\ e.prospective \in Option /\ e.wait \in Option
           /\ e.waitTypes \in Option /\ e.next \in Option /\ e.nextTypes \in Option
           /\ e.twoShanten \in Option /\ e.full \in Option /\ e.threeShanten \in Option
           /\ e.untilRyukyoku \in Option /\ e.offense \in Option /\ e.selfTsumo \in Option
           /\ e.continuation \in Option /\ e.baseReach \in BOOLEAN
           /\ e.furiten \in {"yes", "no", "unknown"}
BY DEF Candidate

\* A value, or its absence, is an integer.
LEMMA OptionIsInt == \A x \in Option : x \in Int
BY DEF Option, None

\* The axes whose value may be unknown.
DeepAxes == {"expected", "prospective", "twoShanten", "full", "threeShanten", "untilRyukyoku",
             "offense", "selfTsumo", "continuation"}

\* A value that counts only when all know it is an integer.
LEMMA IfAllKnownIs ==
    ASSUME NEW i, NEW S, NEW axis \in DeepAxes, evaluations[i] \in Candidate
    PROVE  IfAllKnown(i, S, axis) \in Int /\ evaluations[i][axis] \in Option
<1>1. evaluations[i][axis] \in Option
  BY CandidateIs DEF DeepAxes
<1> QED
  BY <1>1, OptionIsInt DEF IfAllKnown

\* The four deep merits at each shanten.
LEMMA DeepIs ==
    ASSUME NEW i, NEW S, NEW axis \in {"twoShanten", "full"}, evaluations[i] \in Candidate
    PROVE  LET m == DeepMerit(i, S, axis)
               e == evaluations[i]
           IN  /\ m \in Seq(Int) /\ Len(m) = 4
               /\ e.shanten = 0 => m = <<TenpaiMerit(i, S), 0, 0, 0>>
               /\ e.shanten = 1 => m = <<IfAllKnown(i, S, "expected"),
                                         IfAllKnown(i, S, "prospective"), e.wait, e.waitTypes>>
               /\ e.shanten = 2 => m = <<IfAllKnown(i, S, axis),
                                         IfAllKnown(i, S, "prospective"), e.next, e.nextTypes>>
               /\ e.shanten = 3 => m = <<IfAllKnown(i, S, "threeShanten"),
                                         IfAllKnown(i, S, "prospective"), e.next, e.nextTypes>>
               /\ e.shanten > 3 => m = <<0, IfAllKnown(i, S, "prospective"), e.next, e.nextTypes>>
<1> DEFINE e == evaluations[i]
           m == DeepMerit(i, S, axis)
<1>1. /\ IfAllKnown(i, S, "expected") \in Int /\ IfAllKnown(i, S, "prospective") \in Int
      /\ IfAllKnown(i, S, axis) \in Int /\ IfAllKnown(i, S, "threeShanten") \in Int
      /\ IfAllKnown(i, S, "offense") \in Int /\ IfAllKnown(i, S, "selfTsumo") \in Int
  BY IfAllKnownIs DEF DeepAxes
<1>2. /\ e.shanten \in Nat /\ e.wait \in Int /\ e.waitTypes \in Int /\ e.next \in Int
      /\ e.nextTypes \in Int /\ e.continuation \in Int
  BY CandidateIs, OptionIsInt
<1>3. TenpaiMerit(i, S) \in Int
  BY <1>1, <1>2 DEF TenpaiMerit
<1>4. CASE e.shanten = 0
  <2>1. m = <<TenpaiMerit(i, S), 0, 0, 0>>
    BY <1>4 DEF DeepMerit
  <2> QED
    BY <1>3, <1>4, <2>1
<1>5. CASE e.shanten = 1
  <2>1. m = <<IfAllKnown(i, S, "expected"), IfAllKnown(i, S, "prospective"), e.wait, e.waitTypes>>
    BY <1>5 DEF DeepMerit
  <2> QED
    BY <1>1, <1>2, <1>5, <2>1
<1>6. CASE e.shanten = 2
  <2>1. m = <<IfAllKnown(i, S, axis), IfAllKnown(i, S, "prospective"), e.next, e.nextTypes>>
    BY <1>6 DEF DeepMerit
  <2> QED
    BY <1>1, <1>2, <1>6, <2>1
<1>7. CASE e.shanten = 3
  <2>1. m = <<IfAllKnown(i, S, "threeShanten"), IfAllKnown(i, S, "prospective"), e.next, e.nextTypes>>
    BY <1>7 DEF DeepMerit
  <2> QED
    BY <1>1, <1>2, <1>7, <2>1
<1>8. CASE e.shanten > 3
  <2>1. m = <<0, IfAllKnown(i, S, "prospective"), e.next, e.nextTypes>>
    BY <1>2, <1>8 DEF DeepMerit
  <2> QED
    BY <1>1, <1>2, <1>8, <2>1
<1> QED
  BY <1>2, <1>4, <1>5, <1>6, <1>7, <1>8

\* The merits are the four deep ones followed by nine others.
LEMMA JoinedLists ==
    ASSUME NEW d, NEW f, d \in Seq(Int), f \in Seq(Int), Len(d) = 4, Len(f) = 9
    PROVE  /\ d \o f \in Seq(Int) /\ Len(d \o f) = 13
           /\ \A k \in 1 .. 13 : (d \o f)[k] = IF k <= 4 THEN d[k] ELSE f[k - 4]
<1>1. /\ d \o f \in Seq(Int) /\ Len(d \o f) = Len(d) + Len(f)
      /\ \A k \in 1 .. Len(d) + Len(f) : (d \o f)[k] = IF k <= Len(d) THEN d[k] ELSE f[k - Len(d)]
  BY ConcatProperties, Zenon
<1>2. Len(d) + Len(f) = 13
  OBVIOUS
<1> QED
  BY <1>1, <1>2

\* The thirteen merits of a candidate, one by one.
LEMMA MeritIs ==
    ASSUME NEW i, NEW S, NEW axis \in {"twoShanten", "full"}, evaluations[i] \in Candidate
    PROVE  LET m == Merit(i, S, axis)
               d == DeepMerit(i, S, axis)
               e == evaluations[i]
           IN  /\ DOMAIN m = 1 .. 13 /\ Numbers(m, 13)
               /\ m[1] = d[1] /\ m[2] = d[2] /\ m[3] = d[3] /\ m[4] = d[4]
               /\ m[5] = e.remaining /\ m[6] = e.types /\ m[7] = -e.chiitoi
               /\ m[8] = Flag(e.shanten = 1 /\ e.standard = 1 /\ e.complete)
               /\ m[9] = -e.penalty /\ m[10] = -e.floating /\ m[11] = -e.dora
               /\ m[12] = -e.valueHonor /\ m[13] = -Flag(e.red)
<1> DEFINE e == evaluations[i]
           d == DeepMerit(i, S, axis)
           f == <<e.remaining, e.types, -e.chiitoi,
                  Flag(e.shanten = 1 /\ e.standard = 1 /\ e.complete),
                  -e.penalty, -e.floating, -e.dora, -e.valueHonor, -Flag(e.red)>>
           m == Merit(i, S, axis)
<1>1. d \in Seq(Int) /\ Len(d) = 4
  BY DeepIs
<1>2. f \in Seq(Int) /\ Len(f) = 9
  <2>1. /\ e.remaining \in Int /\ e.types \in Int /\ e.chiitoi \in Int /\ e.penalty \in Int
        /\ e.floating \in Int /\ e.dora \in Int /\ e.valueHonor \in Int
    BY CandidateIs, OptionIsInt
  <2>2. \A b : Flag(b) \in Int
    BY DEF Flag
  <2>3. \A x \in Int : -x \in Int
    OBVIOUS
  <2> QED
    BY <2>1, <2>2, <2>3
<1>3. m = d \o f
  BY DEF Merit
<1>4. /\ f[1] = e.remaining /\ f[2] = e.types /\ f[3] = -e.chiitoi
      /\ f[4] = Flag(e.shanten = 1 /\ e.standard = 1 /\ e.complete)
      /\ f[5] = -e.penalty /\ f[6] = -e.floating /\ f[7] = -e.dora
      /\ f[8] = -e.valueHonor /\ f[9] = -Flag(e.red)
  OBVIOUS
<1> HIDE DEF d, f, m
<1>5. m \in Seq(Int) /\ Len(m) = 13
  BY <1>1, <1>2, <1>3, JoinedLists
<1>6. \A k \in 1 .. 13 : m[k] = IF k <= 4 THEN d[k] ELSE f[k - 4]
  BY <1>1, <1>2, <1>3, JoinedLists
<1>7. /\ m[1] = d[1] /\ m[2] = d[2] /\ m[3] = d[3] /\ m[4] = d[4]
      /\ m[5] = f[1] /\ m[6] = f[2] /\ m[7] = f[3] /\ m[8] = f[4] /\ m[9] = f[5]
      /\ m[10] = f[6] /\ m[11] = f[7] /\ m[12] = f[8] /\ m[13] = f[9]
  BY <1>6
<1>8. DOMAIN m = 1 .. 13 /\ Numbers(m, 13)
  <2>1. DOMAIN m = 1 .. 13 /\ \A k \in DOMAIN m : m[k] \in Int
    BY <1>5, LenProperties, ElementOfSeq
  <2> QED
    BY <2>1 DEF Numbers
<1> QED
  BY <1>4, <1>7, <1>8 DEF d, m

-----------------------------------------------------------------------------
(* The axes after the tier, and the merits they compare. *)

\* The verdict of thirteen merits as a chain of comparisons.
LEMMA ThirteenMerits ==
    ASSUME NEW u, NEW v, Numbers(u, 13), Numbers(v, 13)
    PROVE  LET a(k) == More(u[k], v[k])
           IN  Verdict(u, v, 13) =
                 (a(1) ?? a(2) ?? a(3) ?? a(4) ?? a(5) ?? a(6) ?? a(7) ?? a(8) ?? a(9)
                       ?? a(10) ?? a(11) ?? a(12) ?? a(13))
<1> DEFINE V(n) == Verdict(u, v, n)
           a(k) == More(u[k], v[k])
<1>1. \A n \in 0 .. 12 : V(n + 1) = (V(n) ?? a(n + 1))
  <2> TAKE n \in 0 .. 12
  <2>1. Numbers(u, n + 1) /\ Numbers(v, n + 1) /\ n \in Nat
    BY DEF Numbers
  <2> QED
    BY <2>1, NextAxis
<1>2. V(0) = 0
  BY NoAxis
<1> HIDE DEF V, a
<1>3. /\ V(1) = (V(0) ?? a(1)) /\ V(2) = (V(1) ?? a(2)) /\ V(3) = (V(2) ?? a(3))
      /\ V(4) = (V(3) ?? a(4)) /\ V(5) = (V(4) ?? a(5)) /\ V(6) = (V(5) ?? a(6))
      /\ V(7) = (V(6) ?? a(7)) /\ V(8) = (V(7) ?? a(8)) /\ V(9) = (V(8) ?? a(9))
      /\ V(10) = (V(9) ?? a(10)) /\ V(11) = (V(10) ?? a(11)) /\ V(12) = (V(11) ?? a(12))
      /\ V(13) = (V(12) ?? a(13))
  <2>1. /\ V(0 + 1) = (V(0) ?? a(0 + 1)) /\ V(1 + 1) = (V(1) ?? a(1 + 1))
        /\ V(2 + 1) = (V(2) ?? a(2 + 1)) /\ V(3 + 1) = (V(3) ?? a(3 + 1))
        /\ V(4 + 1) = (V(4) ?? a(4 + 1)) /\ V(5 + 1) = (V(5) ?? a(5 + 1))
        /\ V(6 + 1) = (V(6) ?? a(6 + 1)) /\ V(7 + 1) = (V(7) ?? a(7 + 1))
        /\ V(8 + 1) = (V(8) ?? a(8 + 1)) /\ V(9 + 1) = (V(9) ?? a(9 + 1))
        /\ V(10 + 1) = (V(10) ?? a(10 + 1)) /\ V(11 + 1) = (V(11) ?? a(11 + 1))
        /\ V(12 + 1) = (V(12) ?? a(12 + 1))
    BY <1>1
  <2> QED
    BY <2>1
<1>4. V(1) = a(1)
  BY <1>2, <1>3, ChainRight
<1> QED
  BY <1>3, <1>4 DEF V, a

\* Nine axes after another one, bracketed either way.
LEMMA LongChain ==
    ASSUME NEW h, NEW a, NEW b, NEW c, NEW d, NEW e, NEW f, NEW g, NEW i, NEW j
    PROVE  (h ?? (a ?? b ?? c ?? d ?? e ?? f ?? g ?? i ?? j))
             = (h ?? a ?? b ?? c ?? d ?? e ?? f ?? g ?? i ?? j)
<1> DEFINE p2 == a ?? b
           p3 == p2 ?? c
           p4 == p3 ?? d
           p5 == p4 ?? e
           p6 == p5 ?? f
           p7 == p6 ?? g
           p8 == p7 ?? i
<1>1. (h ?? p2) = ((h ?? a) ?? b)
  BY ChainAssoc
<1>2. (h ?? p3) = ((h ?? p2) ?? c)
  BY ChainAssoc
<1>3. (h ?? p4) = ((h ?? p3) ?? d)
  BY ChainAssoc
<1>4. (h ?? p5) = ((h ?? p4) ?? e)
  BY ChainAssoc
<1>5. (h ?? p6) = ((h ?? p5) ?? f)
  BY ChainAssoc
<1>6. (h ?? p7) = ((h ?? p6) ?? g)
  BY ChainAssoc
<1>7. (h ?? p8) = ((h ?? p7) ?? i)
  BY ChainAssoc
<1>8. (h ?? (p8 ?? j)) = ((h ?? p8) ?? j)
  BY ChainAssoc
<1> QED
  BY <1>1, <1>2, <1>3, <1>4, <1>5, <1>6, <1>7, <1>8

\* The axes between the tier and acceptance.
DeepVerdict(c, b) ==
    At(1, c, b, MoreIfKnown(c.expected, b.expected))
        ?? At(2, c, b, MoreIfKnown(c.twoShanten, b.twoShanten))
        ?? At(3, c, b, MoreIfKnown(c.threeShanten, b.threeShanten))
        ?? MoreIfKnown(c.prospective, b.prospective)
        ?? TenpaiWait(c, b)
        ?? NextAcceptance(c, b)
        ?? At(0, c, b, MoreIfKnown(c.continuation, b.continuation))
        ?? At(0, c, b, MoreIfKnown(c.selfTsumo, b.selfTsumo))
        ?? At(0, c, b, MoreIfKnown(c.offense, b.offense))

\* The axes from acceptance on compare the merits u and v from the fifth on.
LaterAxesCompare(x, y, u, v) ==
    /\ More(x.remaining, y.remaining) = More(u[5], v[5])
    /\ More(x.types, y.types) = More(u[6], v[6])
    /\ ChiitoitsuWait(x, y) = More(u[7], v[7])
    /\ IishantenShape(x, y) = More(u[8], v[8])
    /\ Fewer(x.penalty, y.penalty) = More(u[9], v[9])
    /\ Fewer(x.floating, y.floating) = More(u[10], v[10])
    /\ Fewer(x.dora, y.dora) = More(u[11], v[11])
    /\ Fewer(x.valueHonor, y.valueHonor) = More(u[12], v[12])
    /\ Fewer(Flag(x.red), Flag(y.red)) = More(u[13], v[13])

\* If the deep axes compare the deep merits and the later axes the later ones, the comparator
\* is the verdict of the thirteen merits.
LEMMA AxesCompareMerits ==
    ASSUME NEW x, NEW y, NEW u, NEW v, Numbers(u, 13), Numbers(v, 13),
           BeforeAcceptance(x, y) = 0,
           DeepVerdict(x, y) = (More(u[1], v[1]) ?? More(u[2], v[2]) ?? More(u[3], v[3])
                                    ?? More(u[4], v[4])),
           LaterAxesCompare(x, y, u, v)
    PROVE  BeforeStableOrder(x, y) = Verdict(u, v, 13)
<1>1. BeforeStableOrder(x, y) = (DeepVerdict(x, y) ?? FromAcceptance(x, y))
  <2>1. \A a : (BeforeAcceptance(x, y) ?? a) = a
    BY ChainRight
  <2> QED
    BY <2>1 DEF BeforeStableOrder, DeepVerdict
<1>2. FromAcceptance(x, y) =
        (More(u[5], v[5]) ?? More(u[6], v[6]) ?? More(u[7], v[7]) ?? More(u[8], v[8])
            ?? More(u[9], v[9]) ?? More(u[10], v[10]) ?? More(u[11], v[11])
            ?? More(u[12], v[12]) ?? More(u[13], v[13]))
  BY DEF FromAcceptance, LaterAxesCompare
<1> QED
  BY <1>1, <1>2, LongChain, ThirteenMerits

\* Which of the axes after the tier compare at each shanten.
LEMMA DeepAtOne ==
    ASSUME NEW x, NEW y, x.shanten = 1, y.shanten = 1, None \notin {x.wait, y.wait}
    PROVE  DeepVerdict(x, y) = (MoreIfKnown(x.expected, y.expected)
                                 ?? MoreIfKnown(x.prospective, y.prospective)
                                 ?? More(x.wait, y.wait) ?? More(x.waitTypes, y.waitTypes))
<1>1. /\ \A r : At(1, x, y, r) = r /\ At(0, x, y, r) = 0 /\ At(2, x, y, r) = 0 /\ At(3, x, y, r) = 0
  BY DEF At
<1>2. NextAcceptance(x, y) = 0
  BY DEF NextAcceptance
<1>3. TenpaiWait(x, y) = (More(x.wait, y.wait) ?? More(x.waitTypes, y.waitTypes))
  BY <1>1 DEF TenpaiWait
<1> QED
  BY <1>1, <1>2, <1>3, ChainNone, ChainAssoc DEF DeepVerdict

\* From two shanten on progress, the prospective value and the next acceptance are compared,
LEMMA DeepFromTwo ==
    ASSUME NEW x, NEW y, x.shanten \in Nat, x.shanten >= 2, y.shanten = x.shanten,
           None \notin {x.next, y.next}
    PROVE  DeepVerdict(x, y) =
             ((IF x.shanten = 2 THEN MoreIfKnown(x.twoShanten, y.twoShanten)
               ELSE IF x.shanten = 3 THEN MoreIfKnown(x.threeShanten, y.threeShanten) ELSE 0)
                 ?? MoreIfKnown(x.prospective, y.prospective)
                 ?? More(x.next, y.next) ?? More(x.nextTypes, y.nextTypes))
<1>1. \A r : /\ At(0, x, y, r) = 0 /\ At(1, x, y, r) = 0
             /\ At(2, x, y, r) = IF x.shanten = 2 THEN r ELSE 0
             /\ At(3, x, y, r) = IF x.shanten = 3 THEN r ELSE 0
  BY DEF At
<1>2. NextAcceptance(x, y) = (More(x.next, y.next) ?? More(x.nextTypes, y.nextTypes))
  BY DEF NextAcceptance
<1>3. TenpaiWait(x, y) = 0
  BY <1>1 DEF TenpaiWait
<1> DEFINE p  == MoreIfKnown(x.prospective, y.prospective)
           n1 == More(x.next, y.next)
           n2 == More(x.nextTypes, y.nextTypes)
           a2 == At(2, x, y, MoreIfKnown(x.twoShanten, y.twoShanten))
           a3 == At(3, x, y, MoreIfKnown(x.threeShanten, y.threeShanten))
           h  == IF x.shanten = 2 THEN MoreIfKnown(x.twoShanten, y.twoShanten)
                 ELSE IF x.shanten = 3 THEN MoreIfKnown(x.threeShanten, y.threeShanten) ELSE 0
<1>4. DeepVerdict(x, y) = (0 ?? a2 ?? a3 ?? p ?? 0 ?? (n1 ?? n2) ?? 0 ?? 0 ?? 0)
  BY <1>1, <1>2, <1>3 DEF DeepVerdict
<1>5. (a2 ?? a3) = h
  <2>1. CASE x.shanten = 2
    <3>1. a2 = h /\ a3 = 0
      BY <1>1, <2>1
    <3> HIDE DEF a2, a3, h
    <3> QED
      BY <3>1, ChainNone
  <2>2. CASE x.shanten # 2
    <3>1. a2 = 0 /\ a3 = h
      BY <1>1, <2>2
    <3> HIDE DEF a2, a3, h
    <3> QED
      BY <3>1, ChainRight
  <2> QED
    BY <2>1, <2>2
<1>6. DeepVerdict(x, y) = (h ?? p ?? n1 ?? n2)
  <2> HIDE DEF a2, a3, h, p, n1, n2
  <2> QED
    BY <1>4, <1>5, ChainRight, ChainNone, ChainAssoc
<1> QED
  BY <1>6

\* in tenpai the continuation, the self-draw and the offence value.
LEMMA DeepAtTenpai ==
    ASSUME NEW x, NEW y, x.shanten = 0, y.shanten = 0, x.prospective = None
    PROVE  DeepVerdict(x, y) = (MoreIfKnown(x.continuation, y.continuation)
                                 ?? MoreIfKnown(x.selfTsumo, y.selfTsumo)
                                 ?? MoreIfKnown(x.offense, y.offense))
<1>1. /\ \A r : At(0, x, y, r) = r /\ At(1, x, y, r) = 0 /\ At(2, x, y, r) = 0 /\ At(3, x, y, r) = 0
  BY DEF At
<1>2. NextAcceptance(x, y) = 0
  BY DEF NextAcceptance
<1>3. TenpaiWait(x, y) = 0
  BY <1>1 DEF TenpaiWait
<1>4. MoreIfKnown(x.prospective, y.prospective) = 0
  BY DEF MoreIfKnown
<1> QED
  BY <1>1, <1>2, <1>3, <1>4, ChainRight, ChainNone DEF DeepVerdict

\* A record has the facts of a candidate that need no looking ahead.
Base(m, e) ==
    /\ m.shanten = e.shanten /\ m.standard = e.standard /\ m.isolated = e.isolated
    /\ m.honor = e.honor /\ m.red = e.red /\ m.complete = e.complete
    /\ m.chiitoi = e.chiitoi /\ m.remaining = e.remaining /\ m.types = e.types
    /\ m.penalty = e.penalty /\ m.floating = e.floating /\ m.dora = e.dora
    /\ m.valueHonor = e.valueHonor

\* Fewer of a number is more of its negation.
LEMMA FewerIsMore == \A a, b \in Int : Fewer(a, b) = More(-a, -b)
BY DEF Fewer, More

\* Among candidates of one shanten that both have, or both lack, the features of seven pairs
\* and of a standard hand, the axes from acceptance on compare the later merits.
LEMMA AcceptanceCompares ==
    ASSUME NEW i, NEW j, NEW S, NEW axis \in {"twoShanten", "full"}, NEW x, NEW y,
           evaluations[i] \in Candidate, evaluations[j] \in Candidate,
           Base(x, evaluations[i]), Base(y, evaluations[j]),
           x.shanten = y.shanten,
           (x.chiitoi = None <=> y.chiitoi = None), (x.standard = 1 <=> y.standard = 1)
    PROVE  LaterAxesCompare(x, y, Merit(i, S, axis), Merit(j, S, axis))
<1> DEFINE u == Merit(i, S, axis)
           v == Merit(j, S, axis)
           d == evaluations[i]
           e == evaluations[j]
<1>1. /\ u[5] = d.remaining /\ u[6] = d.types /\ u[7] = -d.chiitoi
      /\ u[8] = Flag(d.shanten = 1 /\ d.standard = 1 /\ d.complete)
      /\ u[9] = -d.penalty /\ u[10] = -d.floating /\ u[11] = -d.dora
      /\ u[12] = -d.valueHonor /\ u[13] = -Flag(d.red)
  BY MeritIs
<1>2. /\ v[5] = e.remaining /\ v[6] = e.types /\ v[7] = -e.chiitoi
      /\ v[8] = Flag(e.shanten = 1 /\ e.standard = 1 /\ e.complete)
      /\ v[9] = -e.penalty /\ v[10] = -e.floating /\ v[11] = -e.dora
      /\ v[12] = -e.valueHonor /\ v[13] = -Flag(e.red)
  BY MeritIs
<1>3. /\ d.penalty \in Int /\ d.floating \in Int /\ d.dora \in Int /\ d.valueHonor \in Int
      /\ e.penalty \in Int /\ e.floating \in Int /\ e.dora \in Int /\ e.valueHonor \in Int
      /\ d.chiitoi \in Int /\ e.chiitoi \in Int /\ d.shanten \in Nat /\ e.shanten \in Nat
  BY CandidateIs, OptionIsInt
<1>4. \A b : Flag(b) \in Int
  BY DEF Flag
<1>5. /\ x.remaining = d.remaining /\ x.types = d.types /\ x.chiitoi = d.chiitoi
      /\ x.penalty = d.penalty /\ x.floating = d.floating /\ x.dora = d.dora
      /\ x.valueHonor = d.valueHonor /\ x.red = d.red /\ x.complete = d.complete
      /\ x.shanten = d.shanten /\ x.standard = d.standard
      /\ y.remaining = e.remaining /\ y.types = e.types /\ y.chiitoi = e.chiitoi
      /\ y.penalty = e.penalty /\ y.floating = e.floating /\ y.dora = e.dora
      /\ y.valueHonor = e.valueHonor /\ y.red = e.red /\ y.complete = e.complete
      /\ y.shanten = e.shanten /\ y.standard = e.standard
  BY DEF Base
<1> HIDE DEF u, v, d, e
<1>6. ChiitoitsuWait(x, y) = More(u[7], v[7])
  <2>1. CASE x.chiitoi = None
    <3>1. ChiitoitsuWait(x, y) = 0 /\ u[7] = v[7] /\ v[7] \in Int
      BY <1>1, <1>2, <1>3, <1>5, <2>1 DEF ChiitoitsuWait
    <3> QED
      BY <3>1 DEF More
  <2>2. CASE x.chiitoi # None
    <3>1. ChiitoitsuWait(x, y) = Fewer(d.chiitoi, e.chiitoi)
      BY <1>5, <2>2 DEF ChiitoitsuWait
    <3> QED
      BY <1>1, <1>2, <1>3, <3>1, FewerIsMore
  <2> QED
    BY <2>1, <2>2
<1>7. IishantenShape(x, y) = More(u[8], v[8])
  <2>1. CASE x.shanten = 1 /\ x.standard = 1
    <3>1. IishantenShape(x, y) = More(Flag(d.complete), Flag(e.complete))
      BY <1>5, <2>1 DEF IishantenShape, At
    <3>2. u[8] = Flag(d.complete) /\ v[8] = Flag(e.complete)
      <4>1. d.shanten = 1 /\ d.standard = 1 /\ e.shanten = 1 /\ e.standard = 1
        BY <1>5, <2>1
      <4> QED
        BY <1>1, <1>2, <4>1 DEF Flag
    <3> QED
      BY <3>1, <3>2
  <2>2. CASE ~(x.shanten = 1 /\ x.standard = 1)
    <3>1. IishantenShape(x, y) = 0
      BY <1>5, <2>2 DEF IishantenShape, At
    <3>2. u[8] = 0 /\ v[8] = 0
      BY <1>1, <1>2, <1>5, <2>2 DEF Flag
    <3>3. More(0, 0) = 0
      BY DEF More
    <3> QED
      BY <3>1, <3>2, <3>3
  <2> QED
    BY <2>1, <2>2
<1>8. Fewer(Flag(x.red), Flag(y.red)) = More(u[13], v[13])
  BY <1>1, <1>2, <1>4, <1>5, FewerIsMore
<1>9. /\ Fewer(x.penalty, y.penalty) = More(u[9], v[9])
      /\ Fewer(x.floating, y.floating) = More(u[10], v[10])
      /\ Fewer(x.dora, y.dora) = More(u[11], v[11])
      /\ Fewer(x.valueHonor, y.valueHonor) = More(u[12], v[12])
  BY <1>1, <1>2, <1>3, <1>5, FewerIsMore
<1>10. More(x.remaining, y.remaining) = More(u[5], v[5]) /\ More(x.types, y.types) = More(u[6], v[6])
  BY <1>1, <1>2, <1>5
<1> QED
  BY <1>6, <1>7, <1>8, <1>9, <1>10 DEF u, v, LaterAxesCompare

-----------------------------------------------------------------------------
(* The axes a cohort keeps. *)

\* The fields of a candidate, and of what the metrics hold of it.
AllFields ==
    {"shanten", "standard", "isolated", "honor", "red", "complete", "chiitoi", "remaining", "types",
     "penalty", "floating", "dora", "valueHonor", "expected", "prospective", "wait", "waitTypes",
     "next", "nextTypes", "twoShanten", "full", "threeShanten", "untilRyukyoku", "furiten",
     "offense", "selfTsumo", "continuation", "baseReach"}

\* The fields of a candidate.
LEMMA FieldsAre == \A e \in Candidate : DOMAIN e = AllFields
BY DEF Candidate, AllFields

\* What the resolution of the axes changes in a candidate and what it keeps.
LEMMA ResolveIs ==
    ASSUME NEW ms, NEW i \in DOMAIN ms, DOMAIN ms[i] = AllFields
    PROVE  LET v == Resolve(ms)[i]
           IN  /\ v.expected = Keep(ms, i, "expected")
               /\ v.prospective = Keep(ms, i, "prospective")
               /\ v.twoShanten = Keep(ms, i, "twoShanten")
               /\ v.threeShanten = Keep(ms, i, "threeShanten")
               /\ v.offense = KeepTenpai(ms, i, "offense")
               /\ v.selfTsumo = KeepTenpai(ms, i, "selfTsumo")
               /\ v.continuation = KeepTenpai(ms, i, "continuation")
               /\ v.wait = ms[i].wait /\ v.waitTypes = ms[i].waitTypes
               /\ v.next = ms[i].next /\ v.nextTypes = ms[i].nextTypes
               /\ v.untilRyukyoku = ms[i].untilRyukyoku
               /\ Base(v, ms[i])
               /\ DOMAIN v = AllFields
BY DEF Resolve, AllFields, Base

\* Resolving the axes leaves the best tier as it is.
LEMMA ResolveKeepsTheTier ==
    ASSUME NEW n, NEW ms, AreViews(ms, n), \A i \in DOMAIN ms : DOMAIN ms[i] = AllFields
    PROVE  /\ AreViews(Resolve(ms), n)
           /\ DOMAIN Resolve(ms) = DOMAIN ms
           /\ Lowest(Resolve(ms)) = Lowest(ms)
<1> DEFINE vs == Resolve(ms)
<1>1. DOMAIN vs = DOMAIN ms
  BY DEF Resolve
<1>2. \A i \in DOMAIN ms : Base(vs[i], ms[i])
  BY ResolveIs
<1> HIDE DEF vs
<1>3. \A i \in DOMAIN ms : Rank(vs[i]) = Rank(ms[i]) /\ vs[i].shanten = ms[i].shanten
  BY <1>2 DEF Base, Rank, Eligible
<1>4. AreViews(vs, n) /\ Lowest(vs) = Lowest(ms)
  BY <1>1, <1>3 DEF AreViews, Lowest
<1> QED
  BY <1>1, <1>4 DEF vs

\* The cohort of a candidate of the best tier is the best tier.
LEMMA CohortIs ==
    ASSUME NEW n, NEW ms, AreViews(ms, n), NEW i \in Lowest(ms)
    PROVE  Cohort(ms, i) = Lowest(ms)
<1>1. i \in DOMAIN ms /\ Lowest(ms) \subseteq DOMAIN ms
  BY DEF Lowest
<1>2. \A j \in DOMAIN ms : BeforeAcceptance(ms[i], ms[j]) = 0 <=> j \in Lowest(ms)
  BY <1>1, BeforeDecides
<1> QED
  BY <1>1, <1>2 DEF Cohort

\* What the places of G stand for.
Standing(c, G) == {c[k] : k \in G}

\* An axis that is kept only if the whole cohort has it compares as the merit that counts only
\* if the whole tier has it.
LEMMA KeptIsMerit ==
    ASSUME NEW n, NEW ms, AreViews(ms, n), NEW i \in Lowest(ms), NEW j \in Lowest(ms), NEW c,
           NEW field, NEW axis \in DeepAxes,
           \A k \in Lowest(ms) : evaluations[c[k]] \in Candidate,
           \A k \in Lowest(ms) : ms[k][field] = evaluations[c[k]][axis]
    PROVE  MoreIfKnown(Keep(ms, i, field), Keep(ms, j, field))
             = More(IfAllKnown(c[i], Standing(c, Lowest(ms)), axis),
                    IfAllKnown(c[j], Standing(c, Lowest(ms)), axis))
<1> DEFINE G == Lowest(ms)
           C == Standing(c, G)
<1>1. Cohort(ms, i) = G /\ Cohort(ms, j) = G
  BY CohortIs
<1>2. CASE \A k \in G : ms[k][field] # None
  <2>1. Keep(ms, i, field) = ms[i][field] /\ Keep(ms, j, field) = ms[j][field]
    BY <1>1, <1>2 DEF Keep, KnownInCohort
  <2>2. \A k \in C : evaluations[k][axis] # None
    BY <1>2 DEF Standing
  <2>3. /\ IfAllKnown(c[i], C, axis) = evaluations[c[i]][axis]
        /\ IfAllKnown(c[j], C, axis) = evaluations[c[j]][axis]
    BY <2>2 DEF IfAllKnown
  <2>4. ms[i][field] # None /\ ms[j][field] # None
    BY <1>2
  <2> QED
    BY <2>1, <2>3, <2>4 DEF MoreIfKnown
<1>3. CASE ~\A k \in G : ms[k][field] # None
  <2>1. Keep(ms, i, field) = None /\ Keep(ms, j, field) = None
    BY <1>1, <1>3 DEF Keep, KnownInCohort
  <2>2. ~\A k \in C : evaluations[k][axis] # None
    BY <1>3 DEF Standing
  <2>3. IfAllKnown(c[i], C, axis) = 0 /\ IfAllKnown(c[j], C, axis) = 0
    BY <2>2 DEF IfAllKnown
  <2>4. More(0, 0) = 0
    BY DEF More
  <2> QED
    BY <2>1, <2>3, <2>4 DEF MoreIfKnown
<1> QED
  BY <1>2, <1>3

\* The values that count at the shanten of a candidate, but for the one at two shanten and the
\* continuation value.
Computed(m, e) ==
    /\ e.shanten = 1 => /\ m.expected = e.expected /\ m.prospective = e.prospective
                        /\ m.wait = e.wait /\ m.waitTypes = e.waitTypes
    /\ e.shanten >= 2 => /\ m.prospective = e.prospective
                         /\ m.next = e.next /\ m.nextTypes = e.nextTypes
    /\ e.shanten = 3 => m.threeShanten = e.threeShanten
    /\ e.shanten = 0 => /\ m.prospective = None /\ m.furiten = e.furiten
                        /\ m.offense = e.offense /\ m.selfTsumo = e.selfTsumo

\* The candidates that the places of G stand for are all in furiten and all reached.
AllContinue(c, G) == \A k \in G : evaluations[c[k]].furiten = "yes" /\ evaluations[c[k]].baseReach

\* What the metrics hold of the candidates of the best tier.  Place i of ms stands for
\* candidate c[i], and axis says which value was computed at two shanten.
Measured(ms, c, axis) ==
    LET G == Lowest(ms)
    IN  /\ \A i \in DOMAIN ms : DOMAIN ms[i] = AllFields
        /\ \A i \in G : /\ c[i] \in DOMAIN evaluations
                        /\ Base(ms[i], evaluations[c[i]])
                        /\ Computed(ms[i], evaluations[c[i]])
        /\ \A i, j \in G : /\ (ms[i].chiitoi = None <=> ms[j].chiitoi = None)
                           /\ (ms[i].standard = 1 <=> ms[j].standard = 1)
        /\ \A i \in G : ms[i].shanten = 0 =>
              ms[i].continuation = IF AllContinue(c, G) THEN evaluations[c[i]].continuation ELSE None
        /\ \/ \A i \in G : ms[i].shanten = 2 => ms[i].twoShanten = evaluations[c[i]][axis]
           \/ /\ \E i \in G : evaluations[c[i]][axis] = None
              /\ \A i \in G : ms[i].twoShanten = None

\* The one axis that a cohort of tenpai keeps.
LEMMA TenpaiCompares ==
    ASSUME NEW n, NEW ms, NEW c, NEW axis, AreViews(ms, n), Measured(ms, c, axis),
           \A k \in DOMAIN evaluations : evaluations[k] \in Candidate,
           NEW i \in Lowest(ms), NEW j \in Lowest(ms), ms[i].shanten = 0
    PROVE  (MoreIfKnown(KeepTenpai(ms, i, "continuation"), KeepTenpai(ms, j, "continuation"))
              ?? MoreIfKnown(KeepTenpai(ms, i, "selfTsumo"), KeepTenpai(ms, j, "selfTsumo"))
              ?? MoreIfKnown(KeepTenpai(ms, i, "offense"), KeepTenpai(ms, j, "offense")))
             = More(TenpaiMerit(c[i], Standing(c, Lowest(ms))), TenpaiMerit(c[j], Standing(c, Lowest(ms))))
<1> DEFINE G == Lowest(ms)
           C == Standing(c, G)
           F == {ms[k].furiten : k \in G}
           known(a) == \A k \in G : ms[k][a] # None
           value(k, a) == evaluations[c[k]][a]
           continued == \A k \in C : evaluations[k].baseReach /\ evaluations[k].continuation # None
           verdict(a) == MoreIfKnown(KeepTenpai(ms, i, a), KeepTenpai(ms, j, a))
<1>1. Cohort(ms, i) = G /\ Cohort(ms, j) = G
  BY CohortIs
<1>2. \A k \in G : k \in DOMAIN ms /\ ms[k].shanten = 0
  <2>1. DOMAIN ms # {} /\ G \subseteq DOMAIN ms
    BY DEF Lowest
  <2> QED
    BY <2>1, LowestIs
<1>3. \A k \in G : /\ c[k] \in DOMAIN evaluations
                   /\ ms[k].furiten = evaluations[c[k]].furiten
                   /\ ms[k].offense = evaluations[c[k]].offense
                   /\ ms[k].selfTsumo = evaluations[c[k]].selfTsumo
                   /\ ms[k].continuation = IF AllContinue(c, G) THEN evaluations[c[k]].continuation
                                           ELSE None
  BY <1>2 DEF Measured, Base, Computed
<1>4. F = {evaluations[k].furiten : k \in C}
  BY <1>3 DEF Standing
<1>5. \A k \in G : TenpaiMerit(c[k], C) =
         IF F = {"no"} THEN IfAllKnown(c[k], C, "offense")
         ELSE IF F = {"yes"} /\ continued THEN evaluations[c[k]].continuation
         ELSE IF F \in {{"yes"}, {"yes", "no"}} THEN IfAllKnown(c[k], C, "selfTsumo")
         ELSE 0
  BY <1>4 DEF TenpaiMerit
<1>6. \A k \in {i, j} : TenpaiAxis(ms, k) =
         IF F = {"no"} /\ known("offense") THEN "offense"
         ELSE IF F = {"yes"} /\ known("continuation") THEN "continuation"
         ELSE IF F \in {{"yes"}, {"yes", "no"}} /\ known("selfTsumo") THEN "selfTsumo"
         ELSE "none"
  BY <1>1 DEF TenpaiAxis, KnownInCohort
<1>7. \A k \in G : /\ IfAllKnown(c[k], C, "offense") = IF known("offense") THEN ms[k].offense ELSE 0
                   /\ IfAllKnown(c[k], C, "selfTsumo") = IF known("selfTsumo") THEN ms[k].selfTsumo ELSE 0
  <2>1. (\A k \in C : evaluations[k].offense # None) <=> known("offense")
    BY <1>3 DEF Standing
  <2>2. (\A k \in C : evaluations[k].selfTsumo # None) <=> known("selfTsumo")
    BY <1>3 DEF Standing
  <2> QED
    BY <1>3, <2>1, <2>2 DEF IfAllKnown
<1>8. F = {"yes"} => (known("continuation") <=> continued)
  <2> SUFFICES ASSUME F = {"yes"} PROVE known("continuation") <=> continued
    OBVIOUS
  <2>1. \A k \in G : evaluations[c[k]].furiten = "yes"
    BY <1>3
  <2>2. AllContinue(c, G) <=> \A k \in C : evaluations[k].baseReach
    BY <2>1 DEF AllContinue, Standing
  <2>3. CASE AllContinue(c, G)
    <3>1. known("continuation") <=> \A k \in C : evaluations[k].continuation # None
      BY <1>3, <2>3 DEF Standing
    <3> QED
      BY <2>2, <2>3, <3>1
  <2>4. CASE ~AllContinue(c, G)
    BY <1>3, <2>2, <2>4
  <2> QED
    BY <2>3, <2>4
<1>9. F = {"yes"} /\ continued => \A k \in G : ms[k].continuation = evaluations[c[k]].continuation
  <2>1. F = {"yes"} /\ continued => AllContinue(c, G)
    BY <1>3 DEF AllContinue, Standing
  <2> QED
    BY <1>3, <2>1
<1>10. /\ \A a : TenpaiAxis(ms, i) # a /\ TenpaiAxis(ms, j) # a => verdict(a) = 0
       /\ \A a : TenpaiAxis(ms, i) = a /\ TenpaiAxis(ms, j) = a /\ known(a)
            => verdict(a) = More(ms[i][a], ms[j][a])
  BY DEF KeepTenpai, MoreIfKnown
<1>11. More(0, 0) = 0
  BY DEF More
<1> HIDE DEF verdict, known, continued, F, G, C
<1> SUFFICES (verdict("continuation") ?? verdict("selfTsumo") ?? verdict("offense"))
               = More(TenpaiMerit(c[i], C), TenpaiMerit(c[j], C))
  BY DEF verdict, C, G
<1>12. i \in G /\ j \in G
  BY DEF G
<1>13. CASE F = {"no"} /\ known("offense")
  <2>1. TenpaiAxis(ms, i) = "offense" /\ TenpaiAxis(ms, j) = "offense"
    BY <1>6, <1>13
  <2>2. verdict("continuation") = 0 /\ verdict("selfTsumo") = 0
    BY <1>10, <2>1
  <2>3. verdict("offense") = More(ms[i].offense, ms[j].offense)
    BY <1>10, <1>13, <2>1
  <2>4. TenpaiMerit(c[i], C) = ms[i].offense /\ TenpaiMerit(c[j], C) = ms[j].offense
    BY <1>5, <1>7, <1>12, <1>13
  <2> QED
    BY <2>2, <2>3, <2>4, ChainRight
<1>14. CASE F = {"yes"} /\ continued
  <2>1. TenpaiAxis(ms, i) = "continuation" /\ TenpaiAxis(ms, j) = "continuation"
    BY <1>6, <1>8, <1>14
  <2>2. verdict("offense") = 0 /\ verdict("selfTsumo") = 0
    BY <1>10, <2>1
  <2>3. verdict("continuation") = More(ms[i].continuation, ms[j].continuation)
    BY <1>8, <1>10, <1>14, <2>1
  <2>4. TenpaiMerit(c[i], C) = ms[i].continuation /\ TenpaiMerit(c[j], C) = ms[j].continuation
    BY <1>5, <1>9, <1>12, <1>14
  <2> QED
    BY <2>2, <2>3, <2>4, ChainNone
<1>15. CASE /\ F \in {{"yes"}, {"yes", "no"}} /\ known("selfTsumo")
            /\ ~(F = {"yes"} /\ continued)
  <2>1. TenpaiAxis(ms, i) = "selfTsumo" /\ TenpaiAxis(ms, j) = "selfTsumo"
    BY <1>6, <1>8, <1>15
  <2>2. verdict("continuation") = 0 /\ verdict("offense") = 0
    BY <1>10, <2>1
  <2>3. verdict("selfTsumo") = More(ms[i].selfTsumo, ms[j].selfTsumo)
    BY <1>10, <1>15, <2>1
  <2>4. TenpaiMerit(c[i], C) = ms[i].selfTsumo /\ TenpaiMerit(c[j], C) = ms[j].selfTsumo
    BY <1>5, <1>7, <1>12, <1>15
  <2> QED
    BY <2>2, <2>3, <2>4, ChainNone, ChainRight
<1>16. CASE /\ ~(F = {"no"} /\ known("offense")) /\ ~(F = {"yes"} /\ continued)
            /\ ~(F \in {{"yes"}, {"yes", "no"}} /\ known("selfTsumo"))
  <2>1. TenpaiAxis(ms, i) = "none" /\ TenpaiAxis(ms, j) = "none"
    BY <1>6, <1>8, <1>16
  <2>2. verdict("continuation") = 0 /\ verdict("offense") = 0 /\ verdict("selfTsumo") = 0
    BY <1>10, <2>1
  <2>3. TenpaiMerit(c[i], C) = 0 /\ TenpaiMerit(c[j], C) = 0
    BY <1>5, <1>7, <1>12, <1>16
  <2> QED
    BY <1>11, <2>2, <2>3, ChainNone
<1> QED
  BY <1>13, <1>14, <1>15, <1>16

\* The deep axes of the views compare the deep merits.
LEMMA DeepCompares ==
    ASSUME evaluations \in Inputs, NEW n, NEW ms, NEW c, NEW axis \in {"twoShanten", "full"},
           AreViews(ms, n), Measured(ms, c, axis), NEW i \in Lowest(ms), NEW j \in Lowest(ms)
    PROVE  LET u == Merit(c[i], Standing(c, Lowest(ms)), axis)
               v == Merit(c[j], Standing(c, Lowest(ms)), axis)
           IN  DeepVerdict(Resolve(ms)[i], Resolve(ms)[j]) =
                 (More(u[1], v[1]) ?? More(u[2], v[2]) ?? More(u[3], v[3]) ?? More(u[4], v[4]))
<1> DEFINE G == Lowest(ms)
           C == Standing(c, G)
           u == Merit(c[i], C, axis)
           v == Merit(c[j], C, axis)
           x == Resolve(ms)[i]
           y == Resolve(ms)[j]
           d == evaluations[c[i]]
           e == evaluations[c[j]]
<1>1. i \in DOMAIN ms /\ j \in DOMAIN ms /\ i \in G /\ j \in G /\ DOMAIN ms # {}
  BY DEF Lowest
<1>2. /\ DOMAIN ms[i] = AllFields /\ DOMAIN ms[j] = AllFields
      /\ c[i] \in DOMAIN evaluations /\ c[j] \in DOMAIN evaluations
      /\ Base(ms[i], d) /\ Base(ms[j], e) /\ Computed(ms[i], d) /\ Computed(ms[j], e)
  BY <1>1 DEF Measured
<1>3. d \in Candidate /\ e \in Candidate /\ \A k \in DOMAIN evaluations : evaluations[k] \in Candidate
  BY <1>2, BestTierIs
<1>4. d.shanten \in Nat /\ d.shanten = e.shanten /\ x.shanten = d.shanten /\ y.shanten = d.shanten
      /\ ms[i].shanten = d.shanten /\ ms[j].shanten = d.shanten
  <2>1. ms[i].shanten = ms[j].shanten
    BY <1>1, LowestIs
  <2>2. Base(x, ms[i]) /\ Base(y, ms[j])
    BY <1>1, <1>2, ResolveIs
  <2> QED
    BY <1>2, <1>3, <2>1, <2>2, CandidateIs DEF Base
<1>5. /\ x.expected = Keep(ms, i, "expected") /\ y.expected = Keep(ms, j, "expected")
      /\ x.prospective = Keep(ms, i, "prospective") /\ y.prospective = Keep(ms, j, "prospective")
      /\ x.twoShanten = Keep(ms, i, "twoShanten") /\ y.twoShanten = Keep(ms, j, "twoShanten")
      /\ x.threeShanten = Keep(ms, i, "threeShanten") /\ y.threeShanten = Keep(ms, j, "threeShanten")
      /\ x.offense = KeepTenpai(ms, i, "offense") /\ y.offense = KeepTenpai(ms, j, "offense")
      /\ x.selfTsumo = KeepTenpai(ms, i, "selfTsumo") /\ y.selfTsumo = KeepTenpai(ms, j, "selfTsumo")
      /\ x.continuation = KeepTenpai(ms, i, "continuation")
      /\ y.continuation = KeepTenpai(ms, j, "continuation")
      /\ x.wait = ms[i].wait /\ y.wait = ms[j].wait
      /\ x.waitTypes = ms[i].waitTypes /\ y.waitTypes = ms[j].waitTypes
      /\ x.next = ms[i].next /\ y.next = ms[j].next
      /\ x.nextTypes = ms[i].nextTypes /\ y.nextTypes = ms[j].nextTypes
  BY <1>1, <1>2, ResolveIs
<1>6. /\ d.shanten = 1 => None \notin {d.wait, d.waitTypes, e.wait, e.waitTypes}
      /\ d.shanten >= 2 => None \notin {d.next, d.nextTypes, e.next, e.nextTypes}
  BY <1>2, <1>4, InputsAssumption
<1>7. /\ u[1] = DeepMerit(c[i], C, axis)[1] /\ u[2] = DeepMerit(c[i], C, axis)[2]
      /\ u[3] = DeepMerit(c[i], C, axis)[3] /\ u[4] = DeepMerit(c[i], C, axis)[4]
      /\ v[1] = DeepMerit(c[j], C, axis)[1] /\ v[2] = DeepMerit(c[j], C, axis)[2]
      /\ v[3] = DeepMerit(c[j], C, axis)[3] /\ v[4] = DeepMerit(c[j], C, axis)[4]
  BY <1>3, MeritIs
<1>8. \A k \in G : /\ evaluations[c[k]] \in Candidate
                   /\ evaluations[c[k]].shanten = d.shanten
                   /\ Computed(ms[k], evaluations[c[k]])
  <2> TAKE k \in G
  <2>1. c[k] \in DOMAIN evaluations /\ Base(ms[k], evaluations[c[k]]) /\ Computed(ms[k], evaluations[c[k]])
    BY DEF Measured
  <2>2. ms[k].shanten = ms[i].shanten
    BY <1>1, LowestIs
  <2> QED
    BY <1>3, <1>4, <2>1, <2>2 DEF Base
<1>9. More(0, 0) = 0
  BY DEF More
<1> HIDE DEF u, v, d, e, x, y, G, C
<1>10. d.shanten >= 1 =>
         MoreIfKnown(x.prospective, y.prospective)
           = More(IfAllKnown(c[i], C, "prospective"), IfAllKnown(c[j], C, "prospective"))
  <2> SUFFICES ASSUME d.shanten >= 1
               PROVE  MoreIfKnown(x.prospective, y.prospective)
                        = More(IfAllKnown(c[i], C, "prospective"), IfAllKnown(c[j], C, "prospective"))
    OBVIOUS
  <2>1. \A k \in G : ms[k]["prospective"] = evaluations[c[k]]["prospective"]
    <3>1. d.shanten = 1 \/ d.shanten >= 2
      BY <1>4
    <3> QED
      BY <1>8, <3>1 DEF Computed
  <2>2. "prospective" \in DeepAxes
    BY DEF DeepAxes
  <2> QED
    BY <1>5, <1>8, <2>1, <2>2, KeptIsMerit DEF G, C
<1>11. CASE d.shanten = 0
  <2>1. x.prospective = None
    <3>1. ms[i].prospective = None
      BY <1>2, <1>11 DEF Computed
    <3> QED
      BY <1>5, <3>1 DEF Keep
  <2>2. DeepVerdict(x, y) = More(TenpaiMerit(c[i], C), TenpaiMerit(c[j], C))
    <3>1. DeepVerdict(x, y) = (MoreIfKnown(x.continuation, y.continuation)
                                 ?? MoreIfKnown(x.selfTsumo, y.selfTsumo)
                                 ?? MoreIfKnown(x.offense, y.offense))
      BY <1>4, <1>11, <2>1, DeepAtTenpai
    <3> QED
      BY <1>3, <1>4, <1>5, <1>11, <3>1, TenpaiCompares DEF G, C
  <2>3. /\ u[1] = TenpaiMerit(c[i], C) /\ u[2] = 0 /\ u[3] = 0 /\ u[4] = 0
        /\ v[1] = TenpaiMerit(c[j], C) /\ v[2] = 0 /\ v[3] = 0 /\ v[4] = 0
    <3>1. /\ DeepMerit(c[i], C, axis) = <<TenpaiMerit(c[i], C), 0, 0, 0>>
          /\ DeepMerit(c[j], C, axis) = <<TenpaiMerit(c[j], C), 0, 0, 0>>
      BY <1>3, <1>4, <1>11, DeepIs DEF d, e
    <3> QED
      BY <1>7, <3>1
  <2> QED
    BY <1>9, <2>2, <2>3, ChainNone DEF u, v, x, y, C, G
<1>12. CASE d.shanten = 1
  <2>1. /\ x.wait = d.wait /\ y.wait = e.wait /\ x.waitTypes = d.waitTypes /\ y.waitTypes = e.waitTypes
    BY <1>2, <1>4, <1>5, <1>12 DEF Computed
  <2>2. DeepVerdict(x, y) = (MoreIfKnown(x.expected, y.expected)
                              ?? MoreIfKnown(x.prospective, y.prospective)
                              ?? More(d.wait, e.wait) ?? More(d.waitTypes, e.waitTypes))
    BY <1>4, <1>6, <1>12, <2>1, DeepAtOne
  <2>3. MoreIfKnown(x.expected, y.expected)
          = More(IfAllKnown(c[i], C, "expected"), IfAllKnown(c[j], C, "expected"))
    <3>1. \A k \in G : ms[k]["expected"] = evaluations[c[k]]["expected"]
      BY <1>8, <1>12 DEF Computed
    <3>2. "expected" \in DeepAxes
      BY DEF DeepAxes
    <3> QED
      BY <1>5, <1>8, <3>1, <3>2, KeptIsMerit DEF G, C
  <2>4. /\ u[1] = IfAllKnown(c[i], C, "expected") /\ v[1] = IfAllKnown(c[j], C, "expected")
        /\ u[2] = IfAllKnown(c[i], C, "prospective") /\ v[2] = IfAllKnown(c[j], C, "prospective")
        /\ u[3] = d.wait /\ u[4] = d.waitTypes /\ v[3] = e.wait /\ v[4] = e.waitTypes
    <3>1. /\ DeepMerit(c[i], C, axis) = <<IfAllKnown(c[i], C, "expected"),
                                          IfAllKnown(c[i], C, "prospective"), d.wait, d.waitTypes>>
          /\ DeepMerit(c[j], C, axis) = <<IfAllKnown(c[j], C, "expected"),
                                          IfAllKnown(c[j], C, "prospective"), e.wait, e.waitTypes>>
      BY <1>3, <1>4, <1>12, DeepIs DEF d, e
    <3> QED
      BY <1>7, <3>1
  <2> QED
    BY <1>10, <1>12, <2>2, <2>3, <2>4 DEF u, v, x, y, C, G
<1>13. CASE d.shanten >= 2
  <2>1. /\ x.next = d.next /\ y.next = e.next /\ x.nextTypes = d.nextTypes /\ y.nextTypes = e.nextTypes
    BY <1>2, <1>4, <1>5, <1>13 DEF Computed
  <2> DEFINE h == IF d.shanten = 2 THEN MoreIfKnown(x.twoShanten, y.twoShanten)
                  ELSE IF d.shanten = 3 THEN MoreIfKnown(x.threeShanten, y.threeShanten) ELSE 0
  <2>2. DeepVerdict(x, y) = (h ?? MoreIfKnown(x.prospective, y.prospective)
                               ?? More(d.next, e.next) ?? More(d.nextTypes, e.nextTypes))
    BY <1>4, <1>6, <1>13, <2>1, DeepFromTwo
  <2>3. d.shanten >= 1
    BY <1>4, <1>13
  <2>4. /\ u[2] = IfAllKnown(c[i], C, "prospective") /\ v[2] = IfAllKnown(c[j], C, "prospective")
        /\ u[3] = d.next /\ u[4] = d.nextTypes /\ v[3] = e.next /\ v[4] = e.nextTypes
        /\ d.shanten = 2 => u[1] = IfAllKnown(c[i], C, axis) /\ v[1] = IfAllKnown(c[j], C, axis)
        /\ d.shanten = 3 => u[1] = IfAllKnown(c[i], C, "threeShanten")
                            /\ v[1] = IfAllKnown(c[j], C, "threeShanten")
        /\ d.shanten > 3 => u[1] = 0 /\ v[1] = 0
    <3>1. CASE d.shanten = 2
      <4>1. /\ DeepMerit(c[i], C, axis) = <<IfAllKnown(c[i], C, axis),
                                            IfAllKnown(c[i], C, "prospective"), d.next, d.nextTypes>>
            /\ DeepMerit(c[j], C, axis) = <<IfAllKnown(c[j], C, axis),
                                            IfAllKnown(c[j], C, "prospective"), e.next, e.nextTypes>>
        BY <1>3, <1>4, <3>1, DeepIs DEF d, e
      <4> QED
        BY <1>7, <3>1, <4>1
    <3>2. CASE d.shanten = 3
      <4>1. /\ DeepMerit(c[i], C, axis) = <<IfAllKnown(c[i], C, "threeShanten"),
                                            IfAllKnown(c[i], C, "prospective"), d.next, d.nextTypes>>
            /\ DeepMerit(c[j], C, axis) = <<IfAllKnown(c[j], C, "threeShanten"),
                                            IfAllKnown(c[j], C, "prospective"), e.next, e.nextTypes>>
        BY <1>3, <1>4, <3>2, DeepIs DEF d, e
      <4> QED
        BY <1>7, <3>2, <4>1
    <3>3. CASE d.shanten > 3
      <4>1. /\ DeepMerit(c[i], C, axis) = <<0, IfAllKnown(c[i], C, "prospective"), d.next, d.nextTypes>>
            /\ DeepMerit(c[j], C, axis) = <<0, IfAllKnown(c[j], C, "prospective"), e.next, e.nextTypes>>
        BY <1>3, <1>4, <3>3, DeepIs DEF d, e
      <4> QED
        BY <1>4, <1>7, <3>3, <4>1
    <3> QED
      BY <1>4, <1>13, <3>1, <3>2, <3>3
  <2>5. h = More(u[1], v[1])
    <3>1. CASE d.shanten = 2
      <4>1. MoreIfKnown(x.twoShanten, y.twoShanten) = More(IfAllKnown(c[i], C, axis), IfAllKnown(c[j], C, axis))
        <5>1. CASE \A k \in G : ms[k]["twoShanten"] = evaluations[c[k]][axis]
          <6>1. axis \in DeepAxes
            BY DEF DeepAxes
          <6> QED
            BY <1>5, <1>8, <5>1, <6>1, KeptIsMerit DEF G, C
        <5>2. CASE ~\A k \in G : ms[k]["twoShanten"] = evaluations[c[k]][axis]
          <6>1. \A k \in G : ms[k].shanten = 2
            <7>1. \A k \in G : Base(ms[k], evaluations[c[k]])
              BY DEF Measured, G
            <7> QED
              BY <1>8, <3>1, <7>1 DEF Base
          <6>2. (\E k \in G : evaluations[c[k]][axis] = None) /\ \A k \in G : ms[k].twoShanten = None
            BY <5>2, <6>1 DEF Measured, G
          <6>3. x.twoShanten = None
            BY <1>1, <1>5, <6>2 DEF Keep, G
          <6>4. ~\A k \in C : evaluations[k][axis] # None
            BY <6>2 DEF C, Standing
          <6>5. IfAllKnown(c[i], C, axis) = 0 /\ IfAllKnown(c[j], C, axis) = 0
            BY <6>4 DEF IfAllKnown
          <6> QED
            BY <1>9, <6>3, <6>5 DEF MoreIfKnown
        <5> QED
          BY <5>1, <5>2
      <4> QED
        BY <2>4, <3>1, <4>1
    <3>2. CASE d.shanten = 3
      <4>1. \A k \in G : ms[k]["threeShanten"] = evaluations[c[k]]["threeShanten"]
        BY <1>8, <3>2 DEF Computed
      <4>2. "threeShanten" \in DeepAxes
        BY DEF DeepAxes
      <4>3. MoreIfKnown(x.threeShanten, y.threeShanten)
              = More(IfAllKnown(c[i], C, "threeShanten"), IfAllKnown(c[j], C, "threeShanten"))
        BY <1>5, <1>8, <4>1, <4>2, KeptIsMerit DEF G, C
      <4> QED
        BY <2>4, <3>2, <4>3
    <3>3. CASE d.shanten > 3
      BY <1>4, <1>9, <2>4, <3>3
    <3> QED
      BY <1>4, <1>13, <3>1, <3>2, <3>3
  <2> HIDE DEF h
  <2> QED
    BY <1>10, <2>2, <2>3, <2>4, <2>5 DEF u, v, x, y, C, G
<1> QED
  BY <1>4, <1>11, <1>12, <1>13

\* The merits of the candidates that the places of the best tier stand for.
Merits(ms, c, axis) ==
    [i \in Lowest(ms) |-> Merit(c[i], Standing(c, Lowest(ms)), axis)]

\* The merits of the candidate that a place of the metrics stands for are thirteen integers.
LEMMA MeritsAreNumbers ==
    ASSUME evaluations \in Inputs, NEW ms, NEW c, NEW axis \in {"twoShanten", "full"},
           Measured(ms, c, axis), NEW i \in Lowest(ms)
    PROVE  /\ Merits(ms, c, axis)[i] = Merit(c[i], Standing(c, Lowest(ms)), axis)
           /\ Numbers(Merits(ms, c, axis)[i], 13) /\ DOMAIN Merits(ms, c, axis)[i] = 1 .. 13
<1>1. c[i] \in DOMAIN evaluations
  BY DEF Measured
<1>2. evaluations[c[i]] \in Candidate
  BY <1>1, BestTierIs
<1> QED
  BY <1>2, MeritIs DEF Merits

\* For measured candidates the comparator of the resolved views is the verdict of the merits.
LEMMA ViewsCompareMerits ==
    ASSUME evaluations \in Inputs, NEW n, NEW ms, NEW c, NEW axis \in {"twoShanten", "full"},
           AreViews(ms, n), Measured(ms, c, axis), NEW i \in Lowest(ms), NEW j \in Lowest(ms)
    PROVE  BeforeStableOrder(Resolve(ms)[i], Resolve(ms)[j])
             = Verdict(Merits(ms, c, axis)[i], Merits(ms, c, axis)[j], 13)
<1> DEFINE C == Standing(c, Lowest(ms))
           u == Merit(c[i], C, axis)
           v == Merit(c[j], C, axis)
           x == Resolve(ms)[i]
           y == Resolve(ms)[j]
<1>1. i \in DOMAIN ms /\ j \in DOMAIN ms /\ DOMAIN ms # {}
  BY DEF Lowest
<1>2. /\ DOMAIN ms[i] = AllFields /\ DOMAIN ms[j] = AllFields
      /\ c[i] \in DOMAIN evaluations /\ c[j] \in DOMAIN evaluations
      /\ Base(ms[i], evaluations[c[i]]) /\ Base(ms[j], evaluations[c[j]])
      /\ (ms[i].chiitoi = None <=> ms[j].chiitoi = None) /\ (ms[i].standard = 1 <=> ms[j].standard = 1)
  BY <1>1 DEF Measured
<1>3. evaluations[c[i]] \in Candidate /\ evaluations[c[j]] \in Candidate
  BY <1>2, BestTierIs
<1>4. Base(x, ms[i]) /\ Base(y, ms[j])
  BY <1>1, <1>2, ResolveIs
<1>5. Base(x, evaluations[c[i]]) /\ Base(y, evaluations[c[j]])
  BY <1>2, <1>4 DEF Base
<1>6. /\ x.shanten = y.shanten /\ (x.chiitoi = None <=> y.chiitoi = None)
      /\ (x.standard = 1 <=> y.standard = 1)
  <2>1. ms[i].shanten = ms[j].shanten
    BY <1>1, LowestIs
  <2> QED
    BY <1>2, <1>4, <2>1 DEF Base
<1>7. BeforeAcceptance(x, y) = 0
  <2>1. AreViews(Resolve(ms), n) /\ DOMAIN Resolve(ms) = DOMAIN ms /\ Lowest(Resolve(ms)) = Lowest(ms)
    BY ResolveKeepsTheTier DEF Measured
  <2> QED
    BY <1>1, <2>1, BeforeDecides
<1>8. Numbers(u, 13) /\ Numbers(v, 13)
  BY <1>3, MeritIs
<1>9. DeepVerdict(x, y) = (More(u[1], v[1]) ?? More(u[2], v[2]) ?? More(u[3], v[3]) ?? More(u[4], v[4]))
  BY DeepCompares
<1>10. LaterAxesCompare(x, y, u, v)
  <2> HIDE DEF x, y
  <2> QED
    BY <1>3, <1>5, <1>6, AcceptanceCompares
<1>11. BeforeStableOrder(x, y) = Verdict(u, v, 13)
  <2> HIDE DEF x, y, u, v
  <2> QED
    BY <1>7, <1>8, <1>9, <1>10, AxesCompareMerits
<1> QED
  BY <1>11 DEF Merits

\* The choice among measured candidates is the first with the most merit.
LEMMA BestIsFavoured ==
    ASSUME evaluations \in Inputs, NEW n, NEW ms, NEW c, NEW axis \in {"twoShanten", "full"},
           AreViews(ms, n), DOMAIN ms # {}, Measured(ms, c, axis),
           \A i \in Lowest(ms) : ms[i].untilRyukyoku = None
    PROVE  LET chosenOnes == Favoured(Lowest(ms), Merits(ms, c, axis), 13)
           IN  chosenOnes # {} /\ Best(Resolve(ms)) = Min(chosenOnes)
<1> DEFINE vs == Resolve(ms)
           m  == Merits(ms, c, axis)
<1>1. AreViews(vs, n) /\ DOMAIN vs = DOMAIN ms /\ Lowest(vs) = Lowest(ms)
  BY ResolveKeepsTheTier DEF Measured
<1>2. \A i \in Lowest(ms) : i \in DOMAIN ms /\ vs[i].untilRyukyoku = None
  <2> TAKE i \in Lowest(ms)
  <2>1. i \in DOMAIN ms /\ DOMAIN ms[i] = AllFields
    BY DEF Lowest, Measured
  <2> QED
    BY <2>1, ResolveIs
<1>3. \A i, j \in Lowest(ms) : BeforeStableOrder(vs[i], vs[j]) = Verdict(m[i], m[j], 13)
  BY ViewsCompareMerits
<1>4. \A i \in Lowest(ms) : Numbers(m[i], 13)
  BY MeritsAreNumbers
<1> HIDE DEF vs, m
<1>5. \A i, j \in Lowest(ms) : Compare(vs[i], vs[j]) = Verdict(m[i], m[j], 13)
  <2> TAKE i, j \in Lowest(ms)
  <2>1. At(1, vs[i], vs[j], MoreIfKnown(vs[i].untilRyukyoku, vs[j].untilRyukyoku)) = 0
    BY <1>2 DEF At, MoreIfKnown
  <2> QED
    BY <1>3, <2>1, ChainNone DEF Compare
<1>6. 13 \in Nat
  OBVIOUS
<1>7. Favoured(Lowest(vs), m, 13) # {} /\ Best(vs) = Min(Favoured(Lowest(vs), m, 13))
  BY <1>1, <1>4, <1>5, <1>6, BestIs
<1> QED
  BY <1>1, <1>7 DEF vs, m

-----------------------------------------------------------------------------
(* The values computed before the comparison, as a function of the candidates. *)

\* The candidates of the first pass, what it computes, and what the comparison starts from.
ForwardSet(es) == IF Competing(es) THEN ForwardTargets(es) ELSE {}

Forwarded(es) ==
    [i \in DOMAIN es |-> IF i \in ForwardSet(es) THEN Copy(Blank(es[i]), es[i], ForwardFields)
                         ELSE Blank(es[i])]

Ready(es) == WithContinuation(BaseTenpai(Progress(Forwarded(es), es), es), es)

\* A finite set has more than one element exactly when two of them differ.
LEMMA SeveralIs ==
    ASSUME NEW S, IsFiniteSet(S)
    PROVE  Cardinality(S) > 1 <=> \E a, b \in S : a # b
<1>1. Cardinality(S) \in Nat
  BY FS_CardinalityType
<1>2. CASE S = {}
  <2>1. Cardinality(S) = 0
    BY <1>2, FS_EmptySet
  <2> QED
    BY <1>2, <2>1
<1>3. CASE \E x : S = {x}
  <2>1. Cardinality(S) = 1
    BY <1>3, FS_Singleton
  <2> QED
    BY <1>3, <2>1
<1>4. CASE S # {} /\ ~\E x : S = {x}
  <2>1. Cardinality(S) # 0
    BY <1>4, FS_EmptySet
  <2>2. Cardinality(S) # 1
    BY <1>4, FS_Singleton
  <2>3. \E a, b \in S : a # b
    <3>1. PICK a \in S : TRUE
      BY <1>4
    <3>2. S # {a}
      BY <1>4
    <3> QED
      BY <3>1, <3>2
  <2> QED
    BY <1>1, <2>1, <2>2, <2>3
<1> QED
  BY <1>2, <1>3, <1>4

\* The places of a list are finitely many.
LEMMA PlacesAreFinite ==
    ASSUME NEW n, NEW vs, AreViews(vs, n), NEW S, S \subseteq DOMAIN vs
    PROVE  IsFiniteSet(S)
<1>1. n \in Nat /\ S \subseteq 1 .. n
  BY DEF AreViews
<1>2. IsFiniteSet(1 .. n)
  BY <1>1, FS_Interval
<1> QED
  BY <1>1, <1>2, FS_Subset

\* The best shanten is that of any candidate of the lowest rank.
LEMMA BestShantenIs ==
    ASSUME NEW n, NEW vs, AreViews(vs, n), NEW i \in Lowest(vs)
    PROVE  BestShanten(vs) = vs[i].shanten
<1> DEFINE all == {vs[k].shanten : k \in DOMAIN vs}
<1>1. i \in DOMAIN vs /\ \A k \in DOMAIN vs : vs[i].shanten <= vs[k].shanten
  <2>1. i \in DOMAIN vs
    BY DEF Lowest
  <2> QED
    BY <2>1, LowestIs
<1>2. all \in SUBSET Nat /\ all # {} /\ vs[i].shanten \in all /\ \A k \in all : k \in Nat
  BY <1>1 DEF AreViews
<1>3. \A k \in all : vs[i].shanten <= k
  BY <1>1
<1>4. BestShanten(vs) = Min(all)
  BY DEF BestShanten
<1> HIDE DEF all
<1>5. Min(all) \in all /\ \A k \in all : Min(all) <= k
  BY <1>2, MinIs
<1>6. Min(all) <= vs[i].shanten /\ vs[i].shanten <= Min(all)
  BY <1>2, <1>3, <1>5
<1>7. Min(all) \in Nat /\ vs[i].shanten \in Nat
  BY <1>2, <1>5
<1>8. Min(all) = vs[i].shanten
  BY <1>6, <1>7
<1> QED
  BY <1>4, <1>8

\* A candidate before any deep value is computed.
LEMMA BlankIs ==
    ASSUME NEW e \in Candidate
    PROVE  LET b == Blank(e)
           IN  /\ DOMAIN b = AllFields /\ Base(b, e)
               /\ b.expected = None /\ b.prospective = None /\ b.wait = None /\ b.waitTypes = None
               /\ b.next = None /\ b.nextTypes = None /\ b.twoShanten = None
               /\ b.threeShanten = None /\ b.untilRyukyoku = None /\ b.furiten = "unknown"
               /\ b.offense = None /\ b.selfTsumo = None /\ b.continuation = None
<1>1. DOMAIN e = AllFields
  BY FieldsAre
<1> QED
  BY <1>1 DEF Blank, AllFields, Base, ForwardFields, TenpaiFields, OtherFields

\* Copying takes the named fields from the one record and the others from the other.
LEMMA CopyIs ==
    ASSUME NEW m, DOMAIN m = AllFields, NEW e, NEW fields
    PROVE  /\ DOMAIN Copy(m, e, fields) = AllFields
           /\ \A f \in AllFields : Copy(m, e, fields)[f] = IF f \in fields THEN e[f] ELSE m[f]
BY DEF Copy

\* What a stage may leave of a record without touching what the candidate is.
SameCandidate(m, e) == DOMAIN m = AllFields /\ Base(m, e) /\ m.untilRyukyoku = None

\* After the first pass the forward targets have their six values, and nobody else has any.
LEMMA ForwardedIs ==
    ASSUME evaluations \in Inputs, NEW i \in DOMAIN evaluations
    PROVE  LET m == Forwarded(evaluations)[i]
               e == evaluations[i]
               F == ForwardSet(evaluations)
           IN  /\ SameCandidate(m, e)
               /\ m.twoShanten = None /\ m.threeShanten = None /\ m.furiten = "unknown"
               /\ m.offense = None /\ m.selfTsumo = None /\ m.continuation = None
               /\ i \in F => /\ m.expected = e.expected /\ m.prospective = e.prospective
                             /\ m.wait = e.wait /\ m.waitTypes = e.waitTypes
                             /\ m.next = e.next /\ m.nextTypes = e.nextTypes
               /\ i \notin F => m.prospective = None /\ m.next = None
<1> DEFINE m == Forwarded(evaluations)[i]
           e == evaluations[i]
           b == Blank(e)
           F == ForwardSet(evaluations)
<1>1. e \in Candidate
  BY BestTierIs
<1>2. m = IF i \in F THEN Copy(b, e, ForwardFields) ELSE b
  BY DEF Forwarded
<1>3. /\ DOMAIN b = AllFields /\ Base(b, e)
      /\ b.expected = None /\ b.prospective = None /\ b.wait = None /\ b.waitTypes = None
      /\ b.next = None /\ b.nextTypes = None /\ b.twoShanten = None
      /\ b.threeShanten = None /\ b.untilRyukyoku = None /\ b.furiten = "unknown"
      /\ b.offense = None /\ b.selfTsumo = None /\ b.continuation = None
  BY <1>1, BlankIs
<1> HIDE DEF m, e, b, F
<1>4. CASE i \notin F
  BY <1>2, <1>3, <1>4 DEF SameCandidate, m, e, F
<1>5. CASE i \in F
  <2>1. m = Copy(b, e, ForwardFields)
    BY <1>2, <1>5
  <2>2. DOMAIN m = AllFields /\ \A f \in AllFields : m[f] = IF f \in ForwardFields THEN e[f] ELSE b[f]
    BY <1>3, <2>1, CopyIs
  <2>3. Base(m, e)
    BY <1>3, <2>2 DEF Base, AllFields, ForwardFields
  <2>4. /\ m.twoShanten = None /\ m.threeShanten = None /\ m.furiten = "unknown"
        /\ m.offense = None /\ m.selfTsumo = None /\ m.continuation = None /\ m.untilRyukyoku = None
    BY <1>3, <2>2 DEF AllFields, ForwardFields
  <2>5. /\ m.expected = e.expected /\ m.prospective = e.prospective
        /\ m.wait = e.wait /\ m.waitTypes = e.waitTypes
        /\ m.next = e.next /\ m.nextTypes = e.nextTypes
    BY <2>2 DEF AllFields, ForwardFields
  <2> QED
    BY <1>5, <2>2, <2>3, <2>4, <2>5 DEF SameCandidate, m, e, F
<1> QED
  BY <1>4, <1>5

\* The candidates of the best tier are looked ahead at when there are several, not in tenpai.
LEMMA ForwardSetIs ==
    ASSUME evaluations \in Inputs, NEW g \in Lowest(evaluations)
    PROVE  ForwardSet(evaluations) =
             IF evaluations[g].shanten >= 1 /\ \E a, b \in Lowest(evaluations) : a # b
             THEN Lowest(evaluations) ELSE {}
<1> DEFINE n == Len(evaluations)
           T == ForwardTargets(evaluations)
<1>1. AreViews(evaluations, n) /\ DOMAIN evaluations # {}
  BY BestTierIs
<1>2. T = IF evaluations[g].shanten < 1 THEN {} ELSE Lowest(evaluations)
  BY <1>1, ForwardTargetsAre
<1>3. T \subseteq DOMAIN evaluations
  BY <1>2 DEF Lowest
<1>4. Cardinality(T) > 1 <=> \E a, b \in T : a # b
  BY <1>1, <1>3, PlacesAreFinite, SeveralIs
<1>5. evaluations[g].shanten \in Nat
  BY <1>1 DEF AreViews, Lowest
<1>6. ForwardSet(evaluations) = IF \E a, b \in T : a # b THEN T ELSE {}
  BY <1>4 DEF ForwardSet, Competing
<1> HIDE DEF T
<1> QED
  BY <1>2, <1>5, <1>6

\* Records of the same candidates have the same best tier.
LEMMA SameTier ==
    ASSUME evaluations \in Inputs, NEW ms, DOMAIN ms = DOMAIN evaluations,
           \A i \in DOMAIN ms : SameCandidate(ms[i], evaluations[i])
    PROVE  /\ AreViews(ms, Len(evaluations)) /\ DOMAIN ms # {}
           /\ Lowest(ms) = Lowest(evaluations)
<1>1. AreViews(evaluations, Len(evaluations)) /\ DOMAIN evaluations # {}
  BY BestTierIs
<1>2. \A i \in DOMAIN ms : ms[i].shanten = evaluations[i].shanten
                            /\ Rank(ms[i]) = Rank(evaluations[i])
  BY DEF SameCandidate, Base, Rank, Eligible
<1>3. AreViews(ms, Len(evaluations))
  BY <1>1, <1>2 DEF AreViews
<1>4. Lowest(ms) = Lowest(evaluations)
  BY <1>2 DEF Lowest
<1> QED
  BY <1>1, <1>3, <1>4

\* The candidates compete at two or three shanten if the best tier is there and was looked ahead at.
LEMMA CompetingIs ==
    ASSUME evaluations \in Inputs, NEW ms, DOMAIN ms = DOMAIN evaluations,
           \A i \in DOMAIN ms : SameCandidate(ms[i], evaluations[i]),
           \A i \in DOMAIN ms : ms[i].next = Forwarded(evaluations)[i].next,
           NEW g \in Lowest(evaluations), NEW s \in {2, 3}
    PROVE  CompetingAt(ms, s) <=> evaluations[g].shanten = s /\ ForwardSet(evaluations) # {}
<1> DEFINE F == ForwardSet(evaluations)
           K == {i \in DOMAIN ms : ms[i].next # None}
<1>1. /\ AreViews(ms, Len(evaluations)) /\ DOMAIN ms # {}
      /\ Lowest(ms) = Lowest(evaluations)
  BY SameTier
<1>2. g \in DOMAIN ms /\ ms[g].shanten = evaluations[g].shanten
  BY DEF Lowest, SameCandidate, Base
<1>3. BestShanten(ms) = evaluations[g].shanten
  BY <1>1, <1>2, BestShantenIs
<1>4. Cardinality(K) > 1 <=> \E a, b \in K : a # b
  BY <1>1, PlacesAreFinite, SeveralIs
<1>5. F = IF evaluations[g].shanten >= 1 /\ \E a, b \in Lowest(evaluations) : a # b
          THEN Lowest(evaluations) ELSE {}
  BY ForwardSetIs
<1>6. \A i \in DOMAIN ms : i \in F => ms[i].next = evaluations[i].next
  BY ForwardedIs
<1>7. \A i \in DOMAIN ms : i \notin F => ms[i].next = None
  BY ForwardedIs
<1>8. ASSUME evaluations[g].shanten = s, F # {}  PROVE \E a, b \in K : a # b
  <2>1. PICK a \in Lowest(evaluations), b \in Lowest(evaluations) : a # b
    BY <1>5, <1>8
  <2>2. F = Lowest(evaluations)
    BY <1>5, <1>8
  <2>3. a \in DOMAIN ms /\ b \in DOMAIN ms
    BY <2>1 DEF Lowest
  <2>4. evaluations[a].shanten = s /\ evaluations[b].shanten = s
    <3>1. /\ AreViews(evaluations, Len(evaluations)) /\ DOMAIN evaluations # {}
      BY BestTierIs
    <3>2. evaluations[a].shanten = evaluations[g].shanten /\ evaluations[b].shanten = evaluations[g].shanten
      BY <3>1, LowestIs
    <3> QED
      BY <3>2, <1>8
  <2>5. evaluations[a].next # None /\ evaluations[b].next # None
    BY <2>3, <2>4, InputsAssumption
  <2>6. ms[a].next # None /\ ms[b].next # None
    BY <1>6, <2>1, <2>2, <2>3, <2>5
  <2>7. a \in K /\ b \in K
    BY <2>3, <2>6
  <2> QED
    BY <2>1, <2>7
<1>9. ASSUME \E a, b \in K : a # b  PROVE F # {}
  BY <1>7, <1>9
<1> HIDE DEF F
<1>10. CompetingAt(ms, s) <=> (evaluations[g].shanten = s /\ \E a, b \in K : a # b)
  BY <1>3, <1>4 DEF CompetingAt
<1> HIDE DEF K
<1>11. CompetingAt(ms, s) <=> evaluations[g].shanten = s /\ F # {}
  BY <1>8, <1>9, <1>10
<1> QED
  BY <1>11 DEF F

\* The stages copy deep values only.
DeepFields == {"twoShanten", "threeShanten", "furiten", "offense", "selfTsumo", "continuation"}

\* Copying a deep value leaves everything else of the candidate as it is.
LEMMA CopyKeeps ==
    ASSUME NEW m, NEW e, NEW d, SameCandidate(m, e), NEW fields, fields \subseteq DeepFields
    PROVE  /\ SameCandidate(Copy(m, d, fields), e)
           /\ \A f \in AllFields : Copy(m, d, fields)[f] = IF f \in fields THEN d[f] ELSE m[f]
           /\ Copy(m, d, fields).next = m.next
<1> DEFINE x == Copy(m, d, fields)
<1>1. DOMAIN x = AllFields /\ \A f \in AllFields : x[f] = IF f \in fields THEN d[f] ELSE m[f]
  BY CopyIs DEF SameCandidate
<1>2. \A f \in AllFields : f \notin DeepFields => x[f] = m[f]
  BY <1>1
<1> HIDE DEF x
<1>3. Base(x, e) /\ x.untilRyukyoku = None /\ x.next = m.next
  BY <1>2 DEF SameCandidate, Base, AllFields, DeepFields
<1>4. SameCandidate(x, e)
  BY <1>1, <1>3 DEF SameCandidate
<1> QED
  BY <1>1, <1>3, <1>4 DEF x

\* What is known after the progress-only values.
Progressed(m, i, g) ==
    LET e == evaluations[i]
        F == ForwardSet(evaluations)
    IN  /\ SameCandidate(m, e)
        /\ m.furiten = "unknown"
        /\ m.offense = None /\ m.selfTsumo = None /\ m.continuation = None
        /\ m.next = Forwarded(evaluations)[i].next
        /\ i \in F => /\ m.expected = e.expected /\ m.prospective = e.prospective
                      /\ m.wait = e.wait /\ m.waitTypes = e.waitTypes
                      /\ m.next = e.next /\ m.nextTypes = e.nextTypes
                      /\ evaluations[g].shanten = 2 => m.twoShanten = Keep(evaluations, i, "twoShanten")
                      /\ evaluations[g].shanten = 3 => m.threeShanten = e.threeShanten
        /\ i \notin F => m.prospective = None /\ m.next = None

\* What the progress values add, at two shanten and at three.
LEMMA ProgressIs ==
    ASSUME evaluations \in Inputs, NEW g \in Lowest(evaluations), NEW i \in DOMAIN evaluations
    PROVE  /\ DOMAIN Progress(Forwarded(evaluations), evaluations) = DOMAIN evaluations
           /\ Progressed(Progress(Forwarded(evaluations), evaluations)[i], i, g)
<1> DEFINE ms == Forwarded(evaluations)
           ps == Progress(ms, evaluations)
           two == CompetingAt(ms, 2)
           three == CompetingAt(ms, 3)
           F == ForwardSet(evaluations)
           e == evaluations[i]
           m == ms[i]
           kept == Keep(evaluations, i, "twoShanten")
<1>1. DOMAIN ms = DOMAIN evaluations
  BY DEF Forwarded
<1>2. /\ SameCandidate(m, e)
      /\ m.twoShanten = None /\ m.threeShanten = None /\ m.furiten = "unknown"
      /\ m.offense = None /\ m.selfTsumo = None /\ m.continuation = None
      /\ i \in F => /\ m.expected = e.expected /\ m.prospective = e.prospective
                    /\ m.wait = e.wait /\ m.waitTypes = e.waitTypes
                    /\ m.next = e.next /\ m.nextTypes = e.nextTypes
      /\ i \notin F => m.prospective = None /\ m.next = None
  BY ForwardedIs
<1>3. \A k \in DOMAIN ms : SameCandidate(ms[k], evaluations[k])
  BY <1>1, ForwardedIs
<1> HIDE DEF ms
<1>4. two <=> evaluations[g].shanten = 2 /\ F # {}
  BY <1>1, <1>3, CompetingIs DEF ms
<1>5. three <=> evaluations[g].shanten = 3 /\ F # {}
  BY <1>1, <1>3, CompetingIs DEF ms
<1> HIDE DEF two, three
<1>6. /\ DOMAIN ps = DOMAIN evaluations
      /\ ps[i] = IF two /\ m.next # None THEN [m EXCEPT !.twoShanten = kept]
                 ELSE IF three /\ m.next # None THEN Copy(m, e, {"threeShanten"})
                 ELSE m
  BY <1>1 DEF Progress, two, three
<1>7. i \in F => evaluations[g].shanten >= 1 /\ e.shanten = evaluations[g].shanten
  <2>1. i \in F => evaluations[g].shanten >= 1 /\ i \in Lowest(evaluations)
    BY ForwardSetIs
  <2>2. /\ AreViews(evaluations, Len(evaluations)) /\ DOMAIN evaluations # {}
    BY BestTierIs
  <2> QED
    BY <2>1, <2>2, LowestIs
<1>8. i \in F /\ evaluations[g].shanten \in {2, 3} => m.next # None
  <2>1. e.shanten \in {2, 3} => e.next # None
    BY InputsAssumption
  <2> QED
    BY <1>2, <1>7, <2>1
<1> HIDE DEF ps, m, kept, F, e
<1>9. CASE two /\ m.next # None
  <2> DEFINE q == [m EXCEPT !.twoShanten = kept]
  <2>1. DOMAIN m = AllFields
    BY <1>2 DEF SameCandidate
  <2>2. DOMAIN q = AllFields /\ q.twoShanten = kept
        /\ \A f \in AllFields : f # "twoShanten" => q[f] = m[f]
    BY <2>1 DEF AllFields
  <2> HIDE DEF q
  <2>3. SameCandidate(q, e)
    BY <1>2, <2>2 DEF SameCandidate, Base, AllFields
  <2>4. /\ q.furiten = "unknown" /\ q.offense = None /\ q.selfTsumo = None /\ q.continuation = None
        /\ q.next = m.next
        /\ i \in F => /\ q.expected = e.expected /\ q.prospective = e.prospective
                      /\ q.wait = e.wait /\ q.waitTypes = e.waitTypes
                      /\ q.next = e.next /\ q.nextTypes = e.nextTypes
        /\ i \notin F => q.prospective = None /\ q.next = None
    BY <1>2, <2>2 DEF AllFields
  <2>5. evaluations[g].shanten # 3
    BY <1>4, <1>9
  <2>6. ps[i] = q
    BY <1>6, <1>9 DEF q
  <2>7. Progressed(q, i, g)
    BY <2>2, <2>3, <2>4, <2>5 DEF Progressed, F, e, m, ms, kept
  <2> QED
    BY <1>6, <2>6, <2>7 DEF ps, ms
<1>10. CASE ~(two /\ m.next # None) /\ three /\ m.next # None
  <2> DEFINE q == Copy(m, e, {"threeShanten"})
  <2>1. /\ SameCandidate(q, e)
        /\ \A f \in AllFields : q[f] = IF f \in {"threeShanten"} THEN e[f] ELSE m[f]
    BY <1>2, CopyKeeps DEF DeepFields
  <2> HIDE DEF q
  <2>2. /\ q.furiten = "unknown" /\ q.offense = None /\ q.selfTsumo = None /\ q.continuation = None
        /\ q.next = m.next /\ q.threeShanten = e.threeShanten
        /\ i \in F => /\ q.expected = e.expected /\ q.prospective = e.prospective
                      /\ q.wait = e.wait /\ q.waitTypes = e.waitTypes
                      /\ q.next = e.next /\ q.nextTypes = e.nextTypes
        /\ i \notin F => q.prospective = None /\ q.next = None
    BY <1>2, <2>1 DEF AllFields
  <2>3. evaluations[g].shanten # 2
    BY <1>5, <1>10
  <2>4. ps[i] = q
    BY <1>6, <1>10 DEF q
  <2>5. Progressed(q, i, g)
    BY <2>1, <2>2, <2>3 DEF Progressed, F, e, m, ms
  <2> QED
    BY <1>6, <2>4, <2>5 DEF ps, ms
<1>11. CASE ~(two /\ m.next # None) /\ ~(three /\ m.next # None)
  <2>1. ps[i] = m
    BY <1>6, <1>11
  <2>2. i \in F => evaluations[g].shanten # 2 /\ evaluations[g].shanten # 3
    BY <1>4, <1>5, <1>8, <1>11
  <2>3. Progressed(m, i, g)
    BY <1>2, <2>2 DEF Progressed, F, e, m, ms
  <2> QED
    BY <1>6, <2>1, <2>3 DEF ps, ms
<1> QED
  BY <1>9, <1>10, <1>11

\* What the tenpai values add, when several candidates are in tenpai.
LEMMA BaseTenpaiIs ==
    ASSUME evaluations \in Inputs, NEW g \in Lowest(evaluations), NEW i \in DOMAIN evaluations,
           NEW ps, DOMAIN ps = DOMAIN evaluations, Progressed(ps[i], i, g)
    PROVE  LET bs == BaseTenpai(ps, evaluations)
               e == evaluations[i]
           IN  /\ DOMAIN bs = DOMAIN evaluations
               /\ SameCandidate(bs[i], e)
               /\ bs[i].next = ps[i].next /\ bs[i].continuation = None
               /\ bs[i].prospective = ps[i].prospective
               /\ evaluations[g].shanten # 0 => bs[i] = ps[i]
               /\ (e.shanten = 0 /\ \E j \in DOMAIN evaluations : j # i /\ evaluations[j].shanten = 0)
                    => /\ bs[i].furiten = e.furiten /\ bs[i].offense = e.offense
                       /\ bs[i].selfTsumo = e.selfTsumo
<1> DEFINE bs == BaseTenpai(ps, evaluations)
           e == evaluations[i]
           p == ps[i]
           T == TenpaiCandidates(evaluations)
           fields == {"furiten", "offense", "selfTsumo"}
<1>1. /\ DOMAIN bs = DOMAIN evaluations
      /\ bs[i] = IF Cardinality(T) > 1 /\ e.shanten = 0 THEN Copy(p, e, fields) ELSE p
  BY DEF BaseTenpai
<1>2. AreViews(evaluations, Len(evaluations)) /\ DOMAIN evaluations # {}
  BY BestTierIs
<1>3. Cardinality(T) > 1 <=> \E a, b \in T : a # b
  <2>1. T \subseteq DOMAIN evaluations
    BY DEF TenpaiCandidates
  <2> QED
    BY <1>2, <2>1, PlacesAreFinite, SeveralIs
<1>4. (e.shanten = 0 /\ \E j \in DOMAIN evaluations : j # i /\ evaluations[j].shanten = 0)
         => Cardinality(T) > 1
  BY <1>3 DEF TenpaiCandidates
<1>5. evaluations[g].shanten # 0 => e.shanten # 0
  <2>1. evaluations[g].shanten <= e.shanten /\ evaluations[g].shanten \in Nat /\ e.shanten \in Nat
    BY <1>2, LowestIs DEF AreViews, Lowest
  <2> QED
    BY <2>1
<1>6. SameCandidate(p, e) /\ p.continuation = None
  BY DEF Progressed
<1> HIDE DEF bs, e, p, T
<1>7. CASE Cardinality(T) > 1 /\ e.shanten = 0
  <2> DEFINE q == Copy(p, e, fields)
  <2>1. /\ SameCandidate(q, e) /\ q.next = p.next
        /\ \A f \in AllFields : q[f] = IF f \in fields THEN e[f] ELSE p[f]
    BY <1>6, CopyKeeps DEF DeepFields
  <2> HIDE DEF q
  <2>2. /\ q.furiten = e.furiten /\ q.offense = e.offense /\ q.selfTsumo = e.selfTsumo
        /\ q.continuation = None /\ q.prospective = p.prospective
    BY <1>6, <2>1 DEF AllFields
  <2>3. bs[i] = q
    BY <1>1, <1>7 DEF q
  <2> QED
    BY <1>1, <1>5, <1>7, <2>1, <2>2, <2>3 DEF bs, e, p
<1>8. CASE ~(Cardinality(T) > 1 /\ e.shanten = 0)
  <2>1. bs[i] = p
    BY <1>1, <1>8
  <2> QED
    BY <1>1, <1>4, <1>6, <1>8, <2>1 DEF bs, e, p
<1> QED
  BY <1>7, <1>8

\* The values of a candidate before the comparison.
ReadyRecord(m, i) ==
    LET e == evaluations[i]
        G == Lowest(evaluations)
    IN  /\ SameCandidate(m, e)
        /\ m.next = Forwarded(evaluations)[i].next
        /\ i \in G /\ (\E j \in G : j # i) =>
              /\ e.shanten >= 1 => /\ m.expected = e.expected /\ m.prospective = e.prospective
                                   /\ m.wait = e.wait /\ m.waitTypes = e.waitTypes
                                   /\ m.next = e.next /\ m.nextTypes = e.nextTypes
              /\ e.shanten = 2 => m.twoShanten = Keep(evaluations, i, "twoShanten")
              /\ e.shanten = 3 => m.threeShanten = e.threeShanten
              /\ e.shanten = 0 =>
                    /\ m.prospective = None /\ m.furiten = e.furiten
                    /\ m.offense = e.offense /\ m.selfTsumo = e.selfTsumo
                    /\ m.continuation =
                         IF \A j \in G : evaluations[j].furiten = "yes" /\ evaluations[j].baseReach
                         THEN e.continuation ELSE None

\* What the metrics hold when the comparison starts, for every candidate.
LEMMA ReadyIs ==
    ASSUME evaluations \in Inputs
    PROVE  /\ DOMAIN Ready(evaluations) = DOMAIN evaluations
           /\ \A i \in DOMAIN evaluations : ReadyRecord(Ready(evaluations)[i], i)
<1> DEFINE ps == Progress(Forwarded(evaluations), evaluations)
           bs == BaseTenpai(ps, evaluations)
           rs == WithContinuation(bs, evaluations)
           G == Lowest(evaluations)
           n == Len(evaluations)
<1>1. AreViews(evaluations, n) /\ DOMAIN evaluations # {}
  BY BestTierIs
<1>2. PICK g \in G : TRUE
  BY <1>1, LowestIs
<1>3. DOMAIN ps = DOMAIN evaluations /\ \A i \in DOMAIN evaluations : Progressed(ps[i], i, g)
  <2>1. g \in Lowest(evaluations)
    BY <1>2
  <2>2. ASSUME NEW i \in DOMAIN evaluations
        PROVE  DOMAIN ps = DOMAIN evaluations /\ Progressed(ps[i], i, g)
    BY <2>1, <2>2, ProgressIs
  <2> HIDE DEF ps
  <2> QED
    BY <1>1, <2>2
<1> HIDE DEF ps
<1>4. /\ DOMAIN bs = DOMAIN evaluations
      /\ \A i \in DOMAIN evaluations :
            /\ SameCandidate(bs[i], evaluations[i])
            /\ bs[i].next = ps[i].next /\ bs[i].continuation = None
            /\ bs[i].prospective = ps[i].prospective
            /\ evaluations[g].shanten # 0 => bs[i] = ps[i]
            /\ (evaluations[i].shanten = 0
                 /\ \E j \in DOMAIN evaluations : j # i /\ evaluations[j].shanten = 0)
                 => /\ bs[i].furiten = evaluations[i].furiten
                    /\ bs[i].offense = evaluations[i].offense
                    /\ bs[i].selfTsumo = evaluations[i].selfTsumo
  <2>1. g \in Lowest(evaluations)
    BY <1>2
  <2>2. DOMAIN bs = DOMAIN evaluations
    BY <1>3 DEF BaseTenpai
  <2>3. SUFFICES ASSUME NEW i \in DOMAIN evaluations
                 PROVE  /\ SameCandidate(bs[i], evaluations[i])
                        /\ bs[i].next = ps[i].next /\ bs[i].continuation = None
                        /\ bs[i].prospective = ps[i].prospective
                        /\ evaluations[g].shanten # 0 => bs[i] = ps[i]
                        /\ (evaluations[i].shanten = 0
                             /\ \E j \in DOMAIN evaluations : j # i /\ evaluations[j].shanten = 0)
                             => /\ bs[i].furiten = evaluations[i].furiten
                                /\ bs[i].offense = evaluations[i].offense
                                /\ bs[i].selfTsumo = evaluations[i].selfTsumo
    BY <2>2
  <2>4. Progressed(ps[i], i, g)
    BY <1>3
  <2> QED
    BY <1>3, <2>1, <2>4, BaseTenpaiIs
<1> HIDE DEF bs
<1>5. DOMAIN rs = DOMAIN evaluations
  BY <1>4 DEF WithContinuation
<1>6. AreViews(bs, n) /\ Lowest(bs) = G
  BY <1>4, SameTier
<1>7. ASSUME NEW i \in DOMAIN evaluations  PROVE ReadyRecord(rs[i], i)
  <2> DEFINE e == evaluations[i]
             b == bs[i]
             cond == \A j \in Cohort(bs, i) : bs[j].furiten = "yes" /\ evaluations[j].baseReach
             q == Copy(b, e, {"continuation"})
             F == ForwardSet(evaluations)
  <2>1. rs[i] = IF cond THEN q ELSE b
    BY <1>4 DEF WithContinuation
  <2>2. SameCandidate(b, e) /\ b.next = ps[i].next /\ b.continuation = None
        /\ b.prospective = ps[i].prospective
    BY <1>4
  <2>3. Progressed(ps[i], i, g)
    BY <1>3
  <2>4. F = IF evaluations[g].shanten >= 1 /\ \E x, y \in G : x # y THEN G ELSE {}
    BY ForwardSetIs
  <2>5. i \in G => e.shanten = evaluations[g].shanten
    BY <1>1, LowestIs
  <2>6. e.shanten \in Nat
    BY <1>1 DEF AreViews
  <2>7. /\ SameCandidate(q, e) /\ q.next = b.next
        /\ \A f \in AllFields : q[f] = IF f \in {"continuation"} THEN e[f] ELSE b[f]
    <3> HIDE DEF b, e
    <3>1. {"continuation"} \subseteq DeepFields
      BY DEF DeepFields
    <3>2. SameCandidate(b, e)
      BY <2>2
    <3> HIDE DEF q, F, cond, rs, G, n
    <3>3. /\ SameCandidate(Copy(b, e, {"continuation"}), e)
          /\ \A f \in AllFields :
                Copy(b, e, {"continuation"})[f] = IF f \in {"continuation"} THEN e[f] ELSE b[f]
          /\ Copy(b, e, {"continuation"}).next = b.next
      <4>1. ASSUME NEW x, NEW y, SameCandidate(x, y)
            PROVE  /\ SameCandidate(Copy(x, y, {"continuation"}), y)
                   /\ \A f \in AllFields :
                         Copy(x, y, {"continuation"})[f] = IF f \in {"continuation"} THEN y[f] ELSE x[f]
                   /\ Copy(x, y, {"continuation"}).next = x.next
        BY <3>1, <4>1, CopyKeeps
      <4> QED
        BY <3>2, <4>1
    <3> QED
      BY <3>3 DEF q
  <2> HIDE DEF q, b, e, F
  <2>8. q.continuation = e.continuation /\ q.prospective = b.prospective /\ q.furiten = b.furiten
        /\ q.offense = b.offense /\ q.selfTsumo = b.selfTsumo
    BY <2>7 DEF AllFields
  <2>9. b.next = Forwarded(evaluations)[i].next
    BY <2>2, <2>3 DEF Progressed
  <2>10. CASE evaluations[g].shanten # 0
    <3>1. b = ps[i]
      BY <1>4, <2>10 DEF b
    <3>2. b.furiten = "unknown"
      BY <2>3, <3>1 DEF Progressed
    <3>3. i \in Cohort(bs, i)
      <4>1. bs[i].shanten \in Nat
        BY <1>4, <1>6 DEF AreViews
      <4>2. BeforeAcceptance(bs[i], bs[i]) = 0
        BY <4>1, BeforeIsRank, RankIsNat DEF Fewer, More
      <4> QED
        BY <1>4, <4>2 DEF Cohort
    <3>4. ~cond
      BY <3>2, <3>3 DEF b
    <3>5. rs[i] = b
      BY <2>1, <3>4
    <3>6. ASSUME i \in G, \E j \in G : j # i
          PROVE  /\ b.expected = e.expected /\ b.prospective = e.prospective
                 /\ b.wait = e.wait /\ b.waitTypes = e.waitTypes
                 /\ b.next = e.next /\ b.nextTypes = e.nextTypes
                 /\ e.shanten = 2 => b.twoShanten = Keep(evaluations, i, "twoShanten")
                 /\ e.shanten = 3 => b.threeShanten = e.threeShanten
                 /\ e.shanten # 0
      <4>1. i \in F
        BY <2>4, <2>5, <2>6, <2>10, <3>6
      <4> QED
        BY <2>3, <2>5, <2>10, <3>1, <3>6, <4>1 DEF Progressed, e, F
    <3> HIDE DEF rs, G
    <3>7. ReadyRecord(b, i)
      BY <2>2, <2>9, <3>6 DEF ReadyRecord, e, G
    <3> QED
      BY <3>5, <3>7
  <2>11. CASE evaluations[g].shanten = 0
    <3>1. ASSUME i \in G, \E j \in G : j # i
          PROVE  /\ e.shanten = 0 /\ b.prospective = None /\ b.furiten = e.furiten
                 /\ b.offense = e.offense /\ b.selfTsumo = e.selfTsumo
                 /\ cond <=> \A j \in G : evaluations[j].furiten = "yes" /\ evaluations[j].baseReach
      <4>1. e.shanten = 0
        BY <2>5, <2>11, <3>1
      <4>2. F = {}
        BY <2>4, <2>11
      <4>3. b.prospective = None
        BY <2>2, <2>3, <4>2 DEF Progressed, F
      <4>4. \A j \in G : bs[j].furiten = evaluations[j].furiten
                         /\ bs[j].offense = evaluations[j].offense
                         /\ bs[j].selfTsumo = evaluations[j].selfTsumo
        <5>1. SUFFICES ASSUME NEW j \in G
                       PROVE  bs[j].furiten = evaluations[j].furiten
                              /\ bs[j].offense = evaluations[j].offense
                              /\ bs[j].selfTsumo = evaluations[j].selfTsumo
          OBVIOUS
        <5>2. \E k \in G : k # j
          BY <3>1
        <5>3. \A k \in G : k \in DOMAIN evaluations /\ evaluations[k].shanten = 0
          BY <1>1, <2>11, LowestIs DEF Lowest
        <5> QED
          BY <1>4, <5>2, <5>3
      <4>5. Cohort(bs, i) = G
        BY <1>6, <3>1, CohortIs
      <4> QED
        BY <3>1, <4>1, <4>3, <4>4, <4>5 DEF b, e
    <3> HIDE DEF rs, G, cond
    <3>2. CASE cond
      <4>1. rs[i] = q
        BY <2>1, <3>2
      <4>2. ReadyRecord(q, i)
        BY <2>7, <2>8, <2>9, <3>1, <3>2 DEF ReadyRecord, e, G
      <4> QED
        BY <4>1, <4>2
    <3>3. CASE ~cond
      <4>1. rs[i] = b
        BY <2>1, <3>3
      <4>2. ReadyRecord(b, i)
        BY <2>2, <2>9, <3>1, <3>3 DEF ReadyRecord, e, G
      <4> QED
        BY <4>1, <4>2
    <3> QED
      BY <3>2, <3>3
  <2> QED
    BY <2>10, <2>11
<1>8. Ready(evaluations) = rs
  BY DEF Ready, ps, bs
<1> QED
  BY <1>5, <1>7, <1>8

-----------------------------------------------------------------------------
(* The chosen candidate is the favourite. *)

\* Every place stands for itself.
Itself == [i \in DOMAIN evaluations |-> i]

\* The metrics have the best tier of the facts.
LEMMA ReadyTier ==
    ASSUME evaluations \in Inputs
    PROVE  LET rs == Ready(evaluations)
           IN  /\ AreViews(rs, Len(evaluations)) /\ DOMAIN rs = DOMAIN evaluations /\ DOMAIN rs # {}
               /\ Lowest(rs) = Lowest(evaluations) /\ Lowest(rs) # {}
               /\ \A i \in DOMAIN rs : DOMAIN rs[i] = AllFields /\ rs[i].untilRyukyoku = None
                                       /\ Base(rs[i], evaluations[i])
<1> DEFINE rs == Ready(evaluations)
<1>1. DOMAIN rs = DOMAIN evaluations /\ \A i \in DOMAIN evaluations : ReadyRecord(rs[i], i)
  BY ReadyIs
<1> HIDE DEF rs
<1>2. \A i \in DOMAIN rs : SameCandidate(rs[i], evaluations[i])
  BY <1>1 DEF ReadyRecord
<1>3. AreViews(rs, Len(evaluations)) /\ DOMAIN rs # {} /\ Lowest(rs) = Lowest(evaluations)
  BY <1>1, <1>2, SameTier
<1>4. Lowest(rs) # {}
  BY <1>3, LowestIs
<1> QED
  BY <1>1, <1>2, <1>3, <1>4 DEF SameCandidate, rs

\* The metrics are measured: in the best tier every value that counts has been computed.
LEMMA ReadyIsMeasured ==
    ASSUME evaluations \in Inputs, Uniform, \E a, b \in Lowest(evaluations) : a # b
    PROVE  Measured(Ready(evaluations), Itself, "twoShanten")
<1> DEFINE rs == Ready(evaluations)
           G == Lowest(evaluations)
<1>1. DOMAIN rs = DOMAIN evaluations /\ \A i \in DOMAIN evaluations : ReadyRecord(rs[i], i)
  BY ReadyIs
<1>2. /\ Lowest(rs) = G
      /\ \A i \in DOMAIN rs : DOMAIN rs[i] = AllFields /\ Base(rs[i], evaluations[i])
  BY ReadyTier
<1>3. AreViews(evaluations, Len(evaluations)) /\ BestTier = G /\ DOMAIN evaluations # {}
      /\ \A i \in DOMAIN evaluations : evaluations[i] \in Candidate
  BY BestTierIs
<1>4. G \subseteq DOMAIN evaluations /\ \A i \in G : \E j \in G : j # i
  BY DEF Lowest
<1>5. \A i \in G : Itself[i] = i
  BY <1>4 DEF Itself
<1>6. \A i, j \in G : evaluations[i].shanten = evaluations[j].shanten
  BY <1>3, LowestIs
<1>7. \A i \in G : rs[i].shanten = evaluations[i].shanten /\ evaluations[i].shanten \in Nat
                   /\ rs[i].chiitoi = evaluations[i].chiitoi
                   /\ rs[i].standard = evaluations[i].standard
  BY <1>1, <1>2, <1>3, <1>4 DEF Base, AreViews
<1>8. \A i \in G : ReadyRecord(rs[i], i)
  BY <1>1, <1>4
<1> HIDE DEF rs, G
<1>9. \A i \in G :
         LET m == rs[i]
             e == evaluations[i]
         IN  /\ e.shanten >= 1 => /\ m.expected = e.expected /\ m.prospective = e.prospective
                                  /\ m.wait = e.wait /\ m.waitTypes = e.waitTypes
                                  /\ m.next = e.next /\ m.nextTypes = e.nextTypes
             /\ e.shanten = 2 => m.twoShanten = Keep(evaluations, i, "twoShanten")
             /\ e.shanten = 3 => m.threeShanten = e.threeShanten
             /\ e.shanten = 0 =>
                   /\ m.prospective = None /\ m.furiten = e.furiten
                   /\ m.offense = e.offense /\ m.selfTsumo = e.selfTsumo
                   /\ m.continuation =
                        IF \A j \in G : evaluations[j].furiten = "yes" /\ evaluations[j].baseReach
                        THEN e.continuation ELSE None
  BY <1>4, <1>8 DEF ReadyRecord, G
<1>10. \A i \in G : Computed(rs[i], evaluations[i])
  BY <1>7, <1>9 DEF Computed
<1>11. \A i, j \in G : /\ (rs[i].chiitoi = None <=> rs[j].chiitoi = None)
                       /\ (rs[i].standard = 1 <=> rs[j].standard = 1)
  BY <1>3, <1>7 DEF Uniform
<1>12. AllContinue(Itself, G) <=> \A j \in G : evaluations[j].furiten = "yes" /\ evaluations[j].baseReach
  BY <1>5 DEF AllContinue
<1>13. \A i \in G : Keep(evaluations, i, "twoShanten") =
                      IF \A j \in G : evaluations[j].twoShanten # None
                      THEN evaluations[i].twoShanten ELSE None
  <2>1. SUFFICES ASSUME NEW i \in G
                 PROVE  Keep(evaluations, i, "twoShanten") =
                          IF \A j \in G : evaluations[j].twoShanten # None
                          THEN evaluations[i].twoShanten ELSE None
    OBVIOUS
  <2>2. Cohort(evaluations, i) = G
    BY <1>3, CohortIs DEF G
  <2> QED
    BY <2>2 DEF Keep, KnownInCohort
<1>14. \/ \A i \in G : rs[i].shanten = 2 => rs[i].twoShanten = evaluations[Itself[i]]["twoShanten"]
       \/ /\ \E i \in G : evaluations[Itself[i]]["twoShanten"] = None
          /\ \A i \in G : rs[i].twoShanten = None
  <2>1. CASE \E i \in G : evaluations[i].shanten # 2
    BY <1>6, <1>7, <2>1
  <2>2. CASE \A i \in G : evaluations[i].shanten = 2
    BY <1>5, <1>9, <1>13, <2>2
  <2> QED
    BY <2>1, <2>2
<1>15. \A i \in G : /\ Itself[i] \in DOMAIN evaluations
                    /\ Base(rs[i], evaluations[Itself[i]])
                    /\ Computed(rs[i], evaluations[Itself[i]])
  BY <1>1, <1>2, <1>4, <1>5, <1>10
<1>16. \A i \in G : rs[i].shanten = 0 =>
          rs[i].continuation = IF AllContinue(Itself, G) THEN evaluations[Itself[i]].continuation ELSE None
  BY <1>5, <1>7, <1>9, <1>12
<1>17. Measured(rs, Itself, "twoShanten")
  BY <1>2, <1>11, <1>14, <1>15, <1>16 DEF Measured
<1> QED
  BY <1>17 DEF rs

\* The favourite, by the verdicts of thirteen merits.
LEMMA FavouriteIs ==
    ASSUME NEW S, NEW axis \in {"twoShanten", "full"},
           \A i \in S : evaluations[i] \in Candidate
    PROVE  Favourite(S, axis) =
             Min({i \in S : \A j \in S : Verdict(Merit(j, S, axis), Merit(i, S, axis), 13) # 1})
<1>1. \A i \in S : DOMAIN Merit(i, S, axis) = 1 .. 13
  BY MeritIs
<1>2. \A i, j \in S : MoreMerit(Merit(j, S, axis), Merit(i, S, axis))
                        <=> Verdict(Merit(j, S, axis), Merit(i, S, axis), 13) = 1
  BY <1>1, MoreMeritIs
<1>3. {i \in S : ~\E j \in S : MoreMerit(Merit(j, S, axis), Merit(i, S, axis))}
        = {i \in S : \A j \in S : Verdict(Merit(j, S, axis), Merit(i, S, axis), 13) # 1}
  BY <1>2
<1> QED
  BY <1>3 DEF Favourite

\* Where places stand for themselves, the first of the favoured is the favourite.
LEMMA FavouredIsFavourite ==
    ASSUME evaluations \in Inputs, NEW ms, NEW axis \in {"twoShanten", "full"},
           Lowest(ms) \subseteq DOMAIN evaluations
    PROVE  Min(Favoured(Lowest(ms), Merits(ms, Itself, axis), 13)) = Favourite(Lowest(ms), axis)
<1> DEFINE S == Lowest(ms)
<1>1. \A i \in S : evaluations[i] \in Candidate
  BY BestTierIs
<1>2. \A i \in S : Itself[i] = i
  BY DEF Itself
<1>3. Standing(Itself, S) = S
  BY <1>2 DEF Standing
<1>4. \A i \in S : Merits(ms, Itself, axis)[i] = Merit(i, S, axis)
  BY <1>2, <1>3 DEF Merits
<1> HIDE DEF S
<1>5. Favoured(S, Merits(ms, Itself, axis), 13) =
        {i \in S : \A j \in S : Verdict(Merit(j, S, axis), Merit(i, S, axis), 13) # 1}
  BY <1>4 DEF Favoured
<1>6. Favourite(S, axis) =
        Min({i \in S : \A j \in S : Verdict(Merit(j, S, axis), Merit(i, S, axis), 13) # 1})
  BY <1>1, FavouriteIs
<1> QED
  BY <1>5, <1>6 DEF S

\* The favourite of a single candidate is that candidate.
LEMMA FavouriteOfOne ==
    ASSUME evaluations \in Inputs, NEW i \in DOMAIN evaluations, NEW axis \in {"twoShanten", "full"}
    PROVE  Favourite({i}, axis) = i
<1>1. evaluations[i] \in Candidate /\ i \in Nat
  BY BestTierIs DEF AreViews
<1>2. DOMAIN Merit(i, {i}, axis) = 1 .. 13 /\ Numbers(Merit(i, {i}, axis), 13)
  BY <1>1, MeritIs
<1>3. \A k \in 1 .. 13 : ~(Merit(i, {i}, axis)[k] > Merit(i, {i}, axis)[k])
  BY <1>2 DEF Numbers
<1>4. ~MoreMerit(Merit(i, {i}, axis), Merit(i, {i}, axis))
  BY <1>2, <1>3 DEF MoreMerit
<1>5. {k \in {i} : ~\E j \in {i} : MoreMerit(Merit(j, {i}, axis), Merit(k, {i}, axis))} = {i}
  BY <1>4
<1>6. Min({i}) = i
  BY <1>1, MinIs
<1> QED
  BY <1>5, <1>6 DEF Favourite

\* The best of the views, before the refinements.
LEMMA FirstIs ==
    ASSUME evaluations \in Inputs, Uniform
    PROVE  /\ Best(Resolve(Ready(evaluations))) = Favourite(BestTier, "twoShanten")
           /\ Best(Resolve(Ready(evaluations))) \in BestTier
<1> DEFINE rs == Ready(evaluations)
           G == Lowest(evaluations)
           n == Len(evaluations)
<1>1. /\ AreViews(rs, n) /\ DOMAIN rs = DOMAIN evaluations /\ DOMAIN rs # {}
      /\ Lowest(rs) = G /\ G # {}
      /\ \A i \in DOMAIN rs : DOMAIN rs[i] = AllFields /\ rs[i].untilRyukyoku = None
  BY ReadyTier
<1>2. G \subseteq DOMAIN evaluations
  BY DEF Lowest
<1>3. BestTier = G
  BY BestTierIs
<1> HIDE DEF rs, G
<1>4. CASE \E a, b \in G : a # b
  <2>1. Measured(rs, Itself, "twoShanten")
    BY <1>4, ReadyIsMeasured DEF rs, G
  <2>2. Best(Resolve(rs)) = Min(Favoured(G, Merits(rs, Itself, "twoShanten"), 13))
    BY <1>1, <1>2, <2>1, BestIsFavoured
  <2>3. Min(Favoured(G, Merits(rs, Itself, "twoShanten"), 13)) = Favourite(G, "twoShanten")
    BY <1>1, <1>2, FavouredIsFavourite
  <2> DEFINE favoured == Favoured(G, Merits(rs, Itself, "twoShanten"), 13)
  <2>4. favoured # {}
    BY <1>1, <1>2, <2>1, BestIsFavoured
  <2>5. favoured \subseteq G
    BY DEF Favoured
  <2>6. favoured \in SUBSET Nat
    BY <1>1, <1>2, <2>5 DEF AreViews
  <2> HIDE DEF favoured
  <2>7. Min(favoured) \in G
    BY <2>4, <2>5, <2>6, MinIs
  <2> QED
    BY <1>3, <2>2, <2>3, <2>7 DEF rs, favoured
<1>5. CASE ~\E a, b \in G : a # b
  <2>1. PICK i \in G : G = {i}
    BY <1>1, <1>5
  <2>2. AreViews(Resolve(rs), n) /\ Lowest(Resolve(rs)) = {i}
    BY <1>1, <2>1, ResolveKeepsTheTier
  <2>3. Best(Resolve(rs)) = i
    BY <2>2, BestIsAlone
  <2>4. Favourite(G, "twoShanten") = i
    BY <1>2, <2>1, FavouriteOfOne
  <2> QED
    BY <1>3, <2>1, <2>3, <2>4 DEF rs
<1> QED
  BY <1>4, <1>5

-----------------------------------------------------------------------------
(* The two best candidates at two shanten. *)

\* Any metrics of two-shanten candidates of the best tier whose progress field holds the value of an
\* axis are measured on that axis.
LEMMA TwoShantenMeasured ==
    ASSUME evaluations \in Inputs, Uniform, NEW ms, NEW c, NEW axis \in {"twoShanten", "full"},
           \A k \in DOMAIN ms : DOMAIN ms[k] = AllFields,
           \A k \in Lowest(ms) :
              /\ c[k] \in Lowest(evaluations) /\ evaluations[c[k]].shanten = 2
              /\ Base(ms[k], evaluations[c[k]])
              /\ ms[k].prospective = evaluations[c[k]].prospective
              /\ ms[k].next = evaluations[c[k]].next
              /\ ms[k].nextTypes = evaluations[c[k]].nextTypes
              /\ ms[k].twoShanten = evaluations[c[k]][axis]
    PROVE  Measured(ms, c, axis)
<1> DEFINE G == Lowest(ms)
<1>1. \A k \in G : c[k] \in BestTier /\ c[k] \in DOMAIN evaluations
  BY BestTierIs DEF Lowest
<1>2. \A k \in G : Computed(ms[k], evaluations[c[k]])
  BY DEF Computed
<1>3. \A k \in G : ms[k].shanten = 2 /\ ms[k].chiitoi = evaluations[c[k]].chiitoi
                   /\ ms[k].standard = evaluations[c[k]].standard
  BY DEF Base
<1>4. \A i, j \in G : /\ (ms[i].chiitoi = None <=> ms[j].chiitoi = None)
                      /\ (ms[i].standard = 1 <=> ms[j].standard = 1)
  BY <1>1, <1>3 DEF Uniform
<1> QED
  BY <1>1, <1>2, <1>3, <1>4 DEF Measured

\* What the metrics hold at two shanten.
LEMMA ReadyAtTwo ==
    ASSUME evaluations \in Inputs, \E a, b \in Lowest(evaluations) : a # b,
           NEW i \in Lowest(evaluations), evaluations[i].shanten = 2
    PROVE  LET m == Ready(evaluations)[i]
               e == evaluations[i]
           IN  /\ m.prospective = e.prospective /\ m.next = e.next /\ m.nextTypes = e.nextTypes
               /\ m.twoShanten = IF \A j \in Lowest(evaluations) : evaluations[j].twoShanten # None
                                 THEN e.twoShanten ELSE None
               /\ m.dora = e.dora
<1>1. i \in DOMAIN evaluations /\ \E j \in Lowest(evaluations) : j # i
  BY DEF Lowest
<1>2. ReadyRecord(Ready(evaluations)[i], i)
  BY <1>1, ReadyIs
<1>3. Cohort(evaluations, i) = Lowest(evaluations)
  BY BestTierIs, CohortIs
<1>4. Ready(evaluations)[i].dora = evaluations[i].dora
  BY <1>2 DEF ReadyRecord, SameCandidate, Base
<1>5. /\ Ready(evaluations)[i].prospective = evaluations[i].prospective
      /\ Ready(evaluations)[i].next = evaluations[i].next
      /\ Ready(evaluations)[i].nextTypes = evaluations[i].nextTypes
      /\ Ready(evaluations)[i].twoShanten = Keep(evaluations, i, "twoShanten")
  BY <1>1, <1>2 DEF ReadyRecord
<1> QED
  BY <1>3, <1>4, <1>5 DEF Keep, KnownInCohort

\* The second of the two best, found among the others alone, is the favourite among the others.
LEMMA SecondIs ==
    ASSUME evaluations \in Inputs, Uniform, NEW first \in Lowest(evaluations),
           first = Best(Resolve(Ready(evaluations))),
           Lowest(evaluations) \ {first} # {}, evaluations[first].shanten = 2,
           \A j \in Lowest(evaluations) : evaluations[j].twoShanten # None
    PROVE  /\ TopTwo(Ready(evaluations))[2] = Favourite(BestTier \ {first}, "twoShanten")
           /\ TopTwo(Ready(evaluations))[2] \in BestTier \ {first}
<1> DEFINE rs == Ready(evaluations)
           G == Lowest(evaluations)
           H == G \ {first}
           n == Len(evaluations)
           ms == [i \in (DOMAIN rs) \ {first} |-> rs[i]]
<1>1. /\ AreViews(rs, n) /\ DOMAIN rs = DOMAIN evaluations /\ DOMAIN rs # {}
      /\ Lowest(rs) = G /\ G # {}
      /\ \A i \in DOMAIN rs : DOMAIN rs[i] = AllFields /\ rs[i].untilRyukyoku = None
                              /\ Base(rs[i], evaluations[i])
  BY ReadyTier
<1>2. TopTwo(rs)[2] = Best(Resolve(ms))
  BY DEF TopTwo
<1>3. G \subseteq DOMAIN evaluations
  BY DEF Lowest
<1>4. AreViews(evaluations, n) /\ DOMAIN evaluations # {} /\ BestTier = G
  BY BestTierIs
<1>5. \A i \in G : evaluations[i].shanten = 2
  BY <1>4, LowestIs
<1>6. \A i \in G : /\ rs[i].prospective = evaluations[i].prospective
                   /\ rs[i].next = evaluations[i].next /\ rs[i].nextTypes = evaluations[i].nextTypes
                   /\ rs[i].twoShanten = evaluations[i].twoShanten
  BY <1>5, ReadyAtTwo
<1>7. \A i \in G : Itself[i] = i
  BY <1>3 DEF Itself
<1>8. \A i \in G, j \in (DOMAIN rs) \ G : Rank(rs[i]) < Rank(rs[j])
  BY <1>1, LowestIs
<1>9. \A i, j \in G : Rank(rs[i]) = Rank(rs[j])
  BY <1>1, LowestIs
<1>10. \A i \in DOMAIN rs : Rank(rs[i]) \in Nat
  BY <1>1, RankIsNat DEF AreViews
<1> HIDE DEF rs
<1>11. DOMAIN ms = (DOMAIN rs) \ {first} /\ \A i \in DOMAIN ms : ms[i] = rs[i]
  OBVIOUS
<1> HIDE DEF ms, G
<1>12. AreViews(ms, n) /\ DOMAIN ms # {}
  BY <1>1, <1>3, <1>11 DEF AreViews, G
<1>13. Lowest(ms) = H
  <2>1. PICK h \in H : TRUE
    BY DEF G
  <2>2. h \in DOMAIN ms /\ H \subseteq DOMAIN ms
    BY <1>1, <1>3, <1>11
  <2>3. \A i \in H, j \in DOMAIN ms : Rank(ms[i]) <= Rank(ms[j])
    BY <1>1, <1>3, <1>8, <1>9, <1>10, <1>11
  <2>4. \A i \in DOMAIN ms : i \notin H => ~(Rank(ms[i]) <= Rank(ms[h]))
    BY <1>1, <1>3, <1>8, <1>10, <1>11, <2>2
  <2> QED
    BY <2>2, <2>3, <2>4 DEF Lowest
<1>14. Measured(ms, Itself, "twoShanten")
  <2>1. \A k \in DOMAIN ms : DOMAIN ms[k] = AllFields
    BY <1>1, <1>11
  <2>2. \A k \in Lowest(ms) :
           /\ Itself[k] \in Lowest(evaluations) /\ evaluations[Itself[k]].shanten = 2
           /\ Base(ms[k], evaluations[Itself[k]])
           /\ ms[k].prospective = evaluations[Itself[k]].prospective
           /\ ms[k].next = evaluations[Itself[k]].next
           /\ ms[k].nextTypes = evaluations[Itself[k]].nextTypes
           /\ ms[k].twoShanten = evaluations[Itself[k]]["twoShanten"]
    BY <1>1, <1>3, <1>5, <1>6, <1>7, <1>11, <1>13 DEF G
  <2> QED
    BY <2>1, <2>2, TwoShantenMeasured
<1>15. \A i \in Lowest(ms) : ms[i].untilRyukyoku = None
  BY <1>1, <1>3, <1>11, <1>13
<1> DEFINE favoured == Favoured(Lowest(ms), Merits(ms, Itself, "twoShanten"), 13)
<1>16. favoured # {} /\ Best(Resolve(ms)) = Min(favoured)
  BY <1>12, <1>14, <1>15, BestIsFavoured
<1>17. Lowest(ms) \subseteq DOMAIN evaluations
  BY <1>3, <1>13
<1>18. Min(favoured) = Favourite(H, "twoShanten")
  BY <1>13, <1>17, FavouredIsFavourite
<1>19. Min(favoured) \in H
  <2>1. favoured \subseteq H
    BY <1>13 DEF Favoured
  <2>2. favoured \in SUBSET Nat
    BY <1>3, <1>4, <2>1 DEF AreViews
  <2> HIDE DEF favoured
  <2> QED
    BY <1>16, <2>1, <2>2, MinIs
<1> QED
  BY <1>2, <1>4, <1>16, <1>18, <1>19 DEF rs

\* The merits are a list of thirteen integers.
LEMMA MeritIsList ==
    ASSUME NEW i, NEW S, NEW axis \in {"twoShanten", "full"}, evaluations[i] \in Candidate
    PROVE  Merit(i, S, axis) \in Seq(Int) /\ Len(Merit(i, S, axis)) = 13
<1> DEFINE e == evaluations[i]
           d == DeepMerit(i, S, axis)
           f == <<e.remaining, e.types, -e.chiitoi, Flag(e.shanten = 1 /\ e.standard = 1 /\ e.complete),
                  -e.penalty, -e.floating, -e.dora, -e.valueHonor, -Flag(e.red)>>
<1>1. d \in Seq(Int) /\ Len(d) = 4
  BY DeepIs
<1>2. f \in Seq(Int) /\ Len(f) = 9
  <2>1. /\ e.remaining \in Int /\ e.types \in Int /\ e.chiitoi \in Int /\ e.penalty \in Int
        /\ e.floating \in Int /\ e.dora \in Int /\ e.valueHonor \in Int
    BY CandidateIs, OptionIsInt
  <2>2. \A x : Flag(x) \in Int
    BY DEF Flag
  <2> HIDE DEF e
  <2> QED
    BY <2>1, <2>2
<1>3. Merit(i, S, axis) = d \o f
  BY DEF Merit
<1> HIDE DEF d, f
<1> QED
  BY <1>1, <1>2, <1>3, JoinedLists

\* A swap reverses the verdict on two lists, and it decides nothing exactly when they are equal.
LEMMA SameMerits ==
    ASSUME NEW n \in Nat, NEW s \in [1 .. n -> Int], NEW t \in [1 .. n -> Int]
    PROVE  /\ Verdict(s, s, n) # 1 /\ Verdict(t, t, n) # 1
           /\ Verdict(s, t, n) \in {-1, 0, 1}
           /\ (Verdict(s, t, n) = 1) <=> (Verdict(t, s, n) = -1)
           /\ (Verdict(t, s, n) = 1) <=> (Verdict(s, t, n) = -1)
           /\ Verdict(s, t, n) = 0 <=> s = t
<1>1. Numbers(s, n) /\ Numbers(t, n)
  BY DEF Numbers
<1>2. Verdict(s, s, n) = 0
  BY <1>1, EqualIsZero
<1>3. Verdict(t, t, n) = 0
  BY <1>1, EqualIsZero
<1>4. Verdict(s, t, n) = 0 <=> \A k \in 1 .. n : s[k] = t[k]
  BY <1>1, EqualIsZero
<1>5. (\A k \in 1 .. n : s[k] = t[k]) <=> s = t
  OBVIOUS
<1>6. Verdict(s, t, n) \in {-1, 0, 1} /\ ((Verdict(s, t, n) = 1) <=> (Verdict(t, s, n) = -1))
  BY <1>1, VerdictSwaps
<1>7. (Verdict(t, s, n) = 1) <=> (Verdict(s, t, n) = -1)
  BY <1>1, VerdictSwaps
<1> QED
  BY <1>2, <1>3, <1>4, <1>5, <1>6, <1>7

\* The pair compared again with the full values.
LEMMA PairIs ==
    ASSUME evaluations \in Inputs, Uniform, NEW a \in Lowest(evaluations), NEW b \in Lowest(evaluations),
           a # b, evaluations[a].shanten = 2, NEW pair, DOMAIN pair = 1 .. 2,
           pair[1] = [Ready(evaluations)[a] EXCEPT !.twoShanten = evaluations[a].full],
           pair[2] = [Ready(evaluations)[b] EXCEPT !.twoShanten = evaluations[b].full]
    PROVE  <<a, b>>[Best(Resolve(pair))] =
             IF Merit(a, {a, b}, "full") = Merit(b, {a, b}, "full") THEN a
             ELSE Favourite({a, b}, "full")
<1> DEFINE rs == Ready(evaluations)
           G == Lowest(evaluations)
           c == <<a, b>>
           ma == Merit(a, {a, b}, "full")
           mb == Merit(b, {a, b}, "full")
<1>1. /\ AreViews(evaluations, Len(evaluations)) /\ DOMAIN evaluations # {} /\ BestTier = G
      /\ \A i \in DOMAIN evaluations : evaluations[i] \in Candidate
  BY BestTierIs
<1>2. a \in DOMAIN evaluations /\ b \in DOMAIN evaluations
  BY DEF Lowest
<1>3. evaluations[b].shanten = 2 /\ Rank(evaluations[a]) = Rank(evaluations[b])
  BY <1>1, LowestIs
<1>4. \A i \in {a, b} : /\ DOMAIN rs[i] = AllFields /\ rs[i].untilRyukyoku = None
                        /\ Base(rs[i], evaluations[i])
  BY <1>2, ReadyTier
<1>5. \A i \in {a, b} : /\ rs[i].prospective = evaluations[i].prospective
                        /\ rs[i].next = evaluations[i].next /\ rs[i].nextTypes = evaluations[i].nextTypes
  BY <1>3, ReadyAtTwo
<1> HIDE DEF rs
<1>6. \A k \in 1 .. 2 : /\ DOMAIN pair[k] = AllFields /\ pair[k].untilRyukyoku = None
                        /\ Base(pair[k], evaluations[c[k]])
                        /\ pair[k].prospective = evaluations[c[k]].prospective
                        /\ pair[k].next = evaluations[c[k]].next
                        /\ pair[k].nextTypes = evaluations[c[k]].nextTypes
                        /\ pair[k].twoShanten = evaluations[c[k]].full
  <2>1. ASSUME NEW i \in {a, b}, NEW p, p = [rs[i] EXCEPT !.twoShanten = evaluations[i].full]
        PROVE  /\ DOMAIN p = AllFields /\ p.untilRyukyoku = None
               /\ Base(p, evaluations[i])
               /\ p.prospective = evaluations[i].prospective
               /\ p.next = evaluations[i].next /\ p.nextTypes = evaluations[i].nextTypes
               /\ p.twoShanten = evaluations[i].full
    <3>1. DOMAIN p = AllFields /\ p.twoShanten = evaluations[i].full
          /\ \A f \in AllFields : f # "twoShanten" => p[f] = rs[i][f]
      BY <1>4, <2>1 DEF AllFields
    <3> QED
      BY <1>4, <1>5, <3>1 DEF Base, AllFields
  <2>2. pair[1] = [rs[a] EXCEPT !.twoShanten = evaluations[a].full]
        /\ pair[2] = [rs[b] EXCEPT !.twoShanten = evaluations[b].full]
    BY DEF rs
  <2>3. \A k \in 1 .. 2 : k = 1 \/ k = 2
    OBVIOUS
  <2> QED
    BY <2>1, <2>2, <2>3
<1>7. c[1] = a /\ c[2] = b /\ \A k \in 1 .. 2 : c[k] \in {a, b}
  OBVIOUS
<1>8. \A k \in 1 .. 2 : pair[k].shanten = 2 /\ Rank(pair[k]) = Rank(evaluations[a])
  BY <1>3, <1>6, <1>7 DEF Base, Rank, Eligible
<1>9. AreViews(pair, 2) /\ DOMAIN pair # {}
  BY <1>8 DEF AreViews
<1>10. Rank(evaluations[a]) \in Nat
  BY <1>1, <1>2, RankIsNat DEF AreViews
<1>11. Lowest(pair) = 1 .. 2
  BY <1>8, <1>10 DEF Lowest
<1> HIDE DEF c, G
<1>12. Measured(pair, c, "full")
  <2>1. \A k \in Lowest(pair) :
           /\ c[k] \in Lowest(evaluations) /\ evaluations[c[k]].shanten = 2
           /\ Base(pair[k], evaluations[c[k]])
           /\ pair[k].prospective = evaluations[c[k]].prospective
           /\ pair[k].next = evaluations[c[k]].next
           /\ pair[k].nextTypes = evaluations[c[k]].nextTypes
           /\ pair[k].twoShanten = evaluations[c[k]]["full"]
    BY <1>3, <1>6, <1>7, <1>11
  <2> QED
    BY <1>6, <2>1, TwoShantenMeasured
<1> DEFINE m == Merits(pair, c, "full")
           favoured == Favoured(1 .. 2, m, 13)
<1>13. favoured # {} /\ Best(Resolve(pair)) = Min(favoured)
  BY <1>6, <1>9, <1>11, <1>12, BestIsFavoured
<1>14. m[1] = ma /\ m[2] = mb
  <2>1. Standing(c, 1 .. 2) = {a, b}
    BY <1>7 DEF Standing
  <2> QED
    BY <1>7, <1>11, <2>1 DEF Merits
<1>15. ma \in [1 .. 13 -> Int] /\ mb \in [1 .. 13 -> Int] /\ 13 \in Nat
  BY <1>1, <1>2, MeritIsList, LenProperties
<1>16. a \in Nat /\ b \in Nat
  BY <1>1, <1>2 DEF AreViews
<1>17. Favourite({a, b}, "full") =
         Min({i \in {a, b} : \A j \in {a, b} :
                 Verdict(Merit(j, {a, b}, "full"), Merit(i, {a, b}, "full"), 13) # 1})
  BY <1>1, <1>2, FavouriteIs
<1> HIDE DEF ma, mb, m
<1>18. /\ Verdict(ma, ma, 13) # 1 /\ Verdict(mb, mb, 13) # 1
       /\ Verdict(ma, mb, 13) \in {-1, 0, 1}
       /\ (Verdict(ma, mb, 13) = 1) <=> (Verdict(mb, ma, 13) = -1)
       /\ (Verdict(mb, ma, 13) = 1) <=> (Verdict(ma, mb, 13) = -1)
       /\ Verdict(ma, mb, 13) = 0 <=> ma = mb
  BY <1>15, SameMerits
<1>20. \A k \in 1 .. 2 : k \in favoured <=> \A l \in 1 .. 2 : Verdict(m[l], m[k], 13) # 1
  BY DEF Favoured
<1>21. favoured \subseteq 1 .. 2
  BY DEF Favoured
<1> HIDE DEF favoured
<1>22. (1 \in favoured <=> Verdict(mb, ma, 13) # 1) /\ (2 \in favoured <=> Verdict(ma, mb, 13) # 1)
  <2>1. \A k : k \in 1 .. 2 <=> (k = 1 \/ k = 2)
    OBVIOUS
  <2> QED
    BY <1>14, <1>18, <1>20, <2>1
<1>23. Min(favoured) \in favoured /\ \A k \in favoured : Min(favoured) <= k
  BY <1>13, <1>21, MinIs
<1>24. CASE ma = mb
  <2>1. 1 \in favoured
    BY <1>18, <1>22, <1>24
  <2>2. Min(favoured) = 1
    BY <1>21, <1>23, <2>1
  <2> QED
    BY <1>7, <1>13, <1>24, <2>2 DEF ma, mb, c
<1>25. CASE ma # mb /\ Verdict(ma, mb, 13) = 1
  <2>1. favoured = {1}
    BY <1>18, <1>21, <1>22, <1>25
  <2>2. Best(Resolve(pair)) = 1
    BY <1>13, <1>23, <2>1
  <2>3. {i \in {a, b} : \A j \in {a, b} :
            Verdict(Merit(j, {a, b}, "full"), Merit(i, {a, b}, "full"), 13) # 1} = {a}
    BY <1>18, <1>25 DEF ma, mb
  <2>4. Min({a}) = a
    BY <1>16, MinIs
  <2> QED
    BY <1>7, <1>17, <1>25, <2>2, <2>3, <2>4 DEF ma, mb, c
<1>26. CASE ma # mb /\ Verdict(ma, mb, 13) = -1
  <2>1. favoured = {2}
    BY <1>18, <1>21, <1>22, <1>26
  <2>2. Best(Resolve(pair)) = 2
    BY <1>13, <1>23, <2>1
  <2>3. {i \in {a, b} : \A j \in {a, b} :
            Verdict(Merit(j, {a, b}, "full"), Merit(i, {a, b}, "full"), 13) # 1} = {b}
    BY <1>18, <1>26 DEF ma, mb
  <2>4. Min({b}) = b
    BY <1>16, MinIs
  <2> QED
    BY <1>7, <1>17, <1>26, <2>2, <2>3, <2>4 DEF ma, mb, c
<1> QED
  BY <1>18, <1>24, <1>25, <1>26

-----------------------------------------------------------------------------
(* Each way the selection ends, against the intended discard. *)

\* Two shanten competes when several candidates of the best tier are two from tenpai.
LEMMA CompetesAtTwo ==
    ASSUME evaluations \in Inputs, NEW g \in Lowest(evaluations)
    PROVE  CompetingAt(Ready(evaluations), 2)
             <=> evaluations[g].shanten = 2 /\ \E a, b \in Lowest(evaluations) : a # b
<1> DEFINE rs == Ready(evaluations)
<1>1. DOMAIN rs = DOMAIN evaluations /\ \A i \in DOMAIN evaluations : ReadyRecord(rs[i], i)
  BY ReadyIs
<1>2. \A i \in DOMAIN rs : SameCandidate(rs[i], evaluations[i])
                           /\ rs[i].next = Forwarded(evaluations)[i].next
  BY <1>1 DEF ReadyRecord
<1> HIDE DEF rs
<1>3. CompetingAt(rs, 2) <=> evaluations[g].shanten = 2 /\ ForwardSet(evaluations) # {}
  BY <1>1, <1>2, CompetingIs
<1>4. ForwardSet(evaluations) =
        IF evaluations[g].shanten >= 1 /\ \E a, b \in Lowest(evaluations) : a # b
        THEN Lowest(evaluations) ELSE {}
  BY ForwardSetIs
<1> QED
  BY <1>3, <1>4 DEF rs

\* The gate for the full values, from the facts alone.
LEMMA GateIs ==
    ASSUME evaluations \in Inputs, Uniform, CompetingAt(Ready(evaluations), 2)
    PROVE  LET first  == Favourite(BestTier, "twoShanten")
               second == Favourite(BestTier \ {first}, "twoShanten")
               pair   == TopTwo(Ready(evaluations))
               known  == \A i \in BestTier : evaluations[i].twoShanten # None
           IN  /\ first \in BestTier /\ pair = <<first, pair[2]>>
               /\ evaluations[first].shanten = 2 /\ BestTier \ {first} # {}
               /\ FullGate(Ready(evaluations), pair) <=>
                    /\ known
                    /\ evaluations[first].twoShanten # evaluations[second].twoShanten
                    /\ evaluations[first].dora # evaluations[second].dora
               /\ known => pair[2] = second /\ second \in BestTier \ {first}
<1> DEFINE G == Lowest(evaluations)
           rs == Ready(evaluations)
           first == Favourite(BestTier, "twoShanten")
           second == Favourite(BestTier \ {first}, "twoShanten")
           pair == TopTwo(rs)
           known == \A i \in BestTier : evaluations[i].twoShanten # None
<1>1. BestTier = G
  BY BestTierIs
<1>2. first \in G /\ first = Best(Resolve(rs))
  BY <1>1, FirstIs
<1>3. pair = <<first, pair[2]>>
  BY <1>2 DEF TopTwo
<1>4. evaluations[first].shanten = 2 /\ \E a, b \in G : a # b
  BY <1>2, CompetesAtTwo
<1>5. G \ {first} # {}
  BY <1>4
<1>6. known => pair[2] = second /\ second \in G \ {first}
  BY <1>1, <1>2, <1>4, <1>5, SecondIs
<1>7. \A i \in G : evaluations[i].shanten = 2
  BY <1>2, <1>4, BestTierIs, LowestIs
<1>8. \A i \in G : /\ rs[i].twoShanten = IF known THEN evaluations[i].twoShanten ELSE None
                   /\ rs[i].dora = evaluations[i].dora
  BY <1>1, <1>4, <1>7, ReadyAtTwo
<1>9. pair[1] = first
  BY <1>3
<1> HIDE DEF G, rs, first, second, pair
<1>10. CASE known
  <2>1. /\ rs[first].twoShanten = evaluations[first].twoShanten
        /\ rs[second].twoShanten = evaluations[second].twoShanten
        /\ rs[first].dora = evaluations[first].dora /\ rs[second].dora = evaluations[second].dora
        /\ None \notin {evaluations[first].twoShanten, evaluations[second].twoShanten}
    BY <1>1, <1>2, <1>6, <1>8, <1>10
  <2>2. FullGate(rs, pair) <=>
          /\ evaluations[first].twoShanten # evaluations[second].twoShanten
          /\ evaluations[first].dora # evaluations[second].dora
    BY <1>6, <1>9, <1>10, <2>1 DEF FullGate
  <2> QED
    BY <1>1, <1>2, <1>3, <1>4, <1>5, <1>6, <1>10, <2>2 DEF rs, pair, second, first
<1>11. CASE ~known
  <2>1. rs[first].twoShanten = None
    BY <1>2, <1>8, <1>11
  <2>2. ~FullGate(rs, pair)
    BY <1>9, <2>1 DEF FullGate
  <2> QED
    BY <1>1, <1>2, <1>3, <1>4, <1>5, <1>11, <2>2 DEF rs, pair, second, first
<1> QED
  BY <1>10, <1>11

\* If the gate for the full values stays closed, the choice by progress is the intended one.
LEMMA TwoShantenIsIntended ==
    ASSUME evaluations \in Inputs, Uniform, CompetingAt(Ready(evaluations), 2),
           ~FullGate(Ready(evaluations), TopTwo(Ready(evaluations)))
    PROVE  TopTwo(Ready(evaluations))[1] = Intended
<1> DEFINE first == Favourite(BestTier, "twoShanten")
           pair == TopTwo(Ready(evaluations))
<1>1. pair = <<first, pair[2]>> /\ evaluations[first].shanten = 2 /\ BestTier \ {first} # {}
  BY GateIs
<1>2. pair[1] = first
  BY <1>1
<1>3. Intended = first
  BY <1>1, GateIs DEF Intended
<1> QED
  BY <1>2, <1>3

\* If it opens, the choice of the pair by the full values is.
LEMMA FullIsIntended ==
    ASSUME evaluations \in Inputs, Uniform, CompetingAt(Ready(evaluations), 2),
           FullGate(Ready(evaluations), TopTwo(Ready(evaluations))), NEW pair, DOMAIN pair = 1 .. 2,
           \A k \in 1 .. 2 :
              LET i == TopTwo(Ready(evaluations))[k]
              IN  pair[k] = [Ready(evaluations)[i] EXCEPT !.twoShanten = evaluations[i].full]
    PROVE  TopTwo(Ready(evaluations))[Best(Resolve(pair))] = Intended
<1> DEFINE first == Favourite(BestTier, "twoShanten")
           second == Favourite(BestTier \ {first}, "twoShanten")
           top == TopTwo(Ready(evaluations))
<1>1. /\ first \in BestTier /\ top = <<first, top[2]>>
      /\ evaluations[first].shanten = 2 /\ BestTier \ {first} # {}
      /\ \A i \in BestTier : evaluations[i].twoShanten # None
      /\ evaluations[first].twoShanten # evaluations[second].twoShanten
      /\ evaluations[first].dora # evaluations[second].dora
      /\ top[2] = second /\ second \in BestTier \ {first}
  BY GateIs
<1>2. top = <<first, second>> /\ top[1] = first /\ top[2] = second
  BY <1>1
<1>3. pair[1] = [Ready(evaluations)[first] EXCEPT !.twoShanten = evaluations[first].full]
      /\ pair[2] = [Ready(evaluations)[second] EXCEPT !.twoShanten = evaluations[second].full]
  <2>1. 1 \in 1 .. 2 /\ 2 \in 1 .. 2
    OBVIOUS
  <2>2. \A k \in 1 .. 2 : pair[k] = [Ready(evaluations)[top[k]] EXCEPT
                                        !.twoShanten = evaluations[top[k]].full]
    OBVIOUS
  <2> HIDE DEF top, first, second
  <2> QED
    BY <1>2, <2>1, <2>2
<1>4. BestTier = Lowest(evaluations)
  BY BestTierIs
<1> HIDE DEF first, second, top
<1>5. <<first, second>>[Best(Resolve(pair))] =
        IF Merit(first, {first, second}, "full") = Merit(second, {first, second}, "full") THEN first
        ELSE Favourite({first, second}, "full")
  BY <1>1, <1>3, <1>4, PairIs
<1>6. Intended =
        IF Merit(first, {first, second}, "full") = Merit(second, {first, second}, "full") THEN first
        ELSE Favourite({first, second}, "full")
  BY <1>1 DEF Intended, first, second
<1> QED
  BY <1>2, <1>5, <1>6 DEF top

\* The candidates that tie completely with the winner.
LEMMA TieIs ==
    ASSUME evaluations \in Inputs, Uniform
    PROVE  LET views == Resolve(Ready(evaluations))
               w     == Best(views)
               tie   == {i \in DOMAIN views : BeforeStableOrder(views[w], views[i]) = 0}
           IN  /\ w \in BestTier /\ views[w].shanten = evaluations[w].shanten
               /\ BestTier \ {w} = {} => tie \subseteq {w}
               /\ BestTier \ {w} # {} =>
                     /\ tie = Equals(w, BestTier) /\ w \in tie
                     /\ \A i \in BestTier \ tie :
                           Verdict(Merit(w, BestTier, "twoShanten"), Merit(i, BestTier, "twoShanten"), 13) = 1
               /\ tie \subseteq BestTier /\ IsFiniteSet(tie)
<1> DEFINE rs == Ready(evaluations)
           views == Resolve(rs)
           G == Lowest(evaluations)
           n == Len(evaluations)
           w == Best(views)
           tie == {i \in DOMAIN views : BeforeStableOrder(views[w], views[i]) = 0}
           M(i) == Merit(i, G, "twoShanten")
<1>1. /\ AreViews(rs, n) /\ DOMAIN rs = DOMAIN evaluations /\ DOMAIN rs # {}
      /\ Lowest(rs) = G /\ G # {}
      /\ \A i \in DOMAIN rs : DOMAIN rs[i] = AllFields /\ rs[i].untilRyukyoku = None
                              /\ Base(rs[i], evaluations[i])
  BY ReadyTier
<1>2. BestTier = G /\ G \subseteq DOMAIN evaluations
  BY BestTierIs DEF Lowest
<1>3. w \in G
  BY <1>2, FirstIs
<1>4. AreViews(views, n) /\ DOMAIN views = DOMAIN rs /\ Lowest(views) = G
  BY <1>1, ResolveKeepsTheTier
<1>5. \A i \in DOMAIN rs : Base(views[i], rs[i])
  BY <1>1, ResolveIs
<1> HIDE DEF rs
<1>6. views[w].shanten = evaluations[w].shanten
  BY <1>1, <1>2, <1>3, <1>5 DEF Base
<1> HIDE DEF views, w
<1>7. \A j \in DOMAIN views : j \notin G => BeforeAcceptance(views[w], views[j]) = 1
  BY <1>1, <1>3, <1>4, BeforeDecides
<1>8. \A x, y : BeforeAcceptance(x, y) = 1 => BeforeStableOrder(x, y) # 0
  BY BeforeIsFirst
<1>9. tie \subseteq G
  BY <1>7, <1>8
<1>10. G \ {w} = {} => tie \subseteq {w}
  BY <1>9
<1>11. IsFiniteSet(tie)
  <2>1. tie \subseteq DOMAIN views
    OBVIOUS
  <2> QED
    BY <1>4, <2>1, PlacesAreFinite
<1>12. ASSUME G \ {w} # {}
       PROVE  /\ tie = Equals(w, G) /\ w \in tie
              /\ \A i \in G \ tie : Verdict(M(w), M(i), 13) = 1
  <2>1. \E a, b \in G : a # b
    BY <1>3, <1>12
  <2>2. Measured(rs, Itself, "twoShanten")
    BY <2>1, ReadyIsMeasured DEF rs
  <2>3. \A i \in G : Itself[i] = i
    BY <1>2 DEF Itself
  <2>4. Standing(Itself, G) = G
    BY <2>3 DEF Standing
  <2>5. \A i \in G : Merits(rs, Itself, "twoShanten")[i] = M(i)
    BY <1>1, <2>3, <2>4 DEF Merits
  <2>6. \A i, j \in G : BeforeStableOrder(views[i], views[j]) = Verdict(M(i), M(j), 13)
    BY <1>1, <2>2, <2>5, ViewsCompareMerits DEF views
  <2>7. \A i \in G : M(i) \in [1 .. 13 -> Int]
    BY <1>2, BestTierIs, MeritIsList, LenProperties
  <2>8. 13 \in Nat
    OBVIOUS
  <2> HIDE DEF M
  <2>9. \A i, j \in G : /\ Verdict(M(i), M(j), 13) = 0 <=> M(i) = M(j)
                        /\ Verdict(M(i), M(j), 13) \in {-1, 0, 1}
                        /\ (Verdict(M(j), M(i), 13) = 1) <=> (Verdict(M(i), M(j), 13) = -1)
    BY <2>7, <2>8, SameMerits
  <2>10. \A j \in G : Verdict(M(j), M(w), 13) # 1
    <3>1. w = Min(Favoured(G, Merits(rs, Itself, "twoShanten"), 13))
          /\ Favoured(G, Merits(rs, Itself, "twoShanten"), 13) # {}
      BY <1>1, <1>2, <2>2, BestIsFavoured DEF w, views
    <3> DEFINE favoured == Favoured(G, Merits(rs, Itself, "twoShanten"), 13)
    <3>2. favoured \subseteq G
      BY DEF Favoured
    <3>3. favoured \in SUBSET Nat
      BY <1>1, <1>2, <3>2 DEF AreViews
    <3> HIDE DEF favoured
    <3>4. w \in favoured
      BY <3>1, <3>3, MinIs DEF favoured
    <3> QED
      BY <1>3, <2>5, <3>4 DEF favoured, Favoured
  <2>11. tie = {j \in G : M(j) = M(w)}
    <3>1. \A j \in G : j \in tie <=> M(j) = M(w)
      BY <1>1, <1>2, <1>3, <1>4, <2>6, <2>9
    <3> HIDE DEF tie
    <3> QED
      BY <1>9, <3>1
  <2>12. Equals(w, G) = {j \in G : M(j) = M(w)}
    BY DEF Equals, M
  <2>13. \A i \in G \ tie : Verdict(M(w), M(i), 13) = 1
    <3>1. SUFFICES ASSUME NEW i \in G, M(i) # M(w)
                   PROVE  Verdict(M(w), M(i), 13) = 1
      BY <2>11
    <3>2. Verdict(M(w), M(i), 13) # 0 /\ Verdict(M(w), M(i), 13) # -1
      BY <1>3, <2>9, <2>10, <3>1
    <3> QED
      BY <1>3, <2>9, <3>2
  <2> QED
    BY <1>3, <2>11, <2>12, <2>13
<1> QED
  BY <1>2, <1>3, <1>6, <1>9, <1>10, <1>11, <1>12 DEF tie, w, views, rs

\* The longest of a single candidate is that candidate.
LEMMA LongestOfOne ==
    ASSUME evaluations \in Inputs, NEW i \in DOMAIN evaluations
    PROVE  Longest({i}) = i
<1>1. i \in Nat /\ evaluations[i].untilRyukyoku \in Int
  BY BestTierIs, CandidateIs, OptionIsInt DEF AreViews
<1>2. {k \in {i} : \A j \in {i} : evaluations[j].untilRyukyoku <= evaluations[k].untilRyukyoku} = {i}
  BY <1>1
<1>3. Min({i}) = i
  BY <1>1, MinIs
<1> QED
  BY <1>2, <1>3 DEF Longest

\* Where no two candidates tie completely at one shanten, the comparator's choice is intended.
LEMMA DecideIsIntended ==
    ASSUME evaluations \in Inputs, Uniform, ~CompetingAt(Ready(evaluations), 2),
           FallbackCohort(Resolve(Ready(evaluations))) = {}
    PROVE  Best(Resolve(Ready(evaluations))) = Intended
<1> DEFINE views == Resolve(Ready(evaluations))
           w == Best(views)
           tie == {i \in DOMAIN views : BeforeStableOrder(views[w], views[i]) = 0}
           others == BestTier \ {w}
<1>1. /\ w \in BestTier /\ views[w].shanten = evaluations[w].shanten
      /\ others # {} => tie = Equals(w, BestTier) /\ w \in tie
      /\ IsFiniteSet(tie)
  BY TieIs
<1>2. w = Favourite(BestTier, "twoShanten")
  BY FirstIs
<1>3. BestTier = Lowest(evaluations) /\ w \in DOMAIN evaluations
  BY <1>1, BestTierIs DEF Lowest
<1>4. FallbackCohort(views) = IF views[w].shanten # 1 \/ Cardinality(tie) < 2 THEN {} ELSE tie
  BY DEF FallbackCohort
<1>5. others # {} => evaluations[w].shanten # 2
  BY <1>1, <1>3, CompetesAtTwo
<1> HIDE DEF views, w, tie
<1>6. others # {} /\ evaluations[w].shanten = 1 => Equals(w, BestTier) = {w}
  <2>1. SUFFICES ASSUME others # {}, evaluations[w].shanten = 1  PROVE tie = {w}
    BY <1>1
  <2>2. Cardinality(tie) < 2
    <3>1. tie # {}
      BY <1>1, <2>1
    <3> QED
      BY <1>1, <1>4, <2>1, <3>1 DEF views
  <2>3. Cardinality(tie) \in Nat
    BY <1>1, FS_CardinalityType
  <2>4. ~(Cardinality(tie) > 1)
    BY <2>2, <2>3
  <2>5. ~\E a, b \in tie : a # b
    BY <1>1, <2>4, SeveralIs
  <2> QED
    BY <1>1, <2>1, <2>5
<1>7. Longest({w}) = w
  BY <1>3, LongestOfOne
<1>8. Intended = w
  BY <1>2, <1>5, <1>6, <1>7 DEF Intended
<1> QED
  BY <1>8 DEF w, views

-----------------------------------------------------------------------------
(* The long horizon splits a complete tie. *)

\* Records that differ at most in the value of the long horizon.
Agree(x, y) == DOMAIN x = AllFields /\ DOMAIN y = AllFields
               /\ \A f \in AllFields : f # "untilRyukyoku" => x[f] = y[f]

\* Two records that agree but for the long horizon agree in every other field the axes read,
LEMMA AgreeFields ==
    ASSUME NEW x, NEW y, Agree(x, y)
    PROVE  /\ x.shanten = y.shanten /\ x.standard = y.standard /\ x.isolated = y.isolated
           /\ x.honor = y.honor /\ x.red = y.red /\ x.complete = y.complete
           /\ x.chiitoi = y.chiitoi /\ x.remaining = y.remaining /\ x.types = y.types
           /\ x.penalty = y.penalty /\ x.floating = y.floating /\ x.dora = y.dora
           /\ x.valueHonor = y.valueHonor
           /\ x.expected = y.expected /\ x.prospective = y.prospective /\ x.wait = y.wait
           /\ x.waitTypes = y.waitTypes /\ x.next = y.next /\ x.nextTypes = y.nextTypes
           /\ x.twoShanten = y.twoShanten /\ x.threeShanten = y.threeShanten
           /\ x.offense = y.offense /\ x.selfTsumo = y.selfTsumo /\ x.continuation = y.continuation
BY DEF Agree, AllFields

\* and compare alike on every axis but that one.
LEMMA AgreeCompare ==
    ASSUME NEW c, NEW d, NEW b, NEW a, Agree(c, d), Agree(b, a)
    PROVE  BeforeStableOrder(c, b) = BeforeStableOrder(d, a)
<1>1. BeforeAcceptance(c, b) = BeforeAcceptance(d, a)
  <2>1. IsolatedTile(c, b) = IsolatedTile(d, a)
    BY AgreeFields DEF IsolatedTile, Eligible
  <2>2. IsolatedHonor(c, b) = IsolatedHonor(d, a)
    BY AgreeFields DEF IsolatedHonor, Eligible
  <2>3. Fewer(c.shanten, b.shanten) = Fewer(d.shanten, a.shanten)
    BY AgreeFields
  <2> QED
    BY <2>1, <2>2, <2>3 DEF BeforeAcceptance
<1>2. FromAcceptance(c, b) = FromAcceptance(d, a)
  <2>1. ChiitoitsuWait(c, b) = ChiitoitsuWait(d, a)
    BY AgreeFields DEF ChiitoitsuWait
  <2>2. IishantenShape(c, b) = IishantenShape(d, a)
    BY AgreeFields DEF IishantenShape, At
  <2> QED
    BY <2>1, <2>2, AgreeFields DEF FromAcceptance
<1>3. \A s, v : At(s, c, b, v) = At(s, d, a, v)
  BY AgreeFields DEF At
<1>4. TenpaiWait(c, b) = TenpaiWait(d, a)
  BY <1>3, AgreeFields DEF TenpaiWait
<1>5. NextAcceptance(c, b) = NextAcceptance(d, a)
  BY AgreeFields DEF NextAcceptance
<1> QED
  BY <1>1, <1>2, <1>3, <1>4, <1>5, AgreeFields DEF BeforeStableOrder

\* The merits with the value of the long horizon after them.
Split(i, tie) ==
    [k \in 1 .. 14 |-> IF k < 14 THEN Merit(i, BestTier, "twoShanten")[k]
                       ELSE IF i \in tie THEN evaluations[i].untilRyukyoku ELSE 0]

\* The long horizon as a fourteenth merit of the candidates that tie.
LEMMA SplitIs ==
    ASSUME evaluations \in Inputs, NEW i \in BestTier, NEW tie
    PROVE  LET m == Merit(i, BestTier, "twoShanten")
               u == IF i \in tie THEN evaluations[i].untilRyukyoku ELSE 0
           IN  /\ Numbers(m, 13) /\ Numbers(Split(i, tie), 14)
               /\ \A k \in 1 .. 13 : Split(i, tie)[k] = m[k]
               /\ Split(i, tie)[14] = u
<1> DEFINE m == Merit(i, BestTier, "twoShanten")
           u == IF i \in tie THEN evaluations[i].untilRyukyoku ELSE 0
<1>1. evaluations[i] \in Candidate
  BY BestTierIs DEF Lowest
<1>2. Numbers(m, 13)
  BY <1>1, MeritIs
<1>3. u \in Int
  BY <1>1, CandidateIs, OptionIsInt
<1>4. Split(i, tie) = [k \in 1 .. 14 |-> IF k < 14 THEN m[k] ELSE u]
  BY DEF Split
<1> HIDE DEF m, u
<1>5. \A k \in 1 .. 13 : Split(i, tie)[k] = m[k] /\ m[k] \in Int
  BY <1>2, <1>4 DEF Numbers
<1>6. Split(i, tie)[14] = u
  BY <1>4
<1>7. \A k \in 1 .. 14 : Split(i, tie)[k] \in Int
  BY <1>3, <1>5, <1>6
<1> QED
  BY <1>2, <1>5, <1>6, <1>7 DEF Numbers, m, u

\* A verdict reads the first n merits only.
LEMMA VerdictReads ==
    ASSUME NEW n \in Nat, NEW s, NEW t, NEW u, NEW v,
           \A k \in 1 .. n : s[k] = u[k] /\ t[k] = v[k]
    PROVE  Verdict(s, t, n) = Verdict(u, v, n)
<1>1. \A k \in 1 .. n : \A l \in 1 .. (k - 1) : l \in 1 .. n
  OBVIOUS
<1>2. (\E k \in 1 .. n : s[k] > t[k] /\ \A l \in 1 .. (k - 1) : s[l] = t[l])
        <=> (\E k \in 1 .. n : u[k] > v[k] /\ \A l \in 1 .. (k - 1) : u[l] = v[l])
  BY <1>1
<1>3. (\E k \in 1 .. n : t[k] > s[k] /\ \A l \in 1 .. (k - 1) : s[l] = t[l])
        <=> (\E k \in 1 .. n : v[k] > u[k] /\ \A l \in 1 .. (k - 1) : u[l] = v[l])
  BY <1>1
<1> QED
  BY <1>2, <1>3 DEF Verdict

\* The fourteenth merit decides where the thirteen do not.
LEMMA SplitVerdict ==
    ASSUME evaluations \in Inputs, NEW i \in BestTier, NEW j \in BestTier, NEW tie
    PROVE  Verdict(Split(i, tie), Split(j, tie), 14) =
             Verdict(Merit(i, BestTier, "twoShanten"), Merit(j, BestTier, "twoShanten"), 13)
               ?? More(IF i \in tie THEN evaluations[i].untilRyukyoku ELSE 0,
                       IF j \in tie THEN evaluations[j].untilRyukyoku ELSE 0)
<1> DEFINE s == Split(i, tie)
           t == Split(j, tie)
<1>1. /\ Numbers(s, 14) /\ Numbers(t, 14)
      /\ \A k \in 1 .. 13 : s[k] = Merit(i, BestTier, "twoShanten")[k]
                            /\ t[k] = Merit(j, BestTier, "twoShanten")[k]
      /\ s[14] = (IF i \in tie THEN evaluations[i].untilRyukyoku ELSE 0)
      /\ t[14] = (IF j \in tie THEN evaluations[j].untilRyukyoku ELSE 0)
  BY SplitIs
<1> HIDE DEF s, t
<1>2. 13 \in Nat /\ 13 + 1 = 14
  OBVIOUS
<1>3. Verdict(s, t, 14) = Verdict(s, t, 13) ?? More(s[14], t[14])
  <2>1. Numbers(s, 13 + 1) /\ Numbers(t, 13 + 1)
    BY <1>1, <1>2
  <2>2. Verdict(s, t, 13 + 1) = Verdict(s, t, 13) ?? More(s[13 + 1], t[13 + 1])
    BY <1>2, <2>1, NextAxis
  <2> QED
    BY <1>2, <2>2
<1>4. Verdict(s, t, 13) = Verdict(Merit(i, BestTier, "twoShanten"), Merit(j, BestTier, "twoShanten"), 13)
  BY <1>1, <1>2, VerdictReads
<1> QED
  BY <1>1, <1>3, <1>4 DEF s, t

\* With the values of the long horizon the choice among the tied candidates is the intended one.
LEMMA FallbackIsIntended ==
    ASSUME evaluations \in Inputs, Uniform, ~CompetingAt(Ready(evaluations), 2),
           FallbackCohort(Resolve(Ready(evaluations))) # {}, NEW values,
           \A i \in FallbackCohort(Resolve(Ready(evaluations))) :
              values[i].untilRyukyoku = evaluations[i].untilRyukyoku
    PROVE  Best(Fill(Resolve(Ready(evaluations)), FallbackCohort(Resolve(Ready(evaluations))), values))
             = Intended
<1> DEFINE rs == Ready(evaluations)
           views == Resolve(rs)
           G == BestTier
           n == Len(evaluations)
           w == Best(views)
           tie == {i \in DOMAIN views : BeforeStableOrder(views[w], views[i]) = 0}
           M(i) == Merit(i, G, "twoShanten")
           U(i) == evaluations[i].untilRyukyoku
           filled == Fill(views, tie, values)
           known == \A i \in tie : U(i) # None
<1>1. /\ AreViews(rs, n) /\ DOMAIN rs = DOMAIN evaluations /\ DOMAIN rs # {}
      /\ Lowest(rs) = Lowest(evaluations)
      /\ \A i \in DOMAIN rs : DOMAIN rs[i] = AllFields /\ rs[i].untilRyukyoku = None
                              /\ Base(rs[i], evaluations[i])
  BY ReadyTier
<1>2. G = Lowest(evaluations) /\ G \subseteq DOMAIN evaluations /\ G \subseteq Nat
      /\ \A i \in DOMAIN evaluations : evaluations[i] \in Candidate
  BY BestTierIs DEF Lowest, AreViews
<1>3. AreViews(views, n) /\ DOMAIN views = DOMAIN rs /\ Lowest(views) = G
  BY <1>1, <1>2, ResolveKeepsTheTier
<1>4. \A i \in DOMAIN views : DOMAIN views[i] = AllFields /\ views[i].untilRyukyoku = None
                              /\ views[i].shanten = evaluations[i].shanten
  BY <1>1, <1>3, ResolveIs DEF Base
<1>5. views = [i \in DOMAIN views |-> views[i]]
  BY DEF Resolve
<1>6. /\ w \in G /\ views[w].shanten = evaluations[w].shanten
      /\ G \ {w} = {} => tie \subseteq {w}
      /\ G \ {w} # {} =>
            /\ tie = Equals(w, G) /\ w \in tie
            /\ \A i \in G \ tie : Verdict(M(w), M(i), 13) = 1
      /\ tie \subseteq G /\ IsFiniteSet(tie)
  BY TieIs
<1>7. w = Favourite(G, "twoShanten")
  BY FirstIs
<1>8. FallbackCohort(views) = IF views[w].shanten # 1 \/ Cardinality(tie) < 2 THEN {} ELSE tie
  BY DEF FallbackCohort
<1>9. FallbackCohort(views) = tie /\ evaluations[w].shanten = 1 /\ G \ {w} # {}
  <2> HIDE DEF views, w, tie
  <2>1. FallbackCohort(views) = tie /\ evaluations[w].shanten = 1 /\ ~(Cardinality(tie) < 2)
    BY <1>6, <1>8 DEF views, rs
  <2>2. ~(tie \subseteq {w})
    <3>1. SUFFICES ASSUME tie \subseteq {w}  PROVE Cardinality(tie) < 2
      BY <2>1
    <3>2. ~\E a, b \in tie : a # b
      BY <3>1
    <3>3. ~(Cardinality(tie) > 1) /\ Cardinality(tie) \in Nat
      BY <1>6, <3>2, SeveralIs, FS_CardinalityType
    <3> QED
      BY <3>3
  <2> QED
    BY <1>6, <2>1, <2>2
<1>10. tie = {i \in G : M(i) = M(w)} /\ w \in tie
       /\ \A i \in G \ tie : Verdict(M(w), M(i), 13) = 1
  BY <1>6, <1>9 DEF Equals
<1>11. Intended = IF known THEN Longest(tie) ELSE w
  <2>1. Equals(Favourite(G, "twoShanten"), G) = tie
    BY <1>6, <1>7, <1>9
  <2> HIDE DEF w, tie
  <2> QED
    BY <1>7, <1>9, <2>1 DEF Intended
<1>12. \A i \in tie : values[i].untilRyukyoku = U(i)
  BY <1>9
<1>13. \A i \in G : U(i) \in Int
  BY <1>2, CandidateIs, OptionIsInt
<1>14. \A i, j \in G : BeforeStableOrder(views[i], views[j]) = Verdict(M(i), M(j), 13)
  <2>1. \E a, b \in Lowest(evaluations) : a # b
    BY <1>2, <1>6, <1>9
  <2>2. Measured(rs, Itself, "twoShanten")
    BY <2>1, ReadyIsMeasured
  <2>3. \A i \in G : Itself[i] = i
    BY <1>2 DEF Itself
  <2>4. Standing(Itself, G) = G
    BY <2>3 DEF Standing
  <2>5. \A i \in G : Merits(rs, Itself, "twoShanten")[i] = M(i)
    BY <1>1, <1>2, <2>3, <2>4 DEF Merits
  <2> HIDE DEF rs
  <2> QED
    BY <1>1, <1>2, <2>2, <2>5, ViewsCompareMerits
<1> HIDE DEF views, w, tie, rs
<1>15. CASE ~known
  <2>1. ~(\A j \in tie : values[j].untilRyukyoku # None)
    BY <1>12, <1>15
  <2>2. filled = views
    BY <1>5, <2>1 DEF Fill
  <2> QED
    BY <1>9, <1>11, <1>15, <2>2 DEF views, w, rs, tie
<1>16. CASE known
  <2>1. \A j \in tie : values[j].untilRyukyoku # None
    BY <1>12, <1>16
  <2>2. /\ DOMAIN filled = DOMAIN views
        /\ \A i \in DOMAIN views :
              filled[i] = IF i \in tie THEN [views[i] EXCEPT !.untilRyukyoku = values[i].untilRyukyoku]
                          ELSE views[i]
    BY <2>1 DEF Fill
  <2> HIDE DEF filled
  <2>3. \A i \in DOMAIN views :
           /\ Agree(filled[i], views[i])
           /\ filled[i].untilRyukyoku = IF i \in tie THEN U(i) ELSE None
    <3>1. SUFFICES ASSUME NEW i \in DOMAIN views
                   PROVE  /\ Agree(filled[i], views[i])
                          /\ filled[i].untilRyukyoku = IF i \in tie THEN U(i) ELSE None
      OBVIOUS
    <3>2. DOMAIN views[i] = AllFields /\ views[i].untilRyukyoku = None
      BY <1>4
    <3>3. CASE i \notin tie
      BY <2>2, <3>2, <3>3 DEF Agree
    <3>4. CASE i \in tie
      <4>1. filled[i] = [views[i] EXCEPT !.untilRyukyoku = U(i)]
        BY <1>12, <2>2, <3>4
      <4>2. "untilRyukyoku" \in AllFields
        BY DEF AllFields
      <4> QED
        BY <3>2, <3>4, <4>1, <4>2 DEF Agree
    <3> QED
      BY <3>3, <3>4
  <2>4. \A i \in DOMAIN views : filled[i].shanten = views[i].shanten /\ Rank(filled[i]) = Rank(views[i])
    BY <2>3, AgreeFields DEF Rank, Eligible
  <2>5. AreViews(filled, n) /\ DOMAIN filled # {} /\ Lowest(filled) = G
    <3> HIDE DEF G, M, U, known
    <3>1. AreViews(filled, n)
      BY <1>3, <2>2, <2>4 DEF AreViews
    <3>2. DOMAIN filled # {}
      BY <1>1, <1>3, <2>2
    <3>3. Lowest(filled) = Lowest(views)
      BY <2>2, <2>4 DEF Lowest
    <3> QED
      BY <1>3, <3>1, <3>2, <3>3
  <2> DEFINE S == [i \in G |-> Split(i, tie)]
  <2>6. \A i \in G : Numbers(S[i], 14)
    BY SplitIs
  <2>7. \A i, j \in G :
           Verdict(S[i], S[j], 14) = Verdict(M(i), M(j), 13)
                                       ?? More(IF i \in tie THEN U(i) ELSE 0, IF j \in tie THEN U(j) ELSE 0)
    BY SplitVerdict
  <2> HIDE DEF S, M, U, G
  <2>8. \A i, j \in G : i \in tie /\ j \notin tie => Verdict(M(i), M(j), 13) = 1
    BY <1>10
  <2>9. \A i, j \in G : /\ Verdict(M(i), M(j), 13) = 0 <=> M(i) = M(j)
                        /\ Verdict(M(i), M(j), 13) \in {-1, 0, 1}
                        /\ (Verdict(M(j), M(i), 13) = 1) <=> (Verdict(M(i), M(j), 13) = -1)
    <3>1. \A i \in G : M(i) \in [1 .. 13 -> Int]
      BY <1>2, MeritIsList, LenProperties DEF M
    <3>2. 13 \in Nat
      OBVIOUS
    <3> QED
      BY <3>1, <3>2, SameMerits
  <2>10. \A i, j \in G : /\ filled[i].shanten = 1 /\ filled[j].shanten = 1
                         /\ BeforeStableOrder(filled[i], filled[j]) = Verdict(M(i), M(j), 13)
    <3>1. SUFFICES ASSUME NEW i \in G, NEW j \in G
                   PROVE  /\ filled[i].shanten = 1 /\ filled[j].shanten = 1
                          /\ BeforeStableOrder(filled[i], filled[j]) = Verdict(M(i), M(j), 13)
      OBVIOUS
    <3>2. i \in DOMAIN views /\ j \in DOMAIN views
      BY <1>1, <1>2, <1>3
    <3>3. evaluations[i].shanten = 1 /\ evaluations[j].shanten = 1
      BY <1>2, <1>6, <1>9, BestTierIs, LowestIs
    <3>4. BeforeStableOrder(filled[i], filled[j]) = BeforeStableOrder(views[i], views[j])
      BY <2>3, <3>2, AgreeCompare
    <3> QED
      BY <1>4, <1>14, <2>4, <3>2, <3>3, <3>4
  <2>11. \A i, j \in G : Compare(filled[i], filled[j]) = Verdict(S[i], S[j], 14)
    <3>1. SUFFICES ASSUME NEW i \in G, NEW j \in G
                   PROVE  Compare(filled[i], filled[j]) = Verdict(S[i], S[j], 14)
      OBVIOUS
    <3> DEFINE fi == filled[i].untilRyukyoku
               fj == filled[j].untilRyukyoku
    <3>2. Compare(filled[i], filled[j]) = Verdict(M(i), M(j), 13) ?? MoreIfKnown(fi, fj)
      BY <2>10 DEF Compare, At
    <3>3. fi = (IF i \in tie THEN U(i) ELSE None) /\ fj = (IF j \in tie THEN U(j) ELSE None)
      BY <1>1, <1>2, <1>3, <2>3
    <3> HIDE DEF fi, fj
    <3>4. CASE i \in tie /\ j \in tie
      <4>1. fi = U(i) /\ fj = U(j) /\ fi # None /\ fj # None
        BY <1>16, <3>3, <3>4
      <4>2. MoreIfKnown(fi, fj) = More(U(i), U(j))
        BY <4>1 DEF MoreIfKnown
      <4> QED
        BY <2>7, <3>2, <3>4, <4>2
    <3>5. CASE i \notin tie /\ j \notin tie
      <4>1. MoreIfKnown(fi, fj) = 0
        BY <3>3, <3>5 DEF MoreIfKnown
      <4>2. More(0, 0) = 0
        BY DEF More
      <4> QED
        BY <2>7, <3>2, <3>5, <4>1, <4>2
    <3>6. CASE (i \in tie /\ j \notin tie) \/ (i \notin tie /\ j \in tie)
      <4>1. Verdict(M(i), M(j), 13) # 0
        BY <2>8, <2>9, <3>6
      <4> QED
        BY <2>7, <3>2, <4>1, ChainLeft
    <3> QED
      BY <3>4, <3>5, <3>6
  <2>12. Best(filled) = Min(Favoured(G, S, 14))
    <3>1. 14 \in Nat
      OBVIOUS
    <3> QED
      BY <2>5, <2>6, <2>11, <3>1, BestIs
  <2>13. Favoured(G, S, 14) = {i \in tie : \A j \in tie : U(j) <= U(i)}
    <3>1. \A i, j \in G : i \in tie /\ j \notin tie => Verdict(S[i], S[j], 14) = 1
      <4>1. 1 # 0
        OBVIOUS
      <4> QED
        BY <2>7, <2>8, <4>1, ChainLeft
    <3>2. \A i, j \in G : i \in tie /\ j \notin tie => Verdict(S[j], S[i], 14) # 1
      <4>1. SUFFICES ASSUME NEW i \in G, NEW j \in G, i \in tie, j \notin tie
                     PROVE  Verdict(S[j], S[i], 14) # 1
        OBVIOUS
      <4>2. Verdict(M(j), M(i), 13) = -1
        BY <2>8, <2>9, <4>1
      <4>3. -1 # 0 /\ -1 # 1
        OBVIOUS
      <4> QED
        BY <2>7, <4>2, <4>3, ChainLeft
    <3>3. \A i, j \in tie : Verdict(S[j], S[i], 14) = 1 <=> ~(U(j) <= U(i))
      <4>1. SUFFICES ASSUME NEW i \in tie, NEW j \in tie
                     PROVE  Verdict(S[j], S[i], 14) = 1 <=> ~(U(j) <= U(i))
        OBVIOUS
      <4>2. i \in G /\ j \in G
        BY <1>6
      <4>3. Verdict(M(j), M(i), 13) = 0
        BY <1>10, <2>9, <4>2
      <4>4. Verdict(S[j], S[i], 14) = More(U(j), U(i))
        BY <2>7, <4>2, <4>3, ChainRight
      <4>5. U(i) \in Int /\ U(j) \in Int
        BY <1>13, <4>2
      <4> QED
        BY <4>4, <4>5 DEF More
    <3>4. w \in G /\ w \in tie /\ tie \subseteq G
      BY <1>6, <1>10
    <3>5. Favoured(G, S, 14) \subseteq tie
      BY <3>1, <3>4 DEF Favoured
    <3> QED
      BY <3>2, <3>3, <3>4, <3>5 DEF Favoured
  <2> QED
    BY <1>9, <1>11, <1>16, <2>12, <2>13 DEF Longest, U, filled, views, rs
<1> QED
  BY <1>15, <1>16

-----------------------------------------------------------------------------
(* The queue of a set of places. *)

\* The elements of S in increasing order.
Increasing(s, S) ==
    /\ s \in [1 .. Cardinality(S) -> S]
    /\ \A k, l \in DOMAIN s : k < l => s[k] < s[l]

\* A finite set of places can be listed in increasing order.
LEMMA IncreasingExists ==
    ASSUME NEW n \in Nat, NEW S, \A i \in S : i \in 1 .. n
    PROVE  \E s : Increasing(s, S)
<1> DEFINE G == {m \in Nat : \A T : (\A i \in T : i \in 1 .. m) => \E s : Increasing(s, T)}
<1>1. 0 \in G
  <2>1. SUFFICES ASSUME NEW T, \A i \in T : i \in 1 .. 0  PROVE \E s : Increasing(s, T)
    OBVIOUS
  <2>2. T = {} /\ Cardinality(T) = 0
    <3>1. T = {}
      BY <2>1
    <3> QED
      BY <3>1, FS_EmptySet
  <2>3. Increasing([k \in 1 .. 0 |-> 0], T)
    BY <2>2 DEF Increasing
  <2> QED
    BY <2>3
<1>2. \A m \in Nat : m \in G => m + 1 \in G
  <2>0. SUFFICES ASSUME NEW m \in Nat, m \in G
                 PROVE  m + 1 \in G
    <3> HIDE DEF G
    <3> QED
      OBVIOUS
  <2>1. SUFFICES ASSUME NEW T, \A i \in T : i \in 1 .. (m + 1)
                 PROVE  \E s : Increasing(s, T)
    OBVIOUS
  <2>2. CASE m + 1 \notin T
    <3>1. \A i \in T : i \in 1 .. m
      BY <2>1, <2>2
    <3> QED
      BY <2>0, <2>1, <3>1
  <2>3. CASE m + 1 \in T
    <3> DEFINE R == T \ {m + 1}
               c == Cardinality(R)
    <3>1. \A i \in R : i \in 1 .. m
      BY <2>1
    <3>2. PICK s : Increasing(s, R)
      BY <2>0, <3>1
    <3>3. IsFiniteSet(T)
      <4>1. T \subseteq 1 .. (m + 1)
        BY <2>1
      <4>2. IsFiniteSet(1 .. (m + 1))
        BY FS_Interval
      <4> QED
        BY <4>1, <4>2, FS_Subset
    <3>4. c \in Nat /\ Cardinality(T) = c + 1
      <4>1. IsFiniteSet(R) /\ c = Cardinality(T) - 1
        BY <2>3, <3>3, FS_RemoveElement
      <4>2. c \in Nat /\ Cardinality(T) \in Nat
        BY <3>3, <4>1, FS_CardinalityType
      <4> QED
        BY <4>1, <4>2
    <3> DEFINE t == [k \in 1 .. (c + 1) |-> IF k = c + 1 THEN m + 1 ELSE s[k]]
    <3> HIDE DEF c
    <3>5. \A k \in 1 .. c : s[k] \in R /\ s[k] \in 1 .. m
      BY <3>1, <3>2 DEF Increasing, c
    <3>6. \A k, l \in 1 .. c : k < l => s[k] < s[l]
      BY <3>2 DEF Increasing, c
    <3>7. t \in [1 .. (c + 1) -> T]
      <4>1. \A k \in 1 .. (c + 1) : k = c + 1 \/ k \in 1 .. c
        BY <3>4
      <4> QED
        BY <2>3, <3>5, <4>1
    <3>8. \A k, l \in 1 .. (c + 1) : k < l => t[k] < t[l]
      <4>1. SUFFICES ASSUME NEW k \in 1 .. (c + 1), NEW l \in 1 .. (c + 1), k < l
                     PROVE  t[k] < t[l]
        OBVIOUS
      <4>2. k \in 1 .. c /\ t[k] = s[k] /\ t[k] \in 1 .. m
        BY <3>4, <3>5, <4>1
      <4>3. CASE l = c + 1
        BY <4>2, <4>3
      <4>4. CASE l \in 1 .. c
        <5>1. t[l] = s[l]
          BY <3>4, <4>4
        <5> QED
          BY <3>6, <4>1, <4>2, <4>4, <5>1
      <4> QED
        BY <3>4, <4>3, <4>4
    <3> HIDE DEF t
    <3>9. DOMAIN t = 1 .. (c + 1)
      BY <3>7
    <3>10. Increasing(t, T)
      BY <3>4, <3>7, <3>8, <3>9 DEF Increasing
    <3> QED
      BY <3>10
  <2> QED
    BY <2>2, <2>3
<1> HIDE DEF G
<1>3. n \in G
  BY <1>1, <1>2, CountingUp
<1> QED
  BY <1>3 DEF G

\* The queue of a set holds each of its places.
LEMMA SortedIs ==
    ASSUME NEW n \in Nat, NEW S, \A i \in S : i \in 1 .. n
    PROVE  /\ Len(Sorted(S)) \in Nat
           /\ S # {} => Len(Sorted(S)) > 0
           /\ \A k \in 1 .. Len(Sorted(S)) : Sorted(S)[k] \in S
           /\ \A i \in S : \E k \in 1 .. Len(Sorted(S)) : Sorted(S)[k] = i
<1> DEFINE s == Sorted(S)
           c == Cardinality(S)
<1>1. IsFiniteSet(S)
  <2>1. S \subseteq 1 .. n
    OBVIOUS
  <2>2. IsFiniteSet(1 .. n)
    BY FS_Interval
  <2> QED
    BY <2>1, <2>2, FS_Subset
<1>2. c \in Nat
  BY <1>1, FS_CardinalityType
<1>3. s \in [1 .. c -> S] /\ \A k, l \in DOMAIN s : k < l => s[k] < s[l]
  BY IncreasingExists DEF Sorted, Increasing
<1> HIDE DEF s
<1>4. S # {} => c > 0
  BY <1>1, <1>2, FS_EmptySet
<1> HIDE DEF c
<1>5. Len(s) = c
  BY <1>2, <1>3
<1>6. ASSUME NEW i \in S, \A k \in 1 .. c : s[k] # i  PROVE FALSE
  <2> DEFINE T == S \ {i}
  <2>1. s \in [1 .. c -> T]
    BY <1>3, <1>6
  <2>2. IsFiniteSet(T) /\ Cardinality(T) = c - 1
    BY <1>1, FS_RemoveElement DEF c
  <2>3. IsFiniteSet(1 .. c) /\ Cardinality(1 .. c) = c
    <3>1. IsFiniteSet(1 .. c) /\ Cardinality(1 .. c) = IF 1 > c THEN 0 ELSE c - 1 + 1
      BY <1>2, FS_Interval
    <3> QED
      BY <1>2, <3>1
  <2>4. Cardinality(T) < Cardinality(1 .. c)
    BY <1>2, <2>2, <2>3
  <2> HIDE DEF T
  <2>5. PICK x \in 1 .. c, y \in 1 .. c : x # y /\ s[x] = s[y]
    BY <2>1, <2>2, <2>3, <2>4, FS_PigeonHole
  <2>6. DOMAIN s = 1 .. c
    BY <1>3
  <2>7. x < y \/ y < x
    BY <1>2, <2>5
  <2>8. s[x] < s[y] \/ s[y] < s[x]
    BY <1>3, <2>5, <2>6, <2>7
  <2>9. s[x] \in 1 .. n /\ s[y] \in 1 .. n
    BY <1>3, <2>5
  <2> QED
    BY <2>5, <2>8, <2>9
<1> QED
  BY <1>2, <1>3, <1>4, <1>5, <1>6 DEF s

-----------------------------------------------------------------------------
(* The threads: what they take, hold and push. *)

\* A candidate has a result; a candidate is queued.
Evaluated(i, rs) == \E r \in rs : r[1] = i

Queued(i, q) == \E k \in 1 .. Len(q) : q[k] = i

\* Every place taken off the queue is held by a worker or has its result, and every result
\* carries the evaluation of its own candidate.
Worked ==
    /\ held \in [Workers -> Nat]
    /\ next \in Nat /\ next > 0
    /\ Len(queue) \in Nat
    /\ \A k \in 1 .. Len(queue) : queue[k] \in DOMAIN evaluations
    /\ \A w \in Workers : held[w] # 0 => Queued(held[w], queue)
    /\ \A r \in results : r[2] = evaluations[r[1]] /\ Queued(r[1], queue)
    /\ \A k \in 1 .. Len(queue) : k < next =>
          Evaluated(queue[k], results) \/ \E w \in Workers : held[w] = queue[k]

\* What each pass knows.
Passes ==
    /\ pass \in {"forward", "compare", "full", "fallback", "done"}
    /\ pass = "forward" =>
          /\ queue = IF Competing(evaluations) THEN Sorted(ForwardTargets(evaluations)) ELSE <<>>
          /\ metrics = [i \in DOMAIN evaluations |-> Blank(evaluations[i])]
    /\ pass = "compare" => held = Idle /\ queue = <<>>
    /\ pass \in {"compare", "full", "fallback"} => metrics = Ready(evaluations)
    /\ pass = "full" => /\ CompetingAt(metrics, 2) /\ queue = TopTwo(metrics)
                        /\ FullGate(metrics, queue)
    /\ pass = "fallback" => /\ ~CompetingAt(metrics, 2) /\ FallbackCohort(Views) # {}
                            /\ queue = Sorted(FallbackCohort(Views))
    /\ pass = "done" /\ Uniform => chosen = Intended

\* The inductive invariant.
Selecting == evaluations \in Inputs /\ Worked /\ Passes

\* When the workers have joined, every queued candidate has a result.
LEMMA JoinedHasAll ==
    ASSUME Selecting, Joined
    PROVE  \A k \in 1 .. Len(queue) : Evaluated(queue[k], results)
<1>1. SUFFICES ASSUME NEW k \in 1 .. Len(queue)  PROVE Evaluated(queue[k], results)
  OBVIOUS
<1>2. k < next
  BY DEF Selecting, Worked, Joined
<1>3. queue[k] # 0
  BY BestTierIs DEF Selecting, Worked
<1>4. \A w \in Workers : held[w] = 0
  BY DEF Joined, Idle
<1> QED
  BY <1>2, <1>3, <1>4 DEF Selecting, Worked

\* The result chosen for a candidate is its own evaluation.
LEMMA ResultIs ==
    ASSUME Selecting, NEW i, Evaluated(i, results)
    PROVE  (CHOOSE r \in results : r[1] = i)[2] = evaluations[i]
<1> DEFINE c == CHOOSE r \in results : r[1] = i
<1>1. c \in results /\ c[1] = i
  BY DEF Evaluated
<1> HIDE DEF c
<1> QED
  BY <1>1 DEF Selecting, Worked, c

\* The forward targets are candidates.
LEMMA TargetsArePlaces ==
    ASSUME evaluations \in Inputs
    PROVE  /\ Len(evaluations) \in Nat
           /\ \A i \in ForwardSet(evaluations) : i \in 1 .. Len(evaluations) /\ i \in DOMAIN evaluations
<1>1. AreViews(evaluations, Len(evaluations)) /\ DOMAIN evaluations # {}
      /\ DOMAIN evaluations = 1 .. Len(evaluations)
  BY BestTierIs
<1>2. PICK g \in Lowest(evaluations) : TRUE
  BY <1>1, LowestIs
<1>3. ForwardSet(evaluations) \subseteq Lowest(evaluations)
  BY <1>2, ForwardSetIs
<1> QED
  BY <1>1, <1>3 DEF Lowest, AreViews

\* The queue of the first pass.
LEMMA ForwardQueueIs ==
    ASSUME evaluations \in Inputs,
           queue = IF Competing(evaluations) THEN Sorted(ForwardTargets(evaluations)) ELSE <<>>
    PROVE  /\ Len(queue) \in Nat
           /\ \A k \in 1 .. Len(queue) : queue[k] \in DOMAIN evaluations
           /\ \A i : Queued(i, queue) <=> i \in ForwardSet(evaluations)
<1>1. CASE Competing(evaluations)
  <2> DEFINE S == ForwardTargets(evaluations)
  <2>1. S = ForwardSet(evaluations) /\ queue = Sorted(S)
    BY <1>1 DEF ForwardSet
  <2>2. \A i \in S : i \in 1 .. Len(evaluations) /\ i \in DOMAIN evaluations
    BY <2>1, TargetsArePlaces
  <2> HIDE DEF S
  <2>3. /\ Len(Sorted(S)) \in Nat
        /\ \A k \in 1 .. Len(Sorted(S)) : Sorted(S)[k] \in S
        /\ \A i \in S : \E k \in 1 .. Len(Sorted(S)) : Sorted(S)[k] = i
    BY <2>2, TargetsArePlaces, SortedIs
  <2> QED
    BY <2>1, <2>2, <2>3 DEF Queued
<1>2. CASE ~Competing(evaluations)
  <2>1. ForwardSet(evaluations) = {} /\ queue = <<>>
    BY <1>2 DEF ForwardSet
  <2>2. Len(queue) = 0
    BY <2>1
  <2> QED
    BY <2>1, <2>2 DEF Queued
<1> QED
  BY <1>1, <1>2

\* The invariant holds at the start.
LEMMA InitIsSelecting == ASSUME Init PROVE Selecting
<1>1. evaluations \in Inputs
  BY DEF Init
<1>2. /\ Len(queue) \in Nat
      /\ \A k \in 1 .. Len(queue) : queue[k] \in DOMAIN evaluations
  BY <1>1, ForwardQueueIs DEF Init
<1>3. held \in [Workers -> Nat] /\ \A w \in Workers : held[w] = 0
  BY DEF Init, Idle
<1>4. Worked
  BY <1>2, <1>3 DEF Init, Worked
<1>5. Passes
  BY DEF Init, Passes
<1> QED
  BY <1>1, <1>4, <1>5 DEF Selecting

\* What a step that leaves the candidates alone keeps of what is intended.
LEMMA IntentionsStay ==
    ASSUME evaluations' = evaluations
    PROVE  /\ Uniform' <=> Uniform
           /\ Intended' = Intended
<1>1. /\ Uniform' <=> Uniform
  BY DEF Uniform, BestTier, Tier
<1>2. BestTier' = BestTier
  BY DEF BestTier, Tier
<1>3. \A i, S, axis : IfAllKnown(i, S, axis)' = IfAllKnown(i, S, axis)
  BY DEF IfAllKnown
<1>4. \A i, S : TenpaiMerit(i, S)' = TenpaiMerit(i, S)
  BY DEF TenpaiMerit, IfAllKnown
<1>5. \A i, S, axis : DeepMerit(i, S, axis)' = DeepMerit(i, S, axis)
  BY <1>3, <1>4 DEF DeepMerit
<1>6. \A i, S, axis : Merit(i, S, axis)' = Merit(i, S, axis)
  BY <1>5 DEF Merit
<1>7. \A S, axis : Favourite(S, axis)' = Favourite(S, axis)
  BY <1>6 DEF Favourite
<1>8. \A i, S : Equals(i, S)' = Equals(i, S)
  BY <1>6 DEF Equals
<1>9. \A S : Longest(S)' = Longest(S)
  BY DEF Longest
<1>10. Intended' = Intended
  BY <1>2, <1>6, <1>7, <1>8, <1>9 DEF Intended
<1> QED
  BY <1>1, <1>10

\* A step of a worker leaves what the passes know as it is.
LEMMA PassesStay ==
    ASSUME Passes, evaluations' = evaluations, pass' = pass, queue' = queue, metrics' = metrics,
           chosen' = chosen, pass = "compare" => held' = held
    PROVE  Passes'
<1>1. /\ pass' \in {"forward", "compare", "full", "fallback", "done"}
      /\ (pass = "forward" =>
             /\ queue = IF Competing(evaluations) THEN Sorted(ForwardTargets(evaluations)) ELSE <<>>
             /\ metrics = [i \in DOMAIN evaluations |-> Blank(evaluations[i])])'
  BY DEF Passes
<1>2. (pass = "compare" => held = Idle /\ queue = <<>>)'
  BY DEF Passes, Idle
<1>3. (pass \in {"compare", "full", "fallback"} => metrics = Ready(evaluations))'
  BY DEF Passes
<1>4. (pass = "full" => /\ CompetingAt(metrics, 2) /\ queue = TopTwo(metrics)
                        /\ FullGate(metrics, queue))'
  BY DEF Passes
<1>5. (pass = "fallback" => /\ ~CompetingAt(metrics, 2) /\ FallbackCohort(Views) # {}
                            /\ queue = Sorted(FallbackCohort(Views)))'
  BY DEF Passes, Views
<1>6. (pass = "done" /\ Uniform => chosen = Intended)'
  BY IntentionsStay DEF Passes
<1> QED
  BY <1>1, <1>2, <1>3, <1>4, <1>5, <1>6 DEF Passes

\* A worker takes the next place.
LEMMA TakeIsSelecting ==
    ASSUME Selecting, NEW w \in Workers, Take(w)
    PROVE  Selecting'
<1>1. /\ evaluations' = evaluations /\ pass' = pass /\ queue' = queue /\ results' = results
      /\ metrics' = metrics /\ chosen' = chosen /\ next' = next + 1
      /\ held' = [held EXCEPT ![w] = queue[next]] /\ held[w] = 0 /\ next <= Len(queue)
  BY DEF Take
<1>2. next \in 1 .. Len(queue) /\ next \in Nat /\ held \in [Workers -> Nat]
  BY <1>1 DEF Selecting, Worked
<1>3. queue[next] \in Nat /\ Queued(queue[next], queue)
      /\ \A k \in 1 .. Len(queue) : queue[k] # 0
  BY <1>2, BestTierIs DEF Selecting, Worked, Queued, AreViews
<1>4. held'[w] = queue[next] /\ \A v \in Workers : v # w => held'[v] = held[v]
  BY <1>1, <1>2
<1>5. \A i : (Queued(i, queue') <=> Queued(i, queue)) /\ (Evaluated(i, results') <=> Evaluated(i, results))
  BY <1>1 DEF Queued, Evaluated
<1>6. Worked'
  <2>1. held' \in [Workers -> Nat] /\ next' \in Nat /\ next' > 0 /\ Len(queue') \in Nat
    BY <1>1, <1>2, <1>3 DEF Selecting, Worked
  <2>2. \A k \in 1 .. Len(queue') : queue'[k] \in DOMAIN evaluations'
    BY <1>1 DEF Selecting, Worked
  <2>3. \A v \in Workers : held'[v] # 0 => Queued(held'[v], queue')
    <3>1. SUFFICES ASSUME NEW v \in Workers, held'[v] # 0  PROVE Queued(held'[v], queue)
      BY <1>1 DEF Queued
    <3> QED
      BY <1>3, <1>4, <3>1 DEF Selecting, Worked
  <2>4. \A r \in results' : r[2] = evaluations'[r[1]] /\ Queued(r[1], queue')
    BY <1>1, <1>5 DEF Selecting, Worked
  <2>5. \A k \in 1 .. Len(queue') : k < next' =>
           Evaluated(queue'[k], results') \/ \E v \in Workers : held'[v] = queue'[k]
    <3>1. SUFFICES ASSUME NEW k \in 1 .. Len(queue), k < next + 1
                   PROVE  Evaluated(queue[k], results) \/ \E v \in Workers : held'[v] = queue[k]
      BY <1>1 DEF Evaluated
    <3>2. CASE k = next
      BY <1>4, <3>2
    <3>3. CASE k < next
      <4>1. Evaluated(queue[k], results) \/ \E v \in Workers : held[v] = queue[k]
        BY <3>3 DEF Selecting, Worked
      <4> QED
        BY <1>1, <1>3, <1>4, <4>1
    <3> QED
      BY <1>2, <3>1, <3>2, <3>3
  <2> QED
    BY <2>1, <2>2, <2>3, <2>4, <2>5 DEF Worked
<1>7. pass # "compare"
  <2>1. Len(queue) > 0
    BY <1>2
  <2> QED
    BY <2>1 DEF Selecting, Passes
<1> QED
  BY <1>1, <1>6, <1>7, PassesStay DEF Selecting

\* A worker pushes the evaluation of the candidate it holds.
LEMMA PushIsSelecting ==
    ASSUME Selecting, NEW w \in Workers, Push(w)
    PROVE  Selecting'
<1>1. /\ evaluations' = evaluations /\ pass' = pass /\ queue' = queue /\ next' = next
      /\ metrics' = metrics /\ chosen' = chosen /\ held[w] # 0
      /\ results' = results \cup {<<held[w], evaluations[held[w]]>>}
      /\ held' = [held EXCEPT ![w] = 0]
  BY DEF Push
<1>2. held \in [Workers -> Nat] /\ Queued(held[w], queue)
  BY <1>1 DEF Selecting, Worked
<1>3. held'[w] = 0 /\ \A v \in Workers : v # w => held'[v] = held[v]
  BY <1>1, <1>2
<1>4. \A i : (Queued(i, queue') <=> Queued(i, queue)) /\ (Evaluated(i, results) => Evaluated(i, results'))
  BY <1>1 DEF Queued, Evaluated
<1>5. Evaluated(held[w], results')
  <2> DEFINE r == <<held[w], evaluations[held[w]]>>
  <2>1. r \in results' /\ r[1] = held[w]
    BY <1>1
  <2> HIDE DEF r
  <2> QED
    BY <2>1 DEF Evaluated
<1>6. Worked'
  <2>1. /\ held' \in [Workers -> Nat] /\ next' \in Nat /\ next' > 0 /\ Len(queue') \in Nat
        /\ \A k \in 1 .. Len(queue') : queue'[k] \in DOMAIN evaluations'
    BY <1>1, <1>2 DEF Selecting, Worked
  <2>2. \A v \in Workers : held'[v] # 0 => Queued(held'[v], queue')
    <3>1. SUFFICES ASSUME NEW v \in Workers, held'[v] # 0  PROVE Queued(held'[v], queue)
      BY <1>1 DEF Queued
    <3> QED
      BY <1>3, <3>1 DEF Selecting, Worked
  <2>3. \A r \in results' : r[2] = evaluations'[r[1]] /\ Queued(r[1], queue')
    <3>1. SUFFICES ASSUME NEW r \in results'  PROVE r[2] = evaluations[r[1]] /\ Queued(r[1], queue)
      BY <1>1, <1>4
    <3>2. CASE r \in results
      BY <3>2 DEF Selecting, Worked
    <3>3. CASE r = <<held[w], evaluations[held[w]]>>
      BY <1>2, <3>3
    <3> QED
      BY <1>1, <3>2, <3>3
  <2>4. \A k \in 1 .. Len(queue') : k < next' =>
           Evaluated(queue'[k], results') \/ \E v \in Workers : held'[v] = queue'[k]
    <3>1. SUFFICES ASSUME NEW k \in 1 .. Len(queue), k < next
                   PROVE  Evaluated(queue[k], results') \/ \E v \in Workers : held'[v] = queue[k]
      BY <1>1 DEF Evaluated
    <3>2. Evaluated(queue[k], results) \/ \E v \in Workers : held[v] = queue[k]
      BY <3>1 DEF Selecting, Worked
    <3>3. Evaluated(queue[k], results) => \E r \in results' : r[1] = queue[k]
      BY <1>1 DEF Evaluated
    <3>4. \E r \in results' : r[1] = held[w]
      BY <1>5 DEF Evaluated
    <3>5. (\E r \in results' : r[1] = queue[k]) \/ \E v \in Workers : held'[v] = queue[k]
      BY <1>3, <3>2, <3>3, <3>4
    <3> QED
      BY <1>1, <3>5 DEF Evaluated
  <2> QED
    BY <2>1, <2>2, <2>3, <2>4 DEF Worked
<1>7. pass # "compare"
  BY <1>1 DEF Selecting, Passes, Idle
<1> QED
  BY <1>1, <1>6, <1>7, PassesStay DEF Selecting

\* The values of the first pass, back at their candidates.
LEMMA CollectedForward ==
    ASSUME Selecting, pass = "forward", Joined
    PROVE  Collected(ForwardFields) = Forwarded(evaluations)
<1>1. /\ queue = IF Competing(evaluations) THEN Sorted(ForwardTargets(evaluations)) ELSE <<>>
      /\ metrics = [i \in DOMAIN evaluations |-> Blank(evaluations[i])]
      /\ evaluations \in Inputs
  BY DEF Selecting, Passes
<1>2. \A i : Queued(i, queue) <=> i \in ForwardSet(evaluations)
  BY <1>1, ForwardQueueIs
<1>3. \A i : Evaluated(i, results) <=> Queued(i, queue)
  <2>1. \A i : Queued(i, queue) => Evaluated(i, results)
    BY JoinedHasAll DEF Queued
  <2>2. \A i : Evaluated(i, results) => Queued(i, queue)
    BY DEF Selecting, Worked, Evaluated
  <2> QED
    BY <2>1, <2>2
<1>4. \A i : Evaluated(i, results) => (CHOOSE r \in results : r[1] = i)[2] = evaluations[i]
  BY ResultIs
<1> DEFINE found(i) == (CHOOSE r \in results : r[1] = i)[2]
<1>5. Collected(ForwardFields) =
        [i \in DOMAIN metrics |-> IF Evaluated(i, results) THEN Copy(metrics[i], found(i), ForwardFields)
                                  ELSE metrics[i]]
  BY DEF Collected, Evaluated
<1>6. \A i : Evaluated(i, results) => found(i) = evaluations[i]
  BY <1>4
<1> HIDE DEF found
<1>7. DOMAIN metrics = DOMAIN evaluations /\ \A i \in DOMAIN evaluations : metrics[i] = Blank(evaluations[i])
  BY <1>1
<1> QED
  BY <1>2, <1>3, <1>5, <1>6, <1>7 DEF Forwarded

\* The end of a pass leaves a queue of places that nobody has taken yet.
LEMMA NewQueue ==
    ASSUME Selecting, evaluations' = evaluations, held = Idle, held' = held, next' = 1,
           results' = {}, Len(queue') \in Nat,
           \A k \in 1 .. Len(queue') : queue'[k] \in DOMAIN evaluations
    PROVE  Worked'
<1>1. held \in [Workers -> Nat] /\ \A w \in Workers : held[w] = 0
  BY DEF Idle
<1> QED
  BY <1>1 DEF Worked

\* The end of the first pass, with all the values it adds, keeps the invariant.
LEMMA CollectForwardIsSelecting ==
    ASSUME Selecting, CollectForward
    PROVE  Selecting'
<1>1. /\ evaluations' = evaluations /\ pass' = "compare" /\ queue' = <<>> /\ next' = 1
      /\ results' = {} /\ held' = held /\ chosen' = chosen /\ pass = "forward" /\ Joined
      /\ metrics' = WithContinuation(BaseTenpai(Progress(Collected(ForwardFields), evaluations),
                                                evaluations), evaluations)
  BY DEF CollectForward
<1>2. metrics' = Ready(evaluations)
  BY <1>1, CollectedForward DEF Ready
<1>3. held = Idle
  BY <1>1 DEF Joined
<1>4. Len(queue') = 0
  BY <1>1
<1>5. Worked'
  BY <1>1, <1>3, <1>4, NewQueue
<1>6. held' = Idle'
  BY <1>1, <1>3 DEF Idle
<1>7. Passes'
  BY <1>1, <1>2, <1>6 DEF Passes
<1> QED
  BY <1>1, <1>5, <1>7 DEF Selecting

\* A pass that ends with the choice.
LEMMA DoneIsSelecting ==
    ASSUME Selecting, evaluations' = evaluations, queue' = queue, next' = next, held' = held,
           results' = results, pass' = "done", Uniform => chosen' = Intended
    PROVE  Selecting'
<1>1. Worked'
  BY DEF Selecting, Worked
<1>2. Passes'
  BY IntentionsStay DEF Passes
<1> QED
  BY <1>1, <1>2 DEF Selecting

\* The choice by progress keeps the invariant: it is the intended one.
LEMMA DecideTwoShantenIsSelecting ==
    ASSUME Selecting, DecideTwoShanten
    PROVE  Selecting'
<1>1. /\ evaluations' = evaluations /\ queue' = queue /\ next' = next /\ held' = held
      /\ results' = results /\ pass' = "done" /\ chosen' = TopTwo(metrics)[1]
      /\ pass = "compare" /\ CompetingAt(metrics, 2) /\ ~FullGate(metrics, TopTwo(metrics))
  BY DEF DecideTwoShanten, Finish
<1>2. metrics = Ready(evaluations) /\ evaluations \in Inputs
  BY <1>1 DEF Selecting, Passes
<1>3. Uniform => chosen' = Intended
  BY <1>1, <1>2, TwoShantenIsIntended
<1> QED
  BY <1>1, <1>3, DoneIsSelecting

\* So does the choice without a refinement,
LEMMA DecideIsSelecting ==
    ASSUME Selecting, Decide
    PROVE  Selecting'
<1>1. /\ evaluations' = evaluations /\ queue' = queue /\ next' = next /\ held' = held
      /\ results' = results /\ pass' = "done" /\ chosen' = Best(Views)
      /\ pass = "compare" /\ ~CompetingAt(metrics, 2) /\ FallbackCohort(Views) = {}
  BY DEF Decide, Finish
<1>2. metrics = Ready(evaluations) /\ evaluations \in Inputs
  BY <1>1 DEF Selecting, Passes
<1>3. Views = Resolve(Ready(evaluations))
  BY <1>2 DEF Views
<1>4. Uniform => chosen' = Intended
  BY <1>1, <1>2, <1>3, DecideIsIntended
<1> QED
  BY <1>1, <1>4, DoneIsSelecting

\* The two best are two of the candidates.
LEMMA TopTwoIs ==
    ASSUME evaluations \in Inputs, CompetingAt(Ready(evaluations), 2)
    PROVE  /\ Len(TopTwo(Ready(evaluations))) = 2
           /\ \A k \in 1 .. 2 : TopTwo(Ready(evaluations))[k] \in DOMAIN evaluations
<1> DEFINE rs == Ready(evaluations)
           n == Len(evaluations)
           first == Best(Resolve(rs))
           ms == [i \in (DOMAIN rs) \ {first} |-> rs[i]]
           second == Best(Resolve(ms))
<1>1. /\ AreViews(rs, n) /\ DOMAIN rs = DOMAIN evaluations /\ DOMAIN rs # {}
      /\ Lowest(rs) = Lowest(evaluations) /\ Lowest(rs) # {}
      /\ \A i \in DOMAIN rs : DOMAIN rs[i] = AllFields
  BY ReadyTier
<1>2. TopTwo(rs) = <<first, second>>
  BY DEF TopTwo
<1>3. \E a, b \in DOMAIN evaluations : a # b
  BY <1>1, CompetesAtTwo DEF Lowest
<1>4. first \in DOMAIN rs
  BY <1>1, ResolveKeepsTheTier, BestIsOne
<1> HIDE DEF rs, first
<1>5. DOMAIN ms = (DOMAIN rs) \ {first} /\ \A i \in DOMAIN ms : ms[i] = rs[i]
  OBVIOUS
<1> HIDE DEF ms
<1>6. AreViews(ms, n) /\ DOMAIN ms # {} /\ \A i \in DOMAIN ms : DOMAIN ms[i] = AllFields
  BY <1>1, <1>3, <1>5 DEF AreViews
<1>7. second \in DOMAIN ms
  BY <1>6, ResolveKeepsTheTier, BestIsOne
<1> HIDE DEF second
<1> QED
  BY <1>1, <1>2, <1>4, <1>5, <1>7 DEF rs

\* The start of the pass over the pair keeps the invariant.
LEMMA OpenFullGateIsSelecting ==
    ASSUME Selecting, OpenFullGate
    PROVE  Selecting'
<1>1. /\ evaluations' = evaluations /\ queue' = TopTwo(metrics) /\ next' = 1 /\ held' = held
      /\ results' = {} /\ pass' = "full" /\ metrics' = metrics /\ chosen' = chosen
      /\ pass = "compare" /\ CompetingAt(metrics, 2) /\ FullGate(metrics, TopTwo(metrics))
  BY DEF OpenFullGate, StartPass
<1>2. metrics = Ready(evaluations) /\ evaluations \in Inputs /\ held = Idle
  BY <1>1 DEF Selecting, Passes
<1>3. Len(queue') = 2 /\ \A k \in 1 .. 2 : queue'[k] \in DOMAIN evaluations
  BY <1>1, <1>2, TopTwoIs
<1>4. Worked'
  <2>1. Len(queue') \in Nat /\ \A k \in 1 .. Len(queue') : queue'[k] \in DOMAIN evaluations
    BY <1>3
  <2> QED
    BY <1>1, <1>2, <2>1, NewQueue
<1>5. Passes'
  BY <1>1, <1>2 DEF Passes
<1> QED
  BY <1>1, <1>2, <1>4, <1>5 DEF Selecting

\* The cohort of the long horizon is one of candidates.
LEMMA CohortPlaces ==
    ASSUME evaluations \in Inputs
    PROVE  /\ Len(evaluations) \in Nat
           /\ \A i \in FallbackCohort(Resolve(Ready(evaluations))) :
                 i \in DOMAIN evaluations /\ i \in 1 .. Len(evaluations)
<1>1. AreViews(evaluations, Len(evaluations)) /\ DOMAIN evaluations # {}
  BY BestTierIs
<1>2. DOMAIN Resolve(Ready(evaluations)) = DOMAIN evaluations
  BY ReadyTier DEF Resolve
<1> HIDE DEF Ready
<1>3. FallbackCohort(Resolve(Ready(evaluations))) \subseteq DOMAIN Resolve(Ready(evaluations))
  BY DEF FallbackCohort
<1> QED
  BY <1>1, <1>2, <1>3 DEF AreViews

\* The start of the pass over the tie keeps the invariant.
LEMMA StartFallbackIsSelecting ==
    ASSUME Selecting, StartFallback
    PROVE  Selecting'
<1>1. /\ evaluations' = evaluations /\ queue' = Sorted(FallbackCohort(Views)) /\ next' = 1
      /\ held' = held /\ results' = {} /\ pass' = "fallback" /\ metrics' = metrics
      /\ chosen' = chosen
      /\ pass = "compare" /\ ~CompetingAt(metrics, 2) /\ FallbackCohort(Views) # {}
  BY DEF StartFallback, StartPass
<1>2. metrics = Ready(evaluations) /\ evaluations \in Inputs /\ held = Idle
  BY <1>1 DEF Selecting, Passes
<1> DEFINE S == FallbackCohort(Views)
<1>3. Len(evaluations) \in Nat
      /\ \A i \in S : i \in DOMAIN evaluations /\ i \in 1 .. Len(evaluations)
  BY <1>2, CohortPlaces DEF Views
<1> HIDE DEF S
<1>4. Len(Sorted(S)) \in Nat /\ \A k \in 1 .. Len(Sorted(S)) : Sorted(S)[k] \in S
  BY <1>3, SortedIs
<1>5. Worked'
  BY <1>1, <1>2, <1>3, <1>4, NewQueue DEF S
<1>6. Views' = Views
  BY <1>1 DEF Views
<1>7. Passes'
  BY <1>1, <1>2, <1>6 DEF Passes
<1> QED
  BY <1>1, <1>2, <1>5, <1>7 DEF Selecting

\* The choice of the pair keeps the invariant,
LEMMA CollectFullIsSelecting ==
    ASSUME Selecting, CollectFull
    PROVE  Selecting'
<1> DEFINE found(i) == (CHOOSE r \in results : r[1] = i)[2].full
           pair == [k \in 1 .. 2 |-> [metrics[queue[k]] EXCEPT !.twoShanten = found(queue[k])]]
<1>1. /\ evaluations' = evaluations /\ queue' = queue /\ next' = next /\ held' = held
      /\ results' = results /\ pass' = "done" /\ chosen' = queue[Best(Resolve(pair))]
      /\ pass = "full" /\ Joined
  BY DEF CollectFull, Finish
<1>2. /\ metrics = Ready(evaluations) /\ evaluations \in Inputs
      /\ CompetingAt(metrics, 2) /\ queue = TopTwo(metrics) /\ FullGate(metrics, queue)
  BY <1>1 DEF Selecting, Passes
<1>3. Len(queue) = 2
  BY <1>2, TopTwoIs
<1>4. \A k \in 1 .. 2 : found(queue[k]) = evaluations[queue[k]].full
  BY <1>1, <1>3, JoinedHasAll, ResultIs
<1>5. DOMAIN pair = 1 .. 2
      /\ \A k \in 1 .. 2 : pair[k] = [Ready(evaluations)[queue[k]] EXCEPT
                                          !.twoShanten = evaluations[queue[k]].full]
  BY <1>2, <1>4
<1> HIDE DEF pair
<1>6. Uniform => queue[Best(Resolve(pair))] = Intended
  BY <1>2, <1>5, FullIsIntended
<1> QED
  BY <1>1, <1>6, DoneIsSelecting

\* and so does the choice among the tied.
LEMMA CollectFallbackIsSelecting ==
    ASSUME Selecting, CollectFallback
    PROVE  Selecting'
<1> DEFINE S == FallbackCohort(Views)
           values == Collected({"untilRyukyoku"})
<1>1. /\ evaluations' = evaluations /\ queue' = queue /\ next' = next /\ held' = held
      /\ results' = results /\ pass' = "done" /\ chosen' = Best(Fill(Views, S, values))
      /\ pass = "fallback" /\ Joined
  BY DEF CollectFallback, Finish
<1>2. /\ metrics = Ready(evaluations) /\ evaluations \in Inputs
      /\ ~CompetingAt(metrics, 2) /\ S # {} /\ queue = Sorted(S)
  BY <1>1 DEF Selecting, Passes
<1>3. Views = Resolve(Ready(evaluations))
  BY <1>2 DEF Views
<1>4. Len(evaluations) \in Nat
      /\ \A i \in S : i \in DOMAIN evaluations /\ i \in 1 .. Len(evaluations)
  BY <1>2, <1>3, CohortPlaces
<1>5. DOMAIN metrics = DOMAIN evaluations /\ \A i \in DOMAIN evaluations : DOMAIN metrics[i] = AllFields
  BY <1>2, ReadyTier
<1> HIDE DEF S
<1>6. \A i \in S : Evaluated(i, results)
  <2>1. \A i \in S : \E k \in 1 .. Len(queue) : queue[k] = i
    BY <1>2, <1>4, SortedIs
  <2> QED
    BY <1>1, <2>1, JoinedHasAll
<1>7. \A i \in S : values[i].untilRyukyoku = evaluations[i].untilRyukyoku
  <2>1. SUFFICES ASSUME NEW i \in S  PROVE values[i].untilRyukyoku = evaluations[i].untilRyukyoku
    OBVIOUS
  <2> DEFINE found == (CHOOSE r \in results : r[1] = i)[2]
  <2>2. found = evaluations[i]
    BY <1>6, ResultIs
  <2>3. i \in DOMAIN metrics /\ \E r \in results : r[1] = i
    BY <1>4, <1>5, <1>6 DEF Evaluated
  <2>4. values[i] = Copy(metrics[i], found, {"untilRyukyoku"})
    BY <2>3 DEF Collected
  <2> HIDE DEF found
  <2>5. \A f \in AllFields :
           Copy(metrics[i], found, {"untilRyukyoku"})[f]
             = IF f \in {"untilRyukyoku"} THEN found[f] ELSE metrics[i][f]
    BY <1>5, <2>3, CopyIs
  <2>6. "untilRyukyoku" \in AllFields
    BY DEF AllFields
  <2> QED
    BY <2>2, <2>4, <2>5, <2>6
<1> HIDE DEF values
<1>8. Uniform => Best(Fill(Views, S, values)) = Intended
  BY <1>2, <1>3, <1>7, FallbackIsIntended DEF S
<1> QED
  BY <1>1, <1>8, DoneIsSelecting

-----------------------------------------------------------------------------
\* Whatever the candidates, the number of workers and the order in which they finish,
\* the invariant that says where each candidate is evaluated and what each pass knows.
THEOREM SelectionWorks == Spec => []Selecting
<1>1. Init => Selecting
  BY InitIsSelecting
<1>2. Selecting /\ [Next]_vars => Selecting'
  <2> SUFFICES ASSUME Selecting, [Next]_vars  PROVE Selecting'
    OBVIOUS
  <2>1. ASSUME NEW w \in Workers, Take(w)  PROVE Selecting'
    BY <2>1, TakeIsSelecting
  <2>2. ASSUME NEW w \in Workers, Push(w)  PROVE Selecting'
    BY <2>2, PushIsSelecting
  <2>3. CASE CollectForward
    BY <2>3, CollectForwardIsSelecting
  <2>4. CASE DecideTwoShanten
    BY <2>4, DecideTwoShantenIsSelecting
  <2>5. CASE OpenFullGate
    BY <2>5, OpenFullGateIsSelecting
  <2>6. CASE CollectFull
    BY <2>6, CollectFullIsSelecting
  <2>7. CASE StartFallback
    BY <2>7, StartFallbackIsSelecting
  <2>8. CASE CollectFallback
    BY <2>8, CollectFallbackIsSelecting
  <2>9. CASE Decide
    BY <2>9, DecideIsSelecting
  <2>10. CASE UNCHANGED vars
    <3>1. /\ evaluations' = evaluations /\ pass' = pass /\ queue' = queue /\ metrics' = metrics
          /\ chosen' = chosen /\ held' = held /\ results' = results /\ next' = next
      BY <2>10 DEF vars
    <3>2. Passes'
      BY <3>1, PassesStay DEF Selecting
    <3>3. Worked'
      BY <3>1 DEF Selecting, Worked
    <3> QED
      BY <3>1, <3>2, <3>3 DEF Selecting
  <2> QED
    BY <2>1, <2>2, <2>3, <2>4, <2>5, <2>6, <2>7, <2>8, <2>9, <2>10 DEF Next
<1> QED
  BY <1>1, <1>2, PTL DEF Spec

\* The selected discard is the intended one, for any candidates, any number of threads and
\* whatever is unknown (run_production_selection and the comparator of selection.rs).
THEOREM ChoiceCorrect == Spec => []ChoiceIsIntended
<1>1. Selecting => ChoiceIsIntended
  BY DEF Selecting, Passes, ChoiceIsIntended
<1> QED
  BY <1>1, SelectionWorks, PTL
=============================================================================

--------------------------- MODULE TournamentProofs ---------------------------
(***************************************************************************)
(* Proofs about Tournament, for any number of players, any kind of series, *)
(* any draw and any order of requests, games and crashes.                  *)
(*                                                                         *)
(* A bracket changes in long strides: a result places two players, which   *)
(* may settle a walkover, which places a player, and so on.  Keeps says    *)
(* what all of these leave alone, one walkover after another; the          *)
(* recursive settleWalkovers is unfolded for that (SettlesOneByOne).       *)
(*                                                                         *)
(* A Swiss round goes through the standings, the players kept, who sits    *)
(* out and the search of a pairing.  Lists follows the players through     *)
(* these; the recursive sums of the standings and the search are shown to  *)
(* exist (SetRecursion) and unfolded, and Finds, by induction on the       *)
(* players left, says what the search finds and what it means that it      *)
(* finds nothing.                                                          *)
(*                                                                         *)
(* That a bracket loses nobody takes three things.  Its wiring is right    *)
(* for any number of entrants (BracketsAreWired): each slot is filled from *)
(* one earlier match, and a match hands its players on to slots their      *)
(* defeats belong in.  A decision, of whichever match, keeps the state of  *)
(* the bracket one in which everybody stands (BracketInv,                  *)
(* DecisionsKeepInvariant).  And the walkovers of a bracket just drawn, or *)
(* of one just played in, are settled to the last (SettlesAll).  SafeInv   *)
(* carries these through the steps of the tournament.                      *)
(***************************************************************************)
EXTENDS Tournament, FiniteSetTheorems, FunctionTheorems, WellFoundedInduction, TLAPS

(* A row of tournament_matches. *)
IsMatch(m) ==
    m = [player1 |-> m.player1, player2 |-> m.player2, wins1 |-> m.wins1, wins2 |-> m.wins2,
         winner |-> m.winner, status |-> m.status, wave |-> m.wave]

AreMatches(ms) == \A n \in DOMAIN ms : IsMatch(ms[n])

(* The same matches; those which were decided are, as they were.            *)
Keeps(ms, after) ==
    /\ DOMAIN after = DOMAIN ms
    /\ AreMatches(after)
    /\ \A n \in DOMAIN ms :
          ms[n].status = "DONE" => after[n].status = "DONE" /\ after[n].winner = ms[n].winner

LEMMA KeepsAll == ASSUME NEW ms, AreMatches(ms) PROVE Keeps(ms, ms)
  BY DEF Keeps

LEMMA KeepsOn ==
    ASSUME NEW a, NEW b, NEW c, Keeps(a, b), Keeps(b, c) PROVE Keeps(a, c)
  BY DEF Keeps

-------------------------------------------------------------------------------
(* The bracket *)

(* Whoever is placed, wherever, no result changes.                          *)
LEMMA PlaceKeeps ==
    ASSUME NEW ms, AreMatches(ms), NEW to, NEW p PROVE Keeps(ms, place(ms, to, p))
  <1> DEFINE one == [ms EXCEPT ![to.node].player1 = p]
             two == [ms EXCEPT ![to.node].player2 = p]
  <1>1. ASSUME to.node \in DOMAIN ms
        PROVE  Keeps(ms, one) /\ Keeps(ms, two)
    <2> DEFINE m == ms[to.node]
               m1 == [m EXCEPT !.player1 = p]
               m2 == [m EXCEPT !.player2 = p]
    <2>1. IsMatch(m)
      BY <1>1 DEF AreMatches
    <2>2. /\ IsMatch(m1) /\ m1.status = m.status /\ m1.winner = m.winner
          /\ IsMatch(m2) /\ m2.status = m.status /\ m2.winner = m.winner
      BY <2>1 DEF IsMatch
    <2>3. /\ one = [ms EXCEPT ![to.node] = m1]
          /\ two = [ms EXCEPT ![to.node] = m2]
      OBVIOUS
    <2> HIDE DEF m1, m2
    <2> QED BY <2>2, <2>3 DEF Keeps, AreMatches
  <1> QED BY <1>1, KeepsAll DEF place

LEMMA AdvanceKeeps ==
    ASSUME NEW ms, AreMatches(ms), NEW n, NEW entrants PROVE Keeps(ms, advance(ms, n, entrants))
  <1>1. \A to, p : Keeps(ms, place(ms, to, p))
    BY PlaceKeeps
  <1>2. \A to, p, on, q : Keeps(ms, place(place(ms, to, p), on, q))
    <2> SUFFICES ASSUME NEW to, NEW p, NEW on, NEW q
                 PROVE  Keeps(ms, place(place(ms, to, p), on, q))
      OBVIOUS
    <2> DEFINE once == place(ms, to, p)
    <2>1. Keeps(ms, once) /\ AreMatches(once)
      BY <1>1 DEF Keeps
    <2> HIDE DEF once
    <2>2. Keeps(once, place(once, on, q))
      BY <2>1, PlaceKeeps
    <2>3. Keeps(ms, place(once, on, q))
      BY <2>1, <2>2, KeepsOn
    <2> QED BY <2>3 DEF once
  <1>3. Keeps(ms, ms)
    BY KeepsAll
  <1>4. \/ advance(ms, n, entrants) = ms
        \/ \E to, p : advance(ms, n, entrants) = place(ms, to, p)
        \/ \E to, p, on, q : advance(ms, n, entrants) = place(place(ms, to, p), on, q)
    BY DEF advance
  <1> QED BY <1>1, <1>2, <1>3, <1>4

LEMMA WonKeepsShape ==
    ASSUME NEW m, IsMatch(m), NEW p PROVE IsMatch([m EXCEPT !.winner = p, !.status = "DONE"])
  <1> DEFINE won == [m EXCEPT !.winner = p]
  <1>1. IsMatch(won)
    BY DEF IsMatch
  <1>2. [m EXCEPT !.winner = p, !.status = "DONE"] = [won EXCEPT !.status = "DONE"]
    OBVIOUS
  <1> HIDE DEF won
  <1>3. IsMatch([won EXCEPT !.status = "DONE"])
    BY <1>1 DEF IsMatch
  <1> QED BY <1>2, <1>3

(* A match is decided once: what settles it finds it open.                  *)
LEMMA DecidingKeeps ==
    ASSUME NEW ms, AreMatches(ms), NEW n \in DOMAIN ms, ms[n].status # "DONE", NEW m, IsMatch(m)
    PROVE  Keeps(ms, [ms EXCEPT ![n] = m])
  BY DEF Keeps, AreMatches

LEMMA SettleOnceKeeps ==
    ASSUME NEW ms, AreMatches(ms), NEW entrants PROVE Keeps(ms, settleOnce(ms, entrants))
  <1>1. CASE Walkovers(ms) = {}
    BY <1>1, KeepsAll DEF settleOnce
  <1>2. CASE Walkovers(ms) # {}
    <2> DEFINE n == CHOOSE n \in Walkovers(ms) : TRUE
               w == Other(ms[n], NOBODY)
               m == [ms[n] EXCEPT !.winner = w, !.status = "DONE"]
               decided == [ms EXCEPT ![n] = m]
    <2>1. n \in Walkovers(ms)
      BY <1>2
    <2>2. settleOnce(ms, entrants) = advance(decided, n, entrants)
      BY <1>2 DEF settleOnce
    <2> HIDE DEF n, w
    <2>3. n \in DOMAIN ms /\ ms[n].status # "DONE" /\ IsMatch(ms[n])
      BY <2>1 DEF Walkovers, AreMatches
    <2>4. IsMatch(m)
      BY <2>3, WonKeepsShape
    <2> HIDE DEF m
    <2>5. Keeps(ms, decided) /\ AreMatches(decided)
      BY <2>3, <2>4, DecidingKeeps DEF Keeps
    <2> HIDE DEF decided
    <2>6. Keeps(decided, advance(decided, n, entrants))
      BY <2>5, AdvanceKeeps
    <2> QED BY <2>2, <2>5, <2>6, KeepsOn
  <1> QED BY <1>1, <1>2

-------------------------------------------------------------------------------
(* Walkovers, one after another *)

(* A set of naturals which is not empty has a first element. *)
LEMMA FirstNatural ==
    ASSUME NEW T \in SUBSET Nat, T # {}
    PROVE  \E x \in T : \A y \in T : x <= y
  <1> DEFINE R == {ss \in Nat \X Nat : ss[1] < ss[2]}
  <1>1. IsWellFoundedOn(R, Nat)
    BY NatLessThanWellFounded DEF OpToRel
  <1> HIDE DEF R
  <1>2. PICK x \in T : \A y \in T : ~ (<<y, x>> \in R)
    BY <1>1, WFMin
  <1> USE DEF R
  <1>3. ASSUME NEW y \in T PROVE x <= y
    <2>1. x \in Nat /\ y \in Nat
      OBVIOUS
    <2>2. ~ (y < x)
      BY <1>2, <2>1
    <2> QED BY <2>1, <2>2
  <1> QED BY <1>3

(* A set that holds 0 and the successor of what it holds is all of Nat. *)
LEMMA Induction ==
    ASSUME NEW S \in SUBSET Nat, 0 \in S, \A k \in Nat : k \in S => k + 1 \in S
    PROVE  S = Nat
  <1> SUFFICES ASSUME Nat \ S # {} PROVE FALSE
    OBVIOUS
  <1>1. PICK x \in Nat \ S : \A y \in Nat \ S : x <= y
    BY FirstNatural
  <1>2. x - 1 \in Nat /\ ~ (x <= x - 1)
    BY <1>1
  <1>3. x - 1 \in S
    BY <1>1, <1>2
  <1> QED BY <1>1, <1>2, <1>3

(* The first steps of settleWalkovers.                                      *)
Run(f, k, ms, entrants) ==
    /\ f = [i \in 0 .. k |-> f[i]]
    /\ f[0] = ms
    /\ \A i \in 0 .. k : i # 0 => f[i] = settleOnce(f[i - 1], entrants)

LEMMA RunsExist ==
    ASSUME NEW ms, NEW entrants, NEW k \in Nat PROVE \E f : Run(f, k, ms, entrants)
  <1> DEFINE S == {j \in Nat : \E f : Run(f, j, ms, entrants)}
  <1>1. 0 \in S
    <2> DEFINE f == [i \in 0 .. 0 |-> ms]
    <2>1. Run(f, 0, ms, entrants)
      BY DEF Run
    <2> QED BY <2>1
  <1>2. ASSUME NEW j \in Nat, j \in S PROVE j + 1 \in S
    <2>1. PICK f : Run(f, j, ms, entrants)
      BY <1>2
    <2> DEFINE x == settleOnce(f[j], entrants)
               g == [i \in 0 .. (j + 1) |-> IF i = j + 1 THEN x ELSE f[i]]
    <2>2. /\ g = [i \in 0 .. (j + 1) |-> g[i]]
          /\ g[0] = ms
      BY <2>1 DEF Run
    <2>3. ASSUME NEW i \in 0 .. (j + 1), i # 0 PROVE g[i] = settleOnce(g[i - 1], entrants)
      <3>1. i - 1 \in 0 .. j /\ g[i - 1] = f[i - 1]
        BY <2>3
      <3>2. CASE i = j + 1
        <4>1. g[i] = x /\ i - 1 = j
          BY <3>2
        <4> QED BY <3>1, <4>1
      <3>3. CASE i # j + 1
        <4>1. i \in 0 .. j /\ g[i] = f[i]
          BY <3>3
        <4>2. f[i] = settleOnce(f[i - 1], entrants)
          BY <2>1, <2>3, <4>1 DEF Run
        <4> QED BY <3>1, <4>1, <4>2
      <3> QED BY <3>2, <3>3
    <2> HIDE DEF g
    <2>4. Run(g, j + 1, ms, entrants)
      BY <2>2, <2>3 DEF Run
    <2> QED BY <2>4
  <1> HIDE DEF S
  <1>3. S = Nat
    <2>1. S \in SUBSET Nat
      BY DEF S
    <2> QED BY <1>1, <1>2, <2>1, Induction
  <1> QED BY <1>3 DEF S

LEMMA RunsAgree ==
    ASSUME NEW ms, NEW entrants, NEW j \in Nat, NEW k \in Nat, NEW f, NEW g,
           Run(f, j, ms, entrants), Run(g, k, ms, entrants), NEW i \in Nat, i <= j, i <= k
    PROVE  f[i] = g[i]
  <1> DEFINE S == {n \in Nat : n <= j /\ n <= k => f[n] = g[n]}
  <1>1. 0 \in S
    BY DEF Run
  <1>2. ASSUME NEW n \in Nat, n \in S PROVE n + 1 \in S
    <2> SUFFICES ASSUME n + 1 <= j, n + 1 <= k PROVE f[n + 1] = g[n + 1]
      OBVIOUS
    <2>1. n + 1 \in 0 .. j /\ n + 1 \in 0 .. k /\ n + 1 # 0 /\ (n + 1) - 1 = n
      OBVIOUS
    <2>2. f[n] = g[n]
      BY <1>2
    <2>3. f[n + 1] = settleOnce(f[n], entrants) /\ g[n + 1] = settleOnce(g[n], entrants)
      BY <2>1 DEF Run
    <2> QED BY <2>2, <2>3
  <1> HIDE DEF S
  <1>3. S = Nat
    <2>1. S \in SUBSET Nat
      BY DEF S
    <2> QED BY <1>1, <1>2, <2>1, Induction
  <1> QED BY <1>3 DEF S

(* settleWalkovers is what it says: settleOnce, again and again.            *)
LEMMA SettlesOneByOne ==
    ASSUME NEW ms, NEW entrants
    PROVE  \E f : /\ settleWalkovers(ms, entrants) = f[Cardinality(DOMAIN ms)]
                  /\ f[0] = ms
                  /\ \A k \in Nat : f[k + 1] = settleOnce(f[k], entrants)
  <1> DEFINE settle[step \in Nat] == IF step = 0 THEN ms ELSE settleOnce(settle[step - 1], entrants)
             G(k) == CHOOSE g : Run(g, k, ms, entrants)
             F == [k \in Nat |-> G(k)[k]]
  <1>1. \A k \in Nat : Run(G(k), k, ms, entrants)
    BY RunsExist
  <1> HIDE DEF G
  <1>2. F[0] = ms
    BY <1>1 DEF Run
  <1>3. ASSUME NEW k \in Nat, k # 0 PROVE F[k] = settleOnce(F[k - 1], entrants)
    <2>1. k - 1 \in Nat /\ k \in 0 .. k /\ k - 1 <= k /\ k - 1 <= k - 1
      BY <1>3
    <2>2. G(k)[k] = settleOnce(G(k)[k - 1], entrants)
      BY <1>1, <1>3, <2>1 DEF Run
    <2>3. G(k)[k - 1] = G(k - 1)[k - 1]
      BY <1>1, <2>1, RunsAgree
    <2> QED BY <2>1, <2>2, <2>3
  <1>4. F = [step \in Nat |-> IF step = 0 THEN ms ELSE settleOnce(F[step - 1], entrants)]
    BY <1>2, <1>3
  <1> HIDE DEF F
  <1>5. settle = [step \in Nat |-> IF step = 0 THEN ms ELSE settleOnce(settle[step - 1], entrants)]
    <2> SUFFICES \E g : g = [step \in Nat |-> IF step = 0 THEN ms ELSE settleOnce(g[step - 1], entrants)]
      OBVIOUS
    <2> QED BY <1>4
  <1>6. settleWalkovers(ms, entrants) = settle[Cardinality(DOMAIN ms)]
    BY DEF settleWalkovers
  <1> HIDE DEF settle
  <1>7. settle[0] = ms
    BY <1>5
  <1>8. ASSUME NEW k \in Nat PROVE settle[k + 1] = settleOnce(settle[k], entrants)
    <2>1. k + 1 \in Nat /\ k + 1 # 0 /\ (k + 1) - 1 = k
      OBVIOUS
    <2> QED BY <1>5, <2>1
  <1> QED BY <1>6, <1>7, <1>8

LEMMA SettleWalkoversKeeps ==
    ASSUME NEW ms, AreMatches(ms), IsFiniteSet(DOMAIN ms), NEW entrants PROVE Keeps(ms, settleWalkovers(ms, entrants))
  <1>1. PICK f : /\ settleWalkovers(ms, entrants) = f[Cardinality(DOMAIN ms)]
                 /\ f[0] = ms
                 /\ \A k \in Nat : f[k + 1] = settleOnce(f[k], entrants)
    BY SettlesOneByOne
  <1> DEFINE S == {k \in Nat : Keeps(ms, f[k])}
  <1>2. 0 \in S
    BY <1>1, KeepsAll
  <1>3. ASSUME NEW k \in Nat, k \in S PROVE k + 1 \in S
    <2>1. Keeps(ms, f[k]) /\ AreMatches(f[k])
      BY <1>3 DEF Keeps
    <2>2. Keeps(f[k], settleOnce(f[k], entrants))
      BY <2>1, SettleOnceKeeps
    <2>3. Keeps(ms, f[k + 1])
      BY <1>1, <2>1, <2>2, KeepsOn
    <2> QED BY <2>3
  <1>4. S \in SUBSET Nat
    OBVIOUS
  <1> HIDE DEF S
  <1>5. S = Nat
    BY <1>2, <1>3, <1>4, Induction
  <1>6. Cardinality(DOMAIN ms) \in S
    BY <1>5, FS_CardinalityType
  <1> QED BY <1>1, <1>6 DEF S

LEMMA DecidedAtKeeps ==
    ASSUME NEW ms, AreMatches(ms), Bracket => IsFiniteSet(DOMAIN ms), NEW n PROVE Keeps(ms, DecidedAt(ms, n))
  <1> DEFINE k == Len(entries)
             advanced == advance(ms, n, k)
  <1> HIDE DEF k
  <1>1. Keeps(ms, ms)
    BY KeepsAll
  <1>2. Keeps(ms, advanced) /\ AreMatches(advanced) /\ DOMAIN advanced = DOMAIN ms
    BY AdvanceKeeps DEF Keeps
  <1> HIDE DEF advanced
  <1>3. CASE Bracket
    <2>1. Keeps(advanced, settleWalkovers(advanced, k))
      BY <1>2, <1>3, SettleWalkoversKeeps
    <2>2. Keeps(ms, settleWalkovers(advanced, k))
      BY <1>2, <2>1, KeepsOn
    <2> QED BY <1>3, <2>2 DEF DecidedAt, advanced, k
  <1>4. CASE ~ Bracket
    BY <1>1, <1>4 DEF DecidedAt
  <1> QED BY <1>3, <1>4

LEMMA NewMatchIsOne ==
    ASSUME NEW p, NEW q, NEW w PROVE IsMatch(NewMatch(p, q, w))
  BY DEF IsMatch, NewMatch

-------------------------------------------------------------------------------
(* The size of a bracket *)

(* A set of one more element has twice as many parts. *)
LEMMA PowersDouble ==
    ASSUME NEW n \in Nat
    PROVE  2^n \in Nat /\ 2^(n + 1) = 2 * 2^n
  <1> DEFINE S == 1..n
             T == 1..(n + 1)
             with == {X \cup {n + 1} : X \in SUBSET S}
             f == [X \in SUBSET S |-> X \cup {n + 1}]
  <1>1. IsFiniteSet(S) /\ Cardinality(S) = n
    BY FS_Interval
  <1>2. IsFiniteSet(T) /\ Cardinality(T) = n + 1
    BY FS_Interval
  <1>3. IsFiniteSet(SUBSET S) /\ Cardinality(SUBSET S) = 2^n
    BY <1>1, FS_SUBSET
  <1>4. Cardinality(SUBSET T) = 2^(n + 1)
    BY <1>2, FS_SUBSET
  <1>5. f \in Bijection(SUBSET S, with)
    <2>1. \A X \in SUBSET S : n + 1 \notin X
      OBVIOUS
    <2>2. \A X, Y \in SUBSET S : f[X] = f[Y] => X = Y
      BY <2>1
    <2>3. \A Y \in with : \E X \in SUBSET S : f[X] = Y
      OBVIOUS
    <2>4. f \in [SUBSET S -> with]
      OBVIOUS
    <2> HIDE DEF f, S, with
    <2> QED BY <2>2, <2>3, <2>4, Fun_IsBij DEF Bijection, Injection, Surjection
  <1>6. IsFiniteSet(with) /\ Cardinality(with) = 2^n
    BY <1>3, <1>5, FS_Bijection DEF ExistsBijection
  <1>7. SUBSET T = (SUBSET S) \cup with
    <2>1. T = S \cup {n + 1}
      OBVIOUS
    <2>2. ASSUME NEW X \in SUBSET T, n + 1 \in X PROVE X \in with
      <3>1. X \ {n + 1} \in SUBSET S /\ X = (X \ {n + 1}) \cup {n + 1}
        BY <2>1, <2>2
      <3> QED BY <3>1
    <2>3. ASSUME NEW X \in SUBSET T, n + 1 \notin X PROVE X \in SUBSET S
      BY <2>1, <2>3
    <2> HIDE DEF S, T
    <2> QED BY <2>1, <2>2, <2>3
  <1>8. (SUBSET S) \cap with = {}
    OBVIOUS
  <1>9. Cardinality(SUBSET S) \in Nat
    BY <1>3, FS_CardinalityType
  <1>10. Cardinality((SUBSET S) \cup with) = Cardinality(SUBSET S) + Cardinality(with)
    <2> HIDE DEF S, with
    <2>1. Cardinality((SUBSET S) \cup with) = Cardinality(SUBSET S) + Cardinality(with) - Cardinality((SUBSET S) \cap with)
      BY <1>3, <1>6, FS_Union
    <2>2. Cardinality((SUBSET S) \cap with) = 0
      BY <1>8, FS_EmptySet
    <2> QED BY <1>3, <1>6, <1>9, <2>1, <2>2
  <1> HIDE DEF S, T, with
  <1>11. 2^(n + 1) = 2^n + 2^n /\ 2^n \in Nat
    BY <1>3, <1>4, <1>6, <1>7, <1>9, <1>10
  <1> QED BY <1>11

LEMMA PowersOfTwo ==
    /\ 2^0 = 1 /\ 2^1 = 2
    /\ \A n \in Nat : 2^n \in Nat /\ 2^(n + 1) = 2 * 2^n /\ 2^n > n
  <1>1. 2^0 = 1 /\ 2^1 = 2
    OBVIOUS
  <1>2. \A n \in Nat : 2^n \in Nat /\ 2^(n + 1) = 2 * 2^n
    BY PowersDouble
  <1> DEFINE S == {n \in Nat : 2^n > n}
  <1>3. 0 \in S
    BY <1>1
  <1>4. ASSUME NEW k \in Nat, k \in S PROVE k + 1 \in S
    BY <1>2, <1>4
  <1>5. S \in SUBSET Nat
    OBVIOUS
  <1> HIDE DEF S
  <1>6. S = Nat
    BY <1>3, <1>4, <1>5, Induction
  <1> QED BY <1>1, <1>2, <1>6 DEF S

(* Halving b times. *)
LEMMA Quotients ==
    ASSUME NEW a \in Nat, NEW b \in Nat
    PROVE  2^(a + b) \div 2^b = 2^a
  <1> DEFINE S == {n \in Nat : 2^(a + n) = 2^a * 2^n}
  <1>1. 0 \in S
    BY PowersOfTwo
  <1>2. ASSUME NEW n \in Nat, n \in S PROVE n + 1 \in S
    <2>1. 2^(a + (n + 1)) = 2 * 2^(a + n)
      <3>1. a + (n + 1) = (a + n) + 1 /\ a + n \in Nat
        OBVIOUS
      <3> QED BY <3>1, PowersOfTwo
    <2>2. 2^(n + 1) = 2 * 2^n /\ 2^n \in Nat /\ 2^a \in Nat
      BY PowersOfTwo
    <2>3. 2^(a + n) = 2^a * 2^n
      BY <1>2
    <2>4. \A x, y \in Nat : 2 * (x * y) = x * (2 * y)
      OBVIOUS
    <2> QED BY <2>1, <2>2, <2>3, <2>4
  <1>3. S \in SUBSET Nat
    OBVIOUS
  <1> HIDE DEF S
  <1>4. b \in S
    BY <1>1, <1>2, <1>3, Induction
  <1>5. 2^(a + b) = 2^a * 2^b /\ 2^a \in Nat /\ 2^b \in Nat /\ 2^b > 0
    BY <1>4, PowersOfTwo DEF S
  <1>6. \A x, y \in Nat : y > 0 => (x * y) \div y = x
    OBVIOUS
  <1> QED BY <1>5, <1>6

(* A bracket is the smallest that has a place for every entrant. *)
LEMMA LevelsFit ==
    ASSUME NEW e \in Nat
    PROVE  /\ levels(e) \in Nat /\ levels(e) >= 1
           /\ 2^levels(e) >= e
           /\ levels(e) = 1 \/ 2^(levels(e) - 1) < e
  <1> DEFINE S == {k \in 1..(e + 1) : 2^k >= e}
  <1>1. e + 1 \in S /\ S \in SUBSET Nat
    <2>1. 2^(e + 1) \in Nat /\ 2^(e + 1) > e + 1
      BY PowersOfTwo
    <2> QED BY <2>1
  <1> HIDE DEF S
  <1>2. PICK k \in S : \A j \in S : k <= j
    BY <1>1, FirstNatural
  <1>3. k \in 1..(e + 1) /\ 2^k >= e
    BY <1>2 DEF S
  <1>4. ASSUME NEW j \in 1..(k - 1) PROVE 2^j < e
    <2>1. j \notin S /\ j \in 1..(e + 1)
      BY <1>1, <1>2, <1>3
    <2>2. 2^j \in Nat
      BY PowersOfTwo
    <2> QED BY <2>1, <2>2 DEF S
  <1> DEFINE P(h) == 2^h >= e /\ \A j \in 1..(h - 1) : 2^j < e
             c == CHOOSE h \in 1..(e + 1) : P(h)
  <1>5. P(k)
    BY <1>3, <1>4
  <1>6. levels(e) = c
    BY DEF levels
  <1> HIDE DEF P
  <1>7. c \in 1..(e + 1) /\ P(c)
    BY <1>3, <1>5
  <1> HIDE DEF c
  <1>8. c = 1 \/ c - 1 \in 1..(c - 1)
    BY <1>7
  <1> QED BY <1>6, <1>7, <1>8 DEF P

(* It has finitely many matches.                                            *)
LEMMA RoundIsFinite ==
    ASSUME NEW b, NEW r, NEW c \in Int PROVE IsFiniteSet({<<b, r, p>> : p \in 0..(c - 1)})
  <1> DEFINE S == 0..(c - 1)
             T == {<<b, r, p>> : p \in S}
             f == [p \in S |-> <<b, r, p>>]
  <1>1. IsFiniteSet(S)
    BY FS_Interval
  <1>2. f \in Surjection(S, T)
    BY Fun_IsSurj
  <1> HIDE DEF S, T, f
  <1>3. IsFiniteSet(T)
    BY <1>1, <1>2, FS_Surjection
  <1> QED BY <1>3 DEF T, S

LEMMA RoundsAreFiniteToo ==
    ASSUME NEW k \in Int, NEW R, R = [r \in 1..k |-> R[r]], \A r \in 1..k : IsFiniteSet(R[r])
    PROVE  IsFiniteSet(UNION {R[r] : r \in 1..k})
  <1> DEFINE T == {R[r] : r \in 1..k}
  <1>1. IsFiniteSet(1..k)
    BY FS_Interval
  <1>2. R \in Surjection(1..k, T)
    BY Fun_IsSurj
  <1>3. \A t \in T : IsFiniteSet(t)
    OBVIOUS
  <1> HIDE DEF T
  <1>4. IsFiniteSet(T)
    BY <1>1, <1>2, FS_Surjection
  <1>5. IsFiniteSet(UNION T)
    BY <1>3, <1>4, FS_UNION
  <1> QED BY <1>5 DEF T

LEMMA BracketsAreFinite ==
    ASSUME NEW e \in Nat PROVE IsFiniteSet(shape(e))
  <1> DEFINE k == levels(e)
             round(r) == {<<"WINNERS", r, p>> : p \in 0..(2^k \div 2^r - 1)}
             below(l) == {<<"LOSERS", l, p>> : p \in 0..(losersMatches(2^k, l) - 1)}
             R == [r \in 1..k |-> round(r)]
             L == [l \in 1..(2 * (k - 1)) |-> below(l)]
             winners == UNION {round(r) : r \in 1..k}
             losers == UNION {below(l) : l \in 1..(2 * (k - 1))}
  <1>1. k \in Nat
    BY LevelsFit
  <1>2. \A n \in Nat : 2^n \in Nat /\ 2^n > 0
    BY PowersOfTwo
  <1>3. shape(e) = (winners \cup losers) \cup {Final, Reset}
    BY DEF shape
  <1> HIDE DEF k
  <1>4. IsFiniteSet(winners)
    <2>1. ASSUME NEW r \in 1..k PROVE IsFiniteSet(round(r))
      <3>1. r \in Nat /\ 2^k \in Nat /\ 2^r \in Nat /\ 2^r > 0
        BY <1>1, <1>2
      <3>2. 2^k \div 2^r \in Int
        BY <3>1
      <3> QED BY <3>2, RoundIsFinite
    <2> HIDE DEF round
    <2>2. IsFiniteSet(UNION {R[r] : r \in 1..k})
      <3>1. R = [r \in 1..k |-> R[r]] /\ \A r \in 1..k : IsFiniteSet(R[r])
        BY <2>1
      <3>2. k \in Int
        BY <1>1
      <3> HIDE DEF R
      <3> QED BY <3>1, <3>2, RoundsAreFiniteToo
    <2>3. winners = UNION {R[r] : r \in 1..k}
      OBVIOUS
    <2> QED BY <2>2, <2>3
  <1>5. IsFiniteSet(losers)
    <2>1. ASSUME NEW l \in 1..(2 * (k - 1)) PROVE IsFiniteSet(below(l))
      <3>0. (l + 1) \div 2 + 1 \in Nat
        BY <1>1
      <3>1. 2^k \in Nat /\ 2^((l + 1) \div 2 + 1) \in Nat /\ 2^((l + 1) \div 2 + 1) > 0
        BY <1>1, <1>2, <3>0
      <3>2. losersMatches(2^k, l) \in Int
        BY <3>1 DEF losersMatches
      <3> QED BY <3>2, RoundIsFinite
    <2> HIDE DEF below
    <2>2. IsFiniteSet(UNION {L[l] : l \in 1..(2 * (k - 1))})
      <3>1. L = [l \in 1..(2 * (k - 1)) |-> L[l]] /\ \A l \in 1..(2 * (k - 1)) : IsFiniteSet(L[l])
        BY <2>1
      <3>2. 2 * (k - 1) \in Int
        BY <1>1
      <3> HIDE DEF L
      <3> QED BY <3>1, <3>2, RoundsAreFiniteToo
    <2>3. losers = UNION {L[l] : l \in 1..(2 * (k - 1))}
      OBVIOUS
    <2> QED BY <2>2, <2>3
  <1> HIDE DEF winners, losers
  <1>6. IsFiniteSet(winners \cup losers)
    BY <1>4, <1>5, FS_Union
  <1>7. IsFiniteSet({Final} \cup {Reset})
    <2>1. IsFiniteSet({Final}) /\ IsFiniteSet({Reset})
      BY FS_Singleton
    <2> QED BY <2>1, FS_Union
  <1>8. {Final, Reset} = {Final} \cup {Reset}
    OBVIOUS
  <1> DEFINE matchesOfTheRounds == winners \cup losers
             finals == {Final} \cup {Reset}
  <1> HIDE DEF matchesOfTheRounds, finals
  <1>9. IsFiniteSet(matchesOfTheRounds \cup finals)
    BY <1>6, <1>7, FS_Union DEF matchesOfTheRounds, finals
  <1> QED BY <1>3, <1>8, <1>9 DEF matchesOfTheRounds, finals

LEMMA BracketsOfMatches ==
    ASSUME NEW seeded PROVE AreMatches(buildBracket(seeded)) /\ IsFiniteSet(DOMAIN buildBracket(seeded))
  <1> DEFINE n == Len(seeded)
             first == seed(seeded)
             opening(node) == node[1] = "WINNERS" /\ node[2] = 1
             slot(node, s) == IF opening(node) THEN first[node[3]][s] ELSE null
             built == [node \in shape(n) |-> NewMatch(slot(node, 1), slot(node, 2), wave(n, node))]
  <1>1. n \in Nat
    OBVIOUS
  <1>2. AreMatches(built) /\ IsFiniteSet(DOMAIN built)
    <2>1. DOMAIN built = shape(n)
      OBVIOUS
    <2>2. AreMatches(built)
      <3> HIDE DEF slot
      <3> QED BY NewMatchIsOne DEF AreMatches
    <2> HIDE DEF built
    <2> QED BY <1>1, <2>1, <2>2, BracketsAreFinite
  <1>3. buildBracket(seeded) = settleWalkovers(built, n)
    BY DEF buildBracket
  <1> HIDE DEF n, built
  <1> QED BY <1>1, <1>2, <1>3, SettleWalkoversKeeps DEF Keeps

-------------------------------------------------------------------------------
(* The inductive invariant *)

TournamentIsARow ==
    tournament = [kind |-> tournament.kind, bestOf |-> tournament.bestOf, status |-> tournament.status,
                  plannedRounds |-> tournament.plannedRounds, currentRound |-> tournament.currentRound]

(* Nothing to lose when the tournament starts.                              *)
NoMatchBeforeTheStart ==
    tournament.status \in {"REGISTRATION", "CHECK_IN"} => DOMAIN matches = {}

(* A new round is new.                                                      *)
RoundsSoFar ==
    ~ Bracket => /\ tournament.currentRound \in Nat
                 /\ \A n \in DOMAIN matches : n[2] \in Nat \ {0} /\ n[2] <= tournament.currentRound

ResultsInv ==
    /\ TournamentIsARow
    /\ AreMatches(matches)
    /\ NoMatchBeforeTheStart
    /\ RoundsSoFar
    /\ Bracket => IsFiniteSet(DOMAIN matches)

(* What DecidedStays says of a step.                                        *)
ResultsStay ==
    \A n \in DOMAIN matches \cap DOMAIN matches' :
        Decided(n) => /\ matches'[n].status = "DONE"
                      /\ \/ matches'[n].winner = matches[n].winner
                         \/ ~ Bracket /\ tournament.status = "RUNNING" /\ n[2] = tournament.currentRound

(* Steps that do not touch the tournament's kind, nor go back in its        *)
(* rounds.                                                                  *)
TournamentGoesOn ==
    /\ TournamentIsARow'
    /\ tournament'.kind = tournament.kind
    /\ tournament'.status \in {"REGISTRATION", "CHECK_IN"} => tournament.status \in {"REGISTRATION", "CHECK_IN"}
    /\ ~ Bracket => tournament'.currentRound = tournament.currentRound

LEMMA KeptResultsStay ==
    ASSUME ResultsInv, TournamentGoesOn, Keeps(matches, matches')
    PROVE  ResultsInv' /\ ResultsStay
  <1>1. DOMAIN matches' = DOMAIN matches /\ AreMatches(matches')
    BY DEF Keeps
  <1>2. ResultsStay
    BY DEF ResultsStay, Keeps, Decided
  <1>3. NoMatchBeforeTheStart'
    BY <1>1 DEF ResultsInv, NoMatchBeforeTheStart, TournamentGoesOn
  <1>4. RoundsSoFar'
    BY <1>1 DEF ResultsInv, RoundsSoFar, TournamentGoesOn, Bracket
  <1> QED BY <1>1, <1>2, <1>3, <1>4 DEF ResultsInv, TournamentGoesOn, AreMatches, Bracket

LEMMA UntouchedResultsStay ==
    ASSUME ResultsInv, TournamentGoesOn, UNCHANGED matches
    PROVE  ResultsInv' /\ ResultsStay
  <1>1. Keeps(matches, matches')
    BY KeepsAll DEF ResultsInv
  <1> QED BY <1>1, KeptResultsStay

LEMMA SameTournamentGoesOn ==
    ASSUME TournamentIsARow, UNCHANGED tournament PROVE TournamentGoesOn
  BY DEF TournamentIsARow, TournamentGoesOn

LEMMA StatusChanges ==
    ASSUME TournamentIsARow, NEW s,
           s \in {"REGISTRATION", "CHECK_IN"} => tournament.status \in {"REGISTRATION", "CHECK_IN"},
           tournament' = [tournament EXCEPT !.status = s]
    PROVE  TournamentGoesOn
  BY DEF TournamentIsARow, TournamentGoesOn

-------------------------------------------------------------------------------
(* The steps *)

(* Players come, go and check in; the admin opens, cancels, finishes, plans *)
(* rounds, opens a wave; the process dies: no match changes.                *)
LEMMA RequestsKeepResults ==
    ASSUME ResultsInv,
           \/ \E p \in Players : Register(p) \/ AdminAdd(p) \/ Unregister(p) \/ AdminRemove(p) \/ CheckIn(p)
           \/ OpenCheckIn \/ Cancel \/ NextWave \/ Finish \/ Crash
           \/ \E delta \in {-1, 1} : ChangeRounds(delta)
           \/ UNCHANGED vars
    PROVE  ResultsInv' /\ ResultsStay
  <1>0. TournamentIsARow
    BY DEF ResultsInv
  <1>1. CASE \E p \in Players : Register(p) \/ AdminAdd(p) \/ Unregister(p) \/ AdminRemove(p) \/ CheckIn(p)
    <2>1. UNCHANGED <<tournament, matches>>
      BY <1>1 DEF Register, AdminAdd, Add, Unregister, AdminRemove, Delete, CheckIn
    <2> QED BY <1>0, <2>1, SameTournamentGoesOn, UntouchedResultsStay
  <1>2. CASE OpenCheckIn
    <2>1. TournamentGoesOn
      BY <1>0, <1>2, StatusChanges DEF OpenCheckIn
    <2> QED BY <1>2, <2>1, UntouchedResultsStay DEF OpenCheckIn
  <1>3. CASE Cancel
    <2>1. TournamentGoesOn
      BY <1>0, <1>3, StatusChanges DEF Cancel
    <2> QED BY <1>3, <2>1, UntouchedResultsStay DEF Cancel
  <1>4. CASE Finish
    <2>1. TournamentGoesOn
      BY <1>0, <1>4, StatusChanges DEF Finish
    <2> QED BY <1>4, <2>1, UntouchedResultsStay DEF Finish
  <1>5. CASE NextWave
    <2>1. PICK next : tournament' = [tournament EXCEPT !.currentRound = next]
      BY <1>5 DEF NextWave
    <2>2. Bracket /\ UNCHANGED matches
      BY <1>5 DEF NextWave
    <2>3. TournamentGoesOn
      BY <1>0, <2>1, <2>2 DEF TournamentIsARow, TournamentGoesOn
    <2> QED BY <2>2, <2>3, UntouchedResultsStay
  <1>6. CASE \E delta \in {-1, 1} : ChangeRounds(delta)
    <2>1. PICK planned : tournament' = [tournament EXCEPT !.plannedRounds = planned]
      BY <1>6 DEF ChangeRounds
    <2>2. UNCHANGED matches
      BY <1>6 DEF ChangeRounds
    <2>3. TournamentGoesOn
      BY <1>0, <2>1 DEF TournamentIsARow, TournamentGoesOn
    <2> QED BY <2>2, <2>3, UntouchedResultsStay
  <1>7. CASE Crash \/ UNCHANGED vars
    <2>1. UNCHANGED <<tournament, matches>>
      BY <1>7 DEF Crash, vars
    <2> QED BY <1>0, <2>1, SameTournamentGoesOn, UntouchedResultsStay
  <1> QED BY <1>1, <1>2, <1>3, <1>4, <1>5, <1>6, <1>7

LEMMA PurgeKeepsResults ==
    ASSUME ResultsInv, Purge PROVE ResultsInv' /\ ResultsStay
  <1>1. TournamentGoesOn
    BY StatusChanges DEF Purge, ResultsInv
  <1>2. DOMAIN matches' = {}
    BY DEF Purge
  <1> QED BY <1>1, <1>2, FS_EmptySet DEF ResultsInv, ResultsStay, AreMatches, NoMatchBeforeTheStart, RoundsSoFar,
                                         TournamentGoesOn, Bracket

LEMMA StartKeepsResults ==
    ASSUME ResultsInv, Start PROVE ResultsInv' /\ ResultsStay
  <1>1. DOMAIN matches = {}
    BY DEF Start, ResultsInv, NoMatchBeforeTheStart
  <1>2. PICK planned : tournament' = [[tournament EXCEPT !.status = "RUNNING"] EXCEPT !.plannedRounds = planned]
    BY DEF Start
  <1> DEFINE started == [tournament EXCEPT !.status = "RUNNING"]
  <1>3. /\ tournament'.status = "RUNNING" /\ tournament'.kind = tournament.kind
        /\ tournament'.currentRound = tournament.currentRound
        /\ TournamentIsARow'
    BY <1>2 DEF ResultsInv, TournamentIsARow
  <1>4. AreMatches(matches') /\ (Bracket' => IsFiniteSet(DOMAIN matches'))
    BY <1>3, BracketsOfMatches DEF Start, ResultsInv, Bracket
  <1>5. RoundsSoFar'
    BY <1>1, <1>3 DEF Start, ResultsInv, RoundsSoFar, Bracket
  <1> QED BY <1>1, <1>3, <1>4, <1>5 DEF ResultsInv, ResultsStay, AreMatches, NoMatchBeforeTheStart, Bracket

(* The matches of a round bear its number.                                  *)
LEMMA RoundsAreNumbered ==
    ASSUME NEW round, NEW pairing
    PROVE  /\ AreMatches(SwissRound(round, pairing))
           /\ \A n \in DOMAIN SwissRound(round, pairing) : n[2] = round
  <1> DEFINE count == Len(pairing.pairs)
             nodes == {<<"SWISS", round, i - 1>> : i \in 1..count}
             paired == [n \in nodes |-> NewMatch(pairing.pairs[n[3] + 1][1], pairing.pairs[n[3] + 1][2], 0)]
             byes == {n \in {<<"SWISS", round, count>>} : pairing.bye # null}
             bye == [NewMatch(pairing.bye, null, 0) EXCEPT !.winner = pairing.bye, !.status = "DONE"]
  <1>1. SwissRound(round, pairing) = [n \in nodes \cup byes |-> IF n \in byes THEN bye ELSE paired[n]]
    BY DEF SwissRound
  <1>2. IsMatch(bye)
    BY NewMatchIsOne, WonKeepsShape
  <1>3. \A n \in nodes : IsMatch(paired[n])
    BY NewMatchIsOne
  <1>4. \A n \in nodes \cup byes : n[2] = round
    OBVIOUS
  <1> HIDE DEF nodes, byes, bye, paired
  <1> QED BY <1>1, <1>2, <1>3, <1>4 DEF AreMatches

LEMMA NextRoundKeepsResults ==
    ASSUME ResultsInv, NextRound PROVE ResultsInv' /\ ResultsStay
  <1> DEFINE round == tournament.currentRound + 1
  <1>1. PICK pairing :
           matches' = [n \in DOMAIN matches \cup DOMAIN SwissRound(round, pairing) |->
                          IF n \in DOMAIN SwissRound(round, pairing) THEN SwissRound(round, pairing)[n] ELSE matches[n]]
    BY DEF NextRound
  <1> DEFINE created == SwissRound(round, pairing)
  <1>2. AreMatches(created) /\ \A n \in DOMAIN created : n[2] = round
    BY RoundsAreNumbered
  <1>3. matches' = [n \in DOMAIN matches \cup DOMAIN created |-> IF n \in DOMAIN created THEN created[n] ELSE matches[n]]
    BY <1>1
  <1>4. ~ Bracket /\ tournament' = [tournament EXCEPT !.currentRound = round] /\ tournament.status = "RUNNING"
    BY DEF NextRound
  <1>5. /\ tournament'.currentRound = round /\ tournament'.kind = tournament.kind
        /\ tournament'.status = "RUNNING" /\ TournamentIsARow'
    BY <1>4 DEF ResultsInv, TournamentIsARow
  <1>6. /\ tournament.currentRound \in Nat
        /\ \A n \in DOMAIN matches : n[2] \in Nat \ {0} /\ n[2] <= tournament.currentRound
    BY <1>4 DEF ResultsInv, RoundsSoFar
  <1> HIDE DEF created
  <1>7. RoundsSoFar'
    BY <1>2, <1>3, <1>5, <1>6 DEF RoundsSoFar
  <1>8. \A n \in DOMAIN matches : n \notin DOMAIN created
    BY <1>2, <1>6
  <1>9. ResultsStay
    BY <1>3, <1>8 DEF ResultsStay, Decided
  <1>10. AreMatches(matches')
    BY <1>2, <1>3 DEF ResultsInv, AreMatches
  <1> QED BY <1>4, <1>5, <1>7, <1>9, <1>10 DEF ResultsInv, AreMatches, NoMatchBeforeTheStart, Bracket

LEMMA StatusKeepsShape ==
    ASSUME NEW m, IsMatch(m), NEW s PROVE IsMatch([m EXCEPT !.status = s])
  BY DEF IsMatch

(* A match that is not decided starts, waits or is played again.            *)
LEMMA MovingOnKeepsResults ==
    ASSUME ResultsInv, UNCHANGED tournament, NEW n \in DOMAIN matches, ~ Decided(n), NEW s,
           matches' = [matches EXCEPT ![n].status = s]
    PROVE  ResultsInv' /\ ResultsStay
  <1> DEFINE m == [matches[n] EXCEPT !.status = s]
  <1>1. IsMatch(m)
    BY StatusKeepsShape DEF ResultsInv, AreMatches
  <1>2. matches' = [matches EXCEPT ![n] = m]
    OBVIOUS
  <1> HIDE DEF m
  <1> DEFINE moved == [matches EXCEPT ![n] = m]
  <1>3. Keeps(matches, moved)
    BY <1>1, DecidingKeeps DEF ResultsInv, Decided
  <1>4. matches' = moved
    BY <1>2
  <1> HIDE DEF moved
  <1>5. Keeps(matches, matches')
    BY <1>3, <1>4
  <1> QED BY <1>5, SameTournamentGoesOn, KeptResultsStay DEF ResultsInv

(* The same with what a result leads to in a bracket.                       *)
LEMMA DecidingAMatchKeepsResults ==
    ASSUME ResultsInv, UNCHANGED tournament, NEW n \in DOMAIN matches, ~ Decided(n), NEW m, IsMatch(m),
           matches' = DecidedAt([matches EXCEPT ![n] = m], n)
    PROVE  ResultsInv' /\ ResultsStay
  <1> DEFINE decided == [matches EXCEPT ![n] = m]
  <1>1. Keeps(matches, decided) /\ AreMatches(decided)
    BY DecidingKeeps DEF ResultsInv, Decided, Keeps
  <1>2. matches' = DecidedAt(decided, n) /\ (Bracket => IsFiniteSet(DOMAIN decided))
    BY DEF ResultsInv
  <1> HIDE DEF decided
  <1>3. Keeps(decided, DecidedAt(decided, n))
    BY <1>1, <1>2, DecidedAtKeeps
  <1>4. Keeps(matches, matches')
    BY <1>1, <1>2, <1>3, KeepsOn
  <1> QED BY <1>4, SameTournamentGoesOn, KeptResultsStay DEF ResultsInv

LEMMA LobbiesKeepResults ==
    ASSUME ResultsInv, NEW p, NEW q,
           (\E opened : Reinvite(p, opened)) \/ BindLobby(p, q)
    PROVE  ResultsInv' /\ ResultsStay
  <1>1. \E n \in DOMAIN matches : \E s : ~ Decided(n) /\ matches' = [matches EXCEPT ![n].status = s]
    BY DEF Reinvite, BindLobby, CurrentMatches, OpenFor
  <1>2. UNCHANGED tournament
    BY DEF Reinvite, BindLobby
  <1> QED BY <1>1, <1>2, MovingOnKeepsResults

LEMMA NotPlayedKeepsResults ==
    ASSUME ResultsInv, NEW n, NotPlayed(n) PROVE ResultsInv' /\ ResultsStay
  <1>1. UNCHANGED tournament
    BY DEF NotPlayed
  <1>2. CASE n \notin DOMAIN matches \/ Decided(n)
    <2>1. UNCHANGED matches
      BY <1>2 DEF NotPlayed
    <2> QED BY <1>1, <2>1, SameTournamentGoesOn, UntouchedResultsStay DEF ResultsInv
  <1>3. CASE n \in DOMAIN matches /\ ~ Decided(n)
    <2>1. matches' = [matches EXCEPT ![n].status = "PENDING"]
      BY <1>3 DEF NotPlayed
    <2> QED BY <1>1, <1>3, <2>1, MovingOnKeepsResults
  <1> QED BY <1>2, <1>3

(* A game that ends late finds its match decided, or gone.                  *)
LEMMA GameWonKeepsResults ==
    ASSUME ResultsInv, NEW n, NEW p, GameWon(n, p) PROVE ResultsInv' /\ ResultsStay
  <1>1. UNCHANGED tournament
    BY DEF GameWon
  <1>2. CASE n \notin DOMAIN matches \/ Decided(n)
    <2>1. UNCHANGED matches
      BY <1>2 DEF GameWon
    <2> QED BY <1>1, <2>1, SameTournamentGoesOn, UntouchedResultsStay DEF ResultsInv
  <1>3. CASE n \in DOMAIN matches /\ ~ Decided(n)
    <2> DEFINE m == matches[n]
               scored == IF p = m.player1 THEN [m EXCEPT !.wins1 = @ + 1] ELSE [m EXCEPT !.wins2 = @ + 1]
               done == [scored EXCEPT !.winner = p, !.status = "DONE"]
               again == [scored EXCEPT !.status = "PENDING"]
    <2>1. IsMatch(m)
      BY <1>3 DEF ResultsInv, AreMatches
    <2>2. IsMatch(scored)
      BY <2>1 DEF IsMatch
    <2>3. \/ matches' = DecidedAt([matches EXCEPT ![n] = done], n)
          \/ matches' = [matches EXCEPT ![n] = again]
      BY <1>3 DEF GameWon
    <2> HIDE DEF scored
    <2>4. IsMatch(done) /\ IsMatch(again)
      BY <2>2, WonKeepsShape, StatusKeepsShape
    <2> HIDE DEF done, again
    <2>5. CASE matches' = DecidedAt([matches EXCEPT ![n] = done], n)
      BY <1>1, <1>3, <2>4, <2>5, DecidingAMatchKeepsResults
    <2>6. CASE matches' = [matches EXCEPT ![n] = again]
      <3>1. Keeps(matches, matches')
        BY <1>3, <2>4, <2>6, DecidingKeeps DEF ResultsInv, Decided
      <3> QED BY <1>1, <3>1, SameTournamentGoesOn, KeptResultsStay DEF ResultsInv
    <2> QED BY <2>3, <2>5, <2>6
  <1> QED BY <1>2, <1>3

(* In a Swiss round an admin may correct what was decided.                  *)
LEMMA SetResultKeepsResults ==
    ASSUME ResultsInv, NEW p, NEW forfeit, SetResult(p, forfeit) PROVE ResultsInv' /\ ResultsStay
  <1>1. UNCHANGED tournament /\ tournament.status = "RUNNING"
    BY DEF SetResult
  <1>2. PICK n \in CurrentMatches(p) :
           /\ ~ (Bracket /\ Decided(n))
           /\ matches' = DecidedAt([matches EXCEPT ![n].winner = IF forfeit THEN Other(matches[n], p) ELSE p,
                                                  ![n].status = "DONE"], n)
    BY DEF SetResult
  <1> DEFINE w == IF forfeit THEN Other(matches[n], p) ELSE p
             m == [matches[n] EXCEPT !.winner = w, !.status = "DONE"]
             corrected == [matches EXCEPT ![n] = m]
  <1>3. n \in DOMAIN matches
    BY DEF CurrentMatches, OpenFor
  <1>4. matches' = DecidedAt(corrected, n)
    BY <1>2
  <1> HIDE DEF w
  <1>5. IsMatch(m)
    BY <1>3, WonKeepsShape DEF ResultsInv, AreMatches
  <1> HIDE DEF m
  <1>6. CASE ~ Decided(n)
    BY <1>1, <1>3, <1>4, <1>5, <1>6, DecidingAMatchKeepsResults
  <1>7. CASE ~ Bracket
    <2>1. matches' = corrected
      BY <1>4, <1>7 DEF DecidedAt
    <2>2. n[2] = tournament.currentRound
      BY <1>7 DEF CurrentMatches
    <2>3. DOMAIN matches' = DOMAIN matches /\ \A k \in DOMAIN matches : k # n => matches'[k] = matches[k]
      BY <2>1
    <2>4. m.status = "DONE"
      BY DEF m
    <2>5. AreMatches(matches')
      BY <1>3, <1>5, <2>1 DEF ResultsInv, AreMatches
    <2>6. ResultsStay
      BY <1>1, <1>3, <1>7, <2>1, <2>2, <2>3, <2>4 DEF ResultsStay, Decided
    <2>7. ResultsInv'
      BY <1>1, <2>3, <2>5 DEF ResultsInv, AreMatches, TournamentIsARow, NoMatchBeforeTheStart, RoundsSoFar, Bracket
    <2> QED BY <2>6, <2>7
  <1> QED BY <1>2, <1>6, <1>7

LEMMA EveryStepKeepsResults ==
    ASSUME ResultsInv, [Next]_vars PROVE ResultsInv' /\ ResultsStay
  <1>1. CASE Purge
    BY <1>1, PurgeKeepsResults
  <1>2. CASE Start
    BY <1>2, StartKeepsResults
  <1>3. CASE NextRound
    BY <1>3, NextRoundKeepsResults
  <1>4. CASE \E p \in Players, b \in BOOLEAN : SetResult(p, b)
    BY <1>4, SetResultKeepsResults
  <1>5. CASE \E p \in Players, b \in BOOLEAN : Reinvite(p, b)
    BY <1>5, LobbiesKeepResults
  <1>6. CASE \E p, q \in Players : BindLobby(p, q)
    BY <1>6, LobbiesKeepResults
  <1>7. CASE \E n \in games : NotPlayed(n)
    BY <1>7, NotPlayedKeepsResults
  <1>8. CASE \E n \in games, p \in Players : GameWon(n, p)
    BY <1>8, GameWonKeepsResults
  <1>9. CASE \/ \E p \in Players : Register(p) \/ AdminAdd(p) \/ Unregister(p) \/ AdminRemove(p) \/ CheckIn(p)
             \/ OpenCheckIn \/ Cancel \/ NextWave \/ Finish \/ Crash
             \/ \E delta \in {-1, 1} : ChangeRounds(delta)
             \/ UNCHANGED vars
    BY <1>9, RequestsKeepResults
  <1> QED BY <1>1, <1>2, <1>3, <1>4, <1>5, <1>6, <1>7, <1>8, <1>9 DEF Next

(* TournamentRunService: for any number of players, any draw, any order of  *)
(* requests and games and any crash, what was decided stays decided and     *)
(* keeps its winner; only an admin corrects a match, of the Swiss round     *)
(* that is played.                                                          *)
THEOREM LateGamesChangeNothing == Spec => DecidedStays
  <1>1. Init => ResultsInv
    <2>1. Init => DOMAIN matches = {}
      BY DEF Init
    <2> QED BY <2>1, FS_EmptySet DEF Init, ResultsInv, TournamentIsARow, AreMatches, NoMatchBeforeTheStart, RoundsSoFar
  <1>2. ResultsInv /\ [Next]_vars => ResultsInv'
    BY EveryStepKeepsResults
  <1>3. ResultsInv /\ [Next]_vars => [ResultsStay]_vars
    BY EveryStepKeepsResults
  <1> QED BY <1>1, <1>2, <1>3, PTL DEF Spec, DecidedStays, ResultsStay

-------------------------------------------------------------------------------
(* Sets *)

LEMMA FinitePart ==
    ASSUME NEW S, IsFiniteSet(S), NEW s \in SUBSET S
    PROVE  /\ IsFiniteSet(s) /\ Cardinality(s) \in Nat
           /\ \A u \in SUBSET s : u # s => Cardinality(u) \in Nat /\ Cardinality(u) < Cardinality(s)
  <1>1. IsFiniteSet(s) /\ Cardinality(s) \in Nat
    BY FS_Subset, FS_CardinalityType
  <1>2. ASSUME NEW u \in SUBSET s, u # s PROVE Cardinality(u) \in Nat /\ Cardinality(u) < Cardinality(s)
    <2>1. IsFiniteSet(u) /\ Cardinality(u) \in Nat
      BY <1>1, FS_Subset, FS_CardinalityType
    <2>2. Cardinality(u) <= Cardinality(s) /\ Cardinality(u) # Cardinality(s)
      BY <1>1, <1>2, FS_Subset
    <2> QED BY <1>1, <2>1, <2>2
  <1> QED BY <1>1, <1>2

LEMMA FirstNumbers ==
    ASSUME NEW n \in Nat PROVE IsFiniteSet(1 .. n) /\ Cardinality(1 .. n) = n
  BY FS_Interval

(* What holds of a set of which it holds of all proper parts, holds of a    *)
(* finite set and of its parts.                                             *)
LEMMA SetInduction ==
    ASSUME NEW S, IsFiniteSet(S), NEW C \in SUBSET SUBSET S,
           \A s \in SUBSET S : (\A u \in SUBSET s : u # s => u \in C) => s \in C
    PROVE  C = SUBSET S
  <1> DEFINE K == {k \in Nat : \A s \in SUBSET S : Cardinality(s) < k => s \in C}
  <1>1. 0 \in K
    <2> SUFFICES ASSUME NEW s \in SUBSET S PROVE ~ (Cardinality(s) < 0)
      OBVIOUS
    <2>1. Cardinality(s) \in Nat
      BY FinitePart
    <2> QED BY <2>1
  <1>2. ASSUME NEW k \in Nat, k \in K PROVE k + 1 \in K
    <2> SUFFICES ASSUME NEW s \in SUBSET S, Cardinality(s) < k + 1 PROVE s \in C
      OBVIOUS
    <2>1. ASSUME NEW u \in SUBSET s, u # s PROVE u \in C
      <3>1. /\ Cardinality(u) \in Nat /\ Cardinality(s) \in Nat
            /\ Cardinality(u) < Cardinality(s)
        BY <2>1, FinitePart
      <3>2. Cardinality(u) < k
        BY <3>1
      <3> QED BY <1>2, <3>2
    <2> QED BY <2>1
  <1>3. K \in SUBSET Nat
    OBVIOUS
  <1> HIDE DEF K
  <1>4. K = Nat
    BY <1>1, <1>2, <1>3, Induction
  <1>5. ASSUME NEW s \in SUBSET S PROVE s \in C
    <2>1. Cardinality(s) \in Nat /\ Cardinality(s) + 1 \in Nat /\ Cardinality(s) < Cardinality(s) + 1
      BY FinitePart
    <2> QED BY <1>4, <2>1 DEF K
  <1> QED BY <1>5

(* A function may be defined on the parts of a finite set from its values   *)
(* on smaller parts.                                                        *)
(* G is a value in V for each part of S and each function on these parts,   *)
(* of which it looks at the smaller ones.                                   *)
RecursOn(S, V, G) ==
    /\ G \in [(SUBSET S) \X [SUBSET S -> V] -> V]
    /\ \A s \in SUBSET S : \A f, g \in [SUBSET S -> V] :
          (\A u \in SUBSET s : u # s => f[u] = g[u]) => G[<<s, f>>] = G[<<s, g>>]

Follows(f, S, V, G) ==
    f \in [SUBSET S -> V] /\ \A s \in SUBSET S : f[s] = G[<<s, f>>]

LEMMA SetRecursion ==
    ASSUME NEW S, IsFiniteSet(S), NEW V, V # {}, NEW G, RecursOn(S, V, G)
    PROVE  \E f : Follows(f, S, V, G)
  <1> DEFINE UpTo(k, f) == \A s \in SUBSET S : Cardinality(s) < k => f[s] = G[<<s, f>>]
             K == {k \in Nat : \E f \in [SUBSET S -> V] : UpTo(k, f)}
  <1>1. 0 \in K
    <2>0. PICK v \in V : TRUE
      OBVIOUS
    <2> DEFINE f == [s \in SUBSET S |-> v]
    <2>1. f \in [SUBSET S -> V]
      OBVIOUS
    <2>2. ASSUME NEW s \in SUBSET S PROVE ~ (Cardinality(s) < 0)
      <3>1. Cardinality(s) \in Nat
        BY FinitePart
      <3> QED BY <3>1
    <2> QED BY <2>1, <2>2
  <1>2. ASSUME NEW k \in Nat, k \in K PROVE k + 1 \in K
    <2>1. PICK f \in [SUBSET S -> V] : \A s \in SUBSET S : Cardinality(s) < k => f[s] = G[<<s, f>>]
      BY <1>2
    <2> DEFINE g == [s \in SUBSET S |-> G[<<s, f>>]]
    <2>2. g \in [SUBSET S -> V]
      BY DEF RecursOn
    <2>3. \A s \in SUBSET S : g[s] = G[<<s, f>>]
      OBVIOUS
    <2> HIDE DEF g
    <2>4. ASSUME NEW s \in SUBSET S, Cardinality(s) < k + 1 PROVE g[s] = G[<<s, g>>]
      <3>1. ASSUME NEW u \in SUBSET s, u # s PROVE f[u] = g[u]
        <4>1. /\ Cardinality(u) \in Nat /\ Cardinality(s) \in Nat
              /\ Cardinality(u) < Cardinality(s)
          BY <3>1, FinitePart
        <4>2. Cardinality(u) < k /\ u \in SUBSET S
          BY <2>4, <4>1
        <4> QED BY <2>1, <2>3, <4>2
      <3>2. G[<<s, f>>] = G[<<s, g>>]
        BY <2>2, <3>1 DEF RecursOn
      <3> QED BY <2>3, <3>2
    <2>5. UpTo(k + 1, g)
      BY <2>4
    <2> HIDE DEF UpTo
    <2> QED BY <2>2, <2>5
  <1>3. K \in SUBSET Nat
    OBVIOUS
  <1> HIDE DEF K
  <1>4. K = Nat
    BY <1>1, <1>2, <1>3, Induction
  <1>5. Cardinality(S) \in Nat /\ Cardinality(S) + 1 \in Nat
    BY FS_CardinalityType
  <1>6. PICK f \in [SUBSET S -> V] : \A s \in SUBSET S : Cardinality(s) < Cardinality(S) + 1 => f[s] = G[<<s, f>>]
    BY <1>4, <1>5 DEF K
  <1>7. ASSUME NEW s \in SUBSET S PROVE Cardinality(s) < Cardinality(S) + 1
    <2>1. Cardinality(s) <= Cardinality(S) /\ Cardinality(s) \in Nat
      BY FinitePart, FS_Subset
    <2> QED BY <1>5, <2>1
  <1>8. Follows(f, S, V, G)
    BY <1>6, <1>7 DEF Follows
  <1> QED BY <1>8

-------------------------------------------------------------------------------
(* Ranks *)

(* R orders the elements of K strictly. *)
Orders(R, K) ==
    /\ \A i \in K : <<i, i>> \notin R
    /\ \A i, j \in K : i # j => <<i, j>> \in R \/ <<j, i>> \in R
    /\ \A i, j, k \in K : <<i, j>> \in R /\ <<j, k>> \in R => <<i, k>> \in R

(* The number of elements before another is different for each, and takes   *)
(* every value up to their number.                                          *)
LEMMA RanksAreDifferent ==
    ASSUME NEW K, IsFiniteSet(K), NEW R, Orders(R, K)
    PROVE  /\ \A i \in K : /\ Cardinality({j \in K : <<j, i>> \in R}) \in Nat
                           /\ Cardinality({j \in K : <<j, i>> \in R}) < Cardinality(K)
           /\ \A i, k \in K : <<i, k>> \in R =>
                 Cardinality({j \in K : <<j, i>> \in R}) < Cardinality({j \in K : <<j, k>> \in R})
  <1> DEFINE before(i) == {j \in K : <<j, i>> \in R}
  <1>1. ASSUME NEW i \in K PROVE Cardinality(before(i)) \in Nat /\ Cardinality(before(i)) < Cardinality(K)
    <2>1. before(i) \in SUBSET K /\ before(i) # K
      BY DEF Orders
    <2> HIDE DEF before
    <2> QED BY <2>1, FinitePart
  <1>2. ASSUME NEW i \in K, NEW k \in K, <<i, k>> \in R
        PROVE  Cardinality(before(i)) < Cardinality(before(k))
    <2>1. before(i) \in SUBSET before(k) /\ before(k) \in SUBSET K
      BY <1>2 DEF Orders
    <2>2. i \in before(k) /\ i \notin before(i)
      BY <1>2 DEF Orders
    <2> HIDE DEF before
    <2> QED BY <2>1, <2>2, FinitePart
  <1> QED BY <1>1, <1>2

HasRank(R, K, i, k) == Cardinality({j \in K : <<j, i>> \in R}) = k - 1

LEMMA EveryRankIsTaken ==
    ASSUME NEW K, IsFiniteSet(K), NEW R, Orders(R, K), NEW k \in 1 .. Cardinality(K)
    PROVE  \E i \in K : HasRank(R, K, i, k) /\ \A l \in K : HasRank(R, K, l, k) => l = i
  <1> DEFINE n(i) == Cardinality({j \in K : <<j, i>> \in R})
             c == Cardinality(K)
             T == 0 .. (c - 1)
             f == [i \in K |-> n(i)]
  <1>1. c \in Nat
    BY FS_CardinalityType
  <1>2. \A i \in K : n(i) \in Nat /\ n(i) < c
    BY RanksAreDifferent
  <1>3. \A i, l \in K : <<i, l>> \in R => n(i) < n(l)
    BY RanksAreDifferent
  <1> HIDE DEF n, c
  <1>4. ASSUME NEW i \in K, NEW l \in K, n(i) = n(l) PROVE i = l
    <2>1. n(i) \in Nat /\ n(l) \in Nat
      BY <1>2
    <2>2. <<i, l>> \notin R /\ <<l, i>> \notin R
      BY <1>3, <1>4, <2>1
    <2> QED BY <2>2 DEF Orders
  <1>5. f \in [K -> T]
    BY <1>1, <1>2
  <1>6. \A i, l \in K : f[i] = f[l] => i = l
    BY <1>4
  <1>7. IsFiniteSet(T) /\ Cardinality(T) = c
    BY <1>1, FS_Interval
  <1> HIDE DEF f, T
  <1>8. f \in Injection(K, T)
    BY <1>5, <1>6, Fun_IsInj
  <1>9. f \in Surjection(K, T)
    BY <1>7, <1>8, FS_Injection DEF c
  <1>10. k - 1 \in T
    BY <1>1 DEF T, c
  <1>11. PICK i \in K : f[i] = k - 1
    BY <1>9, <1>10 DEF Surjection
  <1>12. n(i) = k - 1
    BY <1>11 DEF f
  <1>13. \A l \in K : HasRank(R, K, l, k) <=> n(l) = k - 1
    BY DEF HasRank, n
  <1> QED BY <1>4, <1>12, <1>13

(* Kept goes through the positions in their order, each once.               *)
GoesThrough(at, list, P) ==
    LET c == Cardinality(P)
    IN  /\ Kept(list, P) = [k \in 1 .. c |-> list[at[k]]]
        /\ \A k, l \in 1 .. c : at[k] = at[l] => k = l
        /\ \A i \in P : \E k \in 1 .. c : at[k] = i

LEMMA KeptPositions ==
    ASSUME NEW S, NEW list \in Seq(S), NEW P \in SUBSET DOMAIN list
    PROVE  Cardinality(P) \in Nat /\ \E at \in [1 .. Cardinality(P) -> P] : GoesThrough(at, list, P)
  <1> DEFINE R == {ij \in P \X P : ij[1] < ij[2]}
             n(i) == Cardinality({j \in P : j < i})
             c == Cardinality(P)
             at == [k \in 1 .. c |-> CHOOSE i \in P : n(i) = k - 1]
  <1>1. Len(list) \in Nat /\ P \in SUBSET (1 .. Len(list)) /\ P \in SUBSET Int
    OBVIOUS
  <1>2. IsFiniteSet(P)
    BY <1>1, FS_Interval, FS_Subset
  <1>3. Orders(R, P)
    BY <1>1 DEF Orders
  <1>4. \A i \in P : {j \in P : <<j, i>> \in R} = {j \in P : j < i}
    OBVIOUS
  <1> HIDE DEF R
  <1>5. c \in Nat /\ \A i \in P : n(i) \in Nat /\ n(i) < c
    BY <1>2, <1>3, <1>4, RanksAreDifferent, FS_CardinalityType
  <1>6. \A k \in 1 .. c : \E i \in P : n(i) = k - 1 /\ \A l \in P : n(l) = k - 1 => l = i
    <2> SUFFICES ASSUME NEW k \in 1 .. c PROVE \E i \in P : n(i) = k - 1 /\ \A l \in P : n(l) = k - 1 => l = i
      OBVIOUS
    <2>0. k \in 1 .. Cardinality(P)
      BY DEF c
    <2>1. PICK i \in P : HasRank(R, P, i, k) /\ \A l \in P : HasRank(R, P, l, k) => l = i
      BY ONLY <1>2, <1>3, <2>0, EveryRankIsTaken
    <2>2. \A l \in P : HasRank(R, P, l, k) <=> n(l) = k - 1
      BY <1>4 DEF HasRank
    <2> HIDE DEF n
    <2> QED BY <2>1, <2>2
  <1>7. Kept(list, P) = [k \in 1 .. c |-> list[at[k]]]
    BY DEF Kept
  <1> HIDE DEF n, c
  <1>8. \A k \in 1 .. c : at[k] \in P /\ n(at[k]) = k - 1
    BY <1>6
  <1>9. at \in [1 .. c -> P]
    BY <1>6
  <1> HIDE DEF at
  <1>10. ASSUME NEW k \in 1 .. c, NEW l \in 1 .. c, at[k] = at[l] PROVE k = l
    <2>1. k - 1 = l - 1
      BY <1>8, <1>10
    <2> QED BY <1>5, <2>1
  <1>11. ASSUME NEW i \in P PROVE \E k \in 1 .. c : at[k] = i
    <2>1. PICK k \in 1 .. c : n(i) = k - 1
      BY <1>5
    <2>2. n(at[k]) = k - 1 /\ at[k] \in P
      BY <1>8
    <2>3. PICK j \in P : \A l \in P : n(l) = k - 1 => l = j
      BY <1>6
    <2>4. at[k] = i
      BY <2>1, <2>2, <2>3
    <2> QED BY <2>4
  <1>12. GoesThrough(at, list, P)
    BY <1>7, <1>10, <1>11 DEF c, GoesThrough
  <1> QED BY <1>5, <1>9, <1>12 DEF c

(* A sequence that has each member of Q once, and nothing else.             *)
Lists(list, Q) ==
    /\ list \in Seq(Q)
    /\ \A i, j \in 1 .. Len(list) : list[i] = list[j] => i = j
    /\ \A q \in Q : \E i \in 1 .. Len(list) : list[i] = q

LEMMA KeptLists ==
    ASSUME NEW Q, NEW list, Lists(list, Q), NEW A
    PROVE  Lists(Kept(list, {i \in DOMAIN list : list[i] \in A}), Q \cap A)
  <1> DEFINE P == {i \in DOMAIN list : list[i] \in A}
             c == Cardinality(P)
             kept == Kept(list, P)
  <1>1. list \in Seq(Q) /\ Len(list) \in Nat /\ DOMAIN list = 1 .. Len(list)
    BY DEF Lists
  <1>2. P \in SUBSET DOMAIN list
    OBVIOUS
  <1>3. \A i \in P : list[i] \in Q \cap A
    BY <1>1
  <1>4. \A q \in Q \cap A : \E i \in P : list[i] = q
    BY <1>1 DEF Lists
  <1>5. \A i, j \in P : list[i] = list[j] => i = j
    BY <1>1 DEF Lists
  <1> HIDE DEF P
  <1>0. c \in Nat /\ \E at \in [1 .. c -> P] : GoesThrough(at, list, P)
    BY ONLY <1>1, <1>2, KeptPositions
  <1>6. c \in Nat
    BY <1>0
  <1>7. PICK at \in [1 .. c -> P] :
           /\ kept = [k \in 1 .. c |-> list[at[k]]]
           /\ \A k, l \in 1 .. c : at[k] = at[l] => k = l
           /\ \A i \in P : \E k \in 1 .. c : at[k] = i
    BY <1>0 DEF GoesThrough
  <1> HIDE DEF c, kept
  <1>8. kept \in Seq(Q \cap A) /\ Len(kept) = c
    <2>1. kept \in [1 .. c -> Q \cap A]
      BY <1>3, <1>7
    <2> QED BY <1>6, <2>1
  <1>9. \A k, l \in 1 .. c : kept[k] = kept[l] => k = l
    BY <1>5, <1>7
  <1>10. ASSUME NEW q \in Q \cap A PROVE \E k \in 1 .. c : kept[k] = q
    <2>1. PICK i \in P : list[i] = q
      BY <1>4
    <2>2. PICK k \in 1 .. c : at[k] = i
      BY <1>7
    <2> QED BY <1>7, <2>1, <2>2
  <1> QED BY <1>8, <1>9, <1>10 DEF Lists, kept, P

(* The sum of g over each part of S, as a fold computes it.                 *)
Sums(sum, g, S) ==
    sum = [s \in SUBSET S |-> IF s = {} THEN 0
                              ELSE g[CHOOSE x \in s : TRUE] + sum[s \ {CHOOSE x \in s : TRUE}]]

LEMMA SumsExist ==
    ASSUME NEW S, IsFiniteSet(S), NEW g \in [S -> Int] PROVE \E sum : Sums(sum, g, S)
  <1> DEFINE one(s) == CHOOSE x \in s : TRUE
             D == (SUBSET S) \X [SUBSET S -> Int]
             G == [sf \in D |-> IF sf[1] = {} THEN 0 ELSE g[one(sf[1])] + sf[2][sf[1] \ {one(sf[1])}]]
  <1>1. \A s \in SUBSET S : s # {} => one(s) \in s
    OBVIOUS
  <1> HIDE DEF one
  <1>2. ASSUME NEW s \in SUBSET S, NEW f \in [SUBSET S -> Int]
        PROVE  /\ G[<<s, f>>] = IF s = {} THEN 0 ELSE g[one(s)] + f[s \ {one(s)}]
               /\ G[<<s, f>>] \in Int
    <2>1. G[<<s, f>>] = IF s = {} THEN 0 ELSE g[one(s)] + f[s \ {one(s)}]
      OBVIOUS
    <2>2. s # {} => g[one(s)] \in Int /\ f[s \ {one(s)}] \in Int
      BY <1>1
    <2> HIDE DEF G
    <2> QED BY <2>1, <2>2
  <1>3. G \in [D -> Int]
    <2>1. \A d \in D : G[d] \in Int
      <3> SUFFICES ASSUME NEW d \in D PROVE G[d] \in Int
        OBVIOUS
      <3>1. PICK s \in SUBSET S, f \in [SUBSET S -> Int] : d = <<s, f>>
        OBVIOUS
      <3> HIDE DEF G, D
      <3> QED BY <1>2, <3>1
    <2> QED BY <2>1
  <1> HIDE DEF G
  <1>4. ASSUME NEW s \in SUBSET S, NEW f \in [SUBSET S -> Int], NEW h \in [SUBSET S -> Int],
               \A u \in SUBSET s : u # s => f[u] = h[u]
        PROVE  G[<<s, f>>] = G[<<s, h>>]
    <2>1. CASE s = {}
      BY <1>2, <2>1
    <2>2. CASE s # {}
      <3>1. s \ {one(s)} \in SUBSET s /\ s \ {one(s)} # s
        BY <1>1, <2>2
      <3>2. f[s \ {one(s)}] = h[s \ {one(s)}]
        BY <1>4, <3>1
      <3> QED BY <1>2, <2>2, <3>2
    <2> QED BY <2>1, <2>2
  <1>5. PICK f \in [SUBSET S -> Int] : \A s \in SUBSET S : f[s] = G[<<s, f>>]
    <2> DEFINE V == Int
    <2>1. V # {}
      OBVIOUS
    <2>2. \A s \in SUBSET S : \A f, h \in [SUBSET S -> V] :
               (\A u \in SUBSET s : u # s => f[u] = h[u]) => G[<<s, f>>] = G[<<s, h>>]
      BY <1>4
    <2>3. G \in [(SUBSET S) \X [SUBSET S -> V] -> V]
      BY <1>3
    <2>4. RecursOn(S, V, G)
      BY <2>2, <2>3 DEF RecursOn
    <2> HIDE DEF V
    <2>5. PICK f : Follows(f, S, V, G)
      BY <2>1, <2>4, SetRecursion
    <2> QED BY <2>5 DEF V, Follows
  <1>6. f = [s \in SUBSET S |-> IF s = {} THEN 0 ELSE g[one(s)] + f[s \ {one(s)}]]
    BY <1>2, <1>5
  <1> QED BY <1>6 DEF one, Sums

LEMMA SumsAreIntegers ==
    ASSUME NEW S, IsFiniteSet(S), NEW g \in [S -> Int], NEW sum, Sums(sum, g, S) PROVE sum[S] \in Int
  <1> DEFINE one(s) == CHOOSE x \in s : TRUE
             C == {s \in SUBSET S : sum[s] \in Int}
  <1>1. sum = [s \in SUBSET S |-> IF s = {} THEN 0 ELSE g[one(s)] + sum[s \ {one(s)}]]
    BY DEF Sums
  <1>2. ASSUME NEW s \in SUBSET S, \A u \in SUBSET s : u # s => u \in C PROVE s \in C
    <2>1. CASE s = {}
      BY <1>1, <2>1
    <2>2. CASE s # {}
      <3>1. one(s) \in s
        BY <2>2
      <3> HIDE DEF one
      <3>2. sum[s \ {one(s)}] \in Int /\ g[one(s)] \in Int
        BY <1>2, <3>1
      <3>3. sum[s] = g[one(s)] + sum[s \ {one(s)}]
        BY <1>1, <2>2
      <3>4. sum[s] \in Int
        BY <3>2, <3>3
      <3> QED BY <3>4
    <2> QED BY <2>1, <2>2
  <1>3. C \in SUBSET SUBSET S
    OBVIOUS
  <1> HIDE DEF C
  <1>4. C = SUBSET S
    BY <1>2, <1>3, SetInduction
  <1> QED BY <1>4 DEF C

LEMMA CountsAreIntegers ==
    ASSUME NEW results, IsFiniteSet(results), NEW p
    PROVE  /\ points(results, p) \in Nat /\ wins(results, p) \in Nat
           /\ IsFiniteSet(met(results, p)) /\ Cardinality(met(results, p)) \in Nat
  <1>1. /\ {r \in results : r.winner = p} \in SUBSET results
        /\ {r \in results : ~ Bye(r) /\ r.winner = p} \in SUBSET results
        /\ met(results, p) \in SUBSET results
    BY DEF met
  <1> QED BY <1>1, FS_Subset, FS_CardinalityType DEF points, wins

LEMMA BuchholzIsInt ==
    ASSUME NEW results, IsFiniteSet(results), NEW p PROVE buchholz(results, p) \in Int
  <1> DEFINE S == met(results, p)
             op(r) == points(results, Opponent(r, p))
             g == [r \in S |-> op(r)]
             one(s) == CHOOSE x \in s : TRUE
             sum[s \in SUBSET S] == IF s = {} THEN 0 ELSE LET x == one(s) IN op(x) + sum[s \ {x}]
  <1>1. IsFiniteSet(S)
    BY CountsAreIntegers
  <1>2. \A r \in S : op(r) \in Int
    BY CountsAreIntegers
  <1>3. buchholz(results, p) = sum[S]
    BY DEF buchholz, MapThenSumSet, MapThenFoldSet
  <1> HIDE DEF S, op
  <1>4. g \in [S -> Int] /\ \A r \in S : g[r] = op(r)
    BY <1>2
  <1> HIDE DEF g
  <1>5. \A h : Sums(h, g, S) <=> h = [s \in SUBSET S |-> IF s = {} THEN 0 ELSE op(one(s)) + h[s \ {one(s)}]]
    <2> SUFFICES ASSUME NEW h
                 PROVE  Sums(h, g, S) <=> h = [s \in SUBSET S |-> IF s = {} THEN 0 ELSE op(one(s)) + h[s \ {one(s)}]]
      OBVIOUS
    <2>1. Sums(h, g, S) <=> h = [s \in SUBSET S |-> IF s = {} THEN 0 ELSE g[one(s)] + h[s \ {one(s)}]]
      BY DEF Sums
    <2>2. \A s \in SUBSET S : s # {} => g[one(s)] = op(one(s))
      BY <1>4
    <2> HIDE DEF one
    <2> QED BY <2>1, <2>2
  <1>6. sum = [s \in SUBSET S |-> IF s = {} THEN 0 ELSE op(one(s)) + sum[s \ {one(s)}]]
    <2> SUFFICES \E h : h = [s \in SUBSET S |-> IF s = {} THEN 0 ELSE op(one(s)) + h[s \ {one(s)}]]
      OBVIOUS
    <2> HIDE DEF one
    <2> QED BY <1>1, <1>4, <1>5, SumsExist
  <1> HIDE DEF sum, one
  <1>7. sum[S] \in Int
    BY <1>1, <1>4, <1>5, <1>6, SumsAreIntegers
  <1> QED BY <1>3, <1>7

LEMMA WinRateIsInt ==
    ASSUME NEW results, IsFiniteSet(results), NEW p PROVE opponentsWinRate(results, p) \in Int
  <1> DEFINE S == met(results, p)
             rate(q) == (Unit * wins(results, q)) \div Cardinality(met(results, q))
             op(r) == rate(Opponent(r, p))
             g == [r \in S |-> op(r)]
             one(s) == CHOOSE x \in s : TRUE
             sum[s \in SUBSET S] == IF s = {} THEN 0 ELSE LET x == one(s) IN op(x) + sum[s \ {x}]
  <1>1. IsFiniteSet(S)
    BY CountsAreIntegers
  <1>2. \A r \in S : op(r) \in Int
    <2> SUFFICES ASSUME NEW r \in S PROVE op(r) \in Int
      OBVIOUS
    <2> DEFINE q == Opponent(r, p)
    <2>1. r \in met(results, q)
      BY DEF met, Opponent
    <2> HIDE DEF q
    <2>2. Cardinality(met(results, q)) \in Nat /\ Cardinality(met(results, q)) # 0
      BY <2>1, CountsAreIntegers, FS_EmptySet
    <2>3. Unit * wins(results, q) \in Nat
      BY CountsAreIntegers DEF Unit
    <2>4. rate(q) \in Int
      BY <2>2, <2>3
    <2> QED BY <2>4 DEF q
  <1>3. opponentsWinRate(results, p) = IF S = {} THEN 0 ELSE (Unit * sum[S]) \div Cardinality(S)
    BY DEF opponentsWinRate, MapThenSumSet, MapThenFoldSet
  <1>8. Cardinality(S) \in Nat /\ (S # {} => Cardinality(S) # 0)
    BY <1>1, FS_EmptySet, FS_CardinalityType
  <1> HIDE DEF S, op
  <1>4. g \in [S -> Int] /\ \A r \in S : g[r] = op(r)
    BY <1>2
  <1> HIDE DEF g
  <1>5. \A h : Sums(h, g, S) <=> h = [s \in SUBSET S |-> IF s = {} THEN 0 ELSE op(one(s)) + h[s \ {one(s)}]]
    <2> SUFFICES ASSUME NEW h
                 PROVE  Sums(h, g, S) <=> h = [s \in SUBSET S |-> IF s = {} THEN 0 ELSE op(one(s)) + h[s \ {one(s)}]]
      OBVIOUS
    <2>1. Sums(h, g, S) <=> h = [s \in SUBSET S |-> IF s = {} THEN 0 ELSE g[one(s)] + h[s \ {one(s)}]]
      BY DEF Sums
    <2>2. \A s \in SUBSET S : s # {} => g[one(s)] = op(one(s))
      BY <1>4
    <2> HIDE DEF one
    <2> QED BY <2>1, <2>2
  <1>6. sum = [s \in SUBSET S |-> IF s = {} THEN 0 ELSE op(one(s)) + sum[s \ {one(s)}]]
    <2> SUFFICES \E h : h = [s \in SUBSET S |-> IF s = {} THEN 0 ELSE op(one(s)) + h[s \ {one(s)}]]
      OBVIOUS
    <2> HIDE DEF one
    <2> QED BY <1>1, <1>4, <1>5, SumsExist
  <1> HIDE DEF sum, one
  <1>7. sum[S] \in Int
    BY <1>1, <1>4, <1>5, <1>6, SumsAreIntegers
  <1>9. S # {} => (Unit * sum[S]) \div Cardinality(S) \in Int
    BY <1>7, <1>8 DEF Unit
  <1> QED BY <1>3, <1>9

LEMMA RowsAreIntegers ==
    ASSUME NEW results, IsFiniteSet(results), NEW p PROVE Row(results, p) \in Int \X Int \X Int
  BY CountsAreIntegers, BuchholzIsInt, WinRateIsInt DEF Row

LEMMA AboveIsLexicographic ==
    ASSUME NEW a \in Int \X Int \X Int, NEW b \in Int \X Int \X Int
    PROVE  /\ Above(a, b) <=> \/ a[1] > b[1]
                              \/ a[1] = b[1] /\ a[2] > b[2]
                              \/ a[1] = b[1] /\ a[2] = b[2] /\ a[3] > b[3]
           /\ a = b <=> a[1] = b[1] /\ a[2] = b[2] /\ a[3] = b[3]
  <1>1. /\ 1 .. (1 - 1) = {} /\ 1 .. (2 - 1) = {1} /\ 1 .. (3 - 1) = {1, 2} /\ 1 .. 3 = {1, 2, 3}
    OBVIOUS
  <1>2. Above(a, b) <=> \/ a[1] > b[1]
                        \/ a[1] = b[1] /\ a[2] > b[2]
                        \/ a[1] = b[1] /\ a[2] = b[2] /\ a[3] > b[3]
    BY <1>1 DEF Above
  <1>3. a = b <=> a[1] = b[1] /\ a[2] = b[2] /\ a[3] = b[3]
    OBVIOUS
  <1> QED BY <1>2, <1>3

(* standings is a rearrangement of the players.                             *)
LEMMA StandingsList ==
    ASSUME NEW Q, NEW players, Lists(players, Q), NEW results, IsFiniteSet(results)
    PROVE  Lists(standings(players, results), Q)
  <1> DEFINE n == Len(players)
             K == 1 .. n
             row == [i \in 1..n |-> Row(results, players[i])]
             rank(i) == 1 + Cardinality({j \in 1..n : Above(row[j], row[i]) \/ (row[j] = row[i] /\ j < i)})
             sorted == [k \in 1..n |-> CHOOSE i \in 1..n : rank(i) = k]
             tie(k) == k \in 1..(n - 1) /\ row[sorted[k]] = row[sorted[k + 1]]
             swapped(k) == /\ tie(k) /\ ~ tie(k - 1) /\ ~ tie(k + 1)
                           /\ beat(results, players[sorted[k + 1]], players[sorted[k]])
             place1(k) == IF swapped(k) THEN k + 1 ELSE IF swapped(k - 1) THEN k - 1 ELSE k
             R == {ji \in K \X K : Above(row[ji[1]], row[ji[2]]) \/ (row[ji[1]] = row[ji[2]] /\ ji[1] < ji[2])}
  <1>1. n \in Nat /\ players \in Seq(Q)
    BY DEF Lists
  <1>2. standings(players, results) = [k \in 1..n |-> players[sorted[place1(k)]]]
    BY DEF standings
  <1>3. \A i \in K : row[i] \in Int \X Int \X Int
    BY RowsAreIntegers
  <1>4. Orders(R, K)
    <2> HIDE DEF row
    <2>1. \A i, j \in K : <<i, j>> \in R <=> Above(row[i], row[j]) \/ (row[i] = row[j] /\ i < j)
      OBVIOUS
    <2>2. \A i, j \in K : <<i, j>> \in R <=>
              \/ row[i][1] > row[j][1]
              \/ row[i][1] = row[j][1] /\ row[i][2] > row[j][2]
              \/ row[i][1] = row[j][1] /\ row[i][2] = row[j][2] /\ row[i][3] > row[j][3]
              \/ row[i][1] = row[j][1] /\ row[i][2] = row[j][2] /\ row[i][3] = row[j][3] /\ i < j
      <3> HIDE DEF R, n
      <3> SUFFICES ASSUME NEW i \in K, NEW j \in K
                   PROVE  <<i, j>> \in R <=>
                             \/ row[i][1] > row[j][1]
                             \/ row[i][1] = row[j][1] /\ row[i][2] > row[j][2]
                             \/ row[i][1] = row[j][1] /\ row[i][2] = row[j][2] /\ row[i][3] > row[j][3]
                             \/ row[i][1] = row[j][1] /\ row[i][2] = row[j][2] /\ row[i][3] = row[j][3] /\ i < j
        OBVIOUS
      <3>1. row[i] \in Int \X Int \X Int /\ row[j] \in Int \X Int \X Int
        BY <1>3
      <3>2. /\ Above(row[i], row[j]) <=>
                  \/ row[i][1] > row[j][1]
                  \/ row[i][1] = row[j][1] /\ row[i][2] > row[j][2]
                  \/ row[i][1] = row[j][1] /\ row[i][2] = row[j][2] /\ row[i][3] > row[j][3]
            /\ row[i] = row[j] <=> row[i][1] = row[j][1] /\ row[i][2] = row[j][2] /\ row[i][3] = row[j][3]
        BY ONLY <3>1, AboveIsLexicographic
      <3>3. <<i, j>> \in R <=> Above(row[i], row[j]) \/ (row[i] = row[j] /\ i < j)
        BY <2>1
      <3> QED BY ONLY <3>2, <3>3
    <2>3. \A i \in K : i \in Int /\ row[i][1] \in Int /\ row[i][2] \in Int /\ row[i][3] \in Int
      BY <1>1, <1>3
    <2> HIDE DEF R, K, n
    <2>4. \A i \in K : <<i, i>> \notin R
      BY <2>2, <2>3
    <2>5. \A i, j \in K : i # j => <<i, j>> \in R \/ <<j, i>> \in R
      BY <2>2, <2>3
    <2>6. \A i, j, k \in K : <<i, j>> \in R /\ <<j, k>> \in R => <<i, k>> \in R
      BY <2>2, <2>3
    <2> QED BY <2>4, <2>5, <2>6 DEF Orders
  <1>5. IsFiniteSet(K) /\ Cardinality(K) = n
    BY ONLY <1>1, FirstNumbers
  <1>6. \A i \in K : rank(i) = 1 + Cardinality({j \in K : <<j, i>> \in R})
    <2> SUFFICES ASSUME NEW i \in K PROVE rank(i) = 1 + Cardinality({j \in K : <<j, i>> \in R})
      OBVIOUS
    <2> HIDE DEF row
    <2>1. {j \in K : Above(row[j], row[i]) \/ (row[j] = row[i] /\ j < i)} = {j \in K : <<j, i>> \in R}
      OBVIOUS
    <2> QED BY <2>1
  <1> HIDE DEF row, R, rank
  <1>7. ASSUME NEW k \in K PROVE \E i \in K : rank(i) = k /\ \A l \in K : rank(l) = k => l = i
    <2> DEFINE m(i) == Cardinality({j \in K : <<j, i>> \in R})
    <2>1. k \in 1 .. Cardinality(K) /\ k \in Nat
      BY <1>1, <1>5
    <2> HIDE DEF K
    <2>2. PICK i \in K : HasRank(R, K, i, k) /\ \A l \in K : HasRank(R, K, l, k) => l = i
      <3>1. IsFiniteSet(K)
        BY <1>5
      <3>2. k \in 1 .. Cardinality(K)
        BY <2>1
      <3> HIDE DEF n, m
      <3> QED BY ONLY <1>4, <3>1, <3>2, EveryRankIsTaken
    <2>3. \A l \in K : m(l) \in Nat
      BY <1>4, <1>5, RanksAreDifferent
    <2>4. \A l \in K : rank(l) = k <=> HasRank(R, K, l, k)
      BY <1>6, <2>1, <2>3 DEF HasRank
    <2> QED BY <2>2, <2>4
  <1>8. ASSUME NEW i \in K PROVE rank(i) \in K
    <2> DEFINE m == Cardinality({j \in K : <<j, i>> \in R})
    <2> HIDE DEF K
    <2>1. m \in Nat /\ m < n
      BY <1>4, <1>5, RanksAreDifferent
    <2>2. rank(i) = 1 + m
      BY <1>6
    <2> QED BY <1>1, <2>1, <2>2 DEF K
  <1>9. \A k \in K : sorted[k] \in K /\ rank(sorted[k]) = k
    BY <1>7
  <1>10. \A k \in K : place1(k) \in K /\ place1(place1(k)) = k
    <2> HIDE DEF sorted, n
    <2>1. \A k \in K : swapped(k) => k + 1 \in K /\ ~ swapped(k + 1) /\ ~ swapped(k - 1)
      BY <1>1
    <2>2. \A k \in K : swapped(k - 1) => k - 1 \in K
      BY <1>1
    <2>3. \A k \in K : k + 1 - 1 = k /\ k \in Int
      BY <1>1
    <2> HIDE DEF swapped, K
    <2> QED BY <2>1, <2>2, <2>3
  <1> HIDE DEF sorted, place1
  <1> DEFINE t == [k \in K |-> players[sorted[place1(k)]]]
  <1>11. t \in Seq(Q) /\ Len(t) = n
    <2>1. \A k \in K : players[sorted[place1(k)]] \in Q
      BY <1>1, <1>9, <1>10
    <2>2. t \in [1 .. n -> Q]
      BY <2>1
    <2> QED BY <1>1, <2>2
  <1>12. ASSUME NEW i \in K, NEW j \in K, t[i] = t[j] PROVE i = j
    <2>1. sorted[place1(i)] = sorted[place1(j)]
      <3>1. sorted[place1(i)] \in K /\ sorted[place1(j)] \in K
        BY <1>9, <1>10
      <3>2. players[sorted[place1(i)]] = players[sorted[place1(j)]]
        BY <1>12
      <3>3. \A k, l \in K : players[k] = players[l] => k = l
        BY DEF Lists
      <3> QED BY ONLY <3>1, <3>2, <3>3
    <2>2. place1(i) = place1(j)
      BY <1>9, <1>10, <2>1
    <2> QED BY <1>10, <2>2
  <1>13. ASSUME NEW q \in Q PROVE \E k \in K : t[k] = q
    <2>1. PICK i \in K : players[i] = q
      BY DEF Lists
    <2>2. rank(i) \in K
      BY <1>8
    <2>4. sorted[rank(i)] \in K /\ rank(sorted[rank(i)]) = rank(i)
      BY <1>9, <2>2
    <2>5. PICK j \in K : \A l \in K : rank(l) = rank(i) => l = j
      BY <1>7, <2>2
    <2>6. sorted[rank(i)] = i
      BY ONLY <2>4, <2>5, i \in K
    <2>3. place1(rank(i)) \in K /\ t[place1(rank(i))] = q
      BY <1>10, <2>1, <2>2, <2>6
    <2> QED BY <2>3
  <1>14. standings(players, results) = t
    BY <1>2
  <1> HIDE DEF t, n
  <1> QED BY <1>11, <1>12, <1>13, <1>14 DEF Lists

(* A list of pairs in which each member of W is once, none of them avoided. *)
PairsUp(pairs, W, avoided) ==
    /\ pairs \in Seq(W \X W)
    /\ \A i \in 1 .. Len(pairs) : /\ pairs[i][1] # pairs[i][2]
                                  /\ {pairs[i][1], pairs[i][2]} \notin avoided
    /\ \A w \in W : \E i \in 1 .. Len(pairs) : w \in {pairs[i][1], pairs[i][2]}
    /\ \A i, j \in 1 .. Len(pairs) :
          {pairs[i][1], pairs[i][2]} \cap {pairs[j][1], pairs[j][2]} # {} => i = j

LEMMA PairAdded ==
    ASSUME NEW W, NEW pairs, NEW avoided, PairsUp(pairs, W, avoided),
           NEW a, NEW b, a \notin W, b \notin W, a # b, {a, b} \notin avoided
    PROVE  PairsUp(<<<<a, b>>>> \o pairs, W \cup {a, b}, avoided)
  <1> DEFINE X == W \cup {a, b}
             more == <<<<a, b>>>> \o pairs
             n == Len(pairs)
  <1>1. pairs \in Seq(X \X X) /\ n \in Nat /\ <<<<a, b>>>> \in Seq(X \X X) /\ Len(<<<<a, b>>>>) = 1
    BY DEF PairsUp
  <1>2. /\ more \in Seq(X \X X) /\ Len(more) = n + 1
        /\ more[1] = <<a, b>>
        /\ \A i \in 2 .. (n + 1) : i - 1 \in 1 .. n /\ more[i] = pairs[i - 1]
    BY <1>1
  <1> HIDE DEF more
  <1>3. \A i \in 1 .. n : pairs[i][1] \in W /\ pairs[i][2] \in W
    <2>1. \A i \in 1 .. n : pairs[i] \in W \X W
      BY <1>1 DEF PairsUp
    <2> QED BY <2>1
  <1>4. \A i \in 1 .. (n + 1) : i = 1 \/ i \in 2 .. (n + 1)
    BY <1>1
  <1>5. \A i \in 1 .. (n + 1) : more[i][1] # more[i][2] /\ {more[i][1], more[i][2]} \notin avoided
    <2> SUFFICES ASSUME NEW i \in 1 .. (n + 1)
                 PROVE  more[i][1] # more[i][2] /\ {more[i][1], more[i][2]} \notin avoided
      OBVIOUS
    <2>1. CASE i = 1
      <3>1. more[i][1] = a /\ more[i][2] = b
        BY <1>2, <2>1
      <3> QED BY <3>1
    <2>2. CASE i \in 2 .. (n + 1)
      <3>1. i - 1 \in 1 .. n /\ more[i] = pairs[i - 1]
        BY <1>2, <2>2
      <3>2. pairs[i - 1][1] # pairs[i - 1][2] /\ {pairs[i - 1][1], pairs[i - 1][2]} \notin avoided
        BY <3>1 DEF PairsUp
      <3> QED BY <3>1, <3>2
    <2> QED BY <1>4, <2>1, <2>2
  <1>6. \A w \in X : \E i \in 1 .. (n + 1) : w \in {more[i][1], more[i][2]}
    <2> SUFFICES ASSUME NEW w \in X PROVE \E i \in 1 .. (n + 1) : w \in {more[i][1], more[i][2]}
      OBVIOUS
    <2>1. CASE w \in {a, b}
      <3>1. 1 \in 1 .. (n + 1) /\ w \in {more[1][1], more[1][2]}
        BY <1>1, <1>2, <2>1
      <3> QED BY <3>1
    <2>2. CASE w \in W
      <3>1. PICK i \in 1 .. n : w \in {pairs[i][1], pairs[i][2]}
        BY <2>2 DEF PairsUp
      <3>2. i + 1 \in 2 .. (n + 1) /\ i + 1 \in 1 .. (n + 1) /\ (i + 1) - 1 = i
        BY <1>1
      <3>3. more[i + 1] = pairs[i]
        BY <1>2, <3>2
      <3> QED BY <3>1, <3>2, <3>3
    <2> QED BY <2>1, <2>2
  <1>7. ASSUME NEW i \in 1 .. (n + 1), NEW j \in 1 .. (n + 1),
               {more[i][1], more[i][2]} \cap {more[j][1], more[j][2]} # {}
        PROVE  i = j
    <2>1. \A k \in 2 .. (n + 1) : {a, b} \cap {more[k][1], more[k][2]} = {}
      BY <1>2, <1>3
    <2>2. CASE i = 1 /\ j \in 2 .. (n + 1)
      BY <1>2, <1>7, <2>1, <2>2
    <2>3. CASE j = 1 /\ i \in 2 .. (n + 1)
      BY <1>2, <1>7, <2>1, <2>3
    <2>4. CASE i \in 2 .. (n + 1) /\ j \in 2 .. (n + 1)
      <3>1. i - 1 = j - 1
        BY <1>2, <1>7, <2>4 DEF PairsUp
      <3> QED BY <1>1, <2>4, <3>1
    <2> QED BY <1>4, <2>2, <2>3, <2>4
  <1> HIDE DEF n
  <1>8. Len(more) = n + 1 /\ more \in Seq(X \X X)
    BY <1>2
  <1> QED BY <1>5, <1>6, <1>7, <1>8 DEF PairsUp, more

(* One pair taken out of a pairing leaves a pairing of the others.          *)
LEMMA PairTaken ==
    ASSUME NEW W, IsFiniteSet(W), NEW P \in Pairings(W), NEW a \in W
    PROVE  \E b \in W \ {a} : {a, b} \in P /\ P \ {{a, b}} \in Pairings(W \ {a, b})
  <1>1. /\ P \in SUBSET {{p, q} : p, q \in W}
        /\ \A e \in P : Cardinality(e) = 2
        /\ \A p \in W : Cardinality({e \in P : p \in e}) = 1
    BY DEF Pairings
  <1>2. IsFiniteSet(P)
    <2>1. P \in SUBSET SUBSET W
      BY <1>1
    <2> QED BY <2>1, FS_SUBSET, FS_Subset
  <1>3. \A p \in W : \E e : {f \in P : p \in f} = {e}
    <2> SUFFICES ASSUME NEW p \in W PROVE \E e : {f \in P : p \in f} = {e}
      OBVIOUS
    <2> DEFINE E == {f \in P : p \in f}
    <2>1. IsFiniteSet(E) /\ Cardinality(E) = 1
      BY <1>1, <1>2, FS_Subset
    <2> HIDE DEF E
    <2>2. \E e : E = {e}
      BY <2>1, FS_Singleton
    <2> QED BY <2>2 DEF E
  <1>4. PICK e : {f \in P : a \in f} = {e}
    BY <1>3
  <1>5. e \in P /\ a \in e
    BY <1>4
  <1>6. PICK p \in W, q \in W : e = {p, q}
    BY <1>1, <1>5
  <1>7. p # q
    <2> SUFFICES ASSUME p = q PROVE FALSE
      OBVIOUS
    <2>1. e = {p}
      BY <1>6
    <2>2. Cardinality(e) = 1
      BY <2>1, FS_Singleton
    <2> QED BY <1>1, <1>5, <2>2
  <1> DEFINE b == IF p = a THEN q ELSE p
             T == P \ {{a, b}}
             X == W \ {a, b}
  <1>8. b \in W \ {a} /\ e = {a, b}
    BY <1>5, <1>6, <1>7
  <1> HIDE DEF b
  <1>9. ASSUME NEW f \in T PROVE a \notin f /\ b \notin f
    <2>1. f \in P /\ f # e
      BY <1>8
    <2>2. PICK g : {h \in P : b \in h} = {g}
      BY <1>3, <1>8
    <2>3. g = e
      BY <1>5, <1>8, <2>2
    <2> QED BY <1>4, <2>1, <2>2, <2>3
  <1>10. T \in SUBSET {{x, y} : x, y \in X}
    <2> SUFFICES ASSUME NEW f \in T PROVE f \in {{x, y} : x, y \in X}
      OBVIOUS
    <2>1. PICK x \in W, y \in W : f = {x, y}
      BY <1>1
    <2>2. x \in X /\ y \in X
      BY <1>9, <2>1
    <2> QED BY <2>1, <2>2
  <1>11. \A w \in X : Cardinality({f \in T : w \in f}) = 1
    <2> SUFFICES ASSUME NEW w \in X PROVE Cardinality({f \in T : w \in f}) = 1
      OBVIOUS
    <2>1. {f \in T : w \in f} = {f \in P : w \in f}
      OBVIOUS
    <2> QED BY <1>1, <2>1
  <1>12. T \in Pairings(X)
    <2>1. \A f \in T : Cardinality(f) = 2
      BY <1>1
    <2> HIDE DEF T, X
    <2> QED BY <1>10, <1>11, <2>1 DEF Pairings
  <1> QED BY <1>5, <1>8, <1>12

LEMMA FirstPosition ==
    ASSUME NEW s \in SUBSET Nat, s # {} PROVE Min(s) \in s
  <1>1. \E x \in s : \A y \in s : x =< y
    BY FirstNatural
  <1> QED BY <1>1 DEF Min

LEMMA LastPosition ==
    ASSUME NEW s \in SUBSET Nat, s # {}, NEW n \in Nat, \A x \in s : x <= n PROVE Max(s) \in s
  <1> DEFINE T == {n - x : x \in s}
  <1>0. \A x \in s : x \in Int /\ n - x \in Nat
    OBVIOUS
  <1>1. T \in SUBSET Nat /\ T # {}
    BY <1>0
  <1>2. PICK d \in T : \A e \in T : d <= e
    BY <1>1, FirstNatural
  <1>3. PICK x \in s : d = n - x
    BY <1>2
  <1>4. \A y \in s : x >= y
    <2> SUFFICES ASSUME NEW y \in s PROVE x >= y
      OBVIOUS
    <2>1. n - x <= n - y
      BY <1>2, <1>3
    <2> QED BY <1>0, <2>1
  <1>5. \E z \in s : \A y \in s : z >= y
    BY <1>4
  <1> QED BY <1>5 DEF Max

(* One turn of search: the first position left, those it may be paired with *)
(* and the outcome, from the outcomes f for fewer positions.                *)
Possible(ranked, avoided, f, s) ==
    {i \in s \ {Min(s)} : {ranked[Min(s)], ranked[i]} \notin avoided /\ f[s \ {Min(s), i}][1]}

Turn(ranked, avoided, f, s) ==
    LET possible == Possible(ranked, avoided, f, s)
    IN  IF s = {} THEN <<TRUE, <<>>>>
        ELSE IF possible = {} THEN <<FALSE, <<>>>>
        ELSE <<TRUE, <<<<ranked[Min(s)], ranked[Min(possible)]>>>> \o f[s \ {Min(s), Min(possible)}][2]>>

Searches(found, ranked, left, avoided) ==
    found = [s \in SUBSET left |-> Turn(ranked, avoided, found, s)]

LEMMA SearchesExist ==
    ASSUME NEW Q, NEW ranked, Lists(ranked, Q), NEW left \in SUBSET DOMAIN ranked, NEW avoided
    PROVE  \E found : Searches(found, ranked, left, avoided)
  <1> DEFINE V == BOOLEAN \X Seq(Q \X Q)
             D == (SUBSET left) \X [SUBSET left -> V]
             G == [sf \in D |-> Turn(ranked, avoided, sf[2], sf[1])]
  <1>1. /\ IsFiniteSet(left) /\ left \in SUBSET Nat
        /\ \A i \in left : ranked[i] \in Q
    <2>1. ranked \in Seq(Q) /\ DOMAIN ranked = 1 .. Len(ranked) /\ Len(ranked) \in Nat
      BY DEF Lists
    <2>2. IsFiniteSet(1 .. Len(ranked)) /\ 1 .. Len(ranked) \in SUBSET Nat
      BY <2>1, FS_Interval
    <2> QED BY <2>1, <2>2, FS_Subset
  <1>0. /\ \A x \in Seq(Q \X Q) : <<TRUE, x>> \in V /\ <<FALSE, x>> \in V
        /\ \A x \in V : x[2] \in Seq(Q \X Q)
        /\ <<TRUE, <<>>>> \in V /\ <<FALSE, <<>>>> \in V
    <2>1. <<>> \in Seq(Q \X Q)
      OBVIOUS
    <2> QED BY <2>1
  <1> HIDE DEF V
  <1>2. ASSUME NEW s \in SUBSET left, NEW f \in [SUBSET left -> V] PROVE Turn(ranked, avoided, f, s) \in V
    <2> DEFINE first == Min(s)
               possible == Possible(ranked, avoided, f, s)
               other == Min(possible)
               rest == s \ {first, other}
    <2>2. CASE s # {} /\ possible # {}
      <3>1. first \in s /\ possible \in SUBSET (s \ {first})
        BY <1>1, <2>2, FirstPosition DEF Possible
      <3>2. other \in possible
        <4> HIDE DEF first, possible
        <4>1. possible \in SUBSET Nat
          BY <1>1, <3>1
        <4> QED BY <2>2, <4>1, FirstPosition
      <3>3. Turn(ranked, avoided, f, s) = <<TRUE, <<<<ranked[first], ranked[other]>>>> \o f[rest][2]>>
        BY <2>2 DEF Turn
      <3>4. rest \in SUBSET left
        OBVIOUS
      <3> HIDE DEF first, other, possible
      <3>5. <<ranked[first], ranked[other]>> \in Q \X Q
        BY <1>1, <3>1, <3>2
      <3>6. f[rest][2] \in Seq(Q \X Q)
        BY <1>0, <3>4
      <3> HIDE DEF rest
      <3>7. <<<<ranked[first], ranked[other]>>>> \o f[rest][2] \in Seq(Q \X Q)
        BY <3>5, <3>6
      <3> QED BY <1>0, <3>3, <3>7
    <2>3. CASE ~ (s # {} /\ possible # {})
      BY <1>0, <2>3 DEF Turn
    <2> QED BY <2>2, <2>3
  <1>3. ASSUME NEW s \in SUBSET left, NEW f \in [SUBSET left -> V], NEW g \in [SUBSET left -> V],
               \A u \in SUBSET s : u # s => f[u] = g[u]
        PROVE  Turn(ranked, avoided, f, s) = Turn(ranked, avoided, g, s)
    <2> DEFINE first == Min(s)
    <2>1. CASE s = {}
      BY <2>1 DEF Turn
    <2>2. CASE s # {}
      <3>1. first \in s
        BY <1>1, <2>2, FirstPosition
      <3>2. \A i : f[s \ {first, i}] = g[s \ {first, i}]
        BY <1>3, <3>1
      <3>3. Possible(ranked, avoided, f, s) = Possible(ranked, avoided, g, s)
        BY <3>2 DEF Possible
      <3> QED BY <3>2, <3>3 DEF Turn
    <2> QED BY <2>1, <2>2
  <1>4. ASSUME NEW s \in SUBSET left, NEW f \in [SUBSET left -> V]
        PROVE  G[<<s, f>>] = Turn(ranked, avoided, f, s)
    <2>1. <<s, f>> \in D
      OBVIOUS
    <2> QED BY <2>1
  <1>5. RecursOn(left, V, G)
    <2>1. \A d \in D : G[d] \in V
      <3> SUFFICES ASSUME NEW d \in D PROVE G[d] \in V
        OBVIOUS
      <3>1. PICK s \in SUBSET left, f \in [SUBSET left -> V] : d = <<s, f>>
        OBVIOUS
      <3> HIDE DEF G, D, V
      <3> QED BY <1>2, <1>4, <3>1
    <2>2. G \in [D -> V]
      BY <2>1
    <2>3. \A s \in SUBSET left : \A f, g \in [SUBSET left -> V] :
             (\A u \in SUBSET s : u # s => f[u] = g[u]) => G[<<s, f>>] = G[<<s, g>>]
      <3> SUFFICES ASSUME NEW s \in SUBSET left, NEW f \in [SUBSET left -> V], NEW g \in [SUBSET left -> V],
                          \A u \in SUBSET s : u # s => f[u] = g[u]
                   PROVE  G[<<s, f>>] = G[<<s, g>>]
        OBVIOUS
      <3> HIDE DEF G, D
      <3>1. G[<<s, f>>] = Turn(ranked, avoided, f, s) /\ G[<<s, g>>] = Turn(ranked, avoided, g, s)
        BY <1>4
      <3> QED BY <1>3, <3>1
    <2>4. D = (SUBSET left) \X [SUBSET left -> V]
      OBVIOUS
    <2> HIDE DEF G, V, D
    <2> QED BY <2>2, <2>3, <2>4 DEF RecursOn
  <1>6. V # {}
    BY <1>0
  <1> HIDE DEF G
  <1>7. PICK found : Follows(found, left, V, G)
    BY <1>1, <1>5, <1>6, SetRecursion
  <1>8. found = [s \in SUBSET left |-> Turn(ranked, avoided, found, s)]
    BY <1>4, <1>7 DEF Follows
  <1> QED BY <1>8 DEF Searches

LEMMA SearchUnfolds ==
    ASSUME NEW Q, NEW ranked, Lists(ranked, Q), NEW left \in SUBSET DOMAIN ranked, NEW avoided
    PROVE  \E found : Searches(found, ranked, left, avoided) /\ search(ranked, left, avoided) = found[left]
  <1> DEFINE found[rest \in SUBSET left] ==
                LET first == Min(rest)
                    others(i) == found[rest \ {first, i}]
                    possible == {i \in rest \ {first} : {ranked[first], ranked[i]} \notin avoided /\ others(i)[1]}
                    other == Min(possible)
                IN  IF rest = {} THEN <<TRUE, <<>>>>
                    ELSE IF possible = {} THEN <<FALSE, <<>>>>
                    ELSE <<TRUE, <<<<ranked[first], ranked[other]>>>> \o others(other)[2]>>
  <1>1. search(ranked, left, avoided) = found[left]
    BY DEF search
  <1>2. found = [s \in SUBSET left |-> Turn(ranked, avoided, found, s)]
    <2> SUFFICES \E h : h = [s \in SUBSET left |-> Turn(ranked, avoided, h, s)]
      BY DEF Turn, Possible
    <2> QED BY SearchesExist DEF Searches
  <1> HIDE DEF found
  <1> QED BY <1>1, <1>2 DEF Searches

At(ranked, s) == {ranked[i] : i \in s}

Even(s) == \E k \in Nat : Cardinality(s) = 2 * k

(* What search finds for the positions s.                                   *)
Finds(found, ranked, avoided, s) ==
    /\ found[s][1] \in BOOLEAN
    /\ found[s][1] => PairsUp(found[s][2], At(ranked, s), avoided)
    /\ ~ found[s][1] => \A P \in Pairings(At(ranked, s)) : P \cap avoided # {}
    /\ avoided = {} /\ Even(s) => found[s][1]

(* Two positions taken out of s, rest being the others.                     *)
Leaves(ranked, s, i, j, rest) ==
    /\ ranked[i] # ranked[j]
    /\ ranked[i] \notin At(ranked, rest) /\ ranked[j] \notin At(ranked, rest)
    /\ At(ranked, s) = At(ranked, rest) \cup {ranked[i], ranked[j]}
    /\ At(ranked, s) \ {ranked[i], ranked[j]} = At(ranked, rest)
    /\ Even(s) => Even(rest)

LEMMA PositionsTaken ==
    ASSUME NEW Q, NEW ranked, Lists(ranked, Q), NEW s \in SUBSET DOMAIN ranked,
           NEW i \in s, NEW j \in s, i # j
    PROVE  Leaves(ranked, s, i, j, s \ {i, j})
  <1> DEFINE rest == s \ {i, j}
  <1>1. DOMAIN ranked = 1 .. Len(ranked) /\ Len(ranked) \in Nat
    BY DEF Lists
  <1>2. \A k, l \in s : ranked[k] = ranked[l] => k = l
    BY <1>1 DEF Lists
  <1>3. IsFiniteSet(s)
    <2>1. IsFiniteSet(1 .. Len(ranked))
      BY <1>1, FS_Interval
    <2> QED BY <1>1, <2>1, FS_Subset
  <1>4. /\ ranked[i] # ranked[j]
        /\ ranked[i] \notin At(ranked, rest) /\ ranked[j] \notin At(ranked, rest)
    BY <1>2 DEF At
  <1>5. At(ranked, s) = At(ranked, rest) \cup {ranked[i], ranked[j]}
    BY DEF At
  <1>6. ASSUME Even(s) PROVE Even(rest)
    <2> DEFINE t == s \ {i}
    <2>1. IsFiniteSet(t) /\ Cardinality(t) = Cardinality(s) - 1 /\ j \in t
      BY <1>3, FS_RemoveElement
    <2>2. t \ {j} = rest
      OBVIOUS
    <2> HIDE DEF t, rest
    <2>3. Cardinality(rest) = Cardinality(t) - 1 /\ IsFiniteSet(rest)
      BY <2>1, <2>2, FS_RemoveElement
    <2>4. PICK k \in Nat : Cardinality(s) = 2 * k
      BY <1>6 DEF Even
    <2>5. Cardinality(rest) \in Nat
      BY <2>3, FS_CardinalityType
    <2>6. k - 1 \in Nat /\ Cardinality(rest) = 2 * (k - 1)
      BY <2>1, <2>3, <2>4, <2>5
    <2> QED BY <2>6 DEF Even
  <1>8. At(ranked, s) \ {ranked[i], ranked[j]} = At(ranked, rest)
    BY <1>4, <1>5
  <1> HIDE DEF rest
  <1>9. Leaves(ranked, s, i, j, rest)
    BY <1>4, <1>5, <1>6, <1>8 DEF Leaves
  <1> QED BY <1>9 DEF rest

LEMMA SearchFinds ==
    ASSUME NEW Q, NEW ranked, Lists(ranked, Q), NEW left \in SUBSET DOMAIN ranked, NEW avoided,
           NEW found, Searches(found, ranked, left, avoided)
    PROVE  Finds(found, ranked, avoided, left)
  <1> DEFINE C == {s \in SUBSET left : Finds(found, ranked, avoided, s)}
  <1>1. IsFiniteSet(left) /\ left \in SUBSET Nat
    <2>1. DOMAIN ranked = 1 .. Len(ranked) /\ Len(ranked) \in Nat
      BY DEF Lists
    <2>2. IsFiniteSet(1 .. Len(ranked)) /\ 1 .. Len(ranked) \in SUBSET Nat
      BY <2>1, FS_Interval
    <2> QED BY <2>1, <2>2, FS_Subset
  <1>2. \A s \in SUBSET left : found[s] = Turn(ranked, avoided, found, s)
    BY DEF Searches
  <1>3. ASSUME NEW s \in SUBSET left, \A u \in SUBSET s : u # s => u \in C PROVE Finds(found, ranked, avoided, s)
    <2> DEFINE first == Min(s)
               a == ranked[first]
               possible == Possible(ranked, avoided, found, s)
               rest(i) == s \ {first, i}
    <2>1. CASE s = {}
      <3>1. found[s] = <<TRUE, <<>>>>
        BY <1>2, <2>1 DEF Turn
      <3>2. At(ranked, s) = {}
        BY <2>1 DEF At
      <3>3. PairsUp(<<>>, {}, avoided)
        BY DEF PairsUp
      <3> QED BY <3>1, <3>2, <3>3 DEF Finds
    <2>2. CASE s # {}
      <3>1. first \in s /\ s \in SUBSET DOMAIN ranked
        BY <1>1, <2>2, FirstPosition
      <3>2. possible = {i \in s \ {first} : {a, ranked[i]} \notin avoided /\ found[rest(i)][1]}
        BY DEF Possible
      <3>3. found[s] = IF possible = {} THEN <<FALSE, <<>>>>
                       ELSE <<TRUE, <<<<a, ranked[Min(possible)]>>>> \o found[rest(Min(possible))][2]>>
        BY <1>2, <2>2 DEF Turn
      <3> HIDE DEF first, possible
      <3>4. ASSUME NEW i \in s \ {first}
            PROVE  /\ Finds(found, ranked, avoided, rest(i))
                   /\ a # ranked[i] /\ a \notin At(ranked, rest(i)) /\ ranked[i] \notin At(ranked, rest(i))
                   /\ At(ranked, s) = At(ranked, rest(i)) \cup {a, ranked[i]}
                   /\ At(ranked, s) \ {a, ranked[i]} = At(ranked, rest(i))
                   /\ Even(s) => Even(rest(i))
        <4>1. rest(i) \in SUBSET s /\ rest(i) # s
          BY <3>1
        <4>2. Finds(found, ranked, avoided, rest(i))
          BY <1>3, <4>1
        <4>3. first \in s /\ s \in SUBSET DOMAIN ranked /\ i \in s /\ first # i
          BY <3>1, <3>4
        <4> HIDE DEF rest, a
        <4>4. Leaves(ranked, s, first, i, s \ {first, i})
          BY ONLY <4>3, Lists(ranked, Q), PositionsTaken
        <4>5. Leaves(ranked, s, first, i, rest(i))
          BY <4>4 DEF rest
        <4> QED BY <4>2, <4>5 DEF Leaves, a
      <3>5. CASE possible # {}
        <4> DEFINE i == Min(possible)
                   w == At(ranked, rest(i))
                   pairs == found[rest(i)][2]
                   b == ranked[i]
        <4>1. i \in possible
          <5>1. possible \in SUBSET Nat
            BY <1>1, <3>2
          <5> QED BY <3>5, <5>1, FirstPosition
        <4> HIDE DEF i
        <4>2. i \in s \ {first} /\ {a, b} \notin avoided /\ found[rest(i)][1]
          BY <3>2, <4>1
        <4>3. PairsUp(pairs, w, avoided)
          BY <3>4, <4>2 DEF Finds
        <4>4. a # b /\ a \notin w /\ b \notin w /\ At(ranked, s) = w \cup {a, b}
          BY <3>4, <4>2
        <4>5. found[s] = <<TRUE, <<<<a, b>>>> \o pairs>>
          BY <3>3, <3>5 DEF i
        <4> HIDE DEF w, pairs, a, b
        <4>6. PairsUp(<<<<a, b>>>> \o pairs, w \cup {a, b}, avoided)
          BY <4>2, <4>3, <4>4, PairAdded
        <4>7. found[s][1] = TRUE /\ found[s][2] = <<<<a, b>>>> \o pairs
          BY <4>5
        <4> QED BY <4>4, <4>6, <4>7 DEF Finds
      <3>6. CASE possible = {}
        <4>1. found[s][1] = FALSE
          BY <3>3, <3>6
        <4>2. ASSUME NEW P \in Pairings(At(ranked, s)), P \cap avoided = {} PROVE FALSE
          <5> DEFINE W == At(ranked, s)
          <5>1. IsFiniteSet(W)
            <6> DEFINE f == [i \in s |-> ranked[i]]
            <6>1. f \in Surjection(s, W)
              BY Fun_IsSurj DEF At
            <6>2. IsFiniteSet(s)
              BY <1>1, FS_Subset
            <6> HIDE DEF f, W
            <6> QED BY <6>1, <6>2, FS_Surjection
          <5>2. a \in W
            BY <3>1 DEF At
          <5> HIDE DEF W
          <5> HIDE DEF a
          <5>0. P \in Pairings(W)
            BY <4>2 DEF W
          <5>3. PICK b \in W \ {a} : {a, b} \in P /\ P \ {{a, b}} \in Pairings(W \ {a, b})
            BY ONLY <5>0, <5>1, <5>2, PairTaken
          <5> USE DEF a
          <5>4. PICK i \in s : b = ranked[i]
            BY <5>3 DEF W, At
          <5>5. i \in s \ {first}
            BY <5>3, <5>4
          <5>6. W \ {a, b} = At(ranked, rest(i))
            BY <3>4, <5>4, <5>5 DEF W
          <5>7. {a, b} \notin avoided /\ (P \ {{a, b}}) \cap avoided = {}
            BY <4>2, <5>3
          <5>8. found[rest(i)][1]
            BY <3>4, <5>3, <5>5, <5>6, <5>7 DEF Finds
          <5>9. i \in possible
            BY <3>2, <5>4, <5>5, <5>7, <5>8
          <5> QED BY <3>6, <5>9
        <4>3. ASSUME avoided = {}, Even(s) PROVE FALSE
          <5>1. PICK k \in Nat : Cardinality(s) = 2 * k
            BY <4>3 DEF Even
          <5>2. s # {first}
            <6>1. Cardinality({first}) = 1
              BY FS_Singleton
            <6> QED BY <5>1, <6>1
          <5>3. PICK i \in s \ {first} : TRUE
            BY <3>1, <5>2
          <5>4. found[rest(i)][1]
            BY <3>4, <4>3 DEF Finds
          <5>5. i \in possible
            BY <3>2, <4>3, <5>4
          <5> QED BY <3>6, <5>5
        <4> QED BY <4>1, <4>2, <4>3 DEF Finds
      <3> QED BY <3>5, <3>6
    <2> QED BY <2>1, <2>2
  <1>4. C \in SUBSET SUBSET left
    OBVIOUS
  <1>5. \A s \in SUBSET left : (\A u \in SUBSET s : u # s => u \in C) => s \in C
    BY <1>3
  <1> HIDE DEF C
  <1>6. C = SUBSET left
    BY <1>1, <1>4, <1>5, SetInduction
  <1> QED BY <1>6 DEF C

(* A round of the players Q, ranked, after those who sat out and those who  *)
(* met.                                                                     *)
IsFair(pairing, Q, ranked, hadBye, avoided) ==
    /\ pairing.bye = null \/ pairing.bye \in Q
    /\ pairing.bye \in Q /\ pairing.bye \in hadBye => Q \subseteq hadBye
    /\ PairsUp(pairing.pairs, Q \ {pairing.bye}, {})
    /\ \/ PairsUp(pairing.pairs, Q \ {pairing.bye}, avoided)
       \/ givesUp(ranked, {i \in DOMAIN ranked : ranked[i] # pairing.bye}, avoided)
       \/ \A P \in Pairings(Q \ {pairing.bye}) : P \cap avoided # {}

HadBye(results) == {r.player1 : r \in {r \in results : Bye(r)}}
Met(results) == {{r.player1, r.player2} : r \in {r \in results : ~ Bye(r)}}

LEMMA SearchIsRight ==
    ASSUME NEW Q, NEW ranked, Lists(ranked, Q), NEW left \in SUBSET DOMAIN ranked, NEW avoided
    PROVE  LET found == search(ranked, left, avoided) IN
           /\ found[1] \in BOOLEAN
           /\ found[1] => PairsUp(found[2], At(ranked, left), avoided)
           /\ ~ found[1] => \A P \in Pairings(At(ranked, left)) : P \cap avoided # {}
           /\ avoided = {} /\ Even(left) => found[1]
  <1>1. PICK found : Searches(found, ranked, left, avoided) /\ search(ranked, left, avoided) = found[left]
    BY SearchUnfolds
  <1>2. Finds(found, ranked, avoided, left)
    BY <1>1, SearchFinds
  <1> QED BY <1>1, <1>2 DEF Finds

LEMMA Halves ==
    ASSUME NEW n \in Nat
    PROVE  \E h \in Nat : IF n % 2 = 0 THEN n = 2 * h ELSE n = 2 * h + 1
  <1>1. n \div 2 \in Nat /\ n = (2 * (n \div 2)) + (n % 2) /\ n % 2 \in {0, 1}
    OBVIOUS
  <1> QED BY <1>1

(* Who sits out, and the positions of those who play.                       *)
Sits(ranked, hadBye) ==
    LET neverHad == {i \in DOMAIN ranked : ranked[i] \notin hadBye}
    IN  IF Len(ranked) % 2 = 0 THEN null
        ELSE ranked[IF neverHad = {} THEN Len(ranked) ELSE Max(neverHad)]

Plays(ranked, hadBye) == {i \in DOMAIN ranked : ranked[i] # Sits(ranked, hadBye)}

(* Who has a bye leaves an even number.                                     *)
LEMMA ByesAreFair ==
    ASSUME NEW Q, NEW ranked, Lists(ranked, Q), null \notin Q, NEW hadBye
    PROVE  /\ Sits(ranked, hadBye) = null \/ Sits(ranked, hadBye) \in Q
           /\ Sits(ranked, hadBye) \in Q /\ Sits(ranked, hadBye) \in hadBye => Q \subseteq hadBye
           /\ Even(Plays(ranked, hadBye))
           /\ At(ranked, Plays(ranked, hadBye)) = Q \ {Sits(ranked, hadBye)}
  <1> DEFINE n == Len(ranked)
             neverHad == {i \in DOMAIN ranked : ranked[i] \notin hadBye}
             k == IF neverHad = {} THEN n ELSE Max(neverHad)
             bye == IF n % 2 = 0 THEN null ELSE ranked[k]
             left == {i \in DOMAIN ranked : ranked[i] # bye}
  <1>1. n \in Nat /\ DOMAIN ranked = 1 .. n /\ \A i \in 1 .. n : ranked[i] \in Q
    BY DEF Lists
  <1>2. IsFiniteSet(1 .. n) /\ Cardinality(1 .. n) = n
    BY ONLY <1>1, FirstNumbers
  <1>3. neverHad # {} => Max(neverHad) \in neverHad
    <2>1. neverHad \in SUBSET Nat /\ \A i \in neverHad : i <= n
      BY <1>1
    <2> HIDE DEF neverHad
    <2> QED BY <1>1, <2>1, LastPosition
  <1>4. n % 2 # 0 => k \in 1 .. n
    BY <1>1, <1>3
  <1>5. bye = null \/ bye \in Q
    BY <1>1, <1>4
  <1>6. ASSUME bye \in Q, bye \in hadBye PROVE Q \subseteq hadBye
    <2>1. bye = ranked[k] /\ n % 2 # 0
      BY <1>6
    <2>2. neverHad = {}
      <3> SUFFICES ASSUME neverHad # {} PROVE FALSE
        OBVIOUS
      <3>1. k \in neverHad
        BY <1>3
      <3> QED BY <1>6, <2>1, <3>1
    <2>3. \A i \in 1 .. n : ranked[i] \in hadBye
      BY <1>1, <2>2
    <2> QED BY <2>3 DEF Lists
  <1>7. Even(left)
    <2>1. CASE n % 2 = 0
      <3>1. bye = null
        BY <2>1
      <3>2. left = 1 .. n
        BY <1>1, <3>1
      <3>3. PICK h \in Nat : n = 2 * h
        BY <1>1, <2>1, Halves
      <3> QED BY <1>2, <3>2, <3>3 DEF Even
    <2>2. CASE n % 2 # 0
      <3>1. bye = ranked[k] /\ k \in 1 .. n
        BY <1>4, <2>2
      <3>2. left = (1 .. n) \ {k}
        <4> HIDE DEF bye, k, n
        <4> QED BY <1>1, <3>1 DEF Lists, n
      <3>3. Cardinality((1 .. n) \ {k}) = n - 1
        <4> HIDE DEF k, n
        <4> QED BY <1>2, <3>1, FS_RemoveElement
      <3>4. PICK h \in Nat : n - 1 = 2 * h
        <4>1. PICK h \in Nat : n = 2 * h + 1
          BY <1>1, <2>2, Halves
        <4> QED BY <4>1
      <3> HIDE DEF left
      <3> QED BY <3>2, <3>3, <3>4 DEF Even
    <2> QED BY <2>1, <2>2
  <1>8. At(ranked, left) = Q \ {bye}
    <2> HIDE DEF bye
    <2>1. \A q \in Q \ {bye} : \E i \in left : ranked[i] = q
      BY <1>1 DEF Lists
    <2> QED BY <1>1, <2>1 DEF At
  <1>9. bye = Sits(ranked, hadBye) /\ left = Plays(ranked, hadBye)
    BY DEF Sits, Plays
  <1> HIDE DEF bye, left
  <1> QED BY <1>5, <1>6, <1>7, <1>8, <1>9

LEMMA PairIsFair ==
    ASSUME NEW Q, NEW ranked, Lists(ranked, Q), null \notin Q, NEW results
    PROVE  IsFair(pair(ranked, results), Q, ranked, HadBye(results), Met(results))
  <1> DEFINE hadBye == HadBye(results)
             avoided == Met(results)
             bye == Sits(ranked, hadBye)
             left == Plays(ranked, hadBye)
             found == search(ranked, left, avoided)
             again == search(ranked, left, {})
             pairs == IF found[1] /\ ~ givesUp(ranked, left, avoided) THEN found[2] ELSE again[2]
  <1>1. pair(ranked, results) = [pairs |-> pairs, bye |-> bye]
    BY DEF pair, HadBye, Met, Sits, Plays
  <1> HIDE DEF hadBye, avoided
  <1>2. /\ bye = null \/ bye \in Q
        /\ bye \in Q /\ bye \in hadBye => Q \subseteq hadBye
        /\ Even(left)
        /\ At(ranked, left) = Q \ {bye}
    BY ByesAreFair
  <1>3. left \in SUBSET DOMAIN ranked /\ left = {i \in DOMAIN ranked : ranked[i] # bye}
    BY DEF Plays
  <1> HIDE DEF bye, left
  <1>4. /\ found[1] \in BOOLEAN
        /\ found[1] => PairsUp(found[2], Q \ {bye}, avoided)
        /\ ~ found[1] => \A P \in Pairings(Q \ {bye}) : P \cap avoided # {}
    BY <1>2, <1>3, SearchIsRight
  <1>5. PairsUp(again[2], Q \ {bye}, {})
    <2>1. again[1]
      BY ONLY <1>2, <1>3, Lists(ranked, Q), SearchIsRight
    <2>2. again[1] => PairsUp(again[2], At(ranked, left), {})
      BY ONLY <1>3, Lists(ranked, Q), SearchIsRight
    <2> HIDE DEF again
    <2> QED BY <1>2, <2>1, <2>2
  <1> HIDE DEF found, again
  <1>6. found[1] => PairsUp(found[2], Q \ {bye}, {})
    BY <1>4 DEF PairsUp
  <1>7. PairsUp(pairs, Q \ {bye}, {})
    BY <1>4, <1>5, <1>6
  <1>8. \/ PairsUp(pairs, Q \ {bye}, avoided)
        \/ givesUp(ranked, left, avoided)
        \/ \A P \in Pairings(Q \ {bye}) : P \cap avoided # {}
    BY <1>4
  <1> HIDE DEF pairs
  <1> DEFINE pairing == pair(ranked, results)
  <1>9. pairing.pairs = pairs /\ pairing.bye = bye
    BY <1>1
  <1> HIDE DEF pairing
  <1>10. IsFair(pairing, Q, ranked, hadBye, avoided)
    BY <1>2, <1>3, <1>7, <1>8, <1>9 DEF IsFair
  <1> QED BY <1>10 DEF pairing, hadBye, avoided

(* The matches of a round, by their numbers.                                *)
Node(round, i) == <<"SWISS", round, i - 1>>

HasMatches(created, round, pairing) ==
    LET count == Len(pairing.pairs)
        last == Node(round, count + 1)
    IN  /\ DOMAIN created = {Node(round, i) : i \in 1 .. count} \cup {n \in {last} : pairing.bye # null}
        /\ \A i \in 1 .. count : /\ created[Node(round, i)].player1 = pairing.pairs[i][1]
                                 /\ created[Node(round, i)].player2 = pairing.pairs[i][2]
        /\ pairing.bye # null => created[last].player1 = pairing.bye /\ created[last].player2 = null

LEMMA MatchesOfARound ==
    ASSUME NEW Q, NEW round, NEW pairing, pairing.pairs \in Seq(Q \X Q)
    PROVE  HasMatches(SwissRound(round, pairing), round, pairing)
  <1> DEFINE created == SwissRound(round, pairing)
             count == Len(pairing.pairs)
             node(i) == <<"SWISS", round, i - 1>>
             nodes == {node(i) : i \in 1 .. count}
             last == <<"SWISS", round, count>>
             byes == {n \in {last} : pairing.bye # null}
             bye == [NewMatch(pairing.bye, null, 0) EXCEPT !.winner = pairing.bye, !.status = "DONE"]
             match(n) == NewMatch(pairing.pairs[n[3] + 1][1], pairing.pairs[n[3] + 1][2], 0)
             paired == [n \in nodes |-> match(n)]
  <1>1. created = [n \in nodes \cup byes |-> IF n \in byes THEN bye ELSE paired[n]]
    BY DEF SwissRound
  <1>2. count \in Nat /\ node(count + 1) = last /\ last \notin nodes
    <2>1. count \in Nat
      OBVIOUS
    <2>2. (count + 1) - 1 = count /\ \A i \in 1 .. count : i - 1 # count
      BY <2>1
    <2> HIDE DEF count
    <2> QED BY <2>1, <2>2
  <1>3. bye.player1 = pairing.bye /\ bye.player2 = null
    BY DEF NewMatch
  <1>4. \A i \in 1 .. count : match(node(i)).player1 = pairing.pairs[i][1] /\ match(node(i)).player2 = pairing.pairs[i][2]
    <2> SUFFICES ASSUME NEW i \in 1 .. count
                 PROVE  match(node(i)).player1 = pairing.pairs[i][1] /\ match(node(i)).player2 = pairing.pairs[i][2]
      OBVIOUS
    <2>1. node(i)[3] + 1 = i
      BY <1>2
    <2> QED BY <2>1 DEF NewMatch
  <1> HIDE DEF created, bye, match
  <1>5. \A i \in 1 .. count : node(i) \in nodes /\ node(i) \notin byes
    BY <1>2
  <1>6. \A i \in 1 .. count : created[node(i)] = match(node(i))
    BY <1>1, <1>5
  <1>7. pairing.bye # null => created[node(count + 1)] = bye
    BY <1>1, <1>2
  <1>8. DOMAIN created = nodes \cup byes /\ byes = {n \in {node(count + 1)} : pairing.bye # null}
    BY <1>1, <1>2
  <1> HIDE DEF node, count
  <1>9. /\ DOMAIN created = {node(i) : i \in 1 .. count} \cup {n \in {node(count + 1)} : pairing.bye # null}
        /\ \A i \in 1 .. count : /\ created[node(i)].player1 = pairing.pairs[i][1]
                                 /\ created[node(i)].player2 = pairing.pairs[i][2]
        /\ pairing.bye # null => /\ created[node(count + 1)].player1 = pairing.bye
                                 /\ created[node(count + 1)].player2 = null
    BY <1>3, <1>4, <1>6, <1>7, <1>8
  <1> QED BY <1>9 DEF created, node, count, HasMatches, Node

(* What the pairing says of the new matches among ms.                       *)
FairMatches(ms, new, Q, ranked, hadBye, before) ==
    LET byes == {ms[n].player1 : n \in {n \in new : ms[n].player2 = null}}
        left == {i \in DOMAIN ranked : ranked[i] \notin byes}
    IN  /\ \A p \in Players : Cardinality({n \in new : Involves(ms[n], p)}) = IF p \in Q THEN 1 ELSE 0
        /\ Cardinality(byes) <= 1
        /\ byes \cap hadBye # {} => Q \subseteq hadBye
        /\ PairsOf(ms, new) \cap before # {} =>
              givesUp(ranked, left, before) \/ \A P \in Pairings(Q \ byes) : P \cap before # {}

LEMMA RoundIsFair ==
    ASSUME NEW Q, null \notin Q, NEW ranked, Lists(ranked, Q), NEW round, NEW pairing, NEW hadBye, NEW avoided,
           IsFair(pairing, Q, ranked, hadBye, avoided)
    PROVE  FairMatches(SwissRound(round, pairing), DOMAIN SwissRound(round, pairing), Q, ranked, hadBye, avoided)
  <1> DEFINE created == SwissRound(round, pairing)
             new == DOMAIN created
             count == Len(pairing.pairs)
             node(i) == Node(round, i)
             last == node(count + 1)
             bye == pairing.bye
             R == Q \ {bye}
             a(i) == pairing.pairs[i][1]
             b(i) == pairing.pairs[i][2]
             byes == {created[n].player1 : n \in {n \in new : created[n].player2 = null}}
             left == {i \in DOMAIN ranked : ranked[i] \notin byes}
             late == givesUp(ranked, left, avoided)
  <1>1. /\ pairing.pairs \in Seq(R \X R)
        /\ \A w \in R : \E i \in 1 .. count : w \in {a(i), b(i)}
        /\ \A i, j \in 1 .. count : {a(i), b(i)} \cap {a(j), b(j)} # {} => i = j
        /\ bye = null \/ bye \in Q
        /\ bye \in Q /\ bye \in hadBye => Q \subseteq hadBye
    BY DEF IsFair, PairsUp
  <1>2. /\ new = {node(i) : i \in 1 .. count} \cup {n \in {last} : bye # null}
        /\ \A i \in 1 .. count : created[node(i)].player1 = a(i) /\ created[node(i)].player2 = b(i)
        /\ bye # null => created[last].player1 = bye /\ created[last].player2 = null
    <2> HIDE DEF R
    <2>1. HasMatches(created, round, pairing)
      BY <1>1, MatchesOfARound
    <2> HIDE DEF created
    <2> QED BY <2>1 DEF HasMatches
  <1>3. \A i \in 1 .. count : a(i) \in R /\ b(i) \in R
    <2>1. \A i \in 1 .. count : pairing.pairs[i] \in R \X R
      BY <1>1
    <2> HIDE DEF R
    <2> QED BY <2>1
  <1>4. \/ \A i \in 1 .. count : {a(i), b(i)} \notin avoided
        \/ givesUp(ranked, {i \in DOMAIN ranked : ranked[i] # bye}, avoided)
        \/ \A P \in Pairings(R) : P \cap avoided # {}
    BY DEF IsFair, PairsUp
  <1> HIDE DEF created, node, count, a, b, bye
  <1>5. \A i \in 1 .. count : \A p : Involves(created[node(i)], p) <=> p \in {a(i), b(i)}
    BY <1>2 DEF Involves
  <1>6. bye # null => \A p : p # null => (Involves(created[last], p) <=> p = bye)
    BY <1>2 DEF Involves
  <1>7. byes = {n \in {bye} : bye # null}
    <2>1. \A i \in 1 .. count : created[node(i)].player2 # null
      BY <1>2, <1>3
    <2> QED BY <1>2, <2>1
  <1>8. ASSUME NEW p \in Players PROVE Cardinality({n \in new : Involves(created[n], p)}) = IF p \in Q THEN 1 ELSE 0
    <2> DEFINE mine == {n \in new : Involves(created[n], p)}
    <2> SUFFICES Cardinality(mine) = IF p \in Q THEN 1 ELSE 0
      OBVIOUS
    <2>0. p # null
      BY TournamentAssumption
    <2>1. CASE p \in R
      <3>1. PICK i \in 1 .. count : p \in {a(i), b(i)}
        BY <1>1, <2>1
      <3>2. \A j \in 1 .. count : p \in {a(j), b(j)} => j = i
        BY <1>1, <3>1
      <3>3. node(i) \in mine
        BY <1>2, <1>5, <3>1
      <3>4. \A n \in mine : n = node(i)
        <4> SUFFICES ASSUME NEW n \in mine PROVE n = node(i)
          OBVIOUS
        <4>1. CASE \E j \in 1 .. count : n = node(j)
          BY <1>5, <3>2, <4>1
        <4>2. CASE n = last /\ bye # null
          BY <1>6, <2>0, <2>1, <4>2
        <4> QED BY <1>2, <4>1, <4>2
      <3>5. mine = {node(i)}
        BY <3>3, <3>4
      <3> HIDE DEF mine
      <3> QED BY <2>1, <3>5, FS_Singleton
    <2>2. CASE p \in Q /\ p = bye
      <3>1. last \in mine
        BY <1>2, <1>6, <2>0, <2>2
      <3>2. \A n \in mine : n = last
        <4> SUFFICES ASSUME NEW n \in mine, n # last PROVE FALSE
          OBVIOUS
        <4>1. PICK j \in 1 .. count : n = node(j)
          BY <1>2
        <4> QED BY <1>3, <1>5, <2>2, <4>1
      <3>3. mine = {last}
        BY <3>1, <3>2
      <3> HIDE DEF mine, last
      <3> QED BY <2>2, <3>3, FS_Singleton
    <2>3. CASE p \notin Q
      <3>1. mine = {}
        <4> SUFFICES ASSUME NEW n \in mine PROVE FALSE
          OBVIOUS
        <4>1. CASE \E j \in 1 .. count : n = node(j)
          BY <1>3, <1>5, <2>3, <4>1
        <4>2. CASE n = last /\ bye # null
          BY <1>1, <1>6, <2>0, <2>3, <4>2
        <4> QED BY <1>2, <4>1, <4>2
      <3> QED BY <2>3, <3>1, FS_EmptySet
    <2> QED BY <2>1, <2>2, <2>3
  <1>9. Cardinality(byes) <= 1
    <2>1. byes = {} \/ byes = {bye}
      BY <1>7
    <2>2. Cardinality({}) = 0 /\ Cardinality({bye}) = 1
      BY FS_EmptySet, FS_Singleton
    <2> HIDE DEF byes
    <2> QED BY <2>1, <2>2
  <1>10. byes \cap hadBye # {} => Q \subseteq hadBye
    BY <1>1, <1>7
  <1>11. Q \ byes = R
    BY <1>1, <1>7
  <1>12. PairsOf(created, new) = {{a(i), b(i)} : i \in 1 .. count}
    <2>1. \A i \in 1 .. count : node(i) \in new /\ created[node(i)].player2 # null
      BY <1>2, <1>3
    <2>2. \A n \in new : created[n].player2 # null => \E i \in 1 .. count : n = node(i)
      BY <1>2
    <2> HIDE DEF new
    <2>3. \A e \in PairsOf(created, new) : \E i \in 1 .. count : e = {a(i), b(i)}
      BY <1>2, <2>2 DEF PairsOf
    <2>4. \A i \in 1 .. count : {a(i), b(i)} \in PairsOf(created, new)
      BY <1>2, <2>1 DEF PairsOf
    <2> QED BY <2>3, <2>4
  <1>15. left = {i \in DOMAIN ranked : ranked[i] # bye}
    <2>1. \A i \in DOMAIN ranked : ranked[i] # null
      BY DEF Lists
    <2> HIDE DEF byes
    <2> QED BY <1>7, <2>1
  <1>13. PairsOf(created, new) \cap avoided # {} => late \/ \A P \in Pairings(Q \ byes) : P \cap avoided # {}
    <2>1. \/ \A i \in 1 .. count : {a(i), b(i)} \notin avoided
          \/ late
          \/ \A P \in Pairings(R) : P \cap avoided # {}
      <3> HIDE DEF left, R
      <3> QED BY <1>4, <1>15
    <2> HIDE DEF new, byes, R, late
    <2> QED BY <1>11, <1>12, <2>1
  <1> HIDE DEF new, byes
  <1>14. FairMatches(created, new, Q, ranked, hadBye, avoided)
    BY <1>8, <1>9, <1>10, <1>13 DEF FairMatches, byes
  <1> QED BY <1>14 DEF created, new

Entry == [player : Players, checkedIn : BOOLEAN, dropped : BOOLEAN]

(* A player enters once.                                                    *)
EnterOnce(list) ==
    /\ list \in Seq(Entry)
    /\ \A i, j \in 1 .. Len(list) : list[i].player = list[j].player => i = j

LEMMA EntriesListPlayers ==
    ASSUME EnterOnce(entries)
    PROVE  Lists(PlayersOf(entries), Entered) /\ Entered \subseteq Players /\ Entered \cap Active = Active
  <1> DEFINE list == PlayersOf(entries)
             n == Len(entries)
  <1>1. n \in Nat /\ DOMAIN entries = 1 .. n /\ \A i \in 1 .. n : entries[i] \in Entry
    BY DEF EnterOnce
  <1>2. \A i \in 1 .. n : entries[i].player \in Players
    BY <1>1 DEF Entry
  <1>3. list = [i \in 1 .. n |-> entries[i].player]
    BY <1>1 DEF PlayersOf
  <1>4. \A i \in 1 .. n : entries[i].player \in Entered
    BY <1>1 DEF Entered
  <1> HIDE DEF list, n
  <1>5. list \in [1 .. n -> Entered]
    BY <1>3, <1>4
  <1>6. list \in Seq(Entered) /\ Len(list) = n
    BY <1>1, <1>5
  <1>7. \A i, j \in 1 .. n : list[i] = list[j] => i = j
    BY <1>3 DEF EnterOnce, n
  <1>8. \A q \in Entered : \E i \in 1 .. n : list[i] = q
    BY <1>1, <1>3 DEF Entered
  <1>9. Entered \subseteq Players /\ Active \subseteq Entered
    BY <1>1, <1>2 DEF Entered, Active
  <1> QED BY <1>6, <1>7, <1>8, <1>9 DEF Lists, list

LEMMA ShuffledLists ==
    ASSUME NEW Q \in SUBSET Players, NEW s, Lists(s, Q), NEW t \in Shuffles(s)
    PROVE  Lists(t, Q) /\ Len(t) = Len(s)
  <1> DEFINE n == Len(s)
             S(p) == {i \in 1 .. n : s[i] = p}
             T(p) == {i \in 1 .. n : t[i] = p}
  <1>1. n \in Nat /\ DOMAIN s = 1 .. n /\ s \in [1 .. n -> Q] /\ s \in [1 .. n -> Players]
    BY DEF Lists
  <1>2. n <= Cardinality(Players) /\ Cardinality(Players) \in Nat
    <2> HIDE DEF n
    <2>1. s \in Injection(1 .. n, Players)
      BY <1>1, Fun_IsInj DEF Lists, n
    <2>2. Cardinality(1 .. n) <= Cardinality(Players)
      BY <2>1, FS_Injection, TournamentAssumption
    <2> QED BY <1>1, <2>2, FS_Interval, FS_CardinalityType, TournamentAssumption
  <1>3. s \in UNION {[1 .. k -> Players] : k \in 0 .. Cardinality(Players)}
    <2> HIDE DEF n
    <2>1. n \in 0 .. Cardinality(Players)
      BY <1>1, <1>2
    <2> QED BY <1>1, <2>1
  <1>4. t \in [1 .. n -> Players] /\ \A p \in Players : Cardinality(T(p)) = Cardinality(S(p))
    <2>1. /\ t \in [DOMAIN s -> Players]
          /\ \A p \in Players : Cardinality({i \in DOMAIN t : t[i] = p}) = Cardinality({i \in DOMAIN s : s[i] = p})
      BY <1>3, ShufflesAssumption
    <2>2. DOMAIN t = DOMAIN s
      BY <2>1
    <2> QED BY <1>1, <2>1, <2>2
  <1>5. \A p : IsFiniteSet(S(p)) /\ IsFiniteSet(T(p))
    <2> SUFFICES ASSUME NEW p PROVE IsFiniteSet(S(p)) /\ IsFiniteSet(T(p))
      OBVIOUS
    <2>1. IsFiniteSet(1 .. n) /\ S(p) \in SUBSET (1 .. n) /\ T(p) \in SUBSET (1 .. n)
      BY <1>1, FS_Interval
    <2> HIDE DEF S, T, n
    <2> QED BY <2>1, FS_Subset
  <1>6. ASSUME NEW p \in Q PROVE \E k \in 1 .. n : T(p) = {k}
    <2>1. PICK i \in 1 .. n : s[i] = p
      BY DEF Lists
    <2>5. \A j \in 1 .. n : s[j] = p => j = i
      BY <2>1 DEF Lists
    <2>2. S(p) = {i}
      BY <2>1, <2>5
    <2> HIDE DEF S
    <2>3. Cardinality(T(p)) = 1
      BY <1>4, <2>2, FS_Singleton
    <2>4. T(p) \in SUBSET (1 .. n)
      OBVIOUS
    <2> HIDE DEF T
    <2>6. \E k : T(p) = {k}
      BY <1>5, <2>3, FS_Singleton
    <2> QED BY <2>4, <2>6
  <1>7. ASSUME NEW p \in Players \ Q PROVE T(p) = {}
    <2>1. S(p) = {}
      BY <1>1
    <2> HIDE DEF S, T
    <2>2. Cardinality(T(p)) = 0
      <3>1. Cardinality(S(p)) = 0
        BY <2>1, FS_EmptySet
      <3> QED BY <1>4, <3>1
    <2> QED BY <1>5, <2>2, FS_EmptySet
  <1>8. \A i \in 1 .. n : t[i] \in Q
    <2> SUFFICES ASSUME NEW i \in 1 .. n, t[i] \notin Q PROVE FALSE
      OBVIOUS
    <2>1. i \in T(t[i])
      OBVIOUS
    <2> QED BY <1>4, <1>7, <2>1
  <1>9. ASSUME NEW i \in 1 .. n, NEW j \in 1 .. n, t[i] = t[j] PROVE i = j
    <2>1. i \in T(t[i]) /\ j \in T(t[i])
      BY <1>9
    <2> HIDE DEF T
    <2> QED BY <1>6, <1>8, <2>1
  <1>10. \A q \in Q : \E i \in 1 .. n : t[i] = q
    BY <1>6
  <1>11. t \in Seq(Q) /\ Len(t) = n
    <2> HIDE DEF n
    <2>1. t \in [1 .. n -> Q]
      BY <1>4, <1>8
    <2> QED BY <1>1, <2>1
  <1> QED BY <1>9, <1>10, <1>11 DEF Lists

(* What SwissRoundsAreFair says of a new round.                             *)
RoundStep ==
    LET hadBye == {matches[n].player1 : n \in {n \in DOMAIN matches : matches[n].player2 = null}}
    IN  FairMatches(matches', DOMAIN matches' \ DOMAIN matches, Active, Remaining(standings(PlayersOf(entries), Results)),
                    hadBye, PairsOf(matches, DOMAIN matches))

(* Whom the round reads as having met, or had a bye.                        *)
LEMMA ResultsSoFar ==
    ASSUME \A n \in DOMAIN matches : Decided(n)
    PROVE  /\ HadBye(Results) = {matches[n].player1 : n \in {n \in DOMAIN matches : matches[n].player2 = null}}
           /\ Met(Results) = PairsOf(matches, DOMAIN matches)
           /\ IsFiniteSet(DOMAIN matches) => IsFiniteSet(Results)
  <1> DEFINE res(n) == [at |-> n, player1 |-> matches[n].player1, player2 |-> matches[n].player2,
                        winner |-> matches[n].winner]
  <1>1. Results = {res(n) : n \in DOMAIN matches}
    BY DEF Results
  <1>2. \A n : res(n).player1 = matches[n].player1 /\ res(n).player2 = matches[n].player2
    OBVIOUS
  <1> HIDE DEF res
  <1>3. HadBye(Results) = {matches[n].player1 : n \in {n \in DOMAIN matches : matches[n].player2 = null}}
    BY <1>1, <1>2 DEF HadBye, Bye
  <1>4. Met(Results) = PairsOf(matches, DOMAIN matches)
    BY <1>1, <1>2 DEF Met, Bye, PairsOf
  <1>5. ASSUME IsFiniteSet(DOMAIN matches) PROVE IsFiniteSet(Results)
    <2> DEFINE f == [n \in DOMAIN matches |-> res(n)]
    <2>1. f \in Surjection(DOMAIN matches, Results)
      BY <1>1, Fun_IsSurj
    <2> HIDE DEF f
    <2> QED BY <1>5, <2>1, FS_Surjection
  <1> QED BY <1>3, <1>4, <1>5

LEMMA RoundsAreFinite ==
    ASSUME NEW Q, NEW round, NEW pairing, pairing.pairs \in Seq(Q \X Q)
    PROVE  IsFiniteSet(DOMAIN SwissRound(round, pairing))
  <1> DEFINE count == Len(pairing.pairs)
             nodes == {Node(round, i) : i \in 1 .. count}
             last == Node(round, count + 1)
             byes == {n \in {last} : pairing.bye # null}
             f == [i \in 1 .. count |-> Node(round, i)]
  <1>1. DOMAIN SwissRound(round, pairing) = nodes \cup byes
    <2> DEFINE created == SwissRound(round, pairing)
    <2>1. HasMatches(created, round, pairing)
      BY MatchesOfARound
    <2> HIDE DEF created
    <2>2. DOMAIN created = nodes \cup byes
      BY <2>1 DEF HasMatches
    <2> QED BY <2>2 DEF created
  <1>2. IsFiniteSet(1 .. count)
    BY FS_Interval
  <1>3. f \in Surjection(1 .. count, nodes)
    BY Fun_IsSurj
  <1>4. byes \in SUBSET {last} /\ IsFiniteSet({last})
    BY FS_Singleton
  <1> HIDE DEF f, nodes, byes
  <1>5. IsFiniteSet(nodes) /\ IsFiniteSet(byes)
    BY <1>2, <1>3, <1>4, FS_Surjection, FS_Subset
  <1> QED BY <1>1, <1>5, FS_Union

LEMMA NextRoundIsFair ==
    ASSUME ResultsInv, EnterOnce(entries), IsFiniteSet(DOMAIN matches), NextRound
    PROVE  RoundStep /\ IsFiniteSet(DOMAIN matches')
  <1> DEFINE round == tournament.currentRound + 1
             list0 == PlayersOf(entries)
  <1>1. \A n \in DOMAIN matches : Decided(n)
    BY DEF NextRound
  <1>2. PICK ranked \in IF round = 1 THEN Shuffles(Remaining(list0)) ELSE {Remaining(standings(list0, Results))} :
           matches' = [n \in DOMAIN matches \cup DOMAIN SwissRound(round, pair(ranked, Results)) |->
                          IF n \in DOMAIN SwissRound(round, pair(ranked, Results))
                          THEN SwissRound(round, pair(ranked, Results))[n] ELSE matches[n]]
    BY DEF NextRound
  <1> DEFINE pairing == pair(ranked, Results)
             created == SwissRound(round, pairing)
  <1>3. Lists(list0, Entered) /\ Entered \subseteq Players /\ Entered \cap Active = Active
    BY EntriesListPlayers
  <1>4. Active \in SUBSET Players /\ null \notin Active
    BY <1>3, TournamentAssumption
  <1>5. Lists(ranked, Active)
    <2> HIDE DEF list0, round
    <2>1. CASE round = 1
      <3>1. Lists(Remaining(list0), Active)
        BY <1>3, KeptLists DEF Remaining
      <3> QED BY <1>2, <1>4, <2>1, <3>1, ShuffledLists
    <2>2. CASE round # 1
      <3> DEFINE order == standings(list0, Results)
      <3>1. Lists(order, Entered)
        BY <1>1, <1>3, ResultsSoFar, StandingsList
      <3>2. ranked = Remaining(order)
        BY <1>2, <2>2
      <3> HIDE DEF order
      <3>3. Lists(Remaining(order), Active)
        BY <1>3, <3>1, KeptLists DEF Remaining
      <3> QED BY <3>2, <3>3
    <2> QED BY <2>1, <2>2
  <1>6. IsFair(pairing, Active, ranked, HadBye(Results), Met(Results))
    BY <1>4, <1>5, PairIsFair
  <1>7. matches' = [n \in DOMAIN matches \cup DOMAIN created |-> IF n \in DOMAIN created THEN created[n] ELSE matches[n]]
    BY <1>2
  <1> HIDE DEF pairing
  <1>8. \A n \in DOMAIN created : n[2] = round
    BY RoundsAreNumbered
  <1>9. /\ tournament.currentRound \in Nat
        /\ \A n \in DOMAIN matches : n[2] \in Nat \ {0} /\ n[2] <= tournament.currentRound
    BY DEF ResultsInv, RoundsSoFar, NextRound
  <1>13. IsFiniteSet(DOMAIN created)
    BY <1>6, RoundsAreFinite DEF IsFair, PairsUp
  <1> DEFINE new == DOMAIN matches' \ DOMAIN matches
  <1>10. new = DOMAIN created /\ \A n \in new : matches'[n] = created[n]
    <2> HIDE DEF created
    <2>1. \A n \in DOMAIN matches : n \notin DOMAIN created
      BY <1>8, <1>9
    <2> QED BY <1>7, <2>1
  <1> DEFINE hadBye == HadBye(Results)
             before == Met(Results)
  <1>11. FairMatches(created, DOMAIN created, Active, ranked, hadBye, before)
    <2> HIDE DEF round, hadBye, before
    <2>1. IsFair(pairing, Active, ranked, hadBye, before)
      BY <1>6 DEF hadBye, before
    <2> QED BY <1>4, <1>5, <2>1, RoundIsFair
  <1> HIDE DEF created, new, hadBye, before
  <1>12. FairMatches(matches', new, Active, ranked, hadBye, before)
    <2>1. /\ {matches'[n].player1 : n \in {n \in new : matches'[n].player2 = null}}
              = {created[n].player1 : n \in {n \in new : created[n].player2 = null}}
          /\ PairsOf(matches', new) = PairsOf(created, new)
      BY <1>10 DEF PairsOf
    <2>2. \A p : {n \in new : Involves(matches'[n], p)} = {n \in new : Involves(created[n], p)}
      BY <1>10
    <2>3. FairMatches(created, new, Active, ranked, hadBye, before)
      BY <1>10, <1>11
    <2> QED BY <2>1, <2>2, <2>3 DEF FairMatches
  <1>14. DOMAIN matches' = DOMAIN matches \cup DOMAIN created
    BY <1>7
  <1>15. IsFiniteSet(DOMAIN matches')
    BY <1>13, <1>14, FS_Union
  <1> DEFINE order == Remaining(standings(list0, Results))
  <1>16. FairMatches(matches', new, Active, order, hadBye, before)
    <2>1. CASE round = 1
      <3>3. tournament.currentRound = 0
        BY ONLY <1>9, <2>1
      <3>4. ASSUME NEW n \in DOMAIN matches PROVE FALSE
        <4>1. n[2] \in Nat \ {0} /\ n[2] <= 0
          BY <1>9, <3>3
        <4> QED BY ONLY <4>1
      <3>1. DOMAIN matches = {}
        BY ONLY <3>4
      <3>2. before = {}
        BY <1>1, <3>1, ResultsSoFar DEF before, PairsOf
      <3> QED BY <1>12, <3>2 DEF FairMatches
    <2>2. CASE round # 1
      <3>1. ranked = order
        BY <1>2, <2>2
      <3> QED BY <1>12, <3>1
    <2> QED BY <2>1, <2>2
  <1> QED BY <1>1, <1>15, <1>16, ResultsSoFar DEF RoundStep, new, hadBye, before

-------------------------------------------------------------------------------
(* The other steps *)

(* Players who leave do not make others enter twice. *)
LEMMA KeptEnterOnce ==
    ASSUME EnterOnce(entries), NEW P \in SUBSET DOMAIN entries PROVE EnterOnce(Kept(entries, P))
  <1> DEFINE c == Cardinality(P)
             kept == Kept(entries, P)
  <1>1. entries \in Seq(Entry) /\ DOMAIN entries = 1 .. Len(entries) /\ Len(entries) \in Nat
    BY DEF EnterOnce
  <1>0. c \in Nat /\ \E at \in [1 .. c -> P] : GoesThrough(at, entries, P)
    BY ONLY <1>1, P \in SUBSET DOMAIN entries, KeptPositions
  <1>2. c \in Nat
    BY <1>0
  <1>3. PICK at \in [1 .. c -> P] :
           /\ kept = [k \in 1 .. c |-> entries[at[k]]]
           /\ \A k, l \in 1 .. c : at[k] = at[l] => k = l
    BY <1>0 DEF GoesThrough
  <1> HIDE DEF c, kept
  <1>4. \A k \in 1 .. c : at[k] \in 1 .. Len(entries) /\ entries[at[k]] \in Entry
    BY <1>1
  <1>5. kept \in Seq(Entry) /\ Len(kept) = c
    <2>1. kept \in [1 .. c -> Entry]
      BY <1>3, <1>4
    <2> QED BY <1>2, <2>1
  <1>6. \A k, l \in 1 .. c : kept[k].player = kept[l].player => k = l
    BY <1>3, <1>4 DEF EnterOnce
  <1> QED BY <1>5, <1>6 DEF EnterOnce, kept

LEMMA AddedEnterOnce ==
    ASSUME EnterOnce(entries), NEW p \in Players, p \notin Entered, NEW b \in BOOLEAN
    PROVE  EnterOnce(Append(entries, [player |-> p, checkedIn |-> b, dropped |-> FALSE]))
  <1> DEFINE e == [player |-> p, checkedIn |-> b, dropped |-> FALSE]
             more == Append(entries, e)
             n == Len(entries)
  <1>1. entries \in Seq(Entry) /\ DOMAIN entries = 1 .. n /\ n \in Nat
    BY DEF EnterOnce
  <1>2. e \in Entry /\ e.player = p
    BY DEF Entry
  <1> HIDE DEF e
  <1>3. /\ more \in Seq(Entry) /\ Len(more) = n + 1 /\ more[n + 1] = e
        /\ \A i \in 1 .. n : more[i] = entries[i]
    BY <1>1, <1>2
  <1>4. \A i \in 1 .. n : entries[i].player # p
    BY <1>1 DEF Entered
  <1>5. \A i \in 1 .. (n + 1) : i \in 1 .. n \/ i = n + 1
    BY <1>1
  <1> HIDE DEF more
  <1>6. \A i, j \in 1 .. (n + 1) : more[i].player = more[j].player => i = j
    BY <1>2, <1>3, <1>4, <1>5 DEF EnterOnce
  <1> QED BY <1>3, <1>6 DEF EnterOnce, more, e

LEMMA ChangedEnterOnce ==
    ASSUME EnterOnce(entries), NEW i \in DOMAIN entries, NEW e \in Entry, e.player = entries[i].player
    PROVE  EnterOnce([entries EXCEPT ![i] = e])
  <1> DEFINE list == [entries EXCEPT ![i] = e]
  <1>1. entries \in Seq(Entry) /\ DOMAIN entries = 1 .. Len(entries) /\ Len(entries) \in Nat
    BY DEF EnterOnce
  <1>2. list \in Seq(Entry) /\ Len(list) = Len(entries)
    BY <1>1
  <1>3. \A k \in 1 .. Len(entries) : list[k].player = entries[k].player
    BY <1>1
  <1> HIDE DEF list
  <1> QED BY <1>1, <1>2, <1>3 DEF EnterOnce, list

LEMMA PlayersEnterOnce ==
    ASSUME EnterOnce(entries), [Next]_vars PROVE EnterOnce(entries')
  <1>1. CASE \E p \in Players : Register(p) \/ AdminAdd(p)
    <2>1. PICK p \in Players : Add(p)
      BY <1>1 DEF Register, AdminAdd
    <2> DEFINE b == tournament.status # "REGISTRATION"
    <2>2. entries' = Append(entries, [player |-> p, checkedIn |-> b, dropped |-> FALSE]) /\ p \notin Entered
      BY <2>1 DEF Add
    <2>3. b \in BOOLEAN
      OBVIOUS
    <2> HIDE DEF b
    <2> QED BY <2>2, <2>3, AddedEnterOnce
  <1>2. ASSUME NEW p, Delete(p) PROVE EnterOnce(entries')
    <2> DEFINE P == {i \in DOMAIN entries : entries[i].player # p}
    <2>1. entries' = Kept(entries, P) /\ P \in SUBSET DOMAIN entries
      BY <1>2 DEF Delete
    <2> HIDE DEF P
    <2> QED BY <2>1, KeptEnterOnce
  <1>3. ASSUME NEW i \in DOMAIN entries,
               \/ entries' = [entries EXCEPT ![i].dropped = TRUE]
               \/ entries' = [entries EXCEPT ![i].checkedIn = TRUE]
        PROVE  EnterOnce(entries')
    <2> DEFINE dropped == [entries[i] EXCEPT !.dropped = TRUE]
               there == [entries[i] EXCEPT !.checkedIn = TRUE]
    <2>1. entries[i] \in Entry
      BY DEF EnterOnce
    <2>2. /\ dropped \in Entry /\ dropped.player = entries[i].player
          /\ there \in Entry /\ there.player = entries[i].player
      BY <2>1 DEF Entry
    <2>3. entries' = [entries EXCEPT ![i] = dropped] \/ entries' = [entries EXCEPT ![i] = there]
      BY <1>3
    <2> HIDE DEF dropped, there
    <2> QED BY <2>2, <2>3, ChangedEnterOnce
  <1>4. CASE Start
    <2> DEFINE P == {i \in DOMAIN entries : entries[i].checkedIn}
    <2>1. entries' = entries \/ entries' = Kept(entries, P)
      BY <1>4 DEF Start
    <2>2. P \in SUBSET DOMAIN entries
      OBVIOUS
    <2> HIDE DEF P
    <2> QED BY <2>1, <2>2, KeptEnterOnce
  <1>5. CASE Purge
    <2>1. entries' = <<>>
      BY <1>5 DEF Purge
    <2> QED BY <2>1 DEF EnterOnce
  <1>6. CASE \E p \in Players : Unregister(p) \/ AdminRemove(p) \/ CheckIn(p)
    BY <1>2, <1>3, <1>6 DEF Unregister, AdminRemove, CheckIn
  <1>7. CASE UNCHANGED entries
    BY <1>7
  <1>8. CASE OpenCheckIn \/ Cancel \/ NextRound \/ NextWave \/ Finish \/ Crash \/ \E delta \in {-1, 1} : ChangeRounds(delta)
    BY <1>7, <1>8 DEF OpenCheckIn, Cancel, NextRound, NextWave, Finish, Crash, ChangeRounds
  <1>9. CASE \/ \E p \in Players, b \in BOOLEAN : SetResult(p, b) \/ Reinvite(p, b)
             \/ \E p, q \in Players : BindLobby(p, q)
             \/ \E n \in games : NotPlayed(n) \/ \E p \in Players : GameWon(n, p)
    BY <1>7, <1>9 DEF SetResult, Reinvite, BindLobby, NotPlayed, GameWon
  <1> QED BY <1>1, <1>4, <1>5, <1>6, <1>7, <1>8, <1>9 DEF Next, vars

(* Only NextRound makes matches once a tournament of Swiss rounds started.  *)
RoundStays ==
    /\ tournament'.kind = tournament.kind
    /\ ~ Bracket => /\ tournament'.currentRound = tournament.currentRound
                    /\ DOMAIN matches' \subseteq DOMAIN matches

LEMMA OnlyNextRoundMakesMatches ==
    ASSUME TournamentIsARow, [Next]_vars PROVE \/ NextRound /\ tournament'.kind = tournament.kind
                                               \/ RoundStays
  <1>1. CASE \E p \in Players : Register(p) \/ AdminAdd(p) \/ Unregister(p) \/ AdminRemove(p) \/ CheckIn(p)
    <2>1. UNCHANGED <<tournament, matches>>
      BY <1>1 DEF Register, AdminAdd, Add, Unregister, AdminRemove, Delete, CheckIn
    <2> QED BY <2>1 DEF RoundStays
  <1>2. CASE OpenCheckIn \/ Cancel \/ Finish \/ Purge
    <2>1. PICK s : tournament' = [tournament EXCEPT !.status = s]
      BY <1>2 DEF OpenCheckIn, Cancel, Finish, Purge
    <2>2. DOMAIN matches' \subseteq DOMAIN matches
      BY <1>2 DEF OpenCheckIn, Cancel, Finish, Purge
    <2>3. tournament'.kind = tournament.kind /\ tournament'.currentRound = tournament.currentRound
      BY <2>1 DEF TournamentIsARow
    <2> QED BY <2>2, <2>3 DEF RoundStays
  <1>3. CASE Start
    <2>1. PICK planned : tournament' = [[tournament EXCEPT !.status = "RUNNING"] EXCEPT !.plannedRounds = planned]
      BY <1>3 DEF Start
    <2>2. tournament'.kind = tournament.kind /\ tournament'.currentRound = tournament.currentRound
      BY <2>1 DEF TournamentIsARow
    <2>3. ~ Bracket => UNCHANGED matches
      BY <1>3 DEF Start
    <2> QED BY <2>2, <2>3 DEF RoundStays
  <1>4. CASE NextRound
    <2>1. PICK round : tournament' = [tournament EXCEPT !.currentRound = round]
      BY <1>4 DEF NextRound
    <2> QED BY <1>4, <2>1 DEF TournamentIsARow
  <1>5. CASE NextWave
    <2>1. PICK next : tournament' = [tournament EXCEPT !.currentRound = next]
      BY <1>5 DEF NextWave
    <2>2. Bracket
      BY <1>5 DEF NextWave
    <2> QED BY <2>1, <2>2 DEF TournamentIsARow, RoundStays
  <1>6. CASE \E delta \in {-1, 1} : ChangeRounds(delta)
    <2>1. PICK planned : tournament' = [tournament EXCEPT !.plannedRounds = planned]
      BY <1>6 DEF ChangeRounds
    <2>2. UNCHANGED matches
      BY <1>6 DEF ChangeRounds
    <2> QED BY <2>1, <2>2 DEF TournamentIsARow, RoundStays
  <1>7. CASE Crash \/ UNCHANGED vars
    BY <1>7 DEF Crash, vars, RoundStays
  <1>8. ASSUME UNCHANGED tournament, ~ Bracket => DOMAIN matches' = DOMAIN matches PROVE RoundStays
    BY <1>8 DEF RoundStays
  <1>9. CASE \E p \in Players, b \in BOOLEAN : SetResult(p, b)
    <2>1. UNCHANGED tournament /\ (~ Bracket => DOMAIN matches' = DOMAIN matches)
      BY <1>9 DEF SetResult, DecidedAt
    <2> QED BY <1>8, <2>1
  <1>10. CASE \E p \in Players, b \in BOOLEAN : Reinvite(p, b)
    <2>1. UNCHANGED tournament /\ DOMAIN matches' = DOMAIN matches
      BY <1>10 DEF Reinvite
    <2> QED BY <1>8, <2>1
  <1>11. CASE \E p, q \in Players : BindLobby(p, q)
    <2>1. UNCHANGED tournament /\ DOMAIN matches' = DOMAIN matches
      BY <1>11 DEF BindLobby
    <2> QED BY <1>8, <2>1
  <1>12. CASE \E n \in games : NotPlayed(n)
    <2>1. UNCHANGED tournament /\ DOMAIN matches' = DOMAIN matches
      BY <1>12 DEF NotPlayed
    <2> QED BY <1>8, <2>1
  <1>13. CASE \E n \in games, p \in Players : GameWon(n, p)
    <2>1. UNCHANGED tournament /\ (~ Bracket => DOMAIN matches' = DOMAIN matches)
      BY <1>13 DEF GameWon, DecidedAt
    <2> QED BY <1>8, <2>1
  <1> QED BY <1>1, <1>2, <1>3, <1>4, <1>5, <1>6, <1>7, <1>9, <1>10, <1>11, <1>12, <1>13 DEF Next

SwissInv ==
    /\ ResultsInv
    /\ EnterOnce(entries)
    /\ ~ Bracket => IsFiniteSet(DOMAIN matches)

LEMMA EveryStepIsFair ==
    ASSUME SwissInv, [Next]_vars
    PROVE  SwissInv' /\ (~ Bracket /\ tournament'.currentRound # tournament.currentRound => RoundStep)
  <1>1. ResultsInv' /\ EnterOnce(entries')
    BY EveryStepKeepsResults, PlayersEnterOnce DEF SwissInv
  <1>2. CASE RoundStays
    <2>1. ASSUME ~ Bracket' PROVE IsFiniteSet(DOMAIN matches')
      BY <1>2, <2>1, FS_Subset DEF SwissInv, RoundStays, Bracket
    <2> QED BY <1>1, <1>2, <2>1 DEF SwissInv, RoundStays
  <1>3. CASE NextRound
    <2>1. ~ Bracket
      BY <1>3 DEF NextRound
    <2>2. RoundStep /\ IsFiniteSet(DOMAIN matches')
      BY <1>3, <2>1, NextRoundIsFair DEF SwissInv
    <2> QED BY <1>1, <2>2 DEF SwissInv
  <1> QED BY <1>2, <1>3, OnlyNextRoundMakesMatches DEF SwissInv, ResultsInv

(* TournamentRunService and Swiss: for any number of players, any draw of   *)
(* the first round and any results, a Swiss round gives each player not     *)
(* dropped one match and nobody else any, sits out at most one, who never   *)
(* did if somebody never did, and repeats no pair unless no pairing of      *)
(* those who play would avoid it, or the search gives up after its steps.   *)
THEOREM FairSwissRounds == Spec => SwissRoundsAreFair
  <1>1. Init => SwissInv
    <2> SUFFICES ASSUME Init PROVE SwissInv
      OBVIOUS
    <2>3. DOMAIN matches = {}
      BY DEF Init
    <2>1. ResultsInv
      BY <2>3, FS_EmptySet DEF Init, ResultsInv, TournamentIsARow, AreMatches, NoMatchBeforeTheStart, RoundsSoFar
    <2>2. EnterOnce(entries)
      BY DEF Init, EnterOnce
    <2> QED BY <2>1, <2>2, <2>3, FS_EmptySet DEF SwissInv
  <1>2. SwissInv /\ [Next]_vars => SwissInv'
    BY EveryStepIsFair
  <1>3. SwissInv /\ [Next]_vars => [FairRound]_vars
    BY EveryStepIsFair DEF FairRound, RoundStep, FairMatches
  <1> QED BY <1>1, <1>2, <1>3, PTL DEF Spec, SwissRoundsAreFair

-------------------------------------------------------------------------------
(* Brackets: what holds of their matches *)

(* The matches whose winner and loser go on by winnerGoes and loserGoes.    *)
Inner(e) == shape(e) \ {Final, Reset}

Opening(n) == n[1] = "WINNERS" /\ n[2] = 1

SlotOf(n, s) == [node |-> n, slot |-> s]

(* The defeats of who waits in a slot.                                      *)
Defeats(n, s) == IF n[1] = "WINNERS" \/ (n = Final /\ s = 0) THEN 0 ELSE 1

(* A slot in which somebody comes to stand, whatever the byes.              *)
Certain(e, n, s) ==
    \/ n[1] = "WINNERS" /\ (n[2] > 1 \/ s = 0 \/ levels(e) = 1)
    \/ n[1] = "LOSERS" /\ n[2] % 2 = 0 /\ s = 1
    \/ n = Final

(* Where a match leads: a slot of a later match, not filled at the start.   *)
LeadsOn(e, n, to) ==
    \E t \in shape(e) \ {Reset}, s \in {0, 1} :
        to = SlotOf(t, s) /\ ~ Opening(t) /\ wave(e, n) < wave(e, t)

(* The two brackets fit together: see the parts.                            *)
Wired(e) ==
    /\ \A n \in Inner(e) :
          /\ LeadsOn(e, n, winnerGoes(e, n))
          /\ loserGoes(e, n) = Out \/ LeadsOn(e, n, loserGoes(e, n))
    \* Each slot is filled from one match, once.
    /\ \A m, n \in Inner(e) :
          /\ winnerGoes(e, m) = winnerGoes(e, n) => m = n
          /\ loserGoes(e, m) = loserGoes(e, n) /\ loserGoes(e, m) # Out => m = n
          /\ winnerGoes(e, m) # loserGoes(e, n)
    \* Each slot is filled from some match.
    /\ \A t \in shape(e) \ {Reset}, s \in {0, 1} :
          ~ Opening(t) =>
             \E n \in Inner(e) : wave(e, n) < wave(e, t) /\ SlotOf(t, s) \in {winnerGoes(e, n), loserGoes(e, n)}
    \* The defeats of who goes on.
    /\ \A n \in Inner(e), s \in {0, 1} :
          LET up == winnerGoes(e, n)
              down == loserGoes(e, n)
          IN  /\ Defeats(up.node, up.slot) = Defeats(n, s)
              /\ IF down = Out THEN Defeats(n, s) = 1 ELSE Defeats(n, s) = 0 /\ Defeats(down.node, down.slot) = 1
    \* Who goes to a certain slot is somebody.
    /\ \A n \in Inner(e) :
          LET up == winnerGoes(e, n)
              down == loserGoes(e, n)
          IN  /\ Certain(e, up.node, up.slot) => Certain(e, n, 0) \/ Certain(e, n, 1)
              /\ down # Out /\ Certain(e, down.node, down.slot) => Certain(e, n, 0) /\ Certain(e, n, 1)

In(ms, n, s) == IF s = 0 THEN ms[n].player1 ELSE ms[n].player2
Done(ms, n) == ms[n].status = "DONE"
Lost(ms, p) == {n \in DOMAIN ms : Done(ms, n) /\ Involves(ms[n], p) /\ ms[n].winner # p}

(* The matches of the bracket of e entrants, as far as they are decided.    *)
BracketOf(ms, e) ==
    /\ DOMAIN ms = shape(e)
    /\ \A n \in shape(e) :
          /\ ms[n].wave = wave(e, n)
          /\ \A s \in {0, 1} : In(ms, n, s) \in Players \cup {null, NOBODY}
          /\ \A s \in {0, 1} : Opening(n) => In(ms, n, s) # null
          /\ \A s \in {0, 1} : Certain(e, n, s) => In(ms, n, s) # NOBODY
          /\ Done(ms, n) => /\ ms[n].player1 # null /\ ms[n].player2 # null
                            /\ ms[n].winner \in {ms[n].player1, ms[n].player2}
                            /\ ms[n].winner = NOBODY => ms[n].player1 = NOBODY /\ ms[n].player2 = NOBODY

(* A match is decided when its players have gone on; the reset final is     *)
(* between those of the grand final, or nobody's.                           *)
Goes(ms, e) ==
    /\ \A n \in Inner(e) :
          LET up == winnerGoes(e, n)
              down == loserGoes(e, n)
          IN  /\ Done(ms, n) <=> In(ms, up.node, up.slot) # null
              /\ down # Out => (Done(ms, n) <=> In(ms, down.node, down.slot) # null)
    /\ \A s \in {0, 1} : Done(ms, Final) <=> In(ms, Reset, s) # null
    /\ ms[Reset].player1 = NOBODY <=> ms[Reset].player2 = NOBODY
    /\ Done(ms, Final) => (ms[Final].winner = ms[Final].player1 <=> ms[Reset].player1 = NOBODY)

(* A player still to play, in this slot.                                    *)
Waits(ms, p, n, s) == n \in DOMAIN ms /\ s \in {0, 1} /\ ~ Done(ms, n) /\ In(ms, n, s) = p

Champion(ms, p) ==
    \/ Done(ms, Final) /\ ms[Final].winner = ms[Final].player1 /\ p = ms[Final].player1
    \/ Done(ms, Reset) /\ p = ms[Reset].winner

(* A player waits in one slot at most, with as many defeats as brought him  *)
(* there, and who waits in none was never in, is champion or lost twice.    *)
Stands(ms, p) ==
    /\ \A m, n \in DOMAIN ms, s, t \in {0, 1} : Waits(ms, p, m, s) /\ Waits(ms, p, n, t) => m = n /\ s = t
    /\ \A n \in DOMAIN ms, s \in {0, 1} : Waits(ms, p, n, s) => Cardinality(Lost(ms, p)) = Defeats(n, s)
    /\ Champion(ms, p) => /\ \A n \in DOMAIN ms, s \in {0, 1} : ~ Waits(ms, p, n, s)
                          /\ Cardinality(Lost(ms, p)) \in {0, 1}
    /\ \/ \A n \in DOMAIN ms : ~ Involves(ms[n], p)
       \/ \E n \in DOMAIN ms, s \in {0, 1} : Waits(ms, p, n, s)
       \/ Champion(ms, p)
       \/ Cardinality(Lost(ms, p)) = 2

BracketInv(ms, e) == BracketOf(ms, e) /\ Goes(ms, e) /\ \A p \in Players : Stands(ms, p)

-------------------------------------------------------------------------------
(* The places of a bracket of k levels: in each round of the winners half   *)
(* as many as in the last; in the losers bracket the rounds go in pairs of  *)
(* the same size, an odd one and an even one.                               *)
IsWinners(k, n, r, p) == r \in 1..k /\ p \in Nat /\ p < 2^(k - r) /\ n = <<"WINNERS", r, p>>
IsOdd(k, n, j, p)  == j \in 1..(k - 1) /\ p \in Nat /\ p < 2^(k - 1 - j) /\ n = <<"LOSERS", 2 * j - 1, p>>
IsEven(k, n, j, p) == j \in 1..(k - 1) /\ p \in Nat /\ p < 2^(k - 1 - j) /\ n = <<"LOSERS", 2 * j, p>>

IsInner(k, n) == \E j, p \in Nat : IsWinners(k, n, j, p) \/ IsOdd(k, n, j, p) \/ IsEven(k, n, j, p)

LEMMA RoundsHalve ==
    ASSUME NEW k \in Nat, NEW j \in Nat
    PROVE  /\ j <= k => 2^k \div 2^j = 2^(k - j) /\ 2^(k - j) \in Nat /\ 2^(k - j) >= 1
           /\ j < k  => 2^(k - j) = 2 * 2^(k - (j + 1)) /\ 2^(k - (j + 1)) \in Nat
  <1>1. CASE j <= k
    <2>1. k - j \in Nat /\ (k - j) + j = k
      BY <1>1
    <2>2. 2^k \div 2^j = 2^(k - j)
      BY <2>1, Quotients
    <2>3. 2^(k - j) \in Nat /\ 2^(k - j) > k - j
      BY <2>1, PowersOfTwo
    <2>4. CASE j < k
      <3>1. k - (j + 1) \in Nat /\ (k - (j + 1)) + 1 = k - j
        BY <2>4
      <3>2. 2^((k - (j + 1)) + 1) = 2 * 2^(k - (j + 1)) /\ 2^(k - (j + 1)) \in Nat
        BY <3>1, PowersOfTwo
      <3> QED BY <2>1, <2>2, <2>3, <3>1, <3>2
    <2> QED BY <2>1, <2>2, <2>3, <2>4
  <1> QED BY <1>1

LEMMA InnerMatches ==
    ASSUME NEW e \in Nat, e >= 2, NEW n
    PROVE  n \in Inner(e) <=> IsInner(levels(e), n)
  <1> DEFINE k == levels(e)
             count(l) == 2^k \div 2^((l + 1) \div 2 + 1)
             winners == UNION {{<<"WINNERS", r, p>> : p \in 0..(2^k \div 2^r - 1)} : r \in 1..k}
             losers == UNION {{<<"LOSERS", l, p>> : p \in 0..(count(l) - 1)} : l \in 1..(2 * (k - 1))}
  <1>1. k \in Nat /\ k >= 1
    BY LevelsFit
  <1>2. n \in Inner(e) <=> n \in winners \cup losers
    <2>1. shape(e) = winners \cup losers \cup {Final, Reset}
      BY DEF shape, losersMatches
    <2>2. ~ (Final \in winners \cup losers) /\ ~ (Reset \in winners \cup losers)
      BY DEF Final, Reset
    <2> HIDE DEF winners, losers
    <2> QED BY <2>1, <2>2 DEF Inner
  <1> HIDE DEF k
  <1>3. n \in winners <=> \E r, p \in Nat : IsWinners(k, n, r, p)
    <2>1. ASSUME NEW r \in 1..k PROVE 2^k \div 2^r = 2^(k - r) /\ 2^(k - r) \in Nat
      BY <1>1, <2>1, RoundsHalve
    <2>2. n \in winners <=> \E r \in 1..k : \E p \in 0..(2^(k - r) - 1) : n = <<"WINNERS", r, p>>
      BY <2>1
    <2> HIDE DEF winners
    <2>3. ASSUME n \in winners PROVE \E r, p \in Nat : IsWinners(k, n, r, p)
      <3>1. PICK r \in 1..k : \E p \in 0..(2^(k - r) - 1) : n = <<"WINNERS", r, p>>
        BY <2>2, <2>3
      <3>2. PICK p \in 0..(2^(k - r) - 1) : n = <<"WINNERS", r, p>>
        BY <3>1
      <3>3. p \in Nat /\ p < 2^(k - r) /\ r \in Nat
        BY <1>1, <2>1
      <3> QED BY <3>2, <3>3 DEF IsWinners
    <2>4. ASSUME NEW r \in Nat, NEW p \in Nat, IsWinners(k, n, r, p) PROVE n \in winners
      <3>1. r \in 1..k /\ p < 2^(k - r) /\ n = <<"WINNERS", r, p>>
        BY <2>4 DEF IsWinners
      <3>2. p \in 0..(2^(k - r) - 1)
        BY <2>1, <3>1
      <3> QED BY <2>2, <3>1, <3>2
    <2> QED BY <2>3, <2>4
  <1>4. n \in losers <=> \E j, p \in Nat : IsOdd(k, n, j, p) \/ IsEven(k, n, j, p)
    <2>1. ASSUME NEW j \in 1..(k - 1)
          PROVE  /\ count(2 * j - 1) = 2^(k - 1 - j) /\ count(2 * j) = 2^(k - 1 - j) /\ 2^(k - 1 - j) \in Nat
                 /\ 2 * j - 1 \in 1..(2 * (k - 1)) /\ 2 * j \in 1..(2 * (k - 1))
      <3>1. ((2 * j - 1) + 1) \div 2 + 1 = j + 1 /\ (2 * j + 1) \div 2 + 1 = j + 1
        OBVIOUS
      <3>2. j + 1 \in Nat /\ j + 1 <= k /\ k - (j + 1) = k - 1 - j
        BY <1>1
      <3>3. 2^k \div 2^(j + 1) = 2^(k - 1 - j) /\ 2^(k - 1 - j) \in Nat
        BY <1>1, <3>2, RoundsHalve
      <3>4. 2 * j - 1 \in 1..(2 * (k - 1)) /\ 2 * j \in 1..(2 * (k - 1))
        BY <1>1
      <3> QED BY <3>1, <3>3, <3>4
    <2> HIDE DEF count
    <2>2. ASSUME n \in losers PROVE \E j, p \in Nat : IsOdd(k, n, j, p) \/ IsEven(k, n, j, p)
      <3>1. PICK l \in 1..(2 * (k - 1)) : \E p \in 0..(count(l) - 1) : n = <<"LOSERS", l, p>>
        BY <2>2
      <3>2. PICK p \in 0..(count(l) - 1) : n = <<"LOSERS", l, p>>
        BY <3>1
      <3>3. \E j \in 1..(k - 1) : l = 2 * j - 1 \/ l = 2 * j
        <4>1. (l + 1) \div 2 \in 1..(k - 1) /\ (l = 2 * ((l + 1) \div 2) - 1 \/ l = 2 * ((l + 1) \div 2))
          BY <1>1
        <4> QED BY <4>1
      <3>4. PICK j \in 1..(k - 1) : l = 2 * j - 1 \/ l = 2 * j
        BY <3>3
      <3>5. j \in Nat /\ p \in Nat /\ p < 2^(k - 1 - j)
        BY <1>1, <2>1, <3>4
      <3> QED BY <3>2, <3>4, <3>5 DEF IsOdd, IsEven
    <2>3. ASSUME NEW j \in Nat, NEW p \in Nat, IsOdd(k, n, j, p) PROVE n \in losers
      <3>1. j \in 1..(k - 1) /\ p < 2^(k - 1 - j) /\ n = <<"LOSERS", 2 * j - 1, p>>
        BY <2>3 DEF IsOdd
      <3>2. 2 * j - 1 \in 1..(2 * (k - 1)) /\ p \in 0..(count(2 * j - 1) - 1)
        BY <2>1, <3>1
      <3> QED BY <3>1, <3>2
    <2>4. ASSUME NEW j \in Nat, NEW p \in Nat, IsEven(k, n, j, p) PROVE n \in losers
      <3>1. j \in 1..(k - 1) /\ p < 2^(k - 1 - j) /\ n = <<"LOSERS", 2 * j, p>>
        BY <2>4 DEF IsEven
      <3>2. 2 * j \in 1..(2 * (k - 1)) /\ p \in 0..(count(2 * j) - 1)
        BY <2>1, <3>1
      <3> QED BY <3>1, <3>2
    <2> HIDE DEF losers
    <2> QED BY <2>2, <2>3, <2>4
  <1> HIDE DEF winners, losers
  <1> QED BY <1>2, <1>3, <1>4 DEF IsInner, k

LEMMA HalfOf ==
    ASSUME NEW p \in Nat, NEW m \in Nat, p < 2 * m
    PROVE  /\ p \div 2 \in Nat /\ p \div 2 < m /\ p % 2 \in {0, 1} /\ p = 2 * (p \div 2) + (p % 2)
  OBVIOUS

(* Where the winner and the loser of a match of the winners bracket go.     *)
WinnersRoute(e, k, n, r, p) ==
    /\ r < k => /\ winnerGoes(e, n) = SlotOf(<<"WINNERS", r + 1, p \div 2>>, p % 2)
                /\ IsWinners(k, <<"WINNERS", r + 1, p \div 2>>, r + 1, p \div 2)
    /\ r >= k => winnerGoes(e, n) = SlotOf(Final, 0) /\ r = k /\ p = 0
    /\ k = 1 => loserGoes(e, n) = SlotOf(Final, 1)
    /\ k > 1 /\ r = 1 => /\ loserGoes(e, n) = SlotOf(<<"LOSERS", 1, p \div 2>>, p % 2)
                         /\ IsOdd(k, <<"LOSERS", 1, p \div 2>>, 1, p \div 2)
    /\ r > 1 => /\ loserGoes(e, n) = SlotOf(<<"LOSERS", 2 * (r - 1), 2^(k - r) - 1 - p>>, 1)
                /\ IsEven(k, <<"LOSERS", 2 * (r - 1), 2^(k - r) - 1 - p>>, r - 1, 2^(k - r) - 1 - p)

LEMMA WinnersGo ==
    ASSUME NEW e \in Nat, e >= 2, NEW n, NEW r \in Nat, NEW p \in Nat, NEW k \in Nat, k = levels(e),
           IsWinners(k, n, r, p)
    PROVE  WinnersRoute(e, k, n, r, p)
  <1>1. /\ r \in 1..k /\ p < 2^(k - r) /\ n = <<"WINNERS", r, p>>
        /\ n[1] = "WINNERS" /\ n[2] = r /\ n[3] = p
    BY DEF IsWinners
  <1>2. ASSUME r < k
        PROVE  /\ winnerGoes(e, n) = SlotOf(<<"WINNERS", r + 1, p \div 2>>, p % 2)
               /\ IsWinners(k, <<"WINNERS", r + 1, p \div 2>>, r + 1, p \div 2)
    <2>1. p < 2 * 2^(k - (r + 1)) /\ 2^(k - (r + 1)) \in Nat
      BY <1>1, <1>2, RoundsHalve
    <2>2. p \div 2 \in Nat /\ p \div 2 < 2^(k - (r + 1))
      BY <2>1, HalfOf
    <2>3. r + 1 \in 1..k
      BY <1>1, <1>2
    <2>4. winnerGoes(e, n) = SlotOf(<<"WINNERS", r + 1, p \div 2>>, p % 2)
      BY <1>1, <1>2 DEF winnerGoes, To, SlotOf
    <2> QED BY <2>2, <2>3, <2>4 DEF IsWinners
  <1>3. ASSUME r >= k PROVE winnerGoes(e, n) = SlotOf(Final, 0) /\ r = k /\ p = 0
    <2>1. r = k /\ k - r = 0
      BY <1>1, <1>3
    <2>2. p < 2^0 /\ 2^0 = 1
      BY <1>1, <2>1, PowersOfTwo
    <2>3. winnerGoes(e, n) = SlotOf(Final, 0)
      BY <1>1, <2>1 DEF winnerGoes, To, SlotOf, Final
    <2> QED BY <2>1, <2>2, <2>3
  <1>4. ASSUME k = 1 PROVE loserGoes(e, n) = SlotOf(Final, 1)
    BY <1>1, <1>4 DEF loserGoes, To, SlotOf, Final
  <1>5. ASSUME k > 1, r = 1
        PROVE  /\ loserGoes(e, n) = SlotOf(<<"LOSERS", 1, p \div 2>>, p % 2)
               /\ IsOdd(k, <<"LOSERS", 1, p \div 2>>, 1, p \div 2)
    <2>1. p < 2 * 2^(k - (1 + 1)) /\ 2^(k - (1 + 1)) \in Nat /\ k - (1 + 1) = k - 1 - 1
      BY <1>1, <1>5, RoundsHalve
    <2>2. p \div 2 \in Nat /\ p \div 2 < 2^(k - 1 - 1)
      BY <2>1, HalfOf
    <2>3. 1 \in 1..(k - 1) /\ 2 * 1 - 1 = 1
      BY <1>5
    <2>4. loserGoes(e, n) = SlotOf(<<"LOSERS", 1, p \div 2>>, p % 2)
      BY <1>1, <1>5 DEF loserGoes, To, SlotOf
    <2> QED BY <2>2, <2>3, <2>4 DEF IsOdd
  <1>6. ASSUME r > 1
        PROVE  /\ loserGoes(e, n) = SlotOf(<<"LOSERS", 2 * (r - 1), 2^(k - r) - 1 - p>>, 1)
               /\ IsEven(k, <<"LOSERS", 2 * (r - 1), 2^(k - r) - 1 - p>>, r - 1, 2^(k - r) - 1 - p)
    <2>1. 2^k \div 2^r = 2^(k - r) /\ 2^(k - r) \in Nat
      BY <1>1, RoundsHalve
    <2>2. k - 1 - (r - 1) = k - r /\ r - 1 \in 1..(k - 1) /\ k > 1 /\ k # 1 /\ r # 1
      BY <1>1, <1>6
    <2>3. 2^(k - r) - 1 - p \in Nat /\ 2^(k - r) - 1 - p < 2^(k - r)
      BY <1>1, <2>1
    <2>4. loserGoes(e, n) = SlotOf(<<"LOSERS", 2 * (r - 1), 2^(k - r) - 1 - p>>, 1)
      BY <1>1, <2>1, <2>2 DEF loserGoes, To, SlotOf
    <2> QED BY <2>2, <2>3, <2>4 DEF IsEven
  <1> QED BY <1>2, <1>3, <1>4, <1>5, <1>6 DEF WinnersRoute

(* And in the losers bracket, where a defeat is the last.                   *)
LosersRoute(e, k, n, j, p) ==
    /\ IsOdd(k, n, j, p) => /\ winnerGoes(e, n) = SlotOf(<<"LOSERS", 2 * j, p>>, 0)
                            /\ IsEven(k, <<"LOSERS", 2 * j, p>>, j, p)
                            /\ loserGoes(e, n) = Out
    /\ IsEven(k, n, j, p) /\ j < k - 1 =>
          /\ winnerGoes(e, n) = SlotOf(<<"LOSERS", 2 * (j + 1) - 1, p \div 2>>, p % 2)
          /\ IsOdd(k, <<"LOSERS", 2 * (j + 1) - 1, p \div 2>>, j + 1, p \div 2)
          /\ loserGoes(e, n) = Out
    /\ IsEven(k, n, j, p) /\ j >= k - 1 =>
          winnerGoes(e, n) = SlotOf(Final, 1) /\ j = k - 1 /\ p = 0 /\ loserGoes(e, n) = Out

LEMMA LosersGo ==
    ASSUME NEW e \in Nat, e >= 2, NEW n, NEW j \in Nat, NEW p \in Nat, NEW k \in Nat, k = levels(e)
    PROVE  LosersRoute(e, k, n, j, p)
  <1>1. ASSUME IsOdd(k, n, j, p)
        PROVE  /\ winnerGoes(e, n) = SlotOf(<<"LOSERS", 2 * j, p>>, 0)
               /\ IsEven(k, <<"LOSERS", 2 * j, p>>, j, p)
               /\ loserGoes(e, n) = Out
    <2>1. /\ j \in 1..(k - 1) /\ p < 2^(k - 1 - j)
          /\ n[1] = "LOSERS" /\ n[2] = 2 * j - 1 /\ n[3] = p
      BY <1>1 DEF IsOdd
    <2>2. n[2] # 2 * (k - 1) /\ n[2] % 2 = 1 /\ n[2] + 1 = 2 * j
      BY <2>1
    <2>3. loserGoes(e, n) = Out
      BY <2>1 DEF loserGoes
    <2>4. winnerGoes(e, n) = SlotOf(<<"LOSERS", 2 * j, p>>, 0)
      BY <2>1, <2>2 DEF winnerGoes, To, SlotOf
    <2> QED BY <2>1, <2>3, <2>4 DEF IsEven
  <1>2. ASSUME IsEven(k, n, j, p)
        PROVE  /\ j \in 1..(k - 1) /\ p < 2^(k - 1 - j)
               /\ n[1] = "LOSERS" /\ n[2] = 2 * j /\ n[3] = p
               /\ loserGoes(e, n) = Out
    <2>1. /\ j \in 1..(k - 1) /\ p < 2^(k - 1 - j)
          /\ n[1] = "LOSERS" /\ n[2] = 2 * j /\ n[3] = p
      BY <1>2 DEF IsEven
    <2> QED BY <2>1 DEF loserGoes
  <1>3. ASSUME IsEven(k, n, j, p), j < k - 1
        PROVE  /\ winnerGoes(e, n) = SlotOf(<<"LOSERS", 2 * (j + 1) - 1, p \div 2>>, p % 2)
               /\ IsOdd(k, <<"LOSERS", 2 * (j + 1) - 1, p \div 2>>, j + 1, p \div 2)
    <2>1. n[2] # 2 * (k - 1) /\ n[2] % 2 = 0 /\ n[2] % 2 # 1 /\ n[2] + 1 = 2 * (j + 1) - 1
      BY <1>2, <1>3
    <2>2. p < 2 * 2^(k - 1 - (j + 1)) /\ 2^(k - 1 - (j + 1)) \in Nat
      BY <1>2, <1>3, RoundsHalve
    <2>3. p \div 2 \in Nat /\ p \div 2 < 2^(k - 1 - (j + 1))
      BY <2>2, HalfOf
    <2>4. winnerGoes(e, n) = SlotOf(<<"LOSERS", 2 * (j + 1) - 1, p \div 2>>, p % 2)
      BY <1>2, <1>3, <2>1 DEF winnerGoes, To, SlotOf
    <2>5. j + 1 \in 1..(k - 1)
      BY <1>2, <1>3
    <2> QED BY <2>3, <2>4, <2>5 DEF IsOdd
  <1>4. ASSUME IsEven(k, n, j, p), j >= k - 1
        PROVE  winnerGoes(e, n) = SlotOf(Final, 1) /\ j = k - 1 /\ p = 0
    <2>1. j = k - 1 /\ k - 1 - j = 0
      BY <1>2, <1>4
    <2>2. p < 2^0 /\ 2^0 = 1
      BY <1>2, <1>4, <2>1, PowersOfTwo
    <2>3. winnerGoes(e, n) = SlotOf(Final, 1)
      BY <1>2, <1>4, <2>1 DEF winnerGoes, To, SlotOf, Final
    <2> QED BY <2>1, <2>2, <2>3
  <1> QED BY <1>1, <1>2, <1>3, <1>4 DEF LosersRoute

WavesAre(e, k, n, j, p) ==
    /\ IsWinners(k, n, j, p) => wave(e, n) = IF j = 1 THEN 1 ELSE 2 * j - 2
    /\ IsOdd(k, n, j, p) => wave(e, n) = 2 * j
    /\ IsEven(k, n, j, p) => wave(e, n) = 2 * j + 1
    /\ wave(e, Final) = IF k = 1 THEN 2 ELSE 2 * k
    /\ wave(e, Reset) = wave(e, Final) + 1 /\ waves(e) = wave(e, Reset)

LEMMA Waves ==
    ASSUME NEW e \in Nat, e >= 2, NEW n, NEW j \in Nat, NEW p \in Nat, NEW k \in Nat, k = levels(e)
    PROVE  WavesAre(e, k, n, j, p)
  <1>1. ASSUME IsWinners(k, n, j, p) PROVE wave(e, n) = IF j = 1 THEN 1 ELSE 2 * j - 2
    <2>1. n[1] = "WINNERS" /\ n[2] = j
      BY <1>1 DEF IsWinners
    <2> QED BY <2>1 DEF wave, Final
  <1>2. ASSUME n[1] = "LOSERS" PROVE wave(e, n) = n[2] + 1
    BY <1>2 DEF wave, Final
  <1>3. ASSUME IsOdd(k, n, j, p) PROVE wave(e, n) = 2 * j
    <2>1. n[1] = "LOSERS" /\ n[2] = 2 * j - 1
      BY <1>3 DEF IsOdd
    <2> QED BY <1>2, <2>1
  <1>4. ASSUME IsEven(k, n, j, p) PROVE wave(e, n) = 2 * j + 1
    <2>1. n[1] = "LOSERS" /\ n[2] = 2 * j
      BY <1>4 DEF IsEven
    <2> QED BY <1>2, <2>1
  <1>5. wave(e, Final) = IF k = 1 THEN 2 ELSE 2 * k
    <2>1. Final[1] = "FINAL"
      BY DEF Final
    <2> QED BY <2>1 DEF wave, finalWave
  <1>6. wave(e, Reset) = wave(e, Final) + 1 /\ waves(e) = wave(e, Reset)
    <2>1. Reset[1] = "RESET" /\ Reset # Final
      BY DEF Final, Reset
    <2>2. wave(e, Reset) = waves(e)
      BY <2>1 DEF wave
    <2> QED BY <1>5, <2>2 DEF waves, finalWave
  <1> QED BY <1>1, <1>3, <1>4, <1>5, <1>6 DEF WavesAre

LEMMA InnerKinds ==
    ASSUME NEW e \in Nat, e >= 2, NEW n, NEW j \in Nat, NEW p \in Nat, NEW k \in Nat, k = levels(e),
           IsWinners(k, n, j, p) \/ IsOdd(k, n, j, p) \/ IsEven(k, n, j, p)
    PROVE  n \in Inner(e) /\ n \in shape(e) \ {Reset}
  BY InnerMatches DEF IsInner, Inner

LEMMA FinalsThere ==
    ASSUME NEW e PROVE Final \in shape(e) \ {Reset} /\ Reset \in shape(e) /\ ~ Opening(Final) /\ ~ Opening(Reset)
  BY DEF shape, Final, Reset, Opening

LEMMA AllLeadOn ==
    ASSUME NEW e \in Nat, e >= 2, NEW n \in Inner(e), NEW k \in Nat, k = levels(e), k >= 1
    PROVE  /\ LeadsOn(e, n, winnerGoes(e, n))
           /\ loserGoes(e, n) = Out \/ LeadsOn(e, n, loserGoes(e, n))
  <1>2. PICK j \in Nat, p \in Nat : IsWinners(k, n, j, p) \/ IsOdd(k, n, j, p) \/ IsEven(k, n, j, p)
    BY InnerMatches DEF IsInner
  <1>w. WavesAre(e, k, n, j, p)
    BY Waves
  <1>r. WinnersRoute(e, k, n, j, p) \/ ~ IsWinners(k, n, j, p)
    BY WinnersGo
  <1>l. LosersRoute(e, k, n, j, p)
    BY LosersGo
  <1>3. /\ wave(e, Final) = IF k = 1 THEN 2 ELSE 2 * k
        /\ Final \in shape(e) \ {Reset} /\ ~ Opening(Final)
    BY <1>w, FinalsThere DEF WavesAre
  <1>4. CASE IsWinners(k, n, j, p)
    <2>1. j \in 1..k /\ wave(e, n) = IF j = 1 THEN 1 ELSE 2 * j - 2
      BY <1>4, <1>w DEF IsWinners, WavesAre
    <2>2. LeadsOn(e, n, winnerGoes(e, n))
      <3>1. CASE j < k
        <4> DEFINE t == <<"WINNERS", j + 1, p \div 2>>
                   s == p % 2
        <4>1. winnerGoes(e, n) = SlotOf(t, s) /\ IsWinners(k, t, j + 1, p \div 2)
          BY <1>4, <1>r, <3>1 DEF WinnersRoute
        <4>2. j + 1 \in Nat /\ p \div 2 \in Nat /\ s \in {0, 1} /\ j + 1 # 1 /\ ~ Opening(t)
          BY <2>1 DEF Opening
        <4> HIDE DEF t, s
        <4>3. t \in shape(e) \ {Reset} /\ wave(e, t) = 2 * (j + 1) - 2
          <5>1. WavesAre(e, k, t, j + 1, p \div 2)
            BY <4>2, Waves
          <5> QED BY <4>1, <4>2, <5>1, InnerKinds DEF WavesAre
        <4>4. wave(e, n) < wave(e, t)
          BY <2>1, <4>3
        <4> QED BY <4>1, <4>2, <4>3, <4>4 DEF LeadsOn
      <3>2. CASE j >= k
        <4>1. winnerGoes(e, n) = SlotOf(Final, 0) /\ j = k
          BY <1>4, <1>r, <3>2 DEF WinnersRoute
        <4>2. wave(e, n) < wave(e, Final)
          BY <1>3, <2>1, <4>1
        <4> QED BY <1>3, <4>1, <4>2 DEF LeadsOn
      <3> QED BY <3>1, <3>2
    <2>3. LeadsOn(e, n, loserGoes(e, n))
      <3>1. CASE k = 1
        <4>1. loserGoes(e, n) = SlotOf(Final, 1)
          BY <1>4, <1>r, <3>1 DEF WinnersRoute
        <4>2. wave(e, n) < wave(e, Final)
          BY <1>3, <2>1, <3>1
        <4> QED BY <1>3, <4>1, <4>2 DEF LeadsOn
      <3>2. CASE k > 1 /\ j = 1
        <4> DEFINE t == <<"LOSERS", 1, p \div 2>>
                   s == p % 2
        <4>1. loserGoes(e, n) = SlotOf(t, s) /\ IsOdd(k, t, 1, p \div 2)
          BY <1>4, <1>r, <3>2 DEF WinnersRoute
        <4>2. p \div 2 \in Nat /\ s \in {0, 1} /\ ~ Opening(t)
          BY DEF Opening
        <4> HIDE DEF t, s
        <4>3. t \in shape(e) \ {Reset} /\ wave(e, t) = 2
          <5>1. WavesAre(e, k, t, 1, p \div 2)
            BY <4>2, Waves
          <5> QED BY <4>1, <4>2, <5>1, InnerKinds DEF WavesAre
        <4>4. wave(e, n) < wave(e, t)
          BY <2>1, <3>2, <4>3
        <4> QED BY <4>1, <4>2, <4>3, <4>4 DEF LeadsOn
      <3>3. CASE j > 1
        <4> DEFINE q == 2^(k - j) - 1 - p
                   t == <<"LOSERS", 2 * (j - 1), q>>
        <4>1. loserGoes(e, n) = SlotOf(t, 1) /\ IsEven(k, t, j - 1, q)
          BY <1>4, <1>r, <3>3 DEF WinnersRoute
        <4>2. j - 1 \in Nat /\ ~ Opening(t)
          BY <3>3 DEF Opening
        <4> HIDE DEF t, q
        <4>3. q \in Nat
          BY <4>1 DEF IsEven
        <4>4. t \in shape(e) \ {Reset} /\ wave(e, t) = 2 * (j - 1) + 1
          <5>1. WavesAre(e, k, t, j - 1, q)
            BY <4>2, <4>3, Waves
          <5> QED BY <4>1, <4>2, <4>3, <5>1, InnerKinds DEF WavesAre
        <4>5. wave(e, n) < wave(e, t)
          BY <2>1, <3>3, <4>4
        <4> QED BY <4>1, <4>2, <4>4, <4>5 DEF LeadsOn
      <3> QED BY <2>1, <3>1, <3>2, <3>3
    <2> QED BY <2>2, <2>3
  <1>5. CASE IsOdd(k, n, j, p)
    <2> DEFINE t == <<"LOSERS", 2 * j, p>>
    <2>1. winnerGoes(e, n) = SlotOf(t, 0) /\ IsEven(k, t, j, p) /\ loserGoes(e, n) = Out
      BY <1>5, <1>l DEF LosersRoute
    <2>2. ~ Opening(t)
      BY DEF Opening
    <2> HIDE DEF t
    <2>3. t \in shape(e) \ {Reset} /\ wave(e, t) = 2 * j + 1 /\ wave(e, n) = 2 * j
      <3>1. WavesAre(e, k, t, j, p)
        BY Waves
      <3> QED BY <1>5, <1>w, <2>1, <3>1, InnerKinds DEF WavesAre
    <2> QED BY <2>1, <2>2, <2>3 DEF LeadsOn
  <1>6. CASE IsEven(k, n, j, p)
    <2>1. j \in 1..(k - 1) /\ wave(e, n) = 2 * j + 1
      BY <1>6, <1>w DEF IsEven, WavesAre
    <2>2. CASE j < k - 1
      <3> DEFINE t == <<"LOSERS", 2 * (j + 1) - 1, p \div 2>>
                 s == p % 2
      <3>1. winnerGoes(e, n) = SlotOf(t, s) /\ IsOdd(k, t, j + 1, p \div 2) /\ loserGoes(e, n) = Out
        BY <1>6, <1>l, <2>2 DEF LosersRoute
      <3>2. j + 1 \in Nat /\ p \div 2 \in Nat /\ s \in {0, 1} /\ ~ Opening(t)
        BY DEF Opening
      <3> HIDE DEF t, s
      <3>3. t \in shape(e) \ {Reset} /\ wave(e, t) = 2 * (j + 1)
        <4>1. WavesAre(e, k, t, j + 1, p \div 2)
          BY <3>2, Waves
        <4> QED BY <3>1, <3>2, <4>1, InnerKinds DEF WavesAre
      <3>4. wave(e, n) < wave(e, t)
        BY <2>1, <3>3
      <3> QED BY <3>1, <3>2, <3>3, <3>4 DEF LeadsOn
    <2>3. CASE j >= k - 1
      <3>1. winnerGoes(e, n) = SlotOf(Final, 1) /\ j = k - 1 /\ loserGoes(e, n) = Out
        BY <1>6, <1>l, <2>3 DEF LosersRoute
      <3>2. wave(e, n) < wave(e, Final)
        BY <1>3, <2>1, <3>1
      <3> QED BY <1>3, <3>1, <3>2 DEF LeadsOn
    <2> QED BY <2>2, <2>3
  <1> QED BY <1>2, <1>4, <1>5, <1>6

-------------------------------------------------------------------------------
(* Where the slots are filled from *)

(* The match that fills a slot, and whether it is the winner who comes.     *)
Source(k, t, s) ==
    LET winnerOf(round, position) == [from |-> <<"WINNERS", round, position>>, won |-> TRUE]
        loserOf(round, position) == [from |-> <<"WINNERS", round, position>>, won |-> FALSE]
        survivorOf(round, position) == [from |-> <<"LOSERS", round, position>>, won |-> TRUE]
    IN  IF t[1] = "WINNERS" THEN winnerOf(t[2] - 1, 2 * t[3] + s)
        ELSE IF t[1] = "LOSERS"
        THEN IF t[2] = 1 THEN loserOf(1, 2 * t[3] + s)
             ELSE IF t[2] % 2 = 1 THEN survivorOf(t[2] - 1, 2 * t[3] + s)
             ELSE IF s = 0 THEN survivorOf(t[2] - 1, t[3])
             ELSE loserOf((t[2] \div 2) + 1, 2^(k - ((t[2] \div 2) + 1)) - 1 - t[3])
        ELSE IF s = 0 THEN winnerOf(k, 0)
        ELSE IF k = 1 THEN loserOf(1, 0)
        ELSE survivorOf(2 * (k - 1), 0)

(* What a match hands on: its place to the slots it fills, the defeats of   *)
(* who goes there, and, to a certain slot, somebody.                        *)
Passes(e, n) ==
    LET up == winnerGoes(e, n)
        down == loserGoes(e, n)
        k == levels(e)
    IN  /\ Source(k, up.node, up.slot) = [from |-> n, won |-> TRUE]
        /\ down # Out => Source(k, down.node, down.slot) = [from |-> n, won |-> FALSE]
        /\ \A s \in {0, 1} :
              /\ Defeats(up.node, up.slot) = Defeats(n, s)
              /\ IF down = Out THEN Defeats(n, s) = 1 ELSE Defeats(n, s) = 0 /\ Defeats(down.node, down.slot) = 1
        /\ Certain(e, up.node, up.slot) => Certain(e, n, 0) \/ Certain(e, n, 1)
        /\ down # Out /\ Certain(e, down.node, down.slot) => Certain(e, n, 0) /\ Certain(e, n, 1)

LEMMA SlotParts == ASSUME NEW t, NEW s PROVE SlotOf(t, s).node = t /\ SlotOf(t, s).slot = s /\ SlotOf(t, s) # Out
  BY DEF SlotOf, Out

LEMMA DefeatsBefore ==
    ASSUME NEW n, NEW s
    PROVE  /\ n[1] = "WINNERS" => Defeats(n, s) = 0
           /\ n[1] = "LOSERS" => Defeats(n, s) = 1
           /\ Defeats(Final, 0) = 0 /\ Defeats(Final, 1) = 1
  BY DEF Defeats, Final

LEMMA WinnersPass ==
    ASSUME NEW e \in Nat, e >= 2, NEW n, NEW k \in Nat, k = levels(e), k >= 1, NEW r \in Nat, NEW p \in Nat,
           IsWinners(k, n, r, p)
    PROVE  Passes(e, n)
  <1> DEFINE up == winnerGoes(e, n)
             down == loserGoes(e, n)
  <1>1. WinnersRoute(e, k, n, r, p)
    BY WinnersGo
  <1>2. r \in 1..k /\ n = <<"WINNERS", r, p>> /\ n[1] = "WINNERS" /\ n[2] = r
    BY DEF IsWinners
  <1>3. p % 2 \in {0, 1} /\ 2 * (p \div 2) + (p % 2) = p
    OBVIOUS
  <1>4. \A s \in {0, 1} : Defeats(n, s) = 0
    BY <1>2, DefeatsBefore
  <1>5. Certain(e, n, 0) /\ (r > 1 \/ k = 1 => Certain(e, n, 1))
    BY <1>2 DEF Certain
  <1>6. /\ Source(k, up.node, up.slot) = [from |-> n, won |-> TRUE]
        /\ Defeats(up.node, up.slot) = 0
    <2>1. CASE r < k
      <3> DEFINE t == <<"WINNERS", r + 1, p \div 2>>
      <3>1. up.node = t /\ up.slot = p % 2
        BY <1>1, <2>1, SlotParts DEF WinnersRoute
      <3>2. t[1] = "WINNERS" /\ t[2] - 1 = r /\ 2 * t[3] + (p % 2) = p
        BY <1>3
      <3> HIDE DEF up, t
      <3>3. Source(k, t, p % 2) = [from |-> n, won |-> TRUE]
        BY <1>2, <3>2 DEF Source
      <3> QED BY <3>1, <3>2, <3>3, DefeatsBefore
    <2>2. CASE r >= k
      <3>1. up.node = Final /\ up.slot = 0 /\ r = k /\ p = 0
        BY <1>1, <2>2, SlotParts DEF WinnersRoute
      <3> HIDE DEF up
      <3>2. Source(k, Final, 0) = [from |-> n, won |-> TRUE]
        BY <1>2, <3>1 DEF Source, Final
      <3> QED BY <3>1, <3>2, DefeatsBefore
    <2> QED BY <1>2, <2>1, <2>2
  <1>7. /\ down # Out
        /\ Source(k, down.node, down.slot) = [from |-> n, won |-> FALSE]
        /\ Defeats(down.node, down.slot) = 1
        /\ Certain(e, down.node, down.slot) => r > 1 \/ k = 1
    <2>1. CASE k = 1
      <3>1. down # Out /\ down.node = Final /\ down.slot = 1 /\ r = 1 /\ p = 0
        <4>1. down = SlotOf(Final, 1)
          BY <1>1, <2>1 DEF WinnersRoute
        <4>2. r >= k /\ r = 1
          BY <1>2, <2>1
        <4>3. p = 0
          BY <1>1, <4>2 DEF WinnersRoute
        <4> QED BY <4>1, <4>2, <4>3, SlotParts
      <3> HIDE DEF down
      <3>2. Source(k, Final, 1) = [from |-> n, won |-> FALSE]
        BY <1>2, <2>1, <3>1 DEF Source, Final
      <3> QED BY <2>1, <3>1, <3>2, DefeatsBefore
    <2>2. CASE k > 1 /\ r = 1
      <3> DEFINE t == <<"LOSERS", 1, p \div 2>>
      <3>1. down # Out /\ down.node = t /\ down.slot = p % 2
        BY <1>1, <2>2, SlotParts DEF WinnersRoute
      <3>2. t[1] = "LOSERS" /\ t[2] = 1 /\ 2 * t[3] + (p % 2) = p /\ t # Final
        BY <1>3 DEF Final
      <3> HIDE DEF down, t
      <3>3. Source(k, t, p % 2) = [from |-> n, won |-> FALSE]
        BY <1>2, <2>2, <3>2 DEF Source
      <3>4. ~ Certain(e, t, p % 2)
        BY <3>2 DEF Certain
      <3> QED BY <3>1, <3>2, <3>3, <3>4, DefeatsBefore
    <2>3. CASE r > 1
      <3> DEFINE q == 2^(k - r) - 1 - p
                 t == <<"LOSERS", 2 * (r - 1), q>>
      <3>1. down # Out /\ down.node = t /\ down.slot = 1
        BY <1>1, <2>3, SlotParts DEF WinnersRoute
      <3>2. 2^(k - r) \in Nat
        BY <1>2, RoundsHalve
      <3>3. /\ t[1] = "LOSERS" /\ t[2] # 1 /\ t[2] % 2 # 1 /\ (t[2] \div 2) + 1 = r
            /\ 2^(k - r) - 1 - t[3] = p
        BY <3>2
      <3> HIDE DEF down, q, t
      <3>4. Source(k, t, 1) = [from |-> n, won |-> FALSE]
        <4>1. Source(k, t, 1) = [from |-> <<"WINNERS", (t[2] \div 2) + 1, 2^(k - ((t[2] \div 2) + 1)) - 1 - t[3]>>, won |-> FALSE]
          BY <3>3 DEF Source
        <4>2. Source(k, t, 1) = [from |-> <<"WINNERS", r, 2^(k - r) - 1 - t[3]>>, won |-> FALSE]
          BY <3>3, <4>1
        <4> QED BY <1>2, <3>3, <4>2
      <3> QED BY <2>3, <3>1, <3>3, <3>4, DefeatsBefore
    <2> QED BY <1>2, <2>1, <2>2, <2>3
  <1> HIDE DEF up, down
  <1>8. \A s \in {0, 1} :
           /\ Defeats(up.node, up.slot) = Defeats(n, s)
           /\ Defeats(n, s) = 0 /\ Defeats(down.node, down.slot) = 1
    BY <1>4, <1>6, <1>7
  <1>9. Certain(e, down.node, down.slot) => Certain(e, n, 0) /\ Certain(e, n, 1)
    BY <1>5, <1>7
  <1> QED BY <1>5, <1>6, <1>7, <1>8, <1>9 DEF Passes, up, down

LEMMA LosersPass ==
    ASSUME NEW e \in Nat, e >= 2, NEW n, NEW k \in Nat, k = levels(e), k >= 1, NEW j \in Nat, NEW p \in Nat,
           IsOdd(k, n, j, p) \/ IsEven(k, n, j, p)
    PROVE  Passes(e, n)
  <1> DEFINE up == winnerGoes(e, n)
             down == loserGoes(e, n)
  <1>1. LosersRoute(e, k, n, j, p)
    BY LosersGo
  <1>2. n[1] = "LOSERS" /\ down = Out
    <2>1. n[1] = "LOSERS"
      BY DEF IsOdd, IsEven
    <2> QED BY <2>1 DEF loserGoes
  <1>3. p % 2 \in {0, 1} /\ 2 * (p \div 2) + (p % 2) = p
    OBVIOUS
  <1>4. \A s \in {0, 1} : Defeats(n, s) = 1
    BY <1>2, DefeatsBefore
  <1>5. /\ Source(k, up.node, up.slot) = [from |-> n, won |-> TRUE]
        /\ Defeats(up.node, up.slot) = 1
        /\ Certain(e, up.node, up.slot) => Certain(e, n, 1)
    <2>1. CASE IsOdd(k, n, j, p)
      <3> DEFINE t == <<"LOSERS", 2 * j, p>>
      <3>0. j \in 1..(k - 1) /\ n = <<"LOSERS", 2 * j - 1, p>>
        BY <2>1 DEF IsOdd
      <3>1. up.node = t /\ up.slot = 0
        BY <1>1, <2>1, SlotParts DEF LosersRoute
      <3>2. /\ t[1] = "LOSERS" /\ t[2] # 1 /\ t[2] % 2 # 1 /\ t[2] - 1 = 2 * j - 1 /\ t[3] = p /\ t # Final
        BY <3>0 DEF Final
      <3> HIDE DEF up, t
      <3>3. Source(k, t, 0) = [from |-> n, won |-> TRUE]
        BY <3>0, <3>2 DEF Source
      <3>4. ~ Certain(e, t, 0)
        BY <3>2 DEF Certain
      <3> QED BY <3>1, <3>2, <3>3, <3>4, DefeatsBefore
    <2>2. CASE IsEven(k, n, j, p) /\ j < k - 1
      <3> DEFINE t == <<"LOSERS", 2 * (j + 1) - 1, p \div 2>>
      <3>0. j \in 1..(k - 1) /\ n = <<"LOSERS", 2 * j, p>>
        BY <2>2 DEF IsEven
      <3>1. up.node = t /\ up.slot = p % 2
        BY <1>1, <2>2, SlotParts DEF LosersRoute
      <3>2. /\ t[1] = "LOSERS" /\ t[2] # 1 /\ t[2] % 2 = 1 /\ t[2] - 1 = 2 * j
            /\ 2 * t[3] + (p % 2) = p /\ t # Final
        BY <1>3, <3>0 DEF Final
      <3> HIDE DEF up, t
      <3>3. Source(k, t, p % 2) = [from |-> n, won |-> TRUE]
        BY <3>0, <3>2 DEF Source
      <3>4. ~ Certain(e, t, p % 2)
        BY <3>2 DEF Certain
      <3> QED BY <3>1, <3>2, <3>3, <3>4, DefeatsBefore
    <2>3. CASE IsEven(k, n, j, p) /\ j >= k - 1
      <3>0. j \in 1..(k - 1) /\ n = <<"LOSERS", 2 * j, p>>
        BY <2>3 DEF IsEven
      <3>1. up.node = Final /\ up.slot = 1 /\ j = k - 1 /\ p = 0
        BY <1>1, <2>3, SlotParts DEF LosersRoute
      <3> HIDE DEF up
      <3>2. Source(k, Final, 1) = [from |-> n, won |-> TRUE]
        BY <3>0, <3>1 DEF Source, Final
      <3>3. n[2] % 2 = 0
        BY <3>0
      <3>4. Certain(e, n, 1)
        BY <1>2, <3>3 DEF Certain
      <3> QED BY <3>1, <3>2, <3>4, DefeatsBefore
    <2>4. j \in Nat /\ k \in Nat
      OBVIOUS
    <2> QED BY <2>1, <2>2, <2>3, <2>4
  <1> HIDE DEF up, down
  <1>6. \A s \in {0, 1} : Defeats(up.node, up.slot) = Defeats(n, s) /\ Defeats(n, s) = 1
    BY <1>4, <1>5
  <1> QED BY <1>2, <1>5, <1>6 DEF Passes, up, down

LEMMA AllPass ==
    ASSUME NEW e \in Nat, e >= 2, NEW n \in Inner(e) PROVE Passes(e, n)
  <1> DEFINE k == levels(e)
  <1>1. k \in Nat /\ k >= 1
    BY LevelsFit
  <1>2. IsInner(k, n)
    BY InnerMatches
  <1> HIDE DEF k
  <1>3. PICK j \in Nat, p \in Nat : IsWinners(k, n, j, p) \/ IsOdd(k, n, j, p) \/ IsEven(k, n, j, p)
    BY <1>2 DEF IsInner
  <1>4. CASE IsWinners(k, n, j, p)
    BY <1>1, <1>4, WinnersPass DEF k
  <1>5. CASE IsOdd(k, n, j, p) \/ IsEven(k, n, j, p)
    BY <1>1, <1>5, LosersPass DEF k
  <1> QED BY <1>3, <1>4, <1>5

(* Every slot that is not filled at the start is filled by some match.      *)
Fills(e, n, t, s) == n \in Inner(e) /\ (winnerGoes(e, n) = SlotOf(t, s) \/ loserGoes(e, n) = SlotOf(t, s))

LEMMA WinnersAreFilled ==
    ASSUME NEW e \in Nat, e >= 2, NEW t, NEW k \in Nat, k = levels(e), k >= 1, NEW j \in Nat, NEW p \in Nat,
           IsWinners(k, t, j, p), ~ Opening(t), NEW s \in {0, 1}
    PROVE  \E n : Fills(e, n, t, s)
  <1> DEFINE q == 2 * p + s
             n == <<"WINNERS", j - 1, q>>
  <1>1. j \in 1..k /\ p < 2^(k - j) /\ t = <<"WINNERS", j, p>>
    BY DEF IsWinners
  <1>2. j # 1
    BY <1>1 DEF Opening
  <1>3. q \in Nat /\ q \div 2 = p /\ q % 2 = s
    OBVIOUS
  <1>4. j - 1 \in Nat /\ j - 1 < k /\ (j - 1) + 1 = j /\ j - 1 \in 1..k
    BY <1>1, <1>2
  <1>5. 2^(k - (j - 1)) = 2 * 2^(k - j) /\ 2^(k - j) \in Nat
    <2>1. 2^(k - (j - 1)) = 2 * 2^(k - ((j - 1) + 1)) /\ 2^(k - ((j - 1) + 1)) \in Nat
      BY <1>4, RoundsHalve
    <2> QED BY <1>4, <2>1
  <1>6. q < 2^(k - (j - 1))
    BY <1>1, <1>5
  <1> HIDE DEF q
  <1>7. IsWinners(k, n, j - 1, q)
    BY <1>3, <1>4, <1>6 DEF IsWinners
  <1> HIDE DEF n
  <1>8. WinnersRoute(e, k, n, j - 1, q)
    BY <1>3, <1>4, <1>7, WinnersGo
  <1>9. winnerGoes(e, n) = SlotOf(<<"WINNERS", (j - 1) + 1, q \div 2>>, q % 2)
    BY <1>4, <1>8 DEF WinnersRoute
  <1>10. winnerGoes(e, n) = SlotOf(t, s)
    BY <1>1, <1>3, <1>4, <1>9
  <1>11. n \in Inner(e)
    BY <1>3, <1>4, <1>7, InnerKinds
  <1> QED BY <1>10, <1>11 DEF Fills

LEMMA FirstLosersAreFilled ==
    ASSUME NEW e \in Nat, e >= 2, NEW t, NEW k \in Nat, k = levels(e), k >= 1, NEW p \in Nat,
           IsOdd(k, t, 1, p), NEW s \in {0, 1}
    PROVE  \E n : Fills(e, n, t, s)
  <1> DEFINE q == 2 * p + s
             n == <<"WINNERS", 1, q>>
  <1>1. 1 \in 1..(k - 1) /\ p < 2^(k - 1 - 1) /\ t = <<"LOSERS", 1, p>>
    BY DEF IsOdd
  <1>2. k > 1 /\ 1 \in 1..k
    BY <1>1
  <1>3. q \in Nat /\ q \div 2 = p /\ q % 2 = s
    OBVIOUS
  <1>5. 2^(k - 1) = 2 * 2^(k - 1 - 1) /\ 2^(k - 1 - 1) \in Nat
    <2>1. 1 \in Nat /\ 1 < k
      BY <1>2
    <2>2. 2^(k - 1) = 2 * 2^(k - (1 + 1)) /\ 2^(k - (1 + 1)) \in Nat
      BY <2>1, RoundsHalve
    <2>3. k - (1 + 1) = k - 1 - 1
      OBVIOUS
    <2> QED BY <2>2, <2>3
  <1>6. q < 2^(k - 1)
    BY <1>1, <1>5
  <1> HIDE DEF q
  <1>7. IsWinners(k, n, 1, q)
    BY <1>2, <1>3, <1>6 DEF IsWinners
  <1> HIDE DEF n
  <1>8. WinnersRoute(e, k, n, 1, q)
    BY <1>3, <1>7, WinnersGo
  <1>9. loserGoes(e, n) = SlotOf(<<"LOSERS", 1, q \div 2>>, q % 2)
    BY <1>2, <1>8 DEF WinnersRoute
  <1>10. loserGoes(e, n) = SlotOf(t, s)
    BY <1>1, <1>3, <1>9
  <1>11. n \in Inner(e)
    BY <1>3, <1>7, InnerKinds
  <1> QED BY <1>10, <1>11 DEF Fills

LEMMA OddLosersAreFilled ==
    ASSUME NEW e \in Nat, e >= 2, NEW t, NEW k \in Nat, k = levels(e), k >= 1, NEW j \in Nat, NEW p \in Nat,
           IsOdd(k, t, j, p), j # 1, NEW s \in {0, 1}
    PROVE  \E n : Fills(e, n, t, s)
  <1> DEFINE q == 2 * p + s
             n == <<"LOSERS", 2 * (j - 1), q>>
  <1>1. j \in 1..(k - 1) /\ p < 2^(k - 1 - j) /\ t = <<"LOSERS", 2 * j - 1, p>>
    BY DEF IsOdd
  <1>3. q \in Nat /\ q \div 2 = p /\ q % 2 = s
    OBVIOUS
  <1>4. j - 1 \in Nat /\ j - 1 < k - 1 /\ (j - 1) + 1 = j /\ j - 1 \in 1..(k - 1) /\ k - 1 \in Nat
    BY <1>1
  <1>5. 2^(k - 1 - (j - 1)) = 2 * 2^(k - 1 - j) /\ 2^(k - 1 - j) \in Nat
    <2>1. 2^(k - 1 - (j - 1)) = 2 * 2^(k - 1 - ((j - 1) + 1)) /\ 2^(k - 1 - ((j - 1) + 1)) \in Nat
      BY <1>4, RoundsHalve
    <2> QED BY <1>4, <2>1
  <1>6. q < 2^(k - 1 - (j - 1))
    BY <1>1, <1>5
  <1> HIDE DEF q
  <1>7. IsEven(k, n, j - 1, q)
    BY <1>3, <1>4, <1>6 DEF IsEven
  <1> HIDE DEF n
  <1>8. LosersRoute(e, k, n, j - 1, q)
    BY <1>3, <1>4, LosersGo
  <1>9. winnerGoes(e, n) = SlotOf(<<"LOSERS", 2 * ((j - 1) + 1) - 1, q \div 2>>, q % 2)
    BY <1>4, <1>7, <1>8 DEF LosersRoute
  <1>10. winnerGoes(e, n) = SlotOf(t, s)
    BY <1>1, <1>3, <1>4, <1>9
  <1>11. n \in Inner(e)
    BY <1>3, <1>4, <1>7, InnerKinds
  <1> QED BY <1>10, <1>11 DEF Fills

LEMMA EvenLosersAreFilled ==
    ASSUME NEW e \in Nat, e >= 2, NEW t, NEW k \in Nat, k = levels(e), k >= 1, NEW j \in Nat, NEW p \in Nat,
           IsEven(k, t, j, p), NEW s \in {0, 1}
    PROVE  \E n : Fills(e, n, t, s)
  <1>1. j \in 1..(k - 1) /\ p < 2^(k - 1 - j) /\ t = <<"LOSERS", 2 * j, p>>
    BY DEF IsEven
  <1>2. CASE s = 0
    <2> DEFINE n == <<"LOSERS", 2 * j - 1, p>>
    <2>1. IsOdd(k, n, j, p)
      BY <1>1 DEF IsOdd
    <2> HIDE DEF n
    <2>2. LosersRoute(e, k, n, j, p)
      BY LosersGo
    <2>3. winnerGoes(e, n) = SlotOf(t, s)
      BY <1>1, <1>2, <2>1, <2>2 DEF LosersRoute
    <2>4. n \in Inner(e)
      BY <2>1, InnerKinds
    <2> QED BY <2>3, <2>4 DEF Fills
  <1>3. CASE s = 1
    <2> DEFINE q == 2^(k - (j + 1)) - 1 - p
               n == <<"WINNERS", j + 1, q>>
    <2>1. k - (j + 1) = k - 1 - j /\ j + 1 \in 1..k /\ j + 1 \in Nat /\ j + 1 > 1 /\ (j + 1) - 1 = j /\ j + 1 <= k
      BY <1>1
    <2>2. 2^(k - (j + 1)) \in Nat /\ p < 2^(k - (j + 1))
      <3>1. 2^(k - (j + 1)) \in Nat
        BY <2>1, RoundsHalve
      <3> QED BY <1>1, <2>1, <3>1
    <2>3. q \in Nat /\ q < 2^(k - (j + 1)) /\ 2^(k - (j + 1)) - 1 - q = p
      BY <2>2
    <2> HIDE DEF q
    <2>4. IsWinners(k, n, j + 1, q)
      BY <2>1, <2>3 DEF IsWinners
    <2> HIDE DEF n
    <2>5. WinnersRoute(e, k, n, j + 1, q)
      BY <2>1, <2>3, <2>4, WinnersGo
    <2>6. loserGoes(e, n) = SlotOf(<<"LOSERS", 2 * ((j + 1) - 1), 2^(k - (j + 1)) - 1 - q>>, 1)
      BY <2>1, <2>5 DEF WinnersRoute
    <2>7. loserGoes(e, n) = SlotOf(t, s)
      BY <1>1, <1>3, <2>1, <2>3, <2>6
    <2>8. n \in Inner(e)
      BY <2>1, <2>3, <2>4, InnerKinds
    <2> QED BY <2>7, <2>8 DEF Fills
  <1> QED BY <1>2, <1>3

LEMMA FinalIsFilled ==
    ASSUME NEW e \in Nat, e >= 2, NEW k \in Nat, k = levels(e), k >= 1, NEW s \in {0, 1}
    PROVE  \E n : Fills(e, n, Final, s)
  <1> DEFINE n == <<"WINNERS", k, 0>>
  <1>1. IsWinners(k, n, k, 0)
    <2>1. k - k = 0 /\ k \in 1..k
      OBVIOUS
    <2>2. 0 < 2^(k - k)
      BY <2>1, PowersOfTwo
    <2> QED BY <2>1, <2>2 DEF IsWinners
  <1> HIDE DEF n
  <1>2. WinnersRoute(e, k, n, k, 0)
    BY <1>1, WinnersGo
  <1>3. n \in Inner(e)
    BY <1>1, InnerKinds
  <1>4. CASE s = 0
    <2>1. winnerGoes(e, n) = SlotOf(Final, s)
      BY <1>2, <1>4 DEF WinnersRoute
    <2> QED BY <1>3, <2>1 DEF Fills
  <1>5. CASE s = 1 /\ k = 1
    <2>1. loserGoes(e, n) = SlotOf(Final, s)
      BY <1>2, <1>5 DEF WinnersRoute
    <2> QED BY <1>3, <2>1 DEF Fills
  <1>6. CASE s = 1 /\ k > 1
    <2> DEFINE m == <<"LOSERS", 2 * (k - 1), 0>>
    <2>1. k - 1 - (k - 1) = 0 /\ k - 1 \in 1..(k - 1) /\ k - 1 \in Nat
      BY <1>6
    <2>2. 0 < 2^(k - 1 - (k - 1))
      BY <2>1, PowersOfTwo
    <2>3. IsEven(k, m, k - 1, 0)
      BY <2>1, <2>2 DEF IsEven
    <2> HIDE DEF m
    <2>4. LosersRoute(e, k, m, k - 1, 0)
      BY <2>1, LosersGo
    <2>5. winnerGoes(e, m) = SlotOf(Final, s)
      BY <1>6, <2>1, <2>3, <2>4 DEF LosersRoute
    <2>6. m \in Inner(e)
      BY <2>1, <2>3, InnerKinds
    <2> QED BY <2>5, <2>6 DEF Fills
  <1> QED BY <1>4, <1>5, <1>6

LEMMA AllAreFilled ==
    ASSUME NEW e \in Nat, e >= 2, NEW t \in shape(e) \ {Reset}, ~ Opening(t), NEW s \in {0, 1}
    PROVE  \E n : Fills(e, n, t, s)
  <1> DEFINE k == levels(e)
  <1>1. k \in Nat /\ k >= 1
    BY LevelsFit
  <1>2. t = Final \/ IsInner(k, t)
    BY InnerMatches DEF Inner
  <1> HIDE DEF k
  <1>3. CASE t = Final
    BY <1>1, <1>3, FinalIsFilled DEF k
  <1>4. CASE IsInner(k, t)
    <2>1. PICK j \in Nat, p \in Nat : IsWinners(k, t, j, p) \/ IsOdd(k, t, j, p) \/ IsEven(k, t, j, p)
      BY <1>4 DEF IsInner
    <2>2. CASE IsWinners(k, t, j, p)
      BY <1>1, <2>2, WinnersAreFilled DEF k
    <2>3. CASE IsOdd(k, t, j, p) /\ j = 1
      BY <1>1, <2>3, FirstLosersAreFilled DEF k
    <2>4. CASE IsOdd(k, t, j, p) /\ j # 1
      BY <1>1, <2>4, OddLosersAreFilled DEF k
    <2>5. CASE IsEven(k, t, j, p)
      BY <1>1, <2>5, EvenLosersAreFilled DEF k
    <2> QED BY <2>1, <2>2, <2>3, <2>4, <2>5
  <1> QED BY <1>2, <1>3, <1>4

(* The bracket of any number of entrants is wired as it should.             *)
LEMMA BracketsAreWired ==
    ASSUME NEW e \in Nat, e >= 2 PROVE Wired(e)
  <1> DEFINE k == levels(e)
  <1>1. k \in Nat /\ k >= 1
    BY LevelsFit
  <1>2. \A n \in Inner(e) : LeadsOn(e, n, winnerGoes(e, n)) /\ (loserGoes(e, n) = Out \/ LeadsOn(e, n, loserGoes(e, n)))
    BY <1>1, AllLeadOn
  <1>3. \A n \in Inner(e) : Passes(e, n)
    BY AllPass
  <1>4. ASSUME NEW m \in Inner(e), NEW n \in Inner(e)
        PROVE  /\ winnerGoes(e, m) = winnerGoes(e, n) => m = n
               /\ loserGoes(e, m) = loserGoes(e, n) /\ loserGoes(e, m) # Out => m = n
               /\ winnerGoes(e, m) # loserGoes(e, n)
    <2> DEFINE mu == winnerGoes(e, m)
               nu == winnerGoes(e, n)
               md == loserGoes(e, m)
               nd == loserGoes(e, n)
    <2>1. /\ Source(k, mu.node, mu.slot) = [from |-> m, won |-> TRUE]
          /\ Source(k, nu.node, nu.slot) = [from |-> n, won |-> TRUE]
          /\ md # Out => Source(k, md.node, md.slot) = [from |-> m, won |-> FALSE]
          /\ nd # Out => Source(k, nd.node, nd.slot) = [from |-> n, won |-> FALSE]
      BY <1>3 DEF Passes
    <2>2. mu # Out
      BY <1>2, SlotParts DEF LeadsOn
    <2> HIDE DEF mu, nu, md, nd
    <2>3. mu = nu => m = n
      BY <2>1
    <2>4. md = nd /\ md # Out => m = n
      BY <2>1
    <2>5. mu # nd
      BY <2>1, <2>2
    <2> QED BY <2>3, <2>4, <2>5 DEF mu, nu, md, nd
  <1>5. ASSUME NEW t \in shape(e) \ {Reset}, NEW s \in {0, 1}, ~ Opening(t)
        PROVE  \E n \in Inner(e) : wave(e, n) < wave(e, t) /\ SlotOf(t, s) \in {winnerGoes(e, n), loserGoes(e, n)}
    <2>1. PICK n : Fills(e, n, t, s)
      BY <1>5, AllAreFilled
    <2>2. n \in Inner(e) /\ SlotOf(t, s) \in {winnerGoes(e, n), loserGoes(e, n)}
      BY <2>1 DEF Fills
    <2>3. LeadsOn(e, n, SlotOf(t, s))
      BY <1>2, <2>2, SlotParts
    <2>4. wave(e, n) < wave(e, t)
      BY <2>3, SlotParts DEF LeadsOn
    <2> QED BY <2>2, <2>4
  <1>6. \A n \in Inner(e), s \in {0, 1} :
           LET up == winnerGoes(e, n)
               down == loserGoes(e, n)
           IN  /\ Defeats(up.node, up.slot) = Defeats(n, s)
               /\ IF down = Out THEN Defeats(n, s) = 1 ELSE Defeats(n, s) = 0 /\ Defeats(down.node, down.slot) = 1
    BY <1>3 DEF Passes
  <1>7. \A n \in Inner(e) :
           LET up == winnerGoes(e, n)
               down == loserGoes(e, n)
           IN  /\ Certain(e, up.node, up.slot) => Certain(e, n, 0) \/ Certain(e, n, 1)
               /\ down # Out /\ Certain(e, down.node, down.slot) => Certain(e, n, 0) /\ Certain(e, n, 1)
    BY <1>3 DEF Passes
  <1> QED BY <1>2, <1>4, <1>5, <1>6, <1>7 DEF Wired

-------------------------------------------------------------------------------
(* What deciding a match changes *)

(* What place changes: one slot.                                            *)
SameResult(a, b) == a.status = b.status /\ a.winner = b.winner /\ a.wave = b.wave

Placed(ms, after, to, p) ==
    /\ DOMAIN after = DOMAIN ms /\ AreMatches(after)
    /\ \A m \in DOMAIN ms :
          /\ SameResult(after[m], ms[m])
          /\ \A s \in {0, 1} : In(after, m, s) = IF SlotOf(m, s) = to THEN p ELSE In(ms, m, s)

LEMMA PlaceFills ==
    ASSUME NEW ms, AreMatches(ms), NEW n \in DOMAIN ms, NEW s \in {0, 1}, NEW p
    PROVE  Placed(ms, place(ms, SlotOf(n, s), p), SlotOf(n, s), p)
  <1> DEFINE m1 == [ms[n] EXCEPT !.player1 = p]
             m2 == [ms[n] EXCEPT !.player2 = p]
             to == SlotOf(n, s)
  <1>1. IsMatch(ms[n])
    BY DEF AreMatches
  <1>2. /\ IsMatch(m1) /\ SameResult(m1, ms[n]) /\ m1.player1 = p /\ m1.player2 = ms[n].player2
        /\ IsMatch(m2) /\ SameResult(m2, ms[n]) /\ m2.player1 = ms[n].player1 /\ m2.player2 = p
    BY <1>1 DEF IsMatch, SameResult
  <1>3. \A m, u : SlotOf(m, u) = to <=> m = n /\ u = s
    BY DEF SlotOf
  <1>4. CASE s = 0
    <2>0. to.node = n /\ to.slot = 0
      BY <1>4, SlotParts
    <2>1. place(ms, to, p) = [ms EXCEPT ![n] = m1]
      BY <2>0 DEF place
    <2> HIDE DEF to, m1
    <2>2. \A u \in {0, 1} : In([ms EXCEPT ![n] = m1], n, u) = IF SlotOf(n, u) = to THEN p ELSE In(ms, n, u)
      BY <1>2, <1>3, <1>4 DEF In
    <2>3. \A m \in DOMAIN ms, u \in {0, 1} :
             m # n => In([ms EXCEPT ![n] = m1], m, u) = In(ms, m, u) /\ SlotOf(m, u) # to
      BY <1>3 DEF In
    <2> QED BY <1>2, <2>1, <2>2, <2>3 DEF Placed, AreMatches, SameResult, to
  <1>5. CASE s = 1
    <2>0. to.node = n /\ to.slot # 0
      BY <1>5, SlotParts
    <2>1. place(ms, to, p) = [ms EXCEPT ![n] = m2]
      BY <2>0 DEF place
    <2> HIDE DEF to, m2
    <2>2. \A u \in {0, 1} : In([ms EXCEPT ![n] = m2], n, u) = IF SlotOf(n, u) = to THEN p ELSE In(ms, n, u)
      BY <1>2, <1>3, <1>5 DEF In
    <2>3. \A m \in DOMAIN ms, u \in {0, 1} :
             m # n => In([ms EXCEPT ![n] = m2], m, u) = In(ms, m, u) /\ SlotOf(m, u) # to
      BY <1>3 DEF In
    <2> QED BY <1>2, <2>1, <2>2, <2>3 DEF Placed, AreMatches, SameResult, to
  <1> QED BY <1>4, <1>5

(* Match n is decided and nothing else, w the winner.                       *)
Ends(ms, after, n, w) ==
    /\ DOMAIN after = DOMAIN ms /\ AreMatches(after)
    /\ \A m \in DOMAIN ms :
          /\ Done(after, m) <=> Done(ms, m) \/ m = n
          /\ after[m].winner = IF m = n THEN w ELSE ms[m].winner
          /\ after[m].wave = ms[m].wave

(* The row of a match that has been decided.                                *)
DecidedRow(ms, n, m, w) ==
    /\ IsMatch(m)
    /\ m.player1 = ms[n].player1 /\ m.player2 = ms[n].player2 /\ m.wave = ms[n].wave
    /\ m.status = "DONE" /\ m.winner = w

SameSlots(ms, after) == \A o \in DOMAIN ms, s \in {0, 1} : In(after, o, s) = In(ms, o, s)

OneSlot(ms, mid, after, to, p) ==
    \A o \in DOMAIN ms, s \in {0, 1} : In(after, o, s) = IF SlotOf(o, s) = to THEN p ELSE In(mid, o, s)

LEMMA DecidingEnds ==
    ASSUME NEW ms, AreMatches(ms), NEW n \in DOMAIN ms, NEW m, NEW w, DecidedRow(ms, n, m, w)
    PROVE  Ends(ms, [ms EXCEPT ![n] = m], n, w) /\ SameSlots(ms, [ms EXCEPT ![n] = m])
  BY DEF Ends, DecidedRow, AreMatches, Done, In, SameSlots

LEMMA PlacingEnds ==
    ASSUME NEW ms, NEW mid, NEW after, NEW n, NEW w, NEW to, NEW p, Ends(ms, mid, n, w),
           Placed(mid, after, to, p)
    PROVE  /\ Ends(ms, after, n, w)
           /\ OneSlot(ms, mid, after, to, p)
  BY DEF Ends, Placed, SameResult, Done, OneSlot

MovedOn(ms, after, e, n, w, l) ==
    \A o \in DOMAIN ms, s \in {0, 1} :
        In(after, o, s) = IF SlotOf(o, s) = winnerGoes(e, n) THEN w
                          ELSE IF SlotOf(o, s) = loserGoes(e, n) THEN l ELSE In(ms, o, s)

(* A match before the grand final: its winner and its loser go on.          *)
LEMMA AdvanceMoves ==
    ASSUME NEW e \in Nat, e >= 2, NEW ms, AreMatches(ms), DOMAIN ms = shape(e), NEW n \in Inner(e), NEW m,
           NEW w,
           DecidedRow(ms, n, m, w), NEW after, after = advance([ms EXCEPT ![n] = m], n, e)
    PROVE  /\ Ends(ms, after, n, w)
           /\ MovedOn(ms, after, e, n, w, Other(m, w))
  <1> DEFINE up == winnerGoes(e, n)
             down == loserGoes(e, n)
             mid == [ms EXCEPT ![n] = m]
             lifted == place(mid, up, w)
             both == place(lifted, down, Other(m, w))
  <1>1. n \in DOMAIN ms /\ n # Reset /\ n # Final
    BY DEF Inner
  <1>2. Ends(ms, mid, n, w) /\ SameSlots(ms, mid)
    BY <1>1, DecidingEnds
  <1>3. LeadsOn(e, n, up) /\ (down = Out \/ LeadsOn(e, n, down)) /\ up # down
    BY BracketsAreWired DEF Wired
  <1>4. PICK t \in DOMAIN ms, u \in {0, 1} : up = SlotOf(t, u)
    BY <1>3 DEF LeadsOn
  <1>5. up # Out
    BY <1>4, SlotParts
  <1>6. mid[n] = m /\ m.winner = w
    BY <1>1 DEF DecidedRow
  <1>7. after = IF down = Out THEN lifted ELSE both
    <2> HIDE DEF mid, up, down
    <2> QED BY <1>1, <1>5, <1>6 DEF advance, mid, up, down
  <1>8. Placed(mid, lifted, up, w)
    <2> HIDE DEF mid
    <2> QED BY <1>2, <1>4, PlaceFills DEF Ends
  <1> HIDE DEF mid, lifted
  <1>9. Ends(ms, lifted, n, w)
        /\ OneSlot(ms, ms, lifted, up, w)
    BY <1>2, <1>8, PlacingEnds DEF OneSlot, SameSlots
  <1>10. CASE down = Out
    <2>1. \A o, s : SlotOf(o, s) # down
      BY <1>10, SlotParts
    <2> HIDE DEF up, down
    <2> QED BY <1>7, <1>9, <1>10, <2>1 DEF up, down, OneSlot, MovedOn
  <1>11. CASE down # Out
    <2>1. PICK x \in DOMAIN ms, v \in {0, 1} : down = SlotOf(x, v)
      BY <1>3, <1>11 DEF LeadsOn
    <2> DEFINE l == Other(m, w)
    <2> HIDE DEF l
    <2>2. Placed(lifted, place(lifted, down, l), down, l)
      BY <1>9, <2>1, PlaceFills DEF Ends
    <2>3. after = place(lifted, down, l)
      BY <1>7, <1>11 DEF l
    <2>4. Ends(ms, after, n, w)
          /\ OneSlot(ms, lifted, after, down, l)
      BY <1>9, <2>2, <2>3, PlacingEnds
    <2> HIDE DEF up, down
    <2>5. ASSUME NEW o \in DOMAIN ms, NEW s \in {0, 1}
          PROVE  In(after, o, s) = IF SlotOf(o, s) = up THEN w ELSE IF SlotOf(o, s) = down THEN l ELSE In(ms, o, s)
      BY <1>3, <1>9, <2>4 DEF OneSlot
    <2> QED BY <2>4, <2>5 DEF up, down, l, MovedOn
  <1> QED BY <1>10, <1>11

ResetSet(ms, after, w) ==
    \A o \in DOMAIN ms, s \in {0, 1} :
        In(after, o, s) = IF o # Reset THEN In(ms, o, s)
                          ELSE IF w = ms[Final].player1 THEN NOBODY ELSE In(ms, Final, s)

(* The grand final: the reset final is between its players, or nobody's.    *)
LEMMA FinalMoves ==
    ASSUME NEW e \in Nat, NEW ms, AreMatches(ms), DOMAIN ms = shape(e), NEW m, NEW w,
           DecidedRow(ms, Final, m, w), NEW after, after = advance([ms EXCEPT ![Final] = m], Final, e)
    PROVE  /\ Ends(ms, after, Final, w)
           /\ ResetSet(ms, after, w)
  <1> DEFINE mid == [ms EXCEPT ![Final] = m]
             p(s) == IF w = m.player1 THEN NOBODY ELSE IF s = 0 THEN m.player1 ELSE m.player2
             one == place(mid, SlotOf(Reset, 0), p(0))
             two == place(one, SlotOf(Reset, 1), p(1))
  <1>1. Final \in DOMAIN ms /\ Reset \in DOMAIN ms /\ Final # Reset
    BY DEF shape, Final, Reset
  <1>2. Ends(ms, mid, Final, w) /\ SameSlots(ms, mid)
    BY <1>1, DecidingEnds
  <1>3. mid[Final] = m /\ m.winner = w
    BY <1>1 DEF DecidedRow
  <1>4. after = two
    <2> HIDE DEF mid
    <2> QED BY <1>1, <1>3 DEF advance, SlotOf, mid
  <1> HIDE DEF mid, p
  <1>5. Placed(mid, one, SlotOf(Reset, 0), p(0))
    BY <1>1, <1>2, PlaceFills DEF Ends
  <1> HIDE DEF one
  <1>6. Ends(ms, one, Final, w)
        /\ OneSlot(ms, ms, one, SlotOf(Reset, 0), p(0))
    BY <1>2, <1>5, PlacingEnds DEF OneSlot, SameSlots
  <1>7. Placed(one, two, SlotOf(Reset, 1), p(1))
    BY <1>1, <1>6, PlaceFills DEF Ends
  <1> HIDE DEF two
  <1>8. Ends(ms, two, Final, w)
        /\ OneSlot(ms, one, two, SlotOf(Reset, 1), p(1))
    BY <1>6, <1>7, PlacingEnds
  <1>9. \A o, u, s : SlotOf(o, s) = SlotOf(Reset, u) <=> o = Reset /\ s = u
    BY DEF SlotOf
  <1>10. \A s \in {0, 1} : p(s) = IF w = ms[Final].player1 THEN NOBODY ELSE In(ms, Final, s)
    BY DEF p, DecidedRow, In
  <1>11. ASSUME NEW o \in DOMAIN ms, NEW s \in {0, 1}
         PROVE  In(two, o, s) = IF o = Reset THEN p(s) ELSE In(ms, o, s)
    BY <1>6, <1>8, <1>9 DEF OneSlot
  <1> QED BY <1>4, <1>8, <1>10, <1>11 DEF ResetSet

(* The reset final ends the bracket.                                        *)
LEMMA ResetMoves ==
    ASSUME NEW e \in Nat, NEW ms, AreMatches(ms), DOMAIN ms = shape(e), NEW m, NEW w,
           DecidedRow(ms, Reset, m, w), NEW after, after = advance([ms EXCEPT ![Reset] = m], Reset, e)
    PROVE  Ends(ms, after, Reset, w) /\ SameSlots(ms, after)
  <1>1. Reset \in DOMAIN ms
    BY DEF shape
  <1>2. after = [ms EXCEPT ![Reset] = m]
    BY DEF advance, Final, Reset
  <1>3. Ends(ms, [ms EXCEPT ![Reset] = m], Reset, w) /\ SameSlots(ms, [ms EXCEPT ![Reset] = m])
    BY <1>1, DecidingEnds
  <1> QED BY <1>2, <1>3

-------------------------------------------------------------------------------
(* Where a player stands *)

(* The waves of a bracket, and where the two finals are in it.              *)
WavesInOrder(e) ==
    /\ waves(e) \in Nat
    /\ \A n \in shape(e) : wave(e, n) \in Nat /\ 1 <= wave(e, n) /\ wave(e, n) <= waves(e)
    /\ \A n \in Inner(e) : wave(e, n) < wave(e, Final)
    /\ wave(e, Final) < wave(e, Reset) /\ wave(e, Reset) = waves(e)

LEMMA WavesOrdered ==
    ASSUME NEW e \in Nat, e >= 2 PROVE WavesInOrder(e)
  <1> DEFINE k == levels(e)
  <1>1. k \in Nat /\ k >= 1
    BY LevelsFit
  <1>2. \A n \in Inner(e) : IsInner(k, n)
    BY InnerMatches
  <1> HIDE DEF k
  <1>3. /\ wave(e, Final) = IF k = 1 THEN 2 ELSE 2 * k
        /\ wave(e, Reset) = wave(e, Final) + 1 /\ waves(e) = wave(e, Reset)
    <2>1. WavesAre(e, k, Final, 0, 0)
      BY <1>1, Waves DEF k
    <2> QED BY <2>1 DEF WavesAre
  <1>4. ASSUME NEW n \in Inner(e) PROVE wave(e, n) \in Nat /\ 1 <= wave(e, n) /\ wave(e, n) < wave(e, Final)
    <2>1. PICK j \in Nat, p \in Nat : IsWinners(k, n, j, p) \/ IsOdd(k, n, j, p) \/ IsEven(k, n, j, p)
      BY <1>2 DEF IsInner
    <2>2. WavesAre(e, k, n, j, p)
      BY <1>1, Waves DEF k
    <2>3. CASE IsWinners(k, n, j, p)
      <3>1. j \in 1..k /\ wave(e, n) = IF j = 1 THEN 1 ELSE 2 * j - 2
        BY <2>2, <2>3 DEF WavesAre, IsWinners
      <3> QED BY <1>1, <1>3, <3>1
    <2>4. CASE IsOdd(k, n, j, p)
      <3>1. j \in 1..(k - 1) /\ wave(e, n) = 2 * j
        BY <2>2, <2>4 DEF WavesAre, IsOdd
      <3> QED BY <1>1, <1>3, <3>1
    <2>5. CASE IsEven(k, n, j, p)
      <3>1. j \in 1..(k - 1) /\ wave(e, n) = 2 * j + 1
        BY <2>2, <2>5 DEF WavesAre, IsEven
      <3> QED BY <1>1, <1>3, <3>1
    <2> QED BY <2>1, <2>3, <2>4, <2>5
  <1>5. shape(e) = Inner(e) \cup {Final, Reset}
    BY FinalsThere DEF Inner
  <1>6. wave(e, Final) \in Nat /\ 1 <= wave(e, Final)
    BY <1>1, <1>3
  <1> QED BY <1>3, <1>4, <1>5, <1>6 DEF WavesInOrder

(* A slot that waits for the end of match n.                                *)
Open(ms, e, n, to) ==
    \E t \in shape(e) \ {Reset}, u \in {0, 1} :
        to = SlotOf(t, u) /\ ~ Opening(t) /\ t # n /\ In(ms, t, u) = null /\ ~ Done(ms, t)

LEMMA NextSlotsAreOpen ==
    ASSUME NEW e \in Nat, e >= 2, NEW ms, BracketOf(ms, e), Goes(ms, e), NEW n \in Inner(e), ~ Done(ms, n)
    PROVE  /\ Open(ms, e, n, winnerGoes(e, n))
           /\ loserGoes(e, n) = Out \/ Open(ms, e, n, loserGoes(e, n))
           /\ winnerGoes(e, n) # loserGoes(e, n) /\ winnerGoes(e, n) # Out
  <1>0. n \in shape(e)
    BY DEF Inner
  <1>1. /\ LeadsOn(e, n, winnerGoes(e, n))
        /\ loserGoes(e, n) = Out \/ LeadsOn(e, n, loserGoes(e, n))
        /\ winnerGoes(e, n) # loserGoes(e, n)
    BY BracketsAreWired DEF Wired
  <1>2. WavesInOrder(e)
    BY WavesOrdered
  <1>3. ASSUME NEW to, LeadsOn(e, n, to), In(ms, to.node, to.slot) = null
        PROVE  Open(ms, e, n, to) /\ to # Out
    <2>1. PICK t \in shape(e) \ {Reset}, u \in {0, 1} : to = SlotOf(t, u) /\ ~ Opening(t) /\ wave(e, n) < wave(e, t)
      BY <1>3 DEF LeadsOn
    <2>2. t # n
      BY <1>0, <1>2, <2>1 DEF WavesInOrder
    <2>3. In(ms, t, u) = null
      BY <1>3, <2>1, SlotParts
    <2>4. ~ Done(ms, t)
      BY <2>3 DEF BracketOf, In
    <2> QED BY <2>1, <2>2, <2>3, <2>4, SlotParts DEF Open
  <1>4. In(ms, winnerGoes(e, n).node, winnerGoes(e, n).slot) = null
    BY DEF Goes
  <1>5. loserGoes(e, n) = Out \/ In(ms, loserGoes(e, n).node, loserGoes(e, n).slot) = null
    BY DEF Goes
  <1> QED BY <1>1, <1>3, <1>4, <1>5

(* Once decided, and as long as it is decided, a match keeps its players.   *)
DoneSame(ms, after, n) ==
    \A m \in DOMAIN ms, s \in {0, 1} : Done(ms, m) \/ m = n => In(after, m, s) = In(ms, m, s)

Loses(ms, n, w, q) == (In(ms, n, 0) = q \/ In(ms, n, 1) = q) /\ q # w

LEMMA LostAfter ==
    ASSUME NEW ms, NEW after, NEW n \in DOMAIN ms, NEW w, ~ Done(ms, n), Ends(ms, after, n, w),
           DoneSame(ms, after, n), NEW q
    PROVE  Lost(after, q) = IF Loses(ms, n, w, q) THEN Lost(ms, q) \cup {n} ELSE Lost(ms, q)
  <1>1. \A m : m \in Lost(ms, q) <=> /\ m \in DOMAIN ms /\ Done(ms, m) /\ ms[m].winner # q
                                     /\ In(ms, m, 0) = q \/ In(ms, m, 1) = q
    BY DEF Lost, Involves, In
  <1>2. \A m : m \in Lost(after, q) <=> /\ m \in DOMAIN ms /\ Done(after, m) /\ after[m].winner # q
                                        /\ In(after, m, 0) = q \/ In(after, m, 1) = q
    BY DEF Lost, Involves, In, Ends
  <1>3. \A m \in DOMAIN ms : m # n => (m \in Lost(after, q) <=> m \in Lost(ms, q))
    BY <1>1, <1>2 DEF Ends, DoneSame
  <1>4. n \notin Lost(ms, q) /\ (n \in Lost(after, q) <=> Loses(ms, n, w, q))
    BY <1>1, <1>2 DEF Ends, DoneSame, Loses
  <1> QED BY <1>1, <1>2, <1>3, <1>4

LEMMA LostCounts ==
    ASSUME NEW ms, IsFiniteSet(DOMAIN ms), NEW q
    PROVE  /\ IsFiniteSet(Lost(ms, q)) /\ Cardinality(Lost(ms, q)) \in Nat
           /\ \A n : n \notin Lost(ms, q) => Cardinality(Lost(ms, q) \cup {n}) = Cardinality(Lost(ms, q)) + 1
  <1>1. Lost(ms, q) \subseteq DOMAIN ms
    BY DEF Lost
  <1>2. IsFiniteSet(Lost(ms, q))
    BY <1>1, FS_Subset
  <1> QED BY <1>2, FS_CardinalityType, FS_AddElement

(* The number of defeats after a match.                                     *)
LEMMA DefeatsAfter ==
    ASSUME NEW ms, IsFiniteSet(DOMAIN ms), NEW after, NEW n \in DOMAIN ms, NEW w, ~ Done(ms, n),
           Ends(ms, after, n, w), DoneSame(ms, after, n), NEW q
    PROVE  /\ Cardinality(Lost(ms, q)) \in Nat
           /\ Cardinality(Lost(after, q)) = Cardinality(Lost(ms, q)) + (IF Loses(ms, n, w, q) THEN 1 ELSE 0)
  <1>1. n \notin Lost(ms, q)
    BY DEF Lost
  <1>2. Lost(after, q) = IF Loses(ms, n, w, q) THEN Lost(ms, q) \cup {n} ELSE Lost(ms, q)
    BY LostAfter
  <1>3. /\ Cardinality(Lost(ms, q)) \in Nat
        /\ Cardinality(Lost(ms, q) \cup {n}) = Cardinality(Lost(ms, q)) + 1
    BY <1>1, LostCounts
  <1> QED BY <1>2, <1>3

(* Three ways in which a player comes to stand.                             *)
Nowhere(ms, q) == \A m \in DOMAIN ms, s \in {0, 1} : ~ Waits(ms, q, m, s)
OnlyAt(ms, q, n, u) == \A m \in DOMAIN ms, s \in {0, 1} : Waits(ms, q, m, s) <=> m = n /\ s = u

LEMMA StandsWaiting ==
    ASSUME NEW ms, NEW q, NEW n \in DOMAIN ms, NEW u \in {0, 1}, OnlyAt(ms, q, n, u),
           Cardinality(Lost(ms, q)) = Defeats(n, u), ~ Champion(ms, q)
    PROVE  Stands(ms, q)
  BY DEF Stands, OnlyAt

LEMMA StandsOut ==
    ASSUME NEW ms, NEW q, Nowhere(ms, q), Cardinality(Lost(ms, q)) = 2, ~ Champion(ms, q)
    PROVE  Stands(ms, q)
  BY DEF Stands, Nowhere

LEMMA StandsFirst ==
    ASSUME NEW ms, NEW q, Nowhere(ms, q), Cardinality(Lost(ms, q)) \in {0, 1}, Champion(ms, q)
    PROVE  Stands(ms, q)
  BY DEF Stands, Nowhere

SameWaits(ms, after, q) == \A m \in DOMAIN ms, s \in {0, 1} : Waits(after, q, m, s) <=> Waits(ms, q, m, s)
NotInvolvedMore(ms, after, q) ==
    (\A m \in DOMAIN ms, s \in {0, 1} : In(ms, m, s) # q) => \A m \in DOMAIN ms, s \in {0, 1} : In(after, m, s) # q

LEMMA StandsAsBefore ==
    ASSUME NEW ms, NEW after, NEW q, DOMAIN after = DOMAIN ms, Stands(ms, q), SameWaits(ms, after, q),
           NotInvolvedMore(ms, after, q), Cardinality(Lost(after, q)) = Cardinality(Lost(ms, q)), Champion(after, q) <=> Champion(ms, q)
    PROVE  Stands(after, q)
  <1>1. \A x : (\A m \in DOMAIN x : ~ Involves(x[m], q)) <=> (\A m \in DOMAIN x, s \in {0, 1} : In(x, m, s) # q)
    BY DEF Involves, In
  <1>2. (\A m \in DOMAIN ms : ~ Involves(ms[m], q)) => (\A m \in DOMAIN after : ~ Involves(after[m], q))
    BY <1>1 DEF NotInvolvedMore
  <1> QED BY <1>2 DEF Stands, SameWaits

(* Who waits in a slot waits only there.                                    *)
LEMMA WaitsOnce ==
    ASSUME NEW ms, NEW q, Stands(ms, q), NEW n \in DOMAIN ms, NEW u \in {0, 1}, Waits(ms, q, n, u)
    PROVE  OnlyAt(ms, q, n, u) /\ Cardinality(Lost(ms, q)) = Defeats(n, u) /\ ~ Champion(ms, q)
  BY DEF Stands, OnlyAt

-------------------------------------------------------------------------------
(* What a decision leaves, of any match *)

(* A match that can be decided, with this winner.                           *)
CanEnd(ms, n, w) ==
    /\ n \in DOMAIN ms /\ ~ Done(ms, n)
    /\ In(ms, n, 0) # null /\ In(ms, n, 1) # null
    /\ w \in {In(ms, n, 0), In(ms, n, 1)}
    /\ w = NOBODY => In(ms, n, 0) = NOBODY /\ In(ms, n, 1) = NOBODY

LoserOf(ms, n, w) == IF w = In(ms, n, 0) THEN In(ms, n, 1) ELSE In(ms, n, 0)

(* A player does not meet himself.                                          *)
LEMMA TwoPlayers ==
    ASSUME NEW ms, NEW q, Stands(ms, q), NEW n, NEW w, CanEnd(ms, n, w), In(ms, n, 0) = q PROVE In(ms, n, 1) # q
  <1> SUFFICES ASSUME In(ms, n, 1) = q PROVE FALSE
    OBVIOUS
  <1>1. Waits(ms, q, n, 0) /\ Waits(ms, q, n, 1) /\ n \in DOMAIN ms
    BY DEF CanEnd, Waits
  <1>2. 0 = 1
    BY <1>1 DEF Stands
  <1> QED BY <1>2

(* What stays with the bracket: nobody moves out of a decided match, nor    *)
(* into one of the openings.                                                *)
LEMMA BracketStays ==
    ASSUME NEW ms, NEW e, BracketOf(ms, e), NEW n, NEW w, CanEnd(ms, n, w), NEW after, Ends(ms, after, n, w),
           DoneSame(ms, after, n),
           \A m \in DOMAIN ms, s \in {0, 1} :
              \/ In(after, m, s) = In(ms, m, s)
              \/ ~ Opening(m) /\ In(after, m, s) \in Players \cup {NOBODY} /\ (Certain(e, m, s) => In(after, m, s) # NOBODY)
    PROVE  BracketOf(after, e)
  <1>1. DOMAIN after = shape(e) /\ DOMAIN ms = shape(e)
    BY DEF BracketOf, Ends
  <1>2. ASSUME NEW m \in shape(e)
        PROVE  /\ after[m].wave = wave(e, m)
               /\ \A s \in {0, 1} : In(after, m, s) \in Players \cup {null, NOBODY}
               /\ \A s \in {0, 1} : Opening(m) => In(after, m, s) # null
               /\ \A s \in {0, 1} : Certain(e, m, s) => In(after, m, s) # NOBODY
    <2>1. after[m].wave = wave(e, m)
      BY <1>1 DEF BracketOf, Ends
    <2>2. ASSUME NEW s \in {0, 1}
          PROVE  /\ In(after, m, s) \in Players \cup {null, NOBODY}
                 /\ Opening(m) => In(after, m, s) # null
                 /\ Certain(e, m, s) => In(after, m, s) # NOBODY
      <3>1. /\ In(ms, m, s) \in Players \cup {null, NOBODY}
            /\ Opening(m) => In(ms, m, s) # null
            /\ Certain(e, m, s) => In(ms, m, s) # NOBODY
        BY DEF BracketOf
      <3> QED BY <1>1, <3>1
    <2> QED BY <2>1, <2>2
  <1>3. \A x : \A m : x[m].player1 = In(x, m, 0) /\ x[m].player2 = In(x, m, 1)
    BY DEF In
  <1>4. ASSUME NEW m \in shape(e), Done(after, m)
        PROVE  /\ In(after, m, 0) # null /\ In(after, m, 1) # null
               /\ after[m].winner \in {In(after, m, 0), In(after, m, 1)}
               /\ after[m].winner = NOBODY => In(after, m, 0) = NOBODY /\ In(after, m, 1) = NOBODY
    <2>1. In(after, m, 0) = In(ms, m, 0) /\ In(after, m, 1) = In(ms, m, 1)
      BY <1>1, <1>4 DEF DoneSame, Ends
    <2>2. CASE m = n
      BY <1>1, <2>1, <2>2 DEF Ends, CanEnd
    <2>3. CASE m # n
      <3>1. Done(ms, m) /\ after[m].winner = ms[m].winner
        BY <1>1, <1>4, <2>3 DEF Ends
      <3> QED BY <1>3, <2>1, <3>1 DEF BracketOf
    <2> QED BY <2>2, <2>3
  <1> QED BY <1>1, <1>2, <1>3, <1>4 DEF BracketOf

-------------------------------------------------------------------------------
(* A match before the finals *)

LEMMA MoveKeepsDone ==
    ASSUME NEW e, NEW ms, DOMAIN ms = shape(e), NEW n \in Inner(e), NEW w, NEW l, NEW after,
           MovedOn(ms, after, e, n, w, l),
           Open(ms, e, n, winnerGoes(e, n)), loserGoes(e, n) = Out \/ Open(ms, e, n, loserGoes(e, n))
    PROVE  DoneSame(ms, after, n)
  <1>1. \A m, s : Done(ms, m) \/ m = n => SlotOf(m, s) # winnerGoes(e, n) /\ SlotOf(m, s) # loserGoes(e, n)
    BY SlotParts DEF Open
  <1> QED BY <1>1 DEF DoneSame, MovedOn

LEMMA MoveKeepsBracket ==
    ASSUME NEW e \in Nat, e >= 2, NEW ms, BracketOf(ms, e), NEW n \in Inner(e), NEW w, CanEnd(ms, n, w),
           NEW after, Ends(ms, after, n, w), MovedOn(ms, after, e, n, w, LoserOf(ms, n, w)), DoneSame(ms, after, n),
           Open(ms, e, n, winnerGoes(e, n)), loserGoes(e, n) = Out \/ Open(ms, e, n, loserGoes(e, n))
    PROVE  BracketOf(after, e)
  <1> DEFINE up == winnerGoes(e, n)
             down == loserGoes(e, n)
             l == LoserOf(ms, n, w)
  <1>0. n \in shape(e) /\ DOMAIN ms = shape(e)
    BY DEF Inner, BracketOf
  <1>1. w \in Players \cup {NOBODY} /\ l \in Players \cup {NOBODY}
    BY <1>0 DEF BracketOf, CanEnd, LoserOf
  <1>2. /\ Certain(e, n, 0) \/ Certain(e, n, 1) => w # NOBODY
        /\ Certain(e, n, 0) /\ Certain(e, n, 1) => l # NOBODY
    BY <1>0 DEF BracketOf, CanEnd, LoserOf
  <1>3. /\ Certain(e, up.node, up.slot) => w # NOBODY
        /\ down # Out /\ Certain(e, down.node, down.slot) => l # NOBODY
    BY <1>2, BracketsAreWired DEF Wired
  <1> HIDE DEF up, down, l
  <1>4. ASSUME NEW m \in DOMAIN ms, NEW s \in {0, 1}
        PROVE  \/ In(after, m, s) = In(ms, m, s)
               \/ ~ Opening(m) /\ In(after, m, s) \in Players \cup {NOBODY} /\ (Certain(e, m, s) => In(after, m, s) # NOBODY)
    <2>1. In(after, m, s) = IF SlotOf(m, s) = up THEN w ELSE IF SlotOf(m, s) = down THEN l ELSE In(ms, m, s)
      BY DEF MovedOn, up, down, l
    <2>2. CASE SlotOf(m, s) = up
      <3>1. m = up.node /\ s = up.slot
        BY <2>2, SlotParts
      <3>2. ~ Opening(m)
        BY <3>1, SlotParts DEF Open, up
      <3> QED BY <1>1, <1>3, <2>1, <2>2, <3>1, <3>2
    <2>3. CASE SlotOf(m, s) # up /\ SlotOf(m, s) = down
      <3>1. m = down.node /\ s = down.slot /\ down # Out
        BY <2>3, SlotParts
      <3>2. ~ Opening(m)
        BY <3>1, SlotParts DEF Open, down
      <3> QED BY <1>1, <1>3, <2>1, <2>3, <3>1, <3>2
    <2>4. CASE SlotOf(m, s) # up /\ SlotOf(m, s) # down
      BY <2>1, <2>4
    <2> QED BY <2>2, <2>3, <2>4
  <1> QED BY <1>4, BracketStays

LEMMA MoveGoesOn ==
    ASSUME NEW e \in Nat, e >= 2, NEW ms, BracketOf(ms, e), Goes(ms, e), NEW n \in Inner(e), NEW w,
           CanEnd(ms, n, w),
           NEW after, Ends(ms, after, n, w), MovedOn(ms, after, e, n, w, LoserOf(ms, n, w)), DoneSame(ms, after, n),
           Open(ms, e, n, winnerGoes(e, n)), loserGoes(e, n) = Out \/ Open(ms, e, n, loserGoes(e, n))
    PROVE  Goes(after, e)
  <1> DEFINE up(m) == winnerGoes(e, m)
             down(m) == loserGoes(e, m)
             l == LoserOf(ms, n, w)
  <1>0. DOMAIN ms = shape(e) /\ \A m \in Inner(e) : m \in shape(e)
    BY DEF Inner, BracketOf
  <1>1. w # null /\ l # null
    BY DEF CanEnd, LoserOf
  <1>2. ASSUME NEW m \in Inner(e)
        PROVE  /\ \E t \in shape(e) \ {Reset}, s \in {0, 1} : up(m) = SlotOf(t, s)
               /\ down(m) # Out => \E t \in shape(e) \ {Reset}, s \in {0, 1} : down(m) = SlotOf(t, s)
    BY BracketsAreWired DEF Wired, LeadsOn
  <1>3. /\ \A m \in Inner(e) : /\ up(m) = up(n) => m = n
                               /\ down(m) = down(n) /\ down(m) # Out => m = n
                               /\ up(m) # down(n) /\ up(n) # down(m)
    BY BracketsAreWired DEF Wired
  <1> HIDE DEF l
  <1>4. \A t \in shape(e), s \in {0, 1} :
           In(after, t, s) = IF SlotOf(t, s) = up(n) THEN w ELSE IF SlotOf(t, s) = down(n) THEN l ELSE In(ms, t, s)
    BY <1>0 DEF MovedOn, l
  <1>5. ASSUME NEW m \in Inner(e)
        PROVE  /\ Done(ms, m) <=> In(ms, up(m).node, up(m).slot) # null
               /\ down(m) # Out => (Done(ms, m) <=> In(ms, down(m).node, down(m).slot) # null)
    BY DEF Goes
  <1>6. ASSUME NEW m \in shape(e) PROVE Done(after, m) <=> Done(ms, m) \/ m = n
    BY <1>0 DEF Ends
  <1> HIDE DEF up, down
  <1>7. ASSUME NEW m \in Inner(e)
        PROVE  Done(after, m) <=> In(after, up(m).node, up(m).slot) # null
    <2>1. PICK t \in shape(e) \ {Reset}, s \in {0, 1} : up(m) = SlotOf(t, s)
      BY <1>2
    <2>2. up(m).node = t /\ up(m).slot = s
      BY <2>1, SlotParts
    <2>3. m \in shape(e)
      BY <1>0
    <2> QED BY <1>1, <1>3, <1>4, <1>5, <1>6, <2>1, <2>2, <2>3
  <1>8. ASSUME NEW m \in Inner(e), down(m) # Out
        PROVE  Done(after, m) <=> In(after, down(m).node, down(m).slot) # null
    <2>1. PICK t \in shape(e) \ {Reset}, s \in {0, 1} : down(m) = SlotOf(t, s)
      BY <1>2, <1>8
    <2>2. down(m).node = t /\ down(m).slot = s
      BY <2>1, SlotParts
    <2>3. m \in shape(e)
      BY <1>0
    <2> QED BY <1>1, <1>3, <1>4, <1>5, <1>6, <1>8, <2>1, <2>2, <2>3
  <1>9. /\ Final \in shape(e) /\ Final # n /\ Reset \in shape(e) /\ Reset # n
    BY FinalsThere DEF Inner
  <1>10. \A s \in {0, 1} : In(after, Reset, s) = In(ms, Reset, s)
    <2>1. \A s : SlotOf(Reset, s) # up(n) /\ SlotOf(Reset, s) # down(n)
      BY <1>2, SlotParts
    <2> QED BY <1>4, <1>9, <2>1
  <1>11. Done(after, Final) <=> Done(ms, Final)
    BY <1>6, <1>9
  <1>12. Done(ms, Final) => after[Final].winner = ms[Final].winner /\ after[Final].player1 = ms[Final].player1
    BY <1>0, <1>9 DEF DoneSame, Ends, In
  <1>13. after[Reset].player1 = ms[Reset].player1 /\ after[Reset].player2 = ms[Reset].player2
    BY <1>10 DEF In
  <1>14. /\ \A s \in {0, 1} : Done(after, Final) <=> In(after, Reset, s) # null
         /\ after[Reset].player1 = NOBODY <=> after[Reset].player2 = NOBODY
         /\ Done(after, Final) => (after[Final].winner = after[Final].player1 <=> after[Reset].player1 = NOBODY)
    BY <1>10, <1>11, <1>12, <1>13 DEF Goes
  <1> QED BY <1>7, <1>8, <1>14 DEF Goes, up, down

LEMMA MoveStands ==
    ASSUME NEW e \in Nat, e >= 2, NEW ms, IsFiniteSet(DOMAIN ms), BracketOf(ms, e), Goes(ms, e),
           NEW n \in Inner(e), NEW w,
           CanEnd(ms, n, w), NEW after, Ends(ms, after, n, w), MovedOn(ms, after, e, n, w, LoserOf(ms, n, w)),
           DoneSame(ms, after, n), Open(ms, e, n, winnerGoes(e, n)),
           loserGoes(e, n) = Out \/ Open(ms, e, n, loserGoes(e, n)), winnerGoes(e, n) # loserGoes(e, n),
           NEW q \in Players, Stands(ms, q)
    PROVE  Stands(after, q)
  <1> DEFINE up == winnerGoes(e, n)
             down == loserGoes(e, n)
             l == LoserOf(ms, n, w)
  <1>0. n \in shape(e) /\ DOMAIN ms = shape(e) /\ DOMAIN after = DOMAIN ms
    BY DEF Inner, BracketOf, Ends
  <1>1. PICK t \in shape(e), u \in {0, 1} : up = SlotOf(t, u) /\ t # n /\ In(ms, t, u) = null /\ ~ Done(ms, t)
    BY DEF Open
  <1>2. down # Out => \E x \in shape(e), v \in {0, 1} : down = SlotOf(x, v) /\ x # n /\ In(ms, x, v) = null /\ ~ Done(ms, x)
    BY DEF Open
  <1>3. \A m \in DOMAIN ms, s \in {0, 1} :
           In(after, m, s) = IF SlotOf(m, s) = up THEN w ELSE IF SlotOf(m, s) = down THEN l ELSE In(ms, m, s)
    BY DEF MovedOn
  <1>4. q # null /\ q # NOBODY
    BY TournamentAssumption
  <1>5. \A s : Defeats(n, s) \in {0, 1}
    BY DEF Defeats
  <1>6. /\ \A s \in {0, 1} : Defeats(t, u) = Defeats(n, s)
        /\ \A s \in {0, 1} : IF down = Out THEN Defeats(n, s) = 1 ELSE Defeats(n, s) = 0 /\ Defeats(down.node, down.slot) = 1
    BY <1>1, BracketsAreWired, SlotParts DEF Wired
  <1>7. {w, l} = {In(ms, n, 0), In(ms, n, 1)}
    BY DEF CanEnd, LoserOf
  <1>8. Champion(after, q) <=> Champion(ms, q)
    <2>1. Final \in DOMAIN ms /\ Reset \in DOMAIN ms /\ Final # n /\ Reset # n
      BY <1>0, FinalsThere DEF Inner
    <2>2. Done(after, Final) <=> Done(ms, Final)
      BY <2>1 DEF Ends
    <2>3. Done(after, Reset) <=> Done(ms, Reset)
      BY <2>1 DEF Ends
    <2>4. after[Final].winner = ms[Final].winner /\ after[Reset].winner = ms[Reset].winner
      BY <2>1 DEF Ends
    <2>5. Done(ms, Final) => after[Final].player1 = ms[Final].player1
      BY <2>1 DEF DoneSame, In
    <2> QED BY <2>2, <2>3, <2>4, <2>5 DEF Champion
  <1>9. /\ Cardinality(Lost(ms, q)) \in Nat
        /\ Cardinality(Lost(after, q)) = Cardinality(Lost(ms, q)) + (IF Loses(ms, n, w, q) THEN 1 ELSE 0)
    BY <1>0, DefeatsAfter DEF CanEnd
  <1>10. \A m \in DOMAIN ms : Done(after, m) <=> Done(ms, m) \/ m = n
    BY DEF Ends
  <1>11. ~ Done(ms, n)
    BY DEF CanEnd
  <1> HIDE DEF up, down, l
  <1>12. CASE q \notin {w, l}
    <2>1. In(ms, n, 0) # q /\ In(ms, n, 1) # q
      BY <1>7, <1>12
    <2>2. Cardinality(Lost(after, q)) = Cardinality(Lost(ms, q))
      BY <1>9, <2>1 DEF Loses
    <2>3. \A m \in DOMAIN ms, s \in {0, 1} : In(after, m, s) = q <=> In(ms, m, s) = q
      <3> SUFFICES ASSUME NEW m \in DOMAIN ms, NEW s \in {0, 1} PROVE In(after, m, s) = q <=> In(ms, m, s) = q
        OBVIOUS
      <3>1. SlotOf(m, s) = up => In(ms, m, s) = null
        BY <1>1, SlotParts
      <3>2. SlotOf(m, s) = down => In(ms, m, s) = null
        BY <1>2, SlotParts
      <3> QED BY <1>3, <1>4, <1>12, <3>1, <3>2
    <2>4. SameWaits(ms, after, q)
      BY <1>0, <1>10, <2>1, <2>3 DEF SameWaits, Waits
    <2>5. NotInvolvedMore(ms, after, q)
      BY <2>3 DEF NotInvolvedMore
    <2> QED BY <1>0, <1>8, <2>2, <2>4, <2>5, StandsAsBefore
  <1>13. CASE q \in {w, l}
    <2>1. PICK s0 \in {0, 1} : In(ms, n, s0) = q
      BY <1>7, <1>13
    <2>2. Waits(ms, q, n, s0)
      BY <1>0, <1>11, <2>1 DEF Waits
    <2>3. OnlyAt(ms, q, n, s0) /\ Cardinality(Lost(ms, q)) = Defeats(n, s0) /\ ~ Champion(ms, q)
      BY <1>0, <2>2, WaitsOnce
    <2>4. w # l
      BY <1>13, TwoPlayers DEF LoserOf, CanEnd, l
    <2>5. ASSUME NEW m \in DOMAIN ms, NEW s \in {0, 1}
          PROVE  Waits(after, q, m, s) <=> (SlotOf(m, s) = up /\ q = w) \/ (SlotOf(m, s) = down /\ q = l)
      <3>1. m # n /\ ~ Done(ms, m) => In(ms, m, s) # q
        BY <2>3 DEF OnlyAt, Waits
      <3>2. SlotOf(m, s) = up => m # n /\ ~ Done(ms, m)
        BY <1>1, SlotParts
      <3>3. SlotOf(m, s) = down => m # n /\ ~ Done(ms, m) /\ SlotOf(m, s) # up
        BY <1>2, SlotParts DEF up, down
      <3>4. CASE SlotOf(m, s) = up
        BY <1>0, <1>3, <1>10, <2>4, <3>2, <3>3, <3>4 DEF Waits
      <3>5. CASE SlotOf(m, s) = down
        BY <1>0, <1>3, <1>10, <2>4, <3>2, <3>3, <3>5 DEF Waits
      <3>6. CASE SlotOf(m, s) # up /\ SlotOf(m, s) # down
        BY <1>0, <1>3, <1>10, <3>1, <3>6 DEF Waits
      <3> QED BY <3>4, <3>5, <3>6
    <2>6. Loses(ms, n, w, q) <=> q = l
      BY <1>13, <2>1, <2>4 DEF Loses
    <2>7. CASE q = w
      <3>1. OnlyAt(after, q, t, u)
        BY <1>0, <1>1, <2>4, <2>5, <2>7, SlotParts DEF OnlyAt
      <3>2. Cardinality(Lost(after, q)) = Defeats(t, u)
        BY <1>6, <1>9, <2>3, <2>4, <2>6, <2>7
      <3> QED BY <1>0, <1>1, <1>8, <2>3, <3>1, <3>2, StandsWaiting
    <2>8. CASE q = l /\ down = Out
      <3>1. Nowhere(after, q)
        BY <1>0, <2>4, <2>5, <2>8, SlotParts DEF Nowhere
      <3>2. Cardinality(Lost(after, q)) = 2
        BY <1>6, <1>9, <2>3, <2>6, <2>8
      <3> QED BY <1>8, <2>3, <3>1, <3>2, StandsOut
    <2>9. CASE q = l /\ down # Out
      <3>1. PICK x \in shape(e), v \in {0, 1} : down = SlotOf(x, v) /\ x # n
        BY <1>2, <2>9
      <3>2. OnlyAt(after, q, x, v)
        BY <1>0, <2>4, <2>5, <2>9, <3>1, SlotParts DEF OnlyAt
      <3>3. Cardinality(Lost(after, q)) = Defeats(x, v)
        BY <1>6, <1>9, <2>3, <2>6, <2>9, <3>1, SlotParts
      <3> QED BY <1>0, <1>8, <2>3, <3>1, <3>2, <3>3, StandsWaiting
    <2> QED BY <1>13, <2>7, <2>8, <2>9
  <1> QED BY <1>12, <1>13

LEMMA MoveKeepsInvariant ==
    ASSUME NEW e \in Nat, e >= 2, NEW ms, AreMatches(ms), IsFiniteSet(DOMAIN ms), BracketInv(ms, e),
           NEW n \in Inner(e), NEW w,
           CanEnd(ms, n, w), NEW after, Ends(ms, after, n, w), MovedOn(ms, after, e, n, w, LoserOf(ms, n, w))
    PROVE  BracketInv(after, e)
  <1>1. BracketOf(ms, e) /\ Goes(ms, e) /\ DOMAIN ms = shape(e) /\ \A q \in Players : Stands(ms, q)
    BY DEF BracketInv, BracketOf
  <1>2. /\ Open(ms, e, n, winnerGoes(e, n))
        /\ loserGoes(e, n) = Out \/ Open(ms, e, n, loserGoes(e, n))
        /\ winnerGoes(e, n) # loserGoes(e, n)
    BY <1>1, NextSlotsAreOpen DEF CanEnd
  <1>3. DoneSame(ms, after, n)
    BY <1>1, <1>2, MoveKeepsDone
  <1>4. BracketOf(after, e)
    BY <1>1, <1>2, <1>3, MoveKeepsBracket
  <1>5. Goes(after, e)
    BY <1>1, <1>2, <1>3, MoveGoesOn
  <1>6. \A q \in Players : Stands(after, q)
    BY <1>1, <1>2, <1>3, MoveStands
  <1> QED BY <1>4, <1>5, <1>6 DEF BracketInv

-------------------------------------------------------------------------------
(* Every match but the finals leads to other matches than the reset final.  *)
LEMMA ResetIsApart ==
    ASSUME NEW e \in Nat, e >= 2
    PROVE  /\ Final # Reset /\ Final \in shape(e) /\ Reset \in shape(e) /\ ~ Opening(Reset) /\ ~ Opening(Final)
           /\ \A n \in Inner(e) : /\ n \in shape(e) /\ n # Final /\ n # Reset
                                  /\ winnerGoes(e, n).node # Reset
                                  /\ winnerGoes(e, n).node \in shape(e) /\ winnerGoes(e, n).slot \in {0, 1}
                                  /\ loserGoes(e, n) # Out => /\ loserGoes(e, n).node # Reset
                                                              /\ loserGoes(e, n).node \in shape(e)
                                                              /\ loserGoes(e, n).slot \in {0, 1}
           /\ \A s : ~ Certain(e, Reset, s) /\ Certain(e, Final, s) /\ Defeats(Reset, s) = 1
  <1>1. Final # Reset /\ Reset[1] = "RESET"
    BY DEF Final, Reset
  <1>2. ASSUME NEW n \in Inner(e)
        PROVE  /\ winnerGoes(e, n).node # Reset /\ winnerGoes(e, n).node \in shape(e) /\ winnerGoes(e, n).slot \in {0, 1}
               /\ loserGoes(e, n) # Out => /\ loserGoes(e, n).node # Reset
                                           /\ loserGoes(e, n).node \in shape(e)
                                           /\ loserGoes(e, n).slot \in {0, 1}
    BY BracketsAreWired, SlotParts DEF Wired, LeadsOn
  <1>3. \A s : ~ Certain(e, Reset, s) /\ Certain(e, Final, s) /\ Defeats(Reset, s) = 1
    BY <1>1 DEF Certain, Defeats
  <1> QED BY <1>1, <1>2, <1>3, FinalsThere DEF Inner

-------------------------------------------------------------------------------
(* The grand final *)

LEMMA FinalKeepsInvariant ==
    ASSUME NEW e \in Nat, e >= 2, NEW ms, AreMatches(ms), IsFiniteSet(DOMAIN ms), BracketInv(ms, e), NEW w,
           CanEnd(ms, Final, w), NEW after, Ends(ms, after, Final, w), ResetSet(ms, after, w)
    PROVE  BracketInv(after, e)
  <1> DEFINE p1 == In(ms, Final, 0)
             p2 == In(ms, Final, 1)
  <1>1. BracketOf(ms, e) /\ Goes(ms, e) /\ DOMAIN ms = shape(e) /\ DOMAIN after = shape(e) /\ \A q \in Players : Stands(ms, q)
    BY DEF BracketInv, BracketOf, Ends
  <1>2. /\ Final # Reset /\ Final \in DOMAIN ms /\ Reset \in DOMAIN ms
        /\ \A s : ~ Certain(e, Reset, s) /\ Certain(e, Final, s)
    BY <1>1, ResetIsApart
  <1>3. p1 # NOBODY /\ p2 # NOBODY /\ p1 \in Players /\ p2 \in Players
    BY <1>1, <1>2 DEF BracketOf, CanEnd
  <1>4. p1 # p2 /\ w \in {p1, p2}
    BY <1>1, <1>3, TwoPlayers DEF CanEnd
  <1>5. ms[Final].player1 = p1 /\ \A x, m : x[m].player1 = In(x, m, 0) /\ x[m].player2 = In(x, m, 1)
    BY DEF In
  <1>6. ~ Done(ms, Final) /\ ~ Done(ms, Reset) /\ \A s \in {0, 1} : In(ms, Reset, s) = null
    <2>1. \A s \in {0, 1} : In(ms, Reset, s) = null
      BY <1>1 DEF Goes, CanEnd
    <2>2. Done(ms, Reset) => In(ms, Reset, 0) # null
      BY <1>1, <1>2, <1>5 DEF BracketOf
    <2> QED BY <2>1, <2>2 DEF CanEnd
  <1> HIDE DEF p1, p2
  <1>7. \A m \in DOMAIN ms, s \in {0, 1} : m # Reset => In(after, m, s) = In(ms, m, s)
    BY DEF ResetSet
  <1>8. /\ In(after, Reset, 0) = IF w = p1 THEN NOBODY ELSE p1
        /\ In(after, Reset, 1) = IF w = p1 THEN NOBODY ELSE p2
    BY <1>2, <1>5 DEF ResetSet, p1, p2
  <1>9. DoneSame(ms, after, Final)
    BY <1>2, <1>6, <1>7 DEF DoneSame
  <1>10. \A m \in DOMAIN ms : Done(after, m) <=> Done(ms, m) \/ m = Final
    BY DEF Ends
  <1>11. after[Final].winner = w
    BY <1>2 DEF Ends
  <1>12. BracketOf(after, e)
    <2>1. ASSUME NEW m \in DOMAIN ms, NEW s \in {0, 1}
          PROVE  \/ In(after, m, s) = In(ms, m, s)
                 \/ ~ Opening(m) /\ In(after, m, s) \in Players \cup {NOBODY} /\ (Certain(e, m, s) => In(after, m, s) # NOBODY)
      BY <1>2, <1>3, <1>7, <1>8, FinalsThere
    <2> QED BY <1>1, <1>9, <2>1, BracketStays
  <1>13. Goes(after, e)
    <2>1. ASSUME NEW n \in Inner(e)
          PROVE  /\ Done(after, n) <=> In(after, winnerGoes(e, n).node, winnerGoes(e, n).slot) # null
                 /\ loserGoes(e, n) # Out => (Done(after, n) <=> In(after, loserGoes(e, n).node, loserGoes(e, n).slot) # null)
      <3> DEFINE up == winnerGoes(e, n)
                 down == loserGoes(e, n)
      <3>1. Done(ms, n) <=> In(ms, up.node, up.slot) # null
        BY <1>1 DEF Goes
      <3>2. down # Out => (Done(ms, n) <=> In(ms, down.node, down.slot) # null)
        BY <1>1 DEF Goes
      <3>3. /\ n \in DOMAIN ms /\ n # Final /\ up.node # Reset /\ up.node \in DOMAIN ms /\ up.slot \in {0, 1}
            /\ down # Out => down.node # Reset /\ down.node \in DOMAIN ms /\ down.slot \in {0, 1}
        BY <1>1, ResetIsApart
      <3> HIDE DEF up, down
      <3>4. Done(after, n) <=> Done(ms, n)
        BY <1>10, <3>3
      <3>5. In(after, up.node, up.slot) = In(ms, up.node, up.slot)
        BY <1>7, <3>3
      <3>6. down # Out => In(after, down.node, down.slot) = In(ms, down.node, down.slot)
        BY <1>7, <3>3
      <3>7. /\ Done(after, n) <=> In(after, up.node, up.slot) # null
            /\ down # Out => (Done(after, n) <=> In(after, down.node, down.slot) # null)
        BY <3>1, <3>2, <3>4, <3>5, <3>6
      <3> QED BY <3>7 DEF up, down
    <2>2. Done(after, Final)
      BY <1>2, <1>10
    <2>3. In(after, Reset, 0) # null /\ In(after, Reset, 1) # null
      BY <1>3, <1>8, TournamentAssumption
    <2>4. In(after, Reset, 0) = NOBODY <=> In(after, Reset, 1) = NOBODY
      BY <1>3, <1>8
    <2>5. w = In(after, Final, 0) <=> In(after, Reset, 0) = NOBODY
      BY <1>2, <1>3, <1>7, <1>8 DEF p1
    <2>6. \A s \in {0, 1} : Done(after, Final) <=> In(after, Reset, s) # null
      BY <2>2, <2>3
    <2>7. /\ after[Reset].player1 = NOBODY <=> after[Reset].player2 = NOBODY
          /\ Done(after, Final) => (after[Final].winner = after[Final].player1 <=> after[Reset].player1 = NOBODY)
      BY <1>5, <1>11, <2>4, <2>5
    <2> QED BY <2>1, <2>6, <2>7 DEF Goes
  <1>14. ASSUME NEW q \in Players PROVE Stands(after, q)
    <2>0. Stands(ms, q) /\ q # null /\ q # NOBODY
      BY <1>1, TournamentAssumption
    <2>1. /\ Cardinality(Lost(ms, q)) \in Nat
          /\ Cardinality(Lost(after, q)) = Cardinality(Lost(ms, q)) + (IF Loses(ms, Final, w, q) THEN 1 ELSE 0)
      BY <1>2, <1>6, <1>9, DefeatsAfter
    <2>2. Loses(ms, Final, w, q) <=> q \in {p1, p2} /\ q # w
      BY DEF Loses, p1, p2
    <2>3. Champion(after, q) <=> w = p1 /\ q = p1
      <3>1. Done(after, Final) /\ ~ Done(after, Reset)
        BY <1>2, <1>6, <1>10
      <3>2. after[Final].player1 = p1
        BY <1>2, <1>5, <1>7 DEF p1
      <3> QED BY <1>11, <3>1, <3>2 DEF Champion
    <2>4. ~ Champion(ms, q)
      BY <1>6 DEF Champion
    <2>5. \A m \in DOMAIN ms, s \in {0, 1} :
             Waits(after, q, m, s) <=> \/ m # Final /\ m # Reset /\ Waits(ms, q, m, s)
                                       \/ m = Reset /\ In(after, Reset, s) = q
      BY <1>1, <1>2, <1>6, <1>7, <1>10 DEF Waits
    <2>6. CASE q \notin {p1, p2}
      <3>1. \A s \in {0, 1} : In(after, Reset, s) # q /\ In(ms, Reset, s) # q /\ In(ms, Final, s) # q
        BY <1>6, <1>8, <2>0, <2>6 DEF p1, p2
      <3>2. SameWaits(ms, after, q)
        BY <2>5, <3>1 DEF SameWaits, Waits
      <3>3. NotInvolvedMore(ms, after, q)
        BY <1>1, <1>7, <3>1 DEF NotInvolvedMore
      <3>4. Cardinality(Lost(after, q)) = Cardinality(Lost(ms, q))
        BY <2>1, <2>2, <2>6
      <3>5. Champion(after, q) <=> Champion(ms, q)
        BY <2>3, <2>4, <2>6
      <3> QED BY <1>1, <2>0, <3>2, <3>3, <3>4, <3>5, StandsAsBefore
    <2>7. ASSUME NEW s0 \in {0, 1}, In(ms, Final, s0) = q
          PROVE  /\ Cardinality(Lost(ms, q)) = Defeats(Final, s0)
                 /\ \A m \in DOMAIN ms, s \in {0, 1} : Waits(after, q, m, s) <=> m = Reset /\ In(after, Reset, s) = q
      <3>1. Waits(ms, q, Final, s0)
        BY <1>2, <1>6, <2>7 DEF Waits
      <3>2. OnlyAt(ms, q, Final, s0) /\ Cardinality(Lost(ms, q)) = Defeats(Final, s0)
        BY <1>2, <2>0, <3>1, WaitsOnce
      <3> QED BY <2>5, <3>2 DEF OnlyAt
    <2>8. Defeats(Final, 0) = 0 /\ Defeats(Final, 1) = 1 /\ \A s : Defeats(Reset, s) = 1
      BY DefeatsBefore, ResetIsApart
    <2>9. CASE q = p1 /\ w = p1
      <3>1. Cardinality(Lost(ms, q)) = 0
        BY <2>7, <2>8, <2>9 DEF p1
      <3>2. Cardinality(Lost(after, q)) \in {0, 1}
        BY <2>1, <2>2, <2>9, <3>1
      <3>3. Nowhere(after, q)
        BY <1>1, <1>8, <2>0, <2>7, <2>9 DEF Nowhere, p1
      <3> QED BY <2>3, <2>9, <3>2, <3>3, StandsFirst
    <2>10. CASE q = p2 /\ w = p1
      <3>1. Cardinality(Lost(ms, q)) = 1
        BY <2>7, <2>8, <2>10 DEF p2
      <3>2. Cardinality(Lost(after, q)) = 2
        BY <1>4, <2>1, <2>2, <2>10, <3>1
      <3>3. Nowhere(after, q)
        BY <1>1, <1>8, <2>0, <2>7, <2>10 DEF Nowhere, p2
      <3> QED BY <1>4, <2>3, <2>10, <3>2, <3>3, StandsOut
    <2>11. CASE q = p1 /\ w # p1
      <3>1. Cardinality(Lost(ms, q)) = 0
        BY <2>7, <2>8, <2>11 DEF p1
      <3>2. Cardinality(Lost(after, q)) = Defeats(Reset, 0)
        BY <2>1, <2>2, <2>8, <2>11, <3>1
      <3>3. OnlyAt(after, q, Reset, 0)
        BY <1>1, <1>2, <1>4, <1>8, <2>7, <2>11 DEF OnlyAt, p1
      <3> QED BY <1>1, <1>2, <2>3, <2>11, <3>2, <3>3, StandsWaiting
    <2>12. CASE q = p2 /\ w # p1
      <3>1. Cardinality(Lost(ms, q)) = 1
        BY <2>7, <2>8, <2>12 DEF p2
      <3>2. Cardinality(Lost(after, q)) = Defeats(Reset, 1)
        BY <1>4, <2>1, <2>2, <2>8, <2>12, <3>1
      <3>3. OnlyAt(after, q, Reset, 1)
        BY <1>1, <1>2, <1>4, <1>8, <2>7, <2>12 DEF OnlyAt, p2
      <3> QED BY <1>1, <1>2, <1>4, <2>3, <2>12, <3>2, <3>3, StandsWaiting
    <2> QED BY <2>6, <2>9, <2>10, <2>11, <2>12
  <1> QED BY <1>12, <1>13, <1>14 DEF BracketInv

-------------------------------------------------------------------------------
(* The reset final *)

LEMMA ResetKeepsInvariant ==
    ASSUME NEW e \in Nat, e >= 2, NEW ms, AreMatches(ms), IsFiniteSet(DOMAIN ms), BracketInv(ms, e), NEW w,
           CanEnd(ms, Reset, w), NEW after, Ends(ms, after, Reset, w), SameSlots(ms, after)
    PROVE  BracketInv(after, e)
  <1> DEFINE p1 == In(ms, Reset, 0)
             p2 == In(ms, Reset, 1)
  <1>1. BracketOf(ms, e) /\ Goes(ms, e) /\ DOMAIN ms = shape(e) /\ DOMAIN after = shape(e) /\ \A q \in Players : Stands(ms, q)
    BY DEF BracketInv, BracketOf, Ends
  <1>2. Final # Reset /\ Final \in DOMAIN ms /\ Reset \in DOMAIN ms
    BY <1>1, ResetIsApart
  <1>3. \A m \in DOMAIN ms, s \in {0, 1} : In(after, m, s) = In(ms, m, s)
    BY DEF SameSlots
  <1>4. \A m \in DOMAIN ms : /\ Done(after, m) <=> Done(ms, m) \/ m = Reset
                             /\ after[m].winner = IF m = Reset THEN w ELSE ms[m].winner
    BY DEF Ends
  <1>5. \A x, m : x[m].player1 = In(x, m, 0) /\ x[m].player2 = In(x, m, 1)
    BY DEF In
  <1>6. DoneSame(ms, after, Reset)
    BY <1>3 DEF DoneSame
  <1>7. BracketOf(after, e)
    BY <1>1, <1>3, <1>6, BracketStays
  <1>8. Goes(after, e)
    <2>1. ASSUME NEW n \in Inner(e)
          PROVE  /\ Done(after, n) <=> In(after, winnerGoes(e, n).node, winnerGoes(e, n).slot) # null
                 /\ loserGoes(e, n) # Out => (Done(after, n) <=> In(after, loserGoes(e, n).node, loserGoes(e, n).slot) # null)
      <3> DEFINE up == winnerGoes(e, n)
                 down == loserGoes(e, n)
      <3>1. Done(ms, n) <=> In(ms, up.node, up.slot) # null
        BY <1>1 DEF Goes
      <3>2. down # Out => (Done(ms, n) <=> In(ms, down.node, down.slot) # null)
        BY <1>1 DEF Goes
      <3>3. /\ n \in DOMAIN ms /\ n # Reset /\ up.node \in DOMAIN ms /\ up.slot \in {0, 1}
            /\ down # Out => down.node \in DOMAIN ms /\ down.slot \in {0, 1}
        BY <1>1, ResetIsApart
      <3> HIDE DEF up, down
      <3>4. /\ Done(after, n) <=> In(after, up.node, up.slot) # null
            /\ down # Out => (Done(after, n) <=> In(after, down.node, down.slot) # null)
        BY <1>3, <1>4, <3>1, <3>2, <3>3
      <3> QED BY <3>4 DEF up, down
    <2>2. Done(after, Final) <=> Done(ms, Final)
      BY <1>2, <1>4
    <2>3. after[Final].winner = ms[Final].winner /\ after[Final].player1 = ms[Final].player1
      BY <1>2, <1>3, <1>4, <1>5
    <2>4. after[Reset].player1 = ms[Reset].player1 /\ after[Reset].player2 = ms[Reset].player2
      BY <1>2, <1>3, <1>5
    <2>5. \A s \in {0, 1} : In(after, Reset, s) = In(ms, Reset, s)
      BY <1>2, <1>3
    <2>6. /\ \A s \in {0, 1} : Done(after, Final) <=> In(after, Reset, s) # null
          /\ after[Reset].player1 = NOBODY <=> after[Reset].player2 = NOBODY
          /\ Done(after, Final) => (after[Final].winner = after[Final].player1 <=> after[Reset].player1 = NOBODY)
      BY <1>1, <2>2, <2>3, <2>4, <2>5 DEF Goes
    <2> QED BY <2>1, <2>6 DEF Goes
  <1>9. Done(ms, Final) /\ (p1 = NOBODY <=> p2 = NOBODY) /\ (ms[Final].winner = ms[Final].player1 <=> p1 = NOBODY)
    BY <1>1, <1>5 DEF Goes, CanEnd
  <1>10. /\ after[Final].winner = ms[Final].winner /\ after[Final].player1 = ms[Final].player1
         /\ Done(after, Final) /\ Done(after, Reset) /\ after[Reset].winner = w /\ ~ Done(ms, Reset)
    BY <1>2, <1>3, <1>4, <1>5, <1>9 DEF CanEnd
  <1>11. w \in {p1, p2} /\ (w = NOBODY => p1 = NOBODY /\ p2 = NOBODY)
    BY DEF CanEnd
  <1> HIDE DEF p1, p2
  <1>12. ASSUME NEW q \in Players PROVE Stands(after, q)
    <2>0. Stands(ms, q) /\ q # null /\ q # NOBODY
      BY <1>1, TournamentAssumption
    <2>1. /\ Cardinality(Lost(ms, q)) \in Nat
          /\ Cardinality(Lost(after, q)) = Cardinality(Lost(ms, q)) + (IF Loses(ms, Reset, w, q) THEN 1 ELSE 0)
      BY <1>2, <1>6, <1>10, DefeatsAfter
    <2>2. Loses(ms, Reset, w, q) <=> q \in {p1, p2} /\ q # w
      BY DEF Loses, p1, p2
    <2>3. \A m \in DOMAIN ms, s \in {0, 1} : Waits(after, q, m, s) <=> m # Reset /\ Waits(ms, q, m, s)
      BY <1>1, <1>3, <1>4 DEF Waits
    <2>4. CASE q \notin {p1, p2}
      <3>1. \A s \in {0, 1} : In(ms, Reset, s) # q
        BY <2>4 DEF p1, p2
      <3>2. SameWaits(ms, after, q)
        BY <2>3, <3>1 DEF SameWaits, Waits
      <3>3. NotInvolvedMore(ms, after, q)
        BY <1>1, <1>3 DEF NotInvolvedMore
      <3>4. Cardinality(Lost(after, q)) = Cardinality(Lost(ms, q))
        BY <2>1, <2>2, <2>4
      <3>5. Champion(after, q) <=> Champion(ms, q)
        BY <1>9, <1>10, <1>11, <2>4 DEF Champion
      <3> QED BY <1>1, <2>0, <3>2, <3>3, <3>4, <3>5, StandsAsBefore
    <2>5. CASE q \in {p1, p2}
      <3>1. PICK s0 \in {0, 1} : In(ms, Reset, s0) = q
        BY <2>5 DEF p1, p2
      <3>2. Waits(ms, q, Reset, s0)
        BY <1>2, <1>10, <3>1 DEF Waits
      <3>3. OnlyAt(ms, q, Reset, s0) /\ Cardinality(Lost(ms, q)) = Defeats(Reset, s0)
        BY <1>2, <2>0, <3>2, WaitsOnce
      <3>4. Cardinality(Lost(ms, q)) = 1
        BY <3>3, ResetIsApart
      <3>5. Nowhere(after, q)
        BY <1>1, <2>3, <3>3 DEF Nowhere, OnlyAt
      <3>6. p1 # NOBODY /\ ms[Final].winner # ms[Final].player1
        BY <1>9, <2>0, <2>5
      <3>7. Champion(after, q) <=> q = w
        BY <1>10, <3>6 DEF Champion
      <3>8. CASE q = w
        <4>1. Cardinality(Lost(after, q)) \in {0, 1}
          BY <2>1, <2>2, <3>4, <3>8
        <4> QED BY <3>5, <3>7, <3>8, <4>1, StandsFirst
      <3>9. CASE q # w
        <4>1. Cardinality(Lost(after, q)) = 2
          BY <2>1, <2>2, <2>5, <3>4, <3>9
        <4> QED BY <3>5, <3>7, <3>9, <4>1, StandsOut
      <3> QED BY <3>8, <3>9
    <2> QED BY <2>4, <2>5
  <1> QED BY <1>7, <1>8, <1>12 DEF BracketInv

-------------------------------------------------------------------------------
(* Any match *)

LEMMA DecisionsKeepInvariant ==
    ASSUME NEW e \in Nat, e >= 2, NEW ms, AreMatches(ms), IsFiniteSet(DOMAIN ms), BracketInv(ms, e), NEW n, NEW w,
           CanEnd(ms, n, w), NEW m, DecidedRow(ms, n, m, w), NEW after, after = advance([ms EXCEPT ![n] = m], n, e)
    PROVE  BracketInv(after, e) /\ Ends(ms, after, n, w)
  <1>1. DOMAIN ms = shape(e) /\ n \in shape(e)
    BY DEF BracketInv, BracketOf, CanEnd
  <1>2. CASE n \in Inner(e)
    <2>1. Ends(ms, after, n, w) /\ MovedOn(ms, after, e, n, w, Other(m, w))
      BY <1>1, <1>2, AdvanceMoves
    <2>2. Other(m, w) = LoserOf(ms, n, w)
      BY DEF Other, LoserOf, DecidedRow, In
    <2> QED BY <1>2, <2>1, <2>2, MoveKeepsInvariant
  <1>3. CASE n = Final
    <2>1. Ends(ms, after, Final, w) /\ ResetSet(ms, after, w)
      BY <1>1, <1>3, FinalMoves
    <2> QED BY <1>3, <2>1, FinalKeepsInvariant
  <1>4. CASE n = Reset
    <2>1. Ends(ms, after, Reset, w) /\ SameSlots(ms, after)
      BY <1>1, <1>4, ResetMoves
    <2> QED BY <1>4, <2>1, ResetKeepsInvariant
  <1> QED BY <1>1, <1>2, <1>3, <1>4 DEF Inner

-------------------------------------------------------------------------------
(* What is decided stays, and walkovers are settled *)

(* A later state of the same bracket: what was decided is.                  *)
Further(ms, after) ==
    /\ DOMAIN after = DOMAIN ms
    /\ \A n \in DOMAIN ms : Done(ms, n) => Done(after, n)

(* Who stands in a slot is not taken away: there is somebody.               *)
Filled(ms, after) == \A n \in DOMAIN ms, s \in {0, 1} : In(ms, n, s) # null => In(after, n, s) # null

(* A slot is filled at the start, or once an earlier match is decided.      *)
LEMMA FilledFrom ==
    ASSUME NEW e \in Nat, e >= 2, NEW n \in shape(e), ~ Opening(n), NEW s \in {0, 1}
    PROVE  \E m \in shape(e) : /\ wave(e, m) < wave(e, n)
                               /\ \A ms : Goes(ms, e) => (Done(ms, m) <=> In(ms, n, s) # null)
  <1>1. CASE n = Reset
    <2>1. Final \in shape(e) /\ wave(e, Final) < wave(e, Reset)
      BY WavesOrdered, ResetIsApart DEF WavesInOrder
    <2> QED BY <1>1, <2>1 DEF Goes
  <1>2. CASE n # Reset
    <2>1. PICK m \in Inner(e) : wave(e, m) < wave(e, n) /\ SlotOf(n, s) \in {winnerGoes(e, m), loserGoes(e, m)}
      BY <1>2, BracketsAreWired DEF Wired
    <2>2. SlotOf(n, s).node = n /\ SlotOf(n, s).slot = s /\ SlotOf(n, s) # Out
      BY SlotParts
    <2>3. ASSUME NEW ms, Goes(ms, e) PROVE Done(ms, m) <=> In(ms, n, s) # null
      <3> DEFINE up == winnerGoes(e, m)
                 down == loserGoes(e, m)
      <3>1. Done(ms, m) <=> In(ms, up.node, up.slot) # null
        BY <2>3 DEF Goes
      <3>2. down # Out => (Done(ms, m) <=> In(ms, down.node, down.slot) # null)
        BY <2>3 DEF Goes
      <3> QED BY <2>1, <2>2, <3>1, <3>2
    <2>4. m \in shape(e)
      BY DEF Inner
    <2> QED BY <2>1, <2>3, <2>4
  <1> QED BY <1>1, <1>2

LEMMA FilledStays ==
    ASSUME NEW e \in Nat, e >= 2, NEW ms, BracketInv(ms, e), NEW after, BracketInv(after, e), Further(ms, after)
    PROVE  Filled(ms, after)
  <1> SUFFICES ASSUME NEW n \in DOMAIN ms, NEW s \in {0, 1}, In(ms, n, s) # null PROVE In(after, n, s) # null
    BY DEF Filled
  <1>1. BracketOf(after, e) /\ Goes(ms, e) /\ Goes(after, e) /\ DOMAIN ms = shape(e)
    BY DEF BracketInv, BracketOf
  <1>2. CASE Opening(n)
    BY <1>1, <1>2 DEF BracketOf
  <1>3. CASE ~ Opening(n)
    <2>1. PICK m \in shape(e) : \A x : Goes(x, e) => (Done(x, m) <=> In(x, n, s) # null)
      BY <1>1, <1>3, FilledFrom
    <2> QED BY <1>1, <2>1 DEF Further
  <1> QED BY <1>2, <1>3

-------------------------------------------------------------------------------
(* Walkovers *)

Undecided(ms) == {n \in DOMAIN ms : ~ Done(ms, n)}

(* A walkover can be decided: for the player, or for nobody.                *)
LEMMA WalkoversCanEnd ==
    ASSUME NEW ms, AreMatches(ms), NEW n \in Walkovers(ms), NEW w, w = Other(ms[n], NOBODY)
    PROVE  CanEnd(ms, n, w) /\ DecidedRow(ms, n, [ms[n] EXCEPT !.winner = w, !.status = "DONE"], w)
  <1> DEFINE m == [ms[n] EXCEPT !.winner = w, !.status = "DONE"]
  <1>1. /\ n \in DOMAIN ms /\ IsMatch(ms[n]) /\ ~ Done(ms, n)
        /\ ms[n].player1 # null /\ ms[n].player2 # null /\ (ms[n].player1 = NOBODY \/ ms[n].player2 = NOBODY)
    BY DEF Walkovers, AreMatches, Done
  <1>2. IsMatch(m)
    BY <1>1, WonKeepsShape
  <1>3. m.player1 = ms[n].player1 /\ m.player2 = ms[n].player2 /\ m.wave = ms[n].wave /\ m.status = "DONE" /\ m.winner = w
    BY <1>1 DEF IsMatch
  <1>4. w \in {ms[n].player1, ms[n].player2} /\ (w = NOBODY => ms[n].player1 = NOBODY /\ ms[n].player2 = NOBODY)
    BY <1>1 DEF Other
  <1> HIDE DEF m
  <1>5. DecidedRow(ms, n, m, w)
    BY <1>2, <1>3 DEF DecidedRow
  <1>6. CanEnd(ms, n, w)
    BY <1>1, <1>4 DEF CanEnd, In
  <1> QED BY <1>5, <1>6 DEF m

LEMMA UndecidedAfter ==
    ASSUME NEW ms, IsFiniteSet(DOMAIN ms), NEW n \in DOMAIN ms, ~ Done(ms, n), NEW w, NEW after,
           Ends(ms, after, n, w)
    PROVE  /\ Cardinality(Undecided(ms)) \in Nat /\ Cardinality(Undecided(after)) \in Nat
           /\ Cardinality(Undecided(after)) = Cardinality(Undecided(ms)) - 1
  <1>1. Undecided(after) = Undecided(ms) \ {n} /\ n \in Undecided(ms)
    BY DEF Undecided, Ends
  <1>2. IsFiniteSet(Undecided(ms))
    BY FS_Subset DEF Undecided
  <1>3. IsFiniteSet(Undecided(after)) /\ Cardinality(Undecided(after)) = Cardinality(Undecided(ms)) - 1
    BY <1>1, <1>2, FS_RemoveElement
  <1> QED BY <1>2, <1>3, FS_CardinalityType

(* After so many turns: no walkover is left, or so many matches are decided. *)
Settled(ms, after, e, k) ==
    /\ AreMatches(after) /\ BracketInv(after, e) /\ Further(ms, after)
    /\ Walkovers(after) = {} \/ Cardinality(Undecided(after)) + k <= Cardinality(DOMAIN ms)

LEMMA SettleOnceKeepsInvariant ==
    ASSUME NEW e \in Nat, e >= 2, NEW ms, IsFiniteSet(DOMAIN ms), NEW mid, NEW k \in Nat, Settled(ms, mid, e, k)
    PROVE  Settled(ms, settleOnce(mid, e), e, k + 1)
  <1>1. CASE Walkovers(mid) = {}
    BY <1>1 DEF settleOnce, Settled
  <1>2. CASE Walkovers(mid) # {}
    <2> DEFINE n == CHOOSE n \in Walkovers(mid) : TRUE
               w == Other(mid[n], NOBODY)
               m == [mid[n] EXCEPT !.winner = w, !.status = "DONE"]
               after == settleOnce(mid, e)
    <2>1. n \in Walkovers(mid)
      BY <1>2
    <2>2. after = advance([mid EXCEPT ![n] = m], n, e)
      BY <1>2 DEF settleOnce
    <2>3. AreMatches(mid) /\ BracketInv(mid, e) /\ Further(ms, mid) /\ IsFiniteSet(DOMAIN mid) /\ DOMAIN mid = DOMAIN ms
      BY DEF Settled, Further
    <2> HIDE DEF n, after
    <2>4. CanEnd(mid, n, w) /\ DecidedRow(mid, n, m, w)
      BY <2>1, <2>3, WalkoversCanEnd
    <2> HIDE DEF m, w
    <2>5. BracketInv(after, e) /\ Ends(mid, after, n, w)
      BY <2>2, <2>3, <2>4, DecisionsKeepInvariant
    <2>6. AreMatches(after) /\ Further(ms, after)
      BY <2>3, <2>5 DEF Ends, Further
    <2>7. n \in DOMAIN mid /\ ~ Done(mid, n)
      BY <2>4 DEF CanEnd
    <2>8. /\ Cardinality(Undecided(mid)) \in Nat /\ Cardinality(Undecided(after)) \in Nat
          /\ Cardinality(Undecided(after)) = Cardinality(Undecided(mid)) - 1
      BY <2>3, <2>5, <2>7, UndecidedAfter
    <2>9. Cardinality(DOMAIN ms) \in Nat
      BY FS_CardinalityType
    <2>10. Cardinality(Undecided(after)) + (k + 1) <= Cardinality(DOMAIN ms)
      BY <1>2, <2>8, <2>9 DEF Settled
    <2> QED BY <2>5, <2>6, <2>10 DEF Settled, after
  <1> QED BY <1>1, <1>2

(* When they have been settled no walkover is left.                         *)
LEMMA SettlesAll ==
    ASSUME NEW e \in Nat, e >= 2, NEW ms, AreMatches(ms), IsFiniteSet(DOMAIN ms), BracketInv(ms, e),
           NEW after, after = settleWalkovers(ms, e)
    PROVE  AreMatches(after) /\ BracketInv(after, e) /\ Further(ms, after) /\ Walkovers(after) = {}
  <1> DEFINE c == Cardinality(DOMAIN ms)
  <1>1. PICK f : after = f[c] /\ f[0] = ms /\ \A k \in Nat : f[k + 1] = settleOnce(f[k], e)
    BY SettlesOneByOne
  <1>2. c \in Nat
    BY FS_CardinalityType
  <1> HIDE DEF c
  <1> DEFINE S == {k \in Nat : Settled(ms, f[k], e, k)}
  <1>3. 0 \in S
    <2>1. Undecided(ms) \subseteq DOMAIN ms
      BY DEF Undecided
    <2>2. Cardinality(Undecided(ms)) \in Nat /\ Cardinality(Undecided(ms)) <= c
      BY <2>1, FS_Subset, FS_CardinalityType DEF c
    <2>3. Cardinality(Undecided(ms)) + 0 <= c
      BY <1>2, <2>2
    <2> QED BY <1>1, <2>3 DEF Settled, Further, c
  <1>4. ASSUME NEW k \in Nat, k \in S PROVE k + 1 \in S
    BY <1>1, <1>4, SettleOnceKeepsInvariant
  <1>5. S \in SUBSET Nat
    OBVIOUS
  <1> HIDE DEF S
  <1>6. S = Nat
    BY <1>3, <1>4, <1>5, Induction
  <1>7. Settled(ms, after, e, c)
    BY <1>1, <1>2, <1>6 DEF S
  <1>8. Walkovers(after) = {}
    <2> SUFFICES ASSUME Cardinality(Undecided(after)) + c <= c PROVE Walkovers(after) = {}
      BY <1>7 DEF Settled, c
    <2>1. IsFiniteSet(Undecided(after))
      BY <1>7, FS_Subset DEF Undecided, Settled, Further
    <2>2. Cardinality(Undecided(after)) = 0
      BY <1>2, <2>1, FS_CardinalityType
    <2>3. Undecided(after) = {}
      BY <2>1, <2>2, FS_EmptySet
    <2> QED BY <2>3 DEF Walkovers, Undecided, Done
  <1> QED BY <1>7, <1>8 DEF Settled

-------------------------------------------------------------------------------
(* The bracket as it is drawn *)

(* Brackets with the same matches are the same, whoever was counted. *)
LEMMA SameSize ==
    ASSUME NEW e \in Nat, e >= 2, NEW f \in Nat, f >= 2, shape(e) = shape(f)
    PROVE  levels(e) = levels(f)
  <1>1. ASSUME NEW a \in Nat, a >= 2, NEW b \in Nat, b >= 2, shape(a) = shape(b) PROVE levels(a) <= levels(b)
    <2> DEFINE k == levels(a)
               h == levels(b)
               n == <<"WINNERS", k, 0>>
    <2>1. k \in Nat /\ k >= 1 /\ h \in Nat
      BY <1>1, LevelsFit
    <2>2. 2^(k - k) = 1
      <3> HIDE DEF k
      <3>1. k - k = 0
        BY <2>1
      <3> QED BY <3>1, PowersOfTwo
    <2>3. IsWinners(k, n, k, 0)
      BY <2>1, <2>2 DEF IsWinners
    <2>4. n \in Inner(a)
      BY <1>1, <2>1, <2>3, InnerMatches DEF IsInner
    <2>5. n \in Inner(b)
      BY <1>1, <2>4 DEF Inner
    <2>6. PICK j \in Nat, p \in Nat : IsWinners(h, n, j, p) \/ IsOdd(h, n, j, p) \/ IsEven(h, n, j, p)
      BY <1>1, <2>5, InnerMatches DEF IsInner
    <2> HIDE DEF k, h
    <2>7. j \in 1..h /\ j = k
      BY <2>6 DEF IsWinners, IsOdd, IsEven
    <2> QED BY <2>1, <2>7 DEF k, h
  <1>2. levels(e) <= levels(f) /\ levels(f) <= levels(e) /\ levels(e) \in Nat /\ levels(f) \in Nat
    BY <1>1, LevelsFit
  <1> QED BY <1>2

LEMMA SameBracket ==
    ASSUME NEW e, NEW f, levels(e) = levels(f), NEW ms, BracketInv(ms, e)
    PROVE  BracketInv(ms, f) /\ waves(e) = waves(f)
  <1>1. shape(e) = shape(f) /\ waves(e) = waves(f)
    BY DEF shape, waves
  <1>2. \A n : wave(e, n) = wave(f, n)
    BY <1>1 DEF wave
  <1>3. \A n : winnerGoes(e, n) = winnerGoes(f, n) /\ loserGoes(e, n) = loserGoes(f, n)
    BY DEF winnerGoes, loserGoes
  <1>4. \A n, s : Certain(e, n, s) <=> Certain(f, n, s)
    BY DEF Certain
  <1>5. Inner(e) = Inner(f)
    BY <1>1 DEF Inner
  <1>6. BracketOf(ms, f)
    BY <1>1, <1>2, <1>4 DEF BracketInv, BracketOf
  <1>7. Goes(ms, f)
    BY <1>3, <1>5 DEF BracketInv, Goes
  <1> QED BY <1>1, <1>6, <1>7 DEF BracketInv

(* Who stands in a slot at the start: a player, once, or nobody.            *)
SeedIn(seeded, n, s) ==
    IF Opening(n) THEN (IF s = 0 THEN seed(seeded)[n[3]][1] ELSE seed(seeded)[n[3]][2]) ELSE null

LEMMA SeedsStand ==
    ASSUME NEW Q \in SUBSET Players, NEW seeded, Lists(seeded, Q), NEW e \in Nat, e = Len(seeded), e >= 2
    PROVE  /\ \A n \in shape(e), s \in {0, 1} :
                 Opening(n) => /\ SeedIn(seeded, n, s) \in Players \cup {NOBODY}
                               /\ Certain(e, n, s) => SeedIn(seeded, n, s) # NOBODY
           /\ \A m, n \in shape(e), s, t \in {0, 1} :
                 Opening(m) /\ Opening(n) /\ SeedIn(seeded, m, s) = SeedIn(seeded, n, t) /\ SeedIn(seeded, n, t) \in Players
                    => m = n /\ s = t
  <1> DEFINE k == levels(e)
             half == 2^k \div 2
             at(i) == IF i < e THEN seeded[i + 1] ELSE NOBODY
             position(n, s) == IF s = 0 THEN n[3] ELSE half + n[3]
  <1>1. k \in Nat /\ k >= 1 /\ (k = 1 \/ 2^(k - 1) < e)
    BY LevelsFit
  <1>2. half = 2^(k - 1) /\ half \in Nat /\ (k = 1 => half = 1)
    <2>1. k - 1 \in Nat /\ (k - 1) + 1 = k
      BY <1>1
    <2>2. 2^((k - 1) + 1) = 2 * 2^(k - 1) /\ 2^(k - 1) \in Nat
      BY <2>1, PowersOfTwo
    <2>3. 2^k = 2 * 2^(k - 1)
      BY <2>1, <2>2
    <2> HIDE DEF k
    <2>4. k = 1 => 2^(k - 1) = 1
      <3>1. k = 1 => k - 1 = 0
        OBVIOUS
      <3> QED BY <3>1, PowersOfTwo
    <2> QED BY <2>2, <2>3, <2>4
  <1>3. seed(seeded) = [p \in 0..(half - 1) |-> <<at(p), at(half + p)>>]
    BY DEF seed
  <1>4. ASSUME NEW n \in shape(e), Opening(n) PROVE n[3] \in 0..(half - 1) /\ n = <<"WINNERS", 1, n[3]>>
    <2>1. n \in Inner(e)
      BY <1>4, FinalsThere DEF Inner
    <2>2. PICK j \in Nat, p \in Nat : IsWinners(k, n, j, p) \/ IsOdd(k, n, j, p) \/ IsEven(k, n, j, p)
      BY <2>1, InnerMatches DEF IsInner
    <2> HIDE DEF k, half
    <2>3. IsWinners(k, n, j, p) /\ j = 1
      BY <1>4, <2>2 DEF Opening, IsWinners, IsOdd, IsEven
    <2>4. p < 2^(k - 1) /\ n = <<"WINNERS", 1, p>>
      BY <2>3 DEF IsWinners
    <2> QED BY <1>2, <2>4
  <1> HIDE DEF k, half
  <1>5. ASSUME NEW n \in shape(e), Opening(n), NEW s \in {0, 1}
        PROVE  SeedIn(seeded, n, s) = at(position(n, s)) /\ position(n, s) \in Nat
    <2>1. n[3] \in 0..(half - 1)
      BY <1>4, <1>5
    <2> HIDE DEF at
    <2>2. seed(seeded)[n[3]] = <<at(n[3]), at(half + n[3])>>
      BY <1>3, <2>1
    <2>3. CASE s = 0
      BY <1>5, <2>1, <2>2, <2>3 DEF SeedIn
    <2>4. CASE s = 1
      BY <1>2, <1>5, <2>1, <2>2, <2>4 DEF SeedIn
    <2> QED BY <2>3, <2>4
  <1>6. \A i \in Nat : /\ i < e => seeded[i + 1] \in Players /\ seeded[i + 1] # NOBODY
                       /\ at(i) \in Players <=> i < e
    BY TournamentAssumption DEF Lists
  <1>7. \A i, j \in Nat : i < e /\ j < e /\ at(i) = at(j) => i = j
    <2> SUFFICES ASSUME NEW i \in Nat, NEW j \in Nat, i < e, j < e, seeded[i + 1] = seeded[j + 1] PROVE i = j
      OBVIOUS
    <2>1. i + 1 \in 1..Len(seeded) /\ j + 1 \in 1..Len(seeded)
      OBVIOUS
    <2> QED BY <2>1 DEF Lists
  <1>8. ASSUME NEW n \in shape(e), NEW s \in {0, 1}, Opening(n), Certain(e, n, s) PROVE position(n, s) < e
    <2>1. n[3] \in 0..(half - 1)
      BY <1>4, <1>8
    <2>2. s = 0 \/ k = 1
      <3>1. n[1] = "WINNERS" /\ n[2] = 1 /\ n # Final
        BY <1>8, FinalsThere DEF Opening
      <3> QED BY <1>8, <3>1 DEF Certain, k
    <2>3. CASE k = 1
      BY <1>2, <2>1, <2>3
    <2>4. CASE k # 1
      BY <1>1, <1>2, <2>1, <2>2, <2>4
    <2> QED BY <2>3, <2>4
  <1>9. ASSUME NEW n \in shape(e), NEW s \in {0, 1}, Opening(n)
        PROVE  /\ SeedIn(seeded, n, s) \in Players \cup {NOBODY}
               /\ Certain(e, n, s) => SeedIn(seeded, n, s) # NOBODY
    BY <1>5, <1>6, <1>8, <1>9
  <1>10. ASSUME NEW m \in shape(e), NEW n \in shape(e), NEW s \in {0, 1}, NEW t \in {0, 1},
                Opening(m), Opening(n), SeedIn(seeded, m, s) = SeedIn(seeded, n, t), SeedIn(seeded, n, t) \in Players
         PROVE  m = n /\ s = t
    <2>1. /\ SeedIn(seeded, m, s) = at(position(m, s)) /\ position(m, s) \in Nat
          /\ SeedIn(seeded, n, t) = at(position(n, t)) /\ position(n, t) \in Nat
      BY <1>5, <1>10
    <2>2. position(m, s) = position(n, t)
      <3> HIDE DEF at, position
      <3>1. position(m, s) < e /\ position(n, t) < e
        BY <1>6, <1>10, <2>1
      <3> QED BY <1>7, <1>10, <2>1, <3>1
    <2>3. /\ m[3] \in 0..(half - 1) /\ m = <<"WINNERS", 1, m[3]>>
          /\ n[3] \in 0..(half - 1) /\ n = <<"WINNERS", 1, n[3]>>
      BY <1>4, <1>10
    <2>4. m[3] = n[3] /\ s = t
      BY <1>2, <2>2, <2>3
    <2> QED BY <2>3, <2>4
  <1> QED BY <1>9, <1>10

Unsettled(seeded) ==
    [n \in shape(Len(seeded)) |-> NewMatch(SeedIn(seeded, n, 0), SeedIn(seeded, n, 1), wave(Len(seeded), n))]

LEMMA BuiltAndSettled ==
    ASSUME NEW seeded PROVE buildBracket(seeded) = settleWalkovers(Unsettled(seeded), Len(seeded))
  BY DEF buildBracket, Unsettled, SeedIn, Opening

LEMMA UnsettledInvariant ==
    ASSUME NEW Q \in SUBSET Players, NEW seeded, Lists(seeded, Q), NEW e \in Nat, e = Len(seeded), e >= 2
    PROVE  AreMatches(Unsettled(seeded)) /\ BracketInv(Unsettled(seeded), e)
  <1> DEFINE ms == Unsettled(seeded)
  <1>1. DOMAIN ms = shape(e)
    BY DEF Unsettled
  <1>2. \A n \in shape(e) : ms[n] = NewMatch(SeedIn(seeded, n, 0), SeedIn(seeded, n, 1), wave(e, n))
    BY DEF Unsettled
  <1> HIDE DEF ms
  <1>3. AreMatches(ms)
    BY <1>1, <1>2, NewMatchIsOne DEF AreMatches
  <1>4. \A n \in shape(e) : /\ ~ Done(ms, n) /\ ms[n].wave = wave(e, n)
                            /\ \A s \in {0, 1} : In(ms, n, s) = SeedIn(seeded, n, s)
    <2> SUFFICES ASSUME NEW n \in shape(e)
                 PROVE  /\ ~ Done(ms, n) /\ ms[n].wave = wave(e, n)
                        /\ In(ms, n, 0) = SeedIn(seeded, n, 0) /\ In(ms, n, 1) = SeedIn(seeded, n, 1)
      OBVIOUS
    <2>1. /\ ms[n].player1 = SeedIn(seeded, n, 0) /\ ms[n].player2 = SeedIn(seeded, n, 1)
          /\ ms[n].wave = wave(e, n) /\ ms[n].status = "PENDING"
      <3> DEFINE a == SeedIn(seeded, n, 0)
                 b == SeedIn(seeded, n, 1)
                 w == wave(e, n)
      <3>1. ms[n] = NewMatch(a, b, w)
        BY <1>2
      <3> HIDE DEF a, b, w
      <3>2. ms[n].player1 = a /\ ms[n].player2 = b /\ ms[n].wave = w /\ ms[n].status = "PENDING"
        BY <3>1 DEF NewMatch
      <3> QED BY <3>2 DEF a, b, w
    <2> QED BY <2>1 DEF Done, In
  <1>5. \A n \in shape(e), s \in {0, 1} : ~ Opening(n) => In(ms, n, s) = null
    BY <1>4 DEF SeedIn
  <1>6. /\ \A n \in shape(e), s \in {0, 1} :
              Opening(n) => /\ In(ms, n, s) \in Players \cup {NOBODY}
                            /\ Certain(e, n, s) => In(ms, n, s) # NOBODY
        /\ \A m, n \in shape(e), s, t \in {0, 1} :
              Opening(m) /\ Opening(n) /\ In(ms, m, s) = In(ms, n, t) /\ In(ms, n, t) \in Players => m = n /\ s = t
    BY <1>4, SeedsStand
  <1>7. null # NOBODY /\ NOBODY \notin Players /\ null \notin Players
    BY TournamentAssumption
  <1>8. BracketOf(ms, e)
    BY <1>1, <1>4, <1>5, <1>6, <1>7 DEF BracketOf
  <1>9. Goes(ms, e)
    <2>1. ASSUME NEW n \in Inner(e), NEW to, LeadsOn(e, n, to) PROVE In(ms, to.node, to.slot) = null
      <3>1. PICK t \in shape(e) \ {Reset}, s \in {0, 1} : to = SlotOf(t, s) /\ ~ Opening(t)
        BY <2>1 DEF LeadsOn
      <3> QED BY <1>5, <3>1, SlotParts
    <2>2. \A n \in Inner(e) : /\ LeadsOn(e, n, winnerGoes(e, n))
                              /\ loserGoes(e, n) = Out \/ LeadsOn(e, n, loserGoes(e, n))
      BY BracketsAreWired DEF Wired
    <2>3. \A s \in {0, 1} : In(ms, Reset, s) = null
      BY <1>5, ResetIsApart
    <2>4. ms[Reset].player1 = null /\ ms[Reset].player2 = null
      BY <2>3 DEF In
    <2>5. ~ Done(ms, Final) /\ \A n \in Inner(e) : ~ Done(ms, n)
      BY <1>4, ResetIsApart
    <2> QED BY <1>7, <2>1, <2>2, <2>3, <2>4, <2>5 DEF Goes
  <1>10. ASSUME NEW q \in Players PROVE Stands(ms, q)
    <2>1. Lost(ms, q) = {}
      BY <1>1, <1>4 DEF Lost
    <2>2. Cardinality(Lost(ms, q)) = 0
      BY <2>1, FS_EmptySet
    <2>3. ~ Champion(ms, q)
      BY <1>4, ResetIsApart DEF Champion
    <2>4. \A n, s : Waits(ms, q, n, s) <=> n \in shape(e) /\ s \in {0, 1} /\ Opening(n) /\ In(ms, n, s) = q
      BY <1>1, <1>4, <1>5, <1>7 DEF Waits
    <2>5. \A m, n, s, t : Waits(ms, q, m, s) /\ Waits(ms, q, n, t) => m = n /\ s = t
      BY <1>6, <2>4
    <2>6. \A n, s : Waits(ms, q, n, s) => Defeats(n, s) = 0
      BY <2>4 DEF Opening, Defeats
    <2>7. ASSUME NEW n \in DOMAIN ms, Involves(ms[n], q) PROVE \E s \in {0, 1} : Waits(ms, q, n, s)
      <3>1. \E s \in {0, 1} : In(ms, n, s) = q
        BY <2>7 DEF Involves, In
      <3> QED BY <1>1, <1>5, <1>7, <2>4, <3>1
    <2> QED BY <2>2, <2>3, <2>5, <2>6, <2>7 DEF Stands
  <1> QED BY <1>3, <1>8, <1>9, <1>10 DEF BracketInv, ms

LEMMA BuiltInvariant ==
    ASSUME NEW Q \in SUBSET Players, NEW seeded, Lists(seeded, Q), NEW e \in Nat, e = Len(seeded), e >= 2,
           NEW ms, ms = buildBracket(seeded)
    PROVE  BracketInv(ms, e) /\ Walkovers(ms) = {}
  <1> DEFINE before == Unsettled(seeded)
  <1>1. AreMatches(before) /\ BracketInv(before, e)
    BY UnsettledInvariant
  <1>2. IsFiniteSet(DOMAIN before)
    BY BracketsAreFinite DEF Unsettled
  <1>3. ms = settleWalkovers(before, e)
    BY BuiltAndSettled
  <1> HIDE DEF before
  <1> QED BY <1>1, <1>2, <1>3, SettlesAll

-------------------------------------------------------------------------------
(* What the invariant means for the players *)

(* What a match is waiting for is not decided: the last undecided match     *)
(* before the grand final leads to it.                                      *)
LEMMA FinalIsLast ==
    ASSUME NEW e \in Nat, e >= 2, NEW ms, BracketInv(ms, e), Done(ms, Final), NEW n \in Inner(e)
    PROVE  Done(ms, n)
  <1> DEFINE S == {m \in Inner(e) : ~ Done(ms, m)}
             T == {waves(e) - wave(e, m) : m \in S}
  <1> SUFFICES ASSUME S # {} PROVE FALSE
    OBVIOUS
  <1>1. WavesInOrder(e) /\ BracketOf(ms, e) /\ Goes(ms, e) /\ Inner(e) \subseteq shape(e)
    BY WavesOrdered DEF BracketInv, Inner
  <1>2. T \in SUBSET Nat /\ T # {}
    BY <1>1 DEF WavesInOrder
  <1>3. PICK x \in T : \A y \in T : x <= y
    BY <1>2, FirstNatural
  <1>4. PICK m \in S : x = waves(e) - wave(e, m)
    BY <1>3
  <1>5. PICK t \in shape(e) \ {Reset}, s \in {0, 1} : winnerGoes(e, m) = SlotOf(t, s) /\ wave(e, m) < wave(e, t)
    BY <1>4, BracketsAreWired DEF Wired, LeadsOn
  <1>6. In(ms, t, s) = null
    <2>1. In(ms, winnerGoes(e, m).node, winnerGoes(e, m).slot) = null
      BY <1>1, <1>4 DEF Goes
    <2> QED BY <1>5, <2>1, SlotParts
  <1>7. ~ Done(ms, t)
    BY <1>1, <1>5, <1>6 DEF BracketOf, In
  <1>8. t \in S
    BY <1>5, <1>7 DEF Inner
  <1>9. waves(e) - wave(e, t) \in T
    BY <1>8
  <1>10. /\ waves(e) \in Nat /\ wave(e, m) \in Nat /\ wave(e, t) \in Nat
         /\ waves(e) - wave(e, m) <= waves(e) - wave(e, t)
    BY <1>1, <1>3, <1>4, <1>5, <1>9 DEF WavesInOrder
  <1> QED BY <1>5, <1>10

(* There is a champion at the end only.                                     *)
LEMMA ChampionsAtTheEnd ==
    ASSUME NEW e \in Nat, e >= 2, NEW ms, BracketInv(ms, e), Walkovers(ms) = {}, NEW p \in Players, Champion(ms, p)
    PROVE  \A n \in DOMAIN ms : Done(ms, n)
  <1>1. BracketOf(ms, e) /\ Goes(ms, e) /\ DOMAIN ms = shape(e) /\ shape(e) = Inner(e) \cup {Final, Reset}
    BY FinalsThere DEF BracketInv, BracketOf, Inner
  <1>2. ASSUME Done(ms, Reset) PROVE Done(ms, Final)
    <2>1. In(ms, Reset, 0) # null
      BY <1>1, <1>2 DEF BracketOf, In
    <2> QED BY <1>1, <2>1 DEF Goes
  <1>3. Done(ms, Final)
    BY <1>2 DEF Champion
  <1>4. Done(ms, Reset)
    <2> SUFFICES ASSUME ms[Final].winner = ms[Final].player1, ~ Done(ms, Reset) PROVE FALSE
      BY DEF Champion
    <2>1. ms[Reset].player1 = NOBODY /\ ms[Reset].player2 = NOBODY
      BY <1>1, <1>3 DEF Goes
    <2>2. Reset \in Walkovers(ms)
      BY <1>1, <2>1, TournamentAssumption DEF Walkovers, Done
    <2> QED BY <2>2
  <1>5. \A n \in Inner(e) : Done(ms, n)
    BY <1>3, FinalIsLast
  <1> QED BY <1>1, <1>3, <1>4, <1>5

(* Who has a chance left waits in one match, until one is left.             *)
Standing(ms, p, seats, lost) ==
    IF \A n \in DOMAIN ms : Done(ms, n)
    THEN lost < 2 <=> Champion(ms, p)
    ELSE Cardinality(seats) = IF lost < 2 THEN 1 ELSE 0

LEMMA SurvivorsWait ==
    ASSUME NEW e \in Nat, e >= 2, NEW ms, BracketInv(ms, e), Walkovers(ms) = {}, NEW p \in Players,
           NEW n0 \in DOMAIN ms, Involves(ms[n0], p),
           NEW seats, seats = {n \in DOMAIN ms : ~ Done(ms, n) /\ Involves(ms[n], p)}, NEW lost, lost = Cardinality(Lost(ms, p))
    PROVE  Standing(ms, p, seats, lost)
  <1>1. Stands(ms, p)
    BY DEF BracketInv
  <1>2. \A n : n \in seats <=> \E s \in {0, 1} : Waits(ms, p, n, s)
    BY DEF Waits, Involves, In
  <1>3. CASE \E n \in DOMAIN ms, s \in {0, 1} : Waits(ms, p, n, s)
    <2>1. PICK n \in DOMAIN ms, s \in {0, 1} : Waits(ms, p, n, s)
      BY <1>3
    <2>2. OnlyAt(ms, p, n, s) /\ lost = Defeats(n, s)
      BY <1>1, <2>1, WaitsOnce
    <2>3. seats = {n}
      BY <1>2, <2>1, <2>2 DEF OnlyAt, Waits
    <2>4. Cardinality(seats) = 1
      BY <2>3, FS_Singleton
    <2>5. lost < 2
      BY <2>2 DEF Defeats
    <2>6. ~ Done(ms, n)
      BY <2>1 DEF Waits
    <2> QED BY <2>4, <2>5, <2>6 DEF Standing
  <1>4. CASE ~ \E n \in DOMAIN ms, s \in {0, 1} : Waits(ms, p, n, s)
    <2>1. seats = {}
      BY <1>2, <1>4
    <2>2. Cardinality(seats) = 0
      BY <2>1, FS_EmptySet
    <2>3. CASE Champion(ms, p)
      <3>1. lost < 2
        BY <1>1, <2>3 DEF Stands
      <3>2. \A n \in DOMAIN ms : Done(ms, n)
        BY <2>3, ChampionsAtTheEnd
      <3> QED BY <2>3, <3>1, <3>2 DEF Standing
    <2>4. CASE ~ Champion(ms, p)
      <3>1. lost = 2
        BY <1>1, <1>4, <2>4 DEF Stands
      <3> QED BY <2>2, <2>4, <3>1 DEF Standing
    <2> QED BY <2>3, <2>4
  <1> QED BY <1>3, <1>4

(* At the end there is one champion.                                        *)
LEMMA OneChampion ==
    ASSUME NEW e \in Nat, e >= 2, NEW ms, BracketInv(ms, e), \A n \in DOMAIN ms : Done(ms, n)
    PROVE  \E c \in Players :
              /\ \A p \in Players : Champion(ms, p) <=> p = c
              /\ \E n \in DOMAIN ms : Involves(ms[n], c)
              /\ {ms[n].winner : n \in {n \in {n \in DOMAIN ms : Done(ms, n) /\ Real(ms[n])} \cap {Final, Reset} :
                                           n = Reset \/ ms[n].winner = ms[n].player1}} = {c}
  <1> DEFINE real == {n \in DOMAIN ms : Done(ms, n) /\ Real(ms[n])} \cap {Final, Reset}
             last == {n \in real : n = Reset \/ ms[n].winner = ms[n].player1}
  <1>1. /\ BracketOf(ms, e) /\ Goes(ms, e) /\ DOMAIN ms = shape(e)
        /\ Final \in DOMAIN ms /\ Reset \in DOMAIN ms /\ Final # Reset /\ \A s : Certain(e, Final, s)
    BY ResetIsApart DEF BracketInv, BracketOf
  <1>2. Done(ms, Final) /\ Done(ms, Reset)
    BY <1>1
  <1>3. \A m : ms[m].player1 = In(ms, m, 0) /\ ms[m].player2 = In(ms, m, 1)
    BY DEF In
  <1>4. /\ ms[Final].player1 # null /\ ms[Final].player2 # null
        /\ ms[Final].winner \in {ms[Final].player1, ms[Final].player2}
        /\ ms[Reset].player1 # null /\ ms[Reset].player2 # null
        /\ ms[Reset].winner \in {ms[Reset].player1, ms[Reset].player2}
    BY <1>1, <1>2 DEF BracketOf
  <1>5. ms[Final].player1 # NOBODY /\ ms[Final].player2 # NOBODY
    BY <1>1, <1>3 DEF BracketOf
  <1>6. ms[Final].player1 \in Players /\ ms[Final].player2 \in Players
    <2>1. \A s \in {0, 1} : In(ms, Final, s) \in Players \cup {null, NOBODY}
      BY <1>1 DEF BracketOf
    <2> QED BY <1>3, <1>4, <1>5, <2>1
  <1>7. \A s \in {0, 1} : In(ms, Reset, s) \in Players \cup {null, NOBODY}
    BY <1>1 DEF BracketOf
  <1>8. /\ ms[Reset].player1 = NOBODY <=> ms[Reset].player2 = NOBODY
        /\ ms[Final].winner = ms[Final].player1 <=> ms[Reset].player1 = NOBODY
    BY <1>1, <1>2 DEF Goes
  <1>9. Final \in real
    BY <1>1, <1>2, <1>4, <1>5 DEF Real
  <1>10. CASE ms[Final].winner = ms[Final].player1
    <2> DEFINE c == ms[Final].player1
    <2>1. Reset \notin real
      BY <1>8, <1>10 DEF Real
    <2>2. last = {Final}
      BY <1>9, <1>10, <2>1
    <2>3. {ms[n].winner : n \in last} = {c}
      BY <1>10, <2>2
    <2>4. \A p \in Players : Champion(ms, p) <=> p = c
      <3>1. ms[Reset].winner = NOBODY
        BY <1>4, <1>8, <1>10
      <3> QED BY <1>2, <1>10, <3>1, TournamentAssumption DEF Champion
    <2>5. Involves(ms[Final], c)
      BY DEF Involves
    <2> HIDE DEF c
    <2> QED BY <1>1, <1>6, <2>3, <2>4, <2>5 DEF c
  <1>11. CASE ms[Final].winner # ms[Final].player1
    <2> DEFINE c == ms[Reset].winner
    <2>1. ms[Reset].player1 # NOBODY /\ ms[Reset].player2 # NOBODY
      BY <1>8, <1>11
    <2>2. Reset \in real
      BY <1>1, <1>2, <1>4, <2>1 DEF Real
    <2>3. last = {Reset}
      BY <1>1, <1>11, <2>2
    <2>4. {ms[n].winner : n \in last} = {c}
      BY <2>3
    <2>5. \A p \in Players : Champion(ms, p) <=> p = c
      BY <1>2, <1>11 DEF Champion
    <2>6. Involves(ms[Reset], c) /\ c \in Players
      BY <1>3, <1>4, <1>7, <2>1 DEF Involves
    <2> HIDE DEF c
    <2> QED BY <1>1, <2>4, <2>5, <2>6 DEF c
  <1> QED BY <1>10, <1>11

-------------------------------------------------------------------------------
(* The two properties of a state                                            *)

BracketSafe ==
    Bracket /\ matches # <<>> =>
        /\ Len(entries) \in Nat /\ Len(entries) >= 2
        /\ BracketInv(matches, Len(entries))
        /\ Walkovers(matches) = {}
        /\ \A n \in games \cap DOMAIN matches : In(matches, n, 0) # null /\ In(matches, n, 1) # null
        /\ \A n \in DOMAIN matches : matches[n].wave < tournament.currentRound => Decided(n)

LEMMA SafeSeats ==
    ASSUME BracketSafe PROVE SurvivorsSeated
  <1> SUFFICES ASSUME BracketRuns
               PROVE  IF \A n \in DOMAIN matches : Decided(n)
                      THEN Champions = {p \in Seeded : Losses(p) < 2} /\ Cardinality(Champions) = 1
                      ELSE \A p \in Seeded : Cardinality(Seats(p)) = IF Losses(p) < 2 THEN 1 ELSE 0
    BY DEF SurvivorsSeated
  <1> DEFINE e == Len(entries)
  <1>1. e \in Nat /\ e >= 2 /\ BracketInv(matches, e) /\ Walkovers(matches) = {}
    BY DEF BracketSafe, BracketRuns
  <1> HIDE DEF e
  <1>2. \A n : Decided(n) <=> Done(matches, n)
    BY DEF Decided, Done
  <1>3. ASSUME NEW p \in Seeded PROVE Standing(matches, p, Seats(p), Losses(p))
    <2>1. p \in Players /\ \E n \in DOMAIN matches : Involves(matches[n], p)
      BY DEF Seeded
    <2>2. Seats(p) = {n \in DOMAIN matches : ~ Done(matches, n) /\ Involves(matches[n], p)}
      BY <1>2 DEF Seats
    <2>3. Losses(p) = Cardinality(Lost(matches, p))
      BY <1>2 DEF Losses, Lost
    <2> QED BY <1>1, <2>1, <2>2, <2>3, SurvivorsWait
  <1>4. CASE \A n \in DOMAIN matches : Decided(n)
    <2>1. PICK c \in Players :
              /\ \A p \in Players : Champion(matches, p) <=> p = c
              /\ \E n \in DOMAIN matches : Involves(matches[n], c)
              /\ {matches[n].winner :
                    n \in {n \in {n \in DOMAIN matches : Done(matches, n) /\ Real(matches[n])} \cap {Final, Reset} :
                                           n = Reset \/ matches[n].winner = matches[n].player1}} = {c}
      BY <1>1, <1>2, <1>4, OneChampion
    <2>2. Played = {n \in DOMAIN matches : Done(matches, n) /\ Real(matches[n])}
      BY <1>2 DEF Played
    <2>3. Champions = {c}
      BY <2>1, <2>2 DEF Champions
    <2>4. c \in Seeded /\ Seeded \subseteq Players
      BY <2>1 DEF Seeded
    <2>5. \A p \in Seeded : Losses(p) < 2 <=> p = c
      BY <1>2, <1>3, <1>4, <2>1, <2>4 DEF Standing
    <2>6. {c} = {p \in Seeded : Losses(p) < 2}
      BY <2>4, <2>5
    <2> QED BY <1>4, <2>3, <2>6, FS_Singleton
  <1>5. CASE ~ \A n \in DOMAIN matches : Decided(n)
    BY <1>2, <1>3, <1>5 DEF Standing
  <1> QED BY <1>4, <1>5

(* Everything of the waves before is decided: the players are known.        *)
LEMMA FirstAreReal ==
    ASSUME NEW e \in Nat, e >= 2, NEW ms, BracketInv(ms, e), Walkovers(ms) = {}, NEW n \in DOMAIN ms, ~ Done(ms, n),
           \A m \in DOMAIN ms : ms[m].wave < ms[n].wave => Done(ms, m)
    PROVE  Real(ms[n])
  <1>1. BracketOf(ms, e) /\ Goes(ms, e) /\ DOMAIN ms = shape(e) /\ \A m \in shape(e) : ms[m].wave = wave(e, m)
    BY DEF BracketInv, BracketOf
  <1>2. ASSUME NEW s \in {0, 1} PROVE In(ms, n, s) # null
    <2>1. CASE Opening(n)
      BY <1>1, <2>1 DEF BracketOf
    <2>2. CASE ~ Opening(n)
      <3>1. PICK m \in shape(e) : wave(e, m) < wave(e, n) /\ (Goes(ms, e) => (Done(ms, m) <=> In(ms, n, s) # null))
        BY <1>1, <2>2, FilledFrom
      <3> QED BY <1>1, <3>1
    <2> QED BY <2>1, <2>2
  <1>3. ms[n].player1 # null /\ ms[n].player2 # null
    BY <1>2 DEF In
  <1> QED BY <1>3 DEF Walkovers, Done, Real

LEMMA SafeGoesOn ==
    ASSUME ResultsInv, TournamentIsARow, Bracket => tournament.currentRound \in Nat,
           BracketSafe PROVE BracketGoesOn
  <1> SUFFICES ASSUME BracketRuns, \E n \in DOMAIN matches : ~ Decided(n)
               PROVE  LET ahead == {n \in DOMAIN matches : ~ Decided(n)}
                          first == Min({matches[n].wave : n \in ahead})
                      IN  /\ first <= waves(Len(entries))
                          /\ \A n \in ahead : matches[n].wave = first \/ matches[n].wave <= tournament.currentRound => Real(matches[n])
    BY DEF BracketGoesOn
  <1> DEFINE e == Len(entries)
             ahead == {n \in DOMAIN matches : ~ Decided(n)}
             T == {matches[n].wave : n \in ahead}
             first == Min(T)
             round == tournament.currentRound
  <1>1. /\ e \in Nat /\ e >= 2 /\ BracketInv(matches, e) /\ Walkovers(matches) = {} /\ round \in Nat
        /\ \A n \in DOMAIN matches : matches[n].wave < round => Decided(n)
    BY DEF BracketSafe, BracketRuns
  <1> HIDE DEF e, round
  <1>2. \A n : Decided(n) <=> Done(matches, n)
    BY DEF Decided, Done
  <1>3. /\ DOMAIN matches = shape(e) /\ WavesInOrder(e)
        /\ \A m \in shape(e) : matches[m].wave = wave(e, m) /\ wave(e, m) \in Nat /\ wave(e, m) <= waves(e)
    BY <1>1, WavesOrdered DEF BracketInv, BracketOf, WavesInOrder
  <1>4. T \in SUBSET Nat /\ T # {}
    BY <1>3
  <1>5. first \in T /\ \A y \in T : first <= y
    <2> HIDE DEF T
    <2>1. PICK x \in T : \A y \in T : x <= y
      BY <1>4, FirstNatural
    <2> QED BY <2>1 DEF Min
  <1> HIDE DEF first
  <1>6. first \in Nat /\ first <= waves(e)
    BY <1>3, <1>4, <1>5
  <1>7. \A m \in DOMAIN matches : matches[m].wave < first => Done(matches, m)
    BY <1>2, <1>3, <1>5, <1>6
  <1>8. ASSUME NEW n \in ahead, matches[n].wave = first \/ matches[n].wave <= round PROVE Real(matches[n])
    <2>1. matches[n].wave \in Nat /\ first <= matches[n].wave /\ ~ Done(matches, n) /\ n \in DOMAIN matches
      BY <1>2, <1>3, <1>5
    <2>2. ~ (matches[n].wave < round)
      BY <1>1, <1>8
    <2>3. \A m \in DOMAIN matches : matches[m].wave < matches[n].wave => Done(matches, m)
      <3>1. CASE matches[n].wave = first
        BY <1>7, <3>1
      <3>2. CASE matches[n].wave = round
        BY <1>1, <1>2, <3>2
      <3> QED BY <1>1, <1>8, <2>1, <2>2, <3>1, <3>2
    <2> QED BY <1>1, <2>1, <2>3, FirstAreReal
  <1> QED BY <1>6, <1>8 DEF first, e, round

-------------------------------------------------------------------------------
(* The same bracket *)

(* What the invariant says of matches it says of those with the same        *)
(* players and results.                                                     *)
Alike(ms, after) ==
    /\ DOMAIN after = DOMAIN ms
    /\ \A n \in DOMAIN ms : /\ Done(after, n) <=> Done(ms, n)
                            /\ after[n].winner = ms[n].winner /\ after[n].wave = ms[n].wave
                            /\ after[n].player1 = ms[n].player1 /\ after[n].player2 = ms[n].player2

LEMMA AlikeInvariant ==
    ASSUME NEW e \in Nat, e >= 2, NEW ms, BracketInv(ms, e), NEW after, Alike(ms, after)
    PROVE  BracketInv(after, e) /\ Walkovers(after) = Walkovers(ms)
  <1>1. DOMAIN ms = shape(e) /\ DOMAIN after = shape(e) /\ Final \in shape(e) /\ Reset \in shape(e)
    BY FinalsThere DEF BracketInv, BracketOf, Alike
  <1>2. \A n \in shape(e) : \A s : In(after, n, s) = In(ms, n, s)
    BY <1>1 DEF Alike, In
  <1>3. \A n \in shape(e) : /\ Done(after, n) <=> Done(ms, n)
                            /\ after[n].winner = ms[n].winner /\ after[n].wave = ms[n].wave
                            /\ after[n].player1 = ms[n].player1 /\ after[n].player2 = ms[n].player2
    BY <1>1 DEF Alike
  <1>4. BracketOf(after, e)
    BY <1>1, <1>2, <1>3 DEF BracketInv, BracketOf
  <1>5. Goes(after, e)
    <2>1. ASSUME NEW n \in Inner(e)
          PROVE  /\ Done(after, n) <=> In(after, winnerGoes(e, n).node, winnerGoes(e, n).slot) # null
                 /\ loserGoes(e, n) # Out => (Done(after, n) <=> In(after, loserGoes(e, n).node, loserGoes(e, n).slot) # null)
      <3> DEFINE up == winnerGoes(e, n)
                 down == loserGoes(e, n)
      <3>1. Done(ms, n) <=> In(ms, up.node, up.slot) # null
        BY DEF BracketInv, Goes
      <3>2. down # Out => (Done(ms, n) <=> In(ms, down.node, down.slot) # null)
        BY DEF BracketInv, Goes
      <3>3. n \in shape(e) /\ up.node \in shape(e) /\ (down # Out => down.node \in shape(e))
        BY ResetIsApart
      <3> HIDE DEF up, down
      <3>4. /\ Done(after, n) <=> In(after, up.node, up.slot) # null
            /\ down # Out => (Done(after, n) <=> In(after, down.node, down.slot) # null)
        BY <1>2, <1>3, <3>1, <3>2, <3>3
      <3> QED BY <3>4 DEF up, down
    <2>2. /\ \A s \in {0, 1} : Done(after, Final) <=> In(after, Reset, s) # null
          /\ after[Reset].player1 = NOBODY <=> after[Reset].player2 = NOBODY
          /\ Done(after, Final) => (after[Final].winner = after[Final].player1 <=> after[Reset].player1 = NOBODY)
      BY <1>1, <1>2, <1>3 DEF BracketInv, Goes
    <2> QED BY <2>1, <2>2 DEF Goes
  <1>6. ASSUME NEW q \in Players PROVE Stands(after, q)
    <2>1. \A n \in shape(e) : Involves(after[n], q) <=> Involves(ms[n], q)
      BY <1>3 DEF Involves
    <2>2. Lost(after, q) = Lost(ms, q)
      BY <1>1, <1>3, <2>1 DEF Lost
    <2>3. \A n, s : Waits(after, q, n, s) <=> Waits(ms, q, n, s)
      BY <1>1, <1>2, <1>3 DEF Waits
    <2>4. Champion(after, q) <=> Champion(ms, q)
      BY <1>1, <1>3 DEF Champion
    <2>5. Stands(ms, q)
      BY DEF BracketInv
    <2> QED BY <1>1, <2>1, <2>2, <2>3, <2>4, <2>5 DEF Stands
  <1>7. Walkovers(after) = Walkovers(ms)
    BY <1>1, <1>3 DEF Walkovers, Done
  <1> QED BY <1>4, <1>5, <1>6, <1>7 DEF BracketInv

-------------------------------------------------------------------------------
(* The inductive invariant of brackets *)

(* Nothing is played before the start.                                      *)
StartsEmpty ==
    /\ tournament.status \in {"REGISTRATION", "CHECK_IN", "RUNNING", "FINISHED", "CANCELLED", "ERASED"}
    /\ tournament.status \in {"REGISTRATION", "CHECK_IN"} => matches = <<>> /\ games = {} /\ tournament.currentRound = 0
    /\ Bracket => tournament.currentRound \in Nat

(* The invariant: what was decided is kept, each player entered once, the   *)
(* matches are those of a bracket in which everybody stands, and no         *)
(* walkover is left.  The properties of a state follow from it; alone they  *)
(* do not say who goes where, nor from which match a slot is filled.        *)
SafeInv ==
    /\ ResultsInv
    /\ EnterOnce(entries)
    /\ StartsEmpty
    /\ BracketSafe

(* Steps that change neither the matches nor the round: the players of the  *)
(* tournament may.                                                          *)
LEMMA EntriesChange ==
    ASSUME BracketSafe, BuiltForItsEntries, BuiltForItsEntries', UNCHANGED matches,
           tournament'.kind = tournament.kind, tournament'.currentRound = tournament.currentRound, games' \subseteq games,
           matches # <<>> => Len(entries') \in Nat /\ Len(entries') >= Len(entries)
    PROVE  BracketSafe'
  <1> SUFFICES ASSUME Bracket, matches # <<>>
               PROVE  /\ Len(entries') \in Nat /\ Len(entries') >= 2
                      /\ BracketInv(matches', Len(entries'))
                      /\ Walkovers(matches') = {}
                      /\ \A n \in games' \cap DOMAIN matches' : In(matches', n, 0) # null /\ In(matches', n, 1) # null
                      /\ \A n \in DOMAIN matches' : matches'[n].wave < tournament'.currentRound => Done(matches', n)
    BY DEF BracketSafe, Bracket, Decided, Done
  <1> DEFINE e == Len(entries)
             f == Len(entries')
  <1>1. /\ e \in Nat /\ e >= 2 /\ BracketInv(matches, e) /\ Walkovers(matches) = {}
        /\ \A n \in games \cap DOMAIN matches : In(matches, n, 0) # null /\ In(matches, n, 1) # null
        /\ \A n \in DOMAIN matches : matches[n].wave < tournament.currentRound => Done(matches, n)
    BY DEF BracketSafe, Decided, Done
  <1>2. shape(e) = shape(f)
    BY DEF BuiltForItsEntries, Bracket
  <1>3. f \in Nat /\ f >= 2
    BY <1>1
  <1> HIDE DEF e, f
  <1>4. BracketInv(matches, f)
    <2>1. levels(e) = levels(f)
      BY <1>1, <1>2, <1>3, SameSize
    <2> QED BY <1>1, <2>1, SameBracket
  <1> QED BY <1>1, <1>3, <1>4 DEF f

(* Steps that leave the results of a running bracket alone, or decide one   *)
(* match: what was decided is, and who was known is.                        *)
MatchesGoOn ==
    LET e == Len(entries)
    IN  /\ BracketInv(matches', e) /\ Walkovers(matches') = {} /\ Further(matches, matches')
        /\ \A n \in (games' \ games) \cap DOMAIN matches : In(matches, n, 0) # null /\ In(matches, n, 1) # null

LEMMA MatchesChange ==
    ASSUME BracketSafe, UNCHANGED <<tournament, entries>>, Bracket, matches # <<>>, MatchesGoOn
    PROVE  BracketSafe'
  <1> DEFINE e == Len(entries)
  <1>1. /\ e \in Nat /\ e >= 2 /\ BracketInv(matches, e) /\ Walkovers(matches) = {}
        /\ \A n \in games \cap DOMAIN matches : In(matches, n, 0) # null /\ In(matches, n, 1) # null
        /\ \A n \in DOMAIN matches : matches[n].wave < tournament.currentRound => Done(matches, n)
    BY DEF BracketSafe, Decided, Done
  <1>2. /\ BracketInv(matches', e) /\ Walkovers(matches') = {} /\ Further(matches, matches')
        /\ \A n \in (games' \ games) \cap DOMAIN matches : In(matches, n, 0) # null /\ In(matches, n, 1) # null
    BY DEF MatchesGoOn
  <1> HIDE DEF e
  <1>3. Filled(matches, matches') /\ DOMAIN matches' = DOMAIN matches /\ DOMAIN matches = shape(e)
    BY <1>1, <1>2, FilledStays DEF Further, BracketInv, BracketOf
  <1>4. \A n \in shape(e) : matches[n].wave = wave(e, n) /\ matches'[n].wave = wave(e, n)
    BY <1>1, <1>2 DEF BracketInv, BracketOf
  <1>5. \A n \in games' \cap DOMAIN matches' : In(matches', n, 0) # null /\ In(matches', n, 1) # null
    BY <1>1, <1>2, <1>3 DEF Filled
  <1>6. \A n \in DOMAIN matches' : matches'[n].wave < tournament.currentRound => Done(matches', n)
    BY <1>1, <1>2, <1>3, <1>4 DEF Further
  <1>7. e = Len(entries') /\ tournament'.currentRound = tournament.currentRound
    BY DEF e
  <1> QED BY <1>1, <1>2, <1>5, <1>6, <1>7 DEF BracketSafe, Decided, Done

LEMMA GamesChange ==
    ASSUME BracketSafe, UNCHANGED <<tournament, entries>>, Bracket, matches # <<>>, Alike(matches, matches'),
           \A n \in (games' \ games) \cap DOMAIN matches : In(matches, n, 0) # null /\ In(matches, n, 1) # null
    PROVE  BracketSafe'
  <1>1. Len(entries) \in Nat /\ Len(entries) >= 2 /\ BracketInv(matches, Len(entries)) /\ Walkovers(matches) = {}
    BY DEF BracketSafe
  <1>2. BracketInv(matches', Len(entries)) /\ Walkovers(matches') = {}
    BY <1>1, AlikeInvariant
  <1>3. Further(matches, matches')
    BY DEF Further, Alike
  <1>4. MatchesGoOn
    BY <1>2, <1>3 DEF MatchesGoOn
  <1> QED BY <1>4, MatchesChange

(* A match decided, and all that follows from it.                           *)
LEMMA DecidingChanges ==
    ASSUME ResultsInv, BracketSafe, UNCHANGED <<tournament, entries>>, Bracket, games' \subseteq games,
           NEW n, NEW w, CanEnd(matches, n, w), NEW m, DecidedRow(matches, n, m, w),
           matches' = DecidedAt([matches EXCEPT ![n] = m], n)
    PROVE  BracketSafe'
  <1> DEFINE e == Len(entries)
             mid == advance([matches EXCEPT ![n] = m], n, e)
  <1>1. n \in DOMAIN matches /\ matches # <<>>
    BY DEF CanEnd
  <1>2. e \in Nat /\ e >= 2 /\ BracketInv(matches, e)
    BY <1>1 DEF BracketSafe
  <1>3. AreMatches(matches) /\ IsFiniteSet(DOMAIN matches)
    BY DEF ResultsInv
  <1>4. matches' = settleWalkovers(mid, e)
    BY DEF DecidedAt
  <1> DEFINE after == matches'
  <1> HIDE DEF e, mid, after
  <1>5. BracketInv(mid, e) /\ Ends(matches, mid, n, w)
    BY <1>2, <1>3, DecisionsKeepInvariant DEF mid
  <1>6. AreMatches(mid) /\ DOMAIN mid = DOMAIN matches /\ Further(matches, mid)
    BY <1>5 DEF Ends, Further
  <1>7. BracketInv(after, e) /\ Further(mid, after) /\ Walkovers(after) = {}
    BY <1>2, <1>3, <1>4, <1>5, <1>6, SettlesAll DEF after
  <1>8. Further(matches, after)
    BY <1>6, <1>7 DEF Further
  <1>9. MatchesGoOn
    BY <1>7, <1>8 DEF MatchesGoOn, e, after
  <1> QED BY <1>1, <1>9, MatchesChange

-------------------------------------------------------------------------------
(* The steps *)

(* The next wave is the first with a match to play: the ones before it are  *)
(* over.                                                                    *)
LEMMA NextWaveIsSafe ==
    ASSUME SafeInv, NextWave PROVE BracketSafe' /\ tournament'.currentRound \in Nat
  <1> DEFINE e == Len(entries)
             round == tournament.currentRound
             last == Max({waves(e), round + 1})
             opened(w) == {n \in DOMAIN matches : matches[n].wave = w /\ ~ Decided(n)}
             W == {w \in (round + 1)..last : opened(w) # {} \/ w = last}
             next == Min(W)
  <1>1. /\ Bracket /\ UNCHANGED <<entries, matches, games>> /\ tournament' = [tournament EXCEPT !.currentRound = next]
        /\ \A n \in DOMAIN matches : matches[n].wave <= round => Decided(n)
        /\ \E n \in DOMAIN matches : ~ Decided(n)
    BY DEF NextWave
  <1>2. matches # <<>> /\ TournamentIsARow /\ BracketSafe /\ round \in Nat
    BY <1>1 DEF SafeInv, StartsEmpty, ResultsInv
  <1>3. e \in Nat /\ e >= 2 /\ BracketInv(matches, e)
    BY <1>1, <1>2 DEF BracketSafe
  <1>4. tournament'.currentRound = next /\ tournament'.kind = tournament.kind
    BY <1>1, <1>2 DEF TournamentIsARow
  <1> HIDE DEF e, round
  <1>5. waves(e) \in Nat /\ DOMAIN matches = shape(e) /\ \A n \in shape(e) : matches[n].wave \in Nat /\ matches[n].wave <= waves(e)
    <2>1. WavesInOrder(e)
      BY <1>3, WavesOrdered
    <2> QED BY <1>3, <2>1 DEF WavesInOrder, BracketInv, BracketOf
  <1>6. last \in Nat /\ last >= waves(e) /\ last >= round + 1
    <2>1. CASE waves(e) >= round + 1
      BY <1>2, <1>5, <2>1 DEF Max
    <2>2. CASE waves(e) < round + 1
      BY <1>2, <1>5, <2>2 DEF Max
    <2> QED BY <1>2, <1>5, <2>1, <2>2
  <1> HIDE DEF last
  <1>7. W \in SUBSET Nat /\ last \in W
    BY <1>2, <1>6
  <1>8. next \in W /\ \A w \in W : next <= w
    <2> HIDE DEF W
    <2>1. PICK x \in W : \A w \in W : x <= w
      BY <1>7, FirstNatural
    <2> QED BY <2>1 DEF Min
  <1> HIDE DEF next
  <1>9. next \in Nat /\ next <= last
    BY <1>7, <1>8
  <1>10. ASSUME NEW n \in DOMAIN matches, matches[n].wave < next PROVE Decided(n)
    <2> DEFINE w == matches[n].wave
    <2>1. w \in Nat
      BY <1>5
    <2>2. CASE w <= round
      BY <1>1, <2>2 DEF round
    <2>3. CASE ~ (w <= round)
      <3>1. w \in (round + 1)..last
        BY <1>2, <1>6, <1>9, <1>10, <2>1, <2>3
      <3>2. w \notin W
        <4> HIDE DEF W, w
        <4> QED BY <1>7, <1>8, <1>9, <1>10, <2>1 DEF w
      <3>3. opened(w) = {}
        BY <3>1, <3>2
      <3> QED BY <3>3
    <2> QED BY <2>2, <2>3
  <1> HIDE DEF W
  <1> QED BY <1>1, <1>2, <1>4, <1>9, <1>10 DEF BracketSafe, Bracket, Decided

-------------------------------------------------------------------------------
(* Those who start are players, each once. *)
LEMMA PlayersListed ==
    ASSUME NEW list, EnterOnce(list)
    PROVE  /\ Len(list) \in Nat /\ Len(PlayersOf(list)) = Len(list)
           /\ Lists(PlayersOf(list), {list[i].player : i \in DOMAIN list}) /\ {list[i].player : i \in DOMAIN list} \in SUBSET Players
  <1> DEFINE n == Len(list)
             names == PlayersOf(list)
             Q == {list[i].player : i \in DOMAIN list}
  <1>1. n \in Nat /\ DOMAIN list = 1 .. n /\ \A i \in 1 .. n : list[i] \in Entry
    BY DEF EnterOnce
  <1>2. \A i \in 1 .. n : list[i].player \in Players
    BY <1>1 DEF Entry
  <1>3. names = [i \in 1 .. n |-> list[i].player]
    BY <1>1 DEF PlayersOf
  <1>4. Q = {list[i].player : i \in 1 .. n}
    BY <1>1
  <1>5. \A i, j \in 1 .. n : list[i].player = list[j].player => i = j
    BY DEF EnterOnce
  <1> HIDE DEF names, n, Q
  <1>6. names \in [1 .. n -> Q]
    BY <1>3, <1>4
  <1>7. names \in Seq(Q) /\ Len(names) = n
    BY <1>1, <1>6
  <1>8. \A i, j \in 1 .. n : names[i] = names[j] => i = j
    BY <1>3, <1>5
  <1>9. \A q \in Q : \E i \in 1 .. n : names[i] = q
    BY <1>3, <1>4
  <1>10. Lists(names, Q) /\ Q \in SUBSET Players
    BY <1>2, <1>4, <1>7, <1>8, <1>9 DEF Lists
  <1> QED BY <1>1, <1>7, <1>10 DEF names, n, Q

LEMMA StartIsSafe ==
    ASSUME SafeInv, Start, Bracket PROVE BracketSafe' /\ tournament'.currentRound = 0
  <1> DEFINE P == {i \in DOMAIN entries : entries[i].checkedIn}
             present == IF tournament.status = "REGISTRATION" THEN entries ELSE Kept(entries, P)
             e == Len(present)
  <1>1. PICK seeded \in Shuffles(PlayersOf(present)) : matches' = buildBracket(seeded)
    BY DEF Start
  <1>2. e >= 2 /\ entries' = present /\ UNCHANGED games
    BY DEF Start
  <1>3. EnterOnce(present)
    <2>1. EnterOnce(entries) /\ P \in SUBSET DOMAIN entries
      BY DEF SafeInv
    <2> HIDE DEF P
    <2>2. EnterOnce(Kept(entries, P))
      BY <2>1, KeptEnterOnce
    <2> QED BY <2>1, <2>2
  <1>4. games = {} /\ tournament.currentRound = 0
    BY DEF SafeInv, StartsEmpty, Start
  <1>5. tournament'.currentRound = 0
    <2>1. PICK planned : tournament' = [[tournament EXCEPT !.status = "RUNNING"] EXCEPT !.plannedRounds = planned]
      BY DEF Start
    <2> QED BY <1>4, <2>1 DEF SafeInv, ResultsInv, TournamentIsARow
  <1> HIDE DEF present
  <1> DEFINE Q == {present[i].player : i \in DOMAIN present}
  <1>6. e \in Nat /\ Lists(PlayersOf(present), Q) /\ Q \in SUBSET Players /\ Len(PlayersOf(present)) = e
    BY <1>3, PlayersListed
  <1> HIDE DEF Q
  <1>7. Lists(seeded, Q) /\ Len(seeded) = e
    BY <1>6, ShuffledLists
  <1> HIDE DEF e
  <1> DEFINE after == matches'
  <1> HIDE DEF after
  <1>8. BracketInv(after, e) /\ Walkovers(after) = {}
    BY <1>1, <1>2, <1>6, <1>7, BuiltInvariant DEF after
  <1>9. \A n \in DOMAIN after : after[n].wave \in Nat
    <2>1. WavesInOrder(e)
      BY <1>2, <1>6, WavesOrdered
    <2> QED BY <1>8, <2>1 DEF BracketInv, BracketOf, WavesInOrder
  <1>10. \A n \in DOMAIN after : ~ (after[n].wave < 0)
    BY <1>9
  <1>11. Len(entries') = e
    BY <1>2 DEF e
  <1> QED BY <1>2, <1>4, <1>5, <1>6, <1>8, <1>10, <1>11 DEF BracketSafe, after

(* A match that an admin or a game decides.                                 *)
LEMMA PlayedCanEnd ==
    ASSUME NEW ms, NEW n \in DOMAIN ms, ~ Done(ms, n), NEW w, w \in {ms[n].player1, ms[n].player2},
           ms[n].player1 # null, ms[n].player2 # null, w # NOBODY
    PROVE  CanEnd(ms, n, w)
  BY DEF CanEnd, In

LEMMA ResultsAreSafe ==
    ASSUME SafeInv, Bracket, NEW p \in Players, NEW b \in BOOLEAN, SetResult(p, b) PROVE BracketSafe'
  <1>1. PICK n \in OpenFor(p) :
           matches' = DecidedAt([matches EXCEPT ![n].winner = IF b THEN Other(matches[n], p) ELSE p, ![n].status = "DONE"], n)
    BY DEF SetResult, CurrentMatches
  <1> DEFINE w == IF b THEN Other(matches[n], p) ELSE p
             m == [matches[n] EXCEPT !.winner = w, !.status = "DONE"]
  <1>2. UNCHANGED <<tournament, entries, games>> /\ ResultsInv /\ BracketSafe
    BY DEF SetResult, SafeInv
  <1>3. n \in DOMAIN matches /\ ~ Decided(n) /\ Real(matches[n]) /\ Involves(matches[n], p)
    BY DEF OpenFor
  <1>4. IsMatch(matches[n])
    BY <1>2, <1>3 DEF ResultsInv, AreMatches
  <1>5. IsMatch(m)
    BY <1>4, WonKeepsShape
  <1>6. m.player1 = matches[n].player1 /\ m.player2 = matches[n].player2 /\ m.wave = matches[n].wave /\ m.status = "DONE" /\ m.winner = w
    BY <1>4 DEF IsMatch
  <1>7. w \in {matches[n].player1, matches[n].player2}
    BY <1>3 DEF Involves, Other
  <1>8. matches' = DecidedAt([matches EXCEPT ![n] = m], n)
    BY <1>1, <1>3
  <1> HIDE DEF m, w
  <1>9. CanEnd(matches, n, w)
    BY <1>3, <1>7, PlayedCanEnd DEF Real, Decided, Done
  <1>10. DecidedRow(matches, n, m, w)
    BY <1>5, <1>6 DEF DecidedRow
  <1> QED BY <1>2, <1>8, <1>9, <1>10, DecidingChanges

LEMMA ChangedAlike ==
    ASSUME NEW ms, NEW n \in DOMAIN ms, NEW m, m.player1 = ms[n].player1, m.player2 = ms[n].player2,
           m.winner = ms[n].winner,
           m.wave = ms[n].wave, m.status = "DONE" <=> ms[n].status = "DONE"
    PROVE  Alike(ms, [ms EXCEPT ![n] = m])
  BY DEF Alike, Done

LEMMA OpenedAlike ==
    ASSUME NEW ms, AreMatches(ms), NEW n \in DOMAIN ms, ~ Done(ms, n), NEW s, s # "DONE"
    PROVE  Alike(ms, [ms EXCEPT ![n].status = s])
  <1> DEFINE m == [ms[n] EXCEPT !.status = s]
  <1>1. /\ m.player1 = ms[n].player1 /\ m.player2 = ms[n].player2 /\ m.winner = ms[n].winner
        /\ m.wave = ms[n].wave /\ m.status = s
    BY DEF AreMatches, IsMatch
  <1>2. [ms EXCEPT ![n].status = s] = [ms EXCEPT ![n] = m]
    OBVIOUS
  <1> HIDE DEF m
  <1> QED BY <1>1, <1>2, ChangedAlike DEF Done

LEMMA GamesAreSafe ==
    ASSUME SafeInv, Bracket, NEW n \in games, NEW p \in Players, GameWon(n, p) PROVE BracketSafe'
  <1> DEFINE m == matches[n]
             scored == IF p = m.player1 THEN [m EXCEPT !.wins1 = @ + 1] ELSE [m EXCEPT !.wins2 = @ + 1]
             won == [scored EXCEPT !.winner = p, !.status = "DONE"]
             more == [scored EXCEPT !.status = "PENDING"]
  <1>1. UNCHANGED <<tournament, entries>> /\ games' \subseteq games /\ ResultsInv /\ BracketSafe
    BY DEF GameWon, SafeInv
  <1>2. CASE n \notin DOMAIN matches \/ Decided(n)
    <2>1. UNCHANGED matches
      BY <1>2 DEF GameWon
    <2> QED BY <1>1, <2>1 DEF BracketSafe, Bracket, Decided
  <1>3. CASE n \in DOMAIN matches /\ ~ Decided(n)
    <2>1. /\ Involves(m, p) /\ IsMatch(m) /\ ~ Done(matches, n) /\ matches # <<>>
          /\ m.player1 # null /\ m.player2 # null
      <3>1. matches # <<>>
        BY <1>3
      <3>2. In(matches, n, 0) # null /\ In(matches, n, 1) # null
        BY <1>1, <1>3, <3>1 DEF BracketSafe
      <3> QED BY <1>1, <1>3, <3>1, <3>2 DEF GameWon, ResultsInv, AreMatches, Decided, Done, In
    <2>2. /\ IsMatch(scored) /\ scored.player1 = m.player1 /\ scored.player2 = m.player2
          /\ scored.wave = m.wave /\ scored.winner = m.winner
      BY <2>1 DEF IsMatch
    <2>3. matches' = DecidedAt([matches EXCEPT ![n] = won], n) \/ matches' = [matches EXCEPT ![n] = more]
      BY <1>3 DEF GameWon
    <2> HIDE DEF scored
    <2>4. IsMatch(won)
      BY <2>2, WonKeepsShape
    <2>5. /\ won.player1 = m.player1 /\ won.player2 = m.player2 /\ won.wave = m.wave /\ won.winner = p /\ won.status = "DONE"
          /\ more.player1 = m.player1 /\ more.player2 = m.player2 /\ more.wave = m.wave /\ more.winner = m.winner
          /\ more.status = "PENDING"
      BY <2>2 DEF IsMatch
    <2> HIDE DEF won, more
    <2>6. CASE matches' = DecidedAt([matches EXCEPT ![n] = won], n)
      <3>1. CanEnd(matches, n, p)
        BY <1>3, <2>1, PlayedCanEnd, TournamentAssumption DEF Involves
      <3>2. DecidedRow(matches, n, won, p)
        BY <2>4, <2>5 DEF DecidedRow
      <3> QED BY <1>1, <2>6, <3>1, <3>2, DecidingChanges
    <2>7. CASE matches' = [matches EXCEPT ![n] = more]
      <3>1. Alike(matches, [matches EXCEPT ![n] = more])
        BY <1>3, <2>1, <2>5, ChangedAlike DEF Done
      <3>2. (games' \ games) \cap DOMAIN matches = {}
        BY <1>1
      <3>3. Alike(matches, matches')
        BY <2>7, <3>1
      <3> QED BY <1>1, <2>1, <3>2, <3>3, GamesChange
    <2> QED BY <2>3, <2>6, <2>7
  <1> QED BY <1>2, <1>3

LEMMA LobbiesAreSafe ==
    ASSUME SafeInv, Bracket,
           \/ \E p \in Players, b \in BOOLEAN : Reinvite(p, b)
           \/ \E p, q \in Players : BindLobby(p, q)
           \/ \E n \in games : NotPlayed(n)
    PROVE  BracketSafe'
  <1>1. UNCHANGED <<tournament, entries>> /\ ResultsInv /\ BracketSafe /\ AreMatches(matches)
    BY DEF Reinvite, BindLobby, NotPlayed, SafeInv, ResultsInv
  <1>2. ASSUME NEW n \in DOMAIN matches, ~ Done(matches, n), NEW s, s # "DONE",
               matches' = [matches EXCEPT ![n].status = s],
               \A k \in games' \ games : k = n /\ Real(matches[n])
        PROVE  BracketSafe'
    <2>1. Alike(matches, matches') /\ matches # <<>>
      <3>1. Alike(matches, [matches EXCEPT ![n].status = s])
        BY <1>1, <1>2, OpenedAlike
      <3>2. DOMAIN matches # {}
        OBVIOUS
      <3> QED BY <1>2, <3>1, <3>2
    <2>2. \A k \in (games' \ games) \cap DOMAIN matches : In(matches, k, 0) # null /\ In(matches, k, 1) # null
      BY <1>2 DEF Real, In
    <2> QED BY <1>1, <2>1, <2>2, GamesChange
  <1>3. ASSUME NEW p \in Players, NEW b \in BOOLEAN, Reinvite(p, b) PROVE BracketSafe'
    <2>1. PICK n \in OpenFor(p) : /\ games' = IF b THEN games \cup {n} ELSE games
                                  /\ matches' = [matches EXCEPT ![n].status = IF b THEN "PLAYING" ELSE "PENDING"]
      BY <1>3 DEF Reinvite, CurrentMatches
    <2> DEFINE s == IF b THEN "PLAYING" ELSE "PENDING"
    <2>2. s # "DONE"
      OBVIOUS
    <2>3. n \in DOMAIN matches /\ ~ Done(matches, n) /\ Real(matches[n])
      BY DEF OpenFor, Decided, Done
    <2> HIDE DEF s
    <2>4. \A k \in games' \ games : k = n /\ Real(matches[n])
      BY <2>1, <2>3
    <2> QED BY <1>2, <2>1, <2>2, <2>3, <2>4 DEF s
  <1>4. ASSUME NEW p \in Players, NEW q \in Players, BindLobby(p, q) PROVE BracketSafe'
    <2>1. PICK n \in OpenFor(p) : games' = games \cup {n} /\ matches' = [matches EXCEPT ![n].status = "PLAYING"]
      BY <1>4 DEF BindLobby
    <2>2. n \in DOMAIN matches /\ ~ Done(matches, n) /\ Real(matches[n])
      BY DEF OpenFor, Decided, Done
    <2> QED BY <1>2, <2>1, <2>2
  <1>5. ASSUME NEW n \in games, NotPlayed(n) PROVE BracketSafe'
    <2>1. games' \subseteq games
      BY <1>5 DEF NotPlayed
    <2>2. CASE n \notin DOMAIN matches \/ Decided(n)
      <3>1. UNCHANGED matches
        BY <1>5, <2>2 DEF NotPlayed
      <3> QED BY <1>1, <2>1, <3>1 DEF BracketSafe, Bracket, Decided
    <2>3. CASE n \in DOMAIN matches /\ ~ Decided(n)
      <3>1. matches' = [matches EXCEPT ![n].status = "PENDING"] /\ ~ Done(matches, n)
        BY <1>5, <2>3 DEF NotPlayed, Decided, Done
      <3> QED BY <1>2, <2>1, <2>3, <3>1
    <2> QED BY <2>2, <2>3
  <1> QED BY <1>3, <1>4, <1>5

-------------------------------------------------------------------------------
LEMMA StatusStaysKnown ==
    ASSUME SafeInv, [Next]_vars PROVE StartsEmpty' /\ tournament'.kind = tournament.kind
  <1>0. TournamentIsARow /\ StartsEmpty
    BY DEF SafeInv, ResultsInv
  <1>1. tournament'.kind = tournament.kind
    BY <1>0, OnlyNextRoundMakesMatches DEF RoundStays
  <1> SUFFICES StartsEmpty'
    BY <1>1
  <1>2. ASSUME UNCHANGED tournament,
               tournament.status \in {"REGISTRATION", "CHECK_IN"} => UNCHANGED <<matches, games>>
        PROVE  StartsEmpty'
    BY <1>0, <1>2 DEF StartsEmpty, Bracket
  <1>3. ASSUME NEW s \in {"RUNNING", "FINISHED", "CANCELLED", "ERASED"}, tournament'.status = s,
               Bracket => tournament'.currentRound \in Nat
        PROVE  StartsEmpty'
    BY <1>1, <1>3 DEF StartsEmpty, Bracket
  <1>4. CASE \E p \in Players : Register(p) \/ AdminAdd(p) \/ Unregister(p) \/ AdminRemove(p) \/ CheckIn(p)
    <2>1. UNCHANGED <<tournament, matches, games>>
      BY <1>4 DEF Register, AdminAdd, Add, Unregister, AdminRemove, Delete, CheckIn
    <2> QED BY <1>2, <2>1
  <1>5. CASE OpenCheckIn
    <2>1. tournament'.status = "CHECK_IN" /\ tournament'.currentRound = tournament.currentRound
      BY <1>0, <1>5 DEF OpenCheckIn, TournamentIsARow
    <2> QED BY <1>0, <1>1, <1>5, <2>1 DEF OpenCheckIn, StartsEmpty, Bracket
  <1>6. CASE Cancel \/ Purge \/ Finish
    <2>1. PICK s \in {"FINISHED", "CANCELLED", "ERASED"} : tournament' = [tournament EXCEPT !.status = s]
      BY <1>6 DEF Cancel, Purge, Finish
    <2>2. tournament'.status = s /\ tournament'.currentRound = tournament.currentRound
      BY <1>0, <2>1 DEF TournamentIsARow
    <2> QED BY <1>0, <1>3, <2>2 DEF StartsEmpty
  <1>7. CASE Start
    <2>1. PICK planned : tournament' = [[tournament EXCEPT !.status = "RUNNING"] EXCEPT !.plannedRounds = planned]
      BY <1>7 DEF Start
    <2>2. tournament'.status = "RUNNING" /\ tournament'.currentRound = tournament.currentRound
      BY <1>0, <2>1 DEF TournamentIsARow
    <2> QED BY <1>0, <1>3, <2>2 DEF StartsEmpty
  <1>8. CASE NextRound
    <2>1. PICK round : tournament' = [tournament EXCEPT !.currentRound = round]
      BY <1>8 DEF NextRound
    <2>2. tournament'.status = "RUNNING" /\ ~ Bracket
      BY <1>0, <1>8, <2>1 DEF TournamentIsARow, NextRound
    <2> QED BY <1>3, <2>2
  <1>9. CASE NextWave
    <2>1. PICK next : tournament' = [tournament EXCEPT !.currentRound = next]
      BY <1>9 DEF NextWave
    <2>2. tournament'.status = "RUNNING"
      BY <1>0, <1>9, <2>1 DEF TournamentIsARow, NextWave
    <2> QED BY <1>3, <1>9, <2>2, NextWaveIsSafe
  <1>10. CASE \E delta \in {-1, 1} : ChangeRounds(delta)
    <2>1. PICK planned : tournament' = [tournament EXCEPT !.plannedRounds = planned]
      BY <1>10 DEF ChangeRounds
    <2>2. tournament'.status = "RUNNING" /\ tournament'.currentRound = tournament.currentRound
      BY <1>0, <1>10, <2>1 DEF TournamentIsARow, ChangeRounds
    <2> QED BY <1>0, <1>3, <2>2 DEF StartsEmpty
  <1>11. CASE Crash
    BY <1>0, <1>1, <1>11 DEF Crash, StartsEmpty, Bracket
  <1>12. CASE UNCHANGED vars
    BY <1>2, <1>12 DEF vars
  <1>13. CASE \E p \in Players, b \in BOOLEAN : SetResult(p, b) \/ Reinvite(p, b)
    BY <1>2, <1>13 DEF SetResult, Reinvite
  <1>14. CASE \E p, q \in Players : BindLobby(p, q)
    BY <1>2, <1>14 DEF BindLobby, OpenFor
  <1>15. CASE \E n \in games : NotPlayed(n) \/ \E p \in Players : GameWon(n, p)
    <2>1. UNCHANGED tournament /\ games # {}
      BY <1>15 DEF NotPlayed, GameWon
    <2> QED BY <1>0, <1>2, <2>1 DEF StartsEmpty
  <1> QED BY <1>1, <1>4, <1>5, <1>6, <1>7, <1>8, <1>9, <1>10, <1>11, <1>12, <1>13, <1>14, <1>15 DEF Next

LEMMA EntriesAreSafe ==
    ASSUME SafeInv, Bracket, BuiltForItsEntries, BuiltForItsEntries',
           \E p \in Players : Register(p) \/ AdminAdd(p) \/ Unregister(p) \/ AdminRemove(p) \/ CheckIn(p)
    PROVE  BracketSafe'
  <1>1. UNCHANGED <<tournament, matches, games>>
    BY DEF Register, AdminAdd, Add, Unregister, AdminRemove, Delete, CheckIn
  <1>2. entries \in Seq(Entry) /\ Len(entries) \in Nat /\ BracketSafe
    BY DEF SafeInv, EnterOnce
  <1>3. ASSUME matches # <<>> PROVE Len(entries') \in Nat /\ Len(entries') >= Len(entries)
    <2>1. tournament.status \notin {"REGISTRATION", "CHECK_IN"}
      BY <1>3 DEF SafeInv, StartsEmpty
    <2>2. CASE \E p \in Players : Add(p)
      <3>1. \E e : entries' = Append(entries, e)
        BY <2>2 DEF Add
      <3> QED BY <1>2, <3>1
    <2>3. CASE \E i \in DOMAIN entries : entries' = [entries EXCEPT ![i].dropped = TRUE] \/ entries' = [entries EXCEPT ![i].checkedIn = TRUE]
      <3>1. \E i \in DOMAIN entries : \E e : entries' = [entries EXCEPT ![i] = e]
        BY <2>3
      <3>2. Len(entries') = Len(entries)
        BY <1>2, <3>1
      <3> QED BY <1>2, <3>2
    <2> QED BY <2>1, <2>2, <2>3 DEF Register, AdminAdd, Unregister, AdminRemove, CheckIn, SafeInv, StartsEmpty, Over
  <1> QED BY <1>1, <1>2, <1>3, EntriesChange

LEMMA EveryStepIsSafe ==
    ASSUME SafeInv, BuiltForItsEntries, BuiltForItsEntries', [Next]_vars PROVE SafeInv'
  <1>1. ResultsInv' /\ EnterOnce(entries') /\ StartsEmpty' /\ tournament'.kind = tournament.kind
    BY EveryStepKeepsResults, PlayersEnterOnce, StatusStaysKnown DEF SafeInv
  <1>2. CASE ~ Bracket
    BY <1>1, <1>2 DEF SafeInv, BracketSafe, Bracket
  <1>3. CASE Bracket
    <2> SUFFICES BracketSafe'
      BY <1>1 DEF SafeInv
    <2>1. ASSUME UNCHANGED <<entries, matches>>, games' \subseteq games,
                 tournament'.currentRound = tournament.currentRound
          PROVE  BracketSafe'
      <3>1. BracketSafe
        BY DEF SafeInv
      <3> QED BY <1>1, <2>1, <3>1 DEF BracketSafe, Bracket, Decided
    <2>2. CASE \E p \in Players : Register(p) \/ AdminAdd(p) \/ Unregister(p) \/ AdminRemove(p) \/ CheckIn(p)
      BY <1>3, <2>2, EntriesAreSafe
    <2>3. CASE OpenCheckIn \/ Cancel \/ Finish \/ Crash \/ UNCHANGED vars \/ \E delta \in {-1, 1} : ChangeRounds(delta)
      <3>1. UNCHANGED <<entries, matches>> /\ games' \subseteq games
        BY <2>3 DEF OpenCheckIn, Cancel, Finish, Crash, vars, ChangeRounds
      <3>2. \/ UNCHANGED tournament
            \/ \E s : tournament' = [tournament EXCEPT !.status = s]
            \/ \E planned : tournament' = [tournament EXCEPT !.plannedRounds = planned]
        BY <2>3 DEF OpenCheckIn, Cancel, Finish, Crash, vars, ChangeRounds
      <3>3. tournament'.currentRound = tournament.currentRound
        BY <3>2 DEF SafeInv, ResultsInv, TournamentIsARow
      <3> QED BY <2>1, <3>1, <3>3
    <2>4. CASE Purge
      BY <2>4 DEF Purge, BracketSafe
    <2>5. CASE Start
      BY <1>3, <2>5, StartIsSafe
    <2>6. CASE NextRound
      BY <1>3, <2>6 DEF NextRound
    <2>7. CASE NextWave
      BY <2>7, NextWaveIsSafe
    <2>8. CASE \E p \in Players, b \in BOOLEAN : SetResult(p, b)
      BY <1>3, <2>8, ResultsAreSafe
    <2>9. CASE \E n \in games, p \in Players : GameWon(n, p)
      BY <1>3, <2>9, GamesAreSafe
    <2>10. CASE \/ \E p \in Players, b \in BOOLEAN : Reinvite(p, b)
                \/ \E p, q \in Players : BindLobby(p, q)
                \/ \E n \in games : NotPlayed(n)
      BY <1>3, <2>10, LobbiesAreSafe
    <2> QED BY <2>2, <2>3, <2>4, <2>5, <2>6, <2>7, <2>8, <2>9, <2>10 DEF Next
  <1> QED BY <1>2, <1>3

LEMMA InitIsSafe == Init => SafeInv
  <1> SUFFICES ASSUME Init PROVE SafeInv
    OBVIOUS
  <1>1. DOMAIN matches = {}
    BY DEF Init
  <1>2. ResultsInv
    BY <1>1, FS_EmptySet DEF Init, ResultsInv, TournamentIsARow, AreMatches, NoMatchBeforeTheStart, RoundsSoFar
  <1>3. EnterOnce(entries)
    BY DEF Init, EnterOnce
  <1>4. StartsEmpty /\ BracketSafe
    BY DEF Init, StartsEmpty, BracketSafe
  <1> QED BY <1>2, <1>3, <1>4 DEF SafeInv

-------------------------------------------------------------------------------
(* TournamentRunService and DoubleElimination: for any number of players    *)
(* and of byes, any draw, any results and any order of requests, games and  *)
(* crashes, a bracket loses nobody and seats nobody twice: while something  *)
(* is left to play each player with less than two defeats waits in one      *)
(* match and the others in none; at the end the only one with less than two *)
(* is the champion.  That is, as long as no late entry asks for a larger    *)
(* bracket than was built, which AdminAdd does not forbid.                  *)
THEOREM SurvivorsAreSeated == Spec /\ []BuiltForItsEntries => []SurvivorsSeated
  <1>1. Init => SafeInv
    BY InitIsSafe
  <1>2. SafeInv /\ BuiltForItsEntries /\ BuiltForItsEntries' /\ [Next]_vars => SafeInv'
    BY EveryStepIsSafe
  <1>3. SafeInv => SurvivorsSeated
    BY SafeSeats DEF SafeInv
  <1> QED BY <1>1, <1>2, <1>3, PTL DEF Spec

(* Under the same assumption a running bracket does not halt: what is left  *)
(* to play of the waves opened is between known players, and if that is     *)
(* over the next wave opens, its players known as well.                     *)
THEOREM BracketsGoOn == Spec /\ []BuiltForItsEntries => []BracketGoesOn
  <1>1. Init => SafeInv
    BY InitIsSafe
  <1>2. SafeInv /\ BuiltForItsEntries /\ BuiltForItsEntries' /\ [Next]_vars => SafeInv'
    BY EveryStepIsSafe
  <1>3. SafeInv => BracketGoesOn
    BY SafeGoesOn DEF SafeInv, StartsEmpty, ResultsInv
  <1> QED BY <1>1, <1>2, <1>3, PTL DEF Spec
===============================================================================

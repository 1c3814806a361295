------------------------- MODULE BattleFormatsProofs -------------------------
(***************************************************************************)
(* Proofs about BattleFormats, for any formats and data that respect its   *)
(* assumptions and any team.                                               *)
(***************************************************************************)
EXTENDS BattleFormats, FiniteSetTheorems, WellFoundedInduction, TLAPS

IsList(list) == list \in Seq(Elements(list))

LEMMA Listed == ASSUME NEW S, NEW s \in Seq(S) PROVE IsList(s)
  <1>1. Len(s) \in Nat /\ DOMAIN s = 1 .. Len(s) /\ \A n \in 1 .. Len(s) : s[n] \in Elements(s)
    BY DEF Elements
  <1> QED BY <1>1 DEF IsList

LEMMA Lists ==
    ASSUME NEW s, IsList(s), NEW t, IsList(t)
    PROVE  /\ IsList(s \o t) /\ Elements(s \o t) = Elements(s) \union Elements(t)
           /\ s # <<>> => /\ IsList(Tail(s)) /\ Elements(s) = {Head(s)} \union Elements(Tail(s))
  <1> DEFINE S == Elements(s) \union Elements(t)
  <1>1. s \in Seq(S) /\ t \in Seq(S)
    BY DEF IsList
  <1>2. s \o t \in Seq(S) /\ Len(s \o t) = Len(s) + Len(t) /\ Len(s) \in Nat /\ Len(t) \in Nat
        /\ DOMAIN s = 1 .. Len(s) /\ DOMAIN t = 1 .. Len(t) /\ DOMAIN (s \o t) = 1 .. (Len(s) + Len(t))
        /\ \A n \in 1 .. (Len(s) + Len(t)) : (s \o t)[n] = IF n <= Len(s) THEN s[n] ELSE t[n - Len(s)]
    BY <1>1
  <1>3. Elements(s \o t) = S
    <2>1. ASSUME NEW n \in 1 .. (Len(s) + Len(t)) PROVE (s \o t)[n] \in S
      <3>1. CASE n <= Len(s)
        BY <1>2, <3>1 DEF Elements
      <3>2. CASE n > Len(s)
        <4>1. n - Len(s) \in DOMAIN t /\ (s \o t)[n] = t[n - Len(s)]
          BY <1>2, <3>2
        <4> QED BY <4>1 DEF Elements
      <3> QED BY <1>2, <3>1, <3>2
    <2>2. ASSUME NEW n \in DOMAIN s PROVE s[n] \in Elements(s \o t)
      <3>1. n \in DOMAIN (s \o t) /\ (s \o t)[n] = s[n]
        BY <1>2
      <3> QED BY <3>1 DEF Elements
    <2>3. ASSUME NEW n \in DOMAIN t PROVE t[n] \in Elements(s \o t)
      <3>1. n + Len(s) \in DOMAIN (s \o t) /\ (s \o t)[n + Len(s)] = t[n]
        BY <1>2
      <3> QED BY <3>1 DEF Elements
    <2>4. Elements(s \o t) \subseteq S
      BY <1>2, <2>1 DEF Elements
    <2>5. S \subseteq Elements(s \o t)
      BY <2>2, <2>3 DEF Elements
    <2> QED BY <2>4, <2>5
  <1>4. IsList(s \o t)
    BY <1>2, <1>3 DEF IsList
  <1>5. ASSUME s # <<>> PROVE IsList(Tail(s)) /\ Elements(s) = {Head(s)} \union Elements(Tail(s))
    <2>1. Tail(s) \in Seq(S) /\ Len(s) >= 1 /\ Head(s) = s[1] /\ Len(Tail(s)) = Len(s) - 1
          /\ DOMAIN Tail(s) = 1 .. (Len(s) - 1) /\ \A n \in 1 .. (Len(s) - 1) : Tail(s)[n] = s[n + 1]
      BY <1>1, <1>2, <1>5
    <2>2. \A n \in 1 .. Len(s) : n = 1 \/ (n - 1 \in 1 .. (Len(s) - 1) /\ s[n] = Tail(s)[n - 1])
      BY <1>2, <2>1
    <2>3. \A n \in 1 .. (Len(s) - 1) : n + 1 \in 1 .. Len(s)
      BY <1>2
    <2>4. ASSUME NEW n \in DOMAIN s PROVE s[n] \in {Head(s)} \union Elements(Tail(s))
      <3>1. CASE n = 1
        BY <2>1, <3>1
      <3>2. CASE n - 1 \in DOMAIN Tail(s) /\ s[n] = Tail(s)[n - 1]
        BY <3>2 DEF Elements
      <3> QED BY <1>2, <2>1, <2>2, <3>1, <3>2
    <2>5. ASSUME NEW n \in DOMAIN Tail(s) PROVE Tail(s)[n] \in Elements(s)
      <3>1. n + 1 \in DOMAIN s /\ Tail(s)[n] = s[n + 1]
        BY <1>2, <2>1
      <3> QED BY <3>1 DEF Elements
    <2>6. Head(s) \in Elements(s)
      <3>1. 1 \in DOMAIN s
        BY <1>2, <2>1
      <3> QED BY <2>1, <3>1 DEF Elements
    <2>7. \A x : x \in Elements(s) => x \in {Head(s)} \union Elements(Tail(s))
      BY <2>4 DEF Elements
    <2>8. \A x : x \in Elements(Tail(s)) => x \in Elements(s)
      BY <2>5 DEF Elements
    <2> QED BY <2>1, <2>6, <2>7, <2>8, Listed
  <1> QED BY <1>3, <1>4, <1>5

LEMMA Appended ==
    ASSUME NEW s, IsList(s), NEW x
    PROVE  /\ IsList(Append(s, x)) /\ Len(s) \in Nat /\ DOMAIN s = 1 .. Len(s)
           /\ Len(Append(s, x)) = Len(s) + 1
           /\ \A n \in 1 .. Len(s) : Append(s, x)[n] = s[n]
           /\ Append(s, x)[Len(s) + 1] = x
  <1> DEFINE S == Elements(s) \union {x}
  <1>1. s \in Seq(S) /\ x \in S
    BY DEF IsList
  <1>2. /\ Append(s, x) \in Seq(S) /\ Len(s) \in Nat /\ DOMAIN s = 1 .. Len(s)
        /\ Len(Append(s, x)) = Len(s) + 1 /\ DOMAIN Append(s, x) = 1 .. (Len(s) + 1)
        /\ \A n \in 1 .. Len(s) : Append(s, x)[n] = s[n]
        /\ Append(s, x)[Len(s) + 1] = x
    BY <1>1
  <1>3. Append(s, x) \in Seq(Elements(Append(s, x)))
    BY <1>2 DEF Elements
  <1> QED BY <1>2, <1>3 DEF IsList

-----------------------------------------------------------------------------
(* The entries a format comes to *)

Closed(C) == \A e \in C : Elements(Defined(e).ruleset) \subseteq C

RuleNames == {"standardag", "standard", "standardnatdex", "natdexmod", "obtainable", "littlecup", "evasionclause",
              "evasionabilitiesclause", "evasionitemsclause", "evasionmovesclause", "accuracymovesclause",
              "sleepmovesclause"}

LEMMA RulesAreLists ==
    ASSUME NEW r \in DOMAIN Rules
    PROVE  r \in RuleNames /\ IsList(Rules[r].ruleset)
  <1>1. r \in RuleNames
    BY DEF Rules, RuleNames
  <1>2. ASSUME NEW a, NEW b, NEW c, NEW d, NEW e, NEW f, NEW g
        PROVE  /\ IsList(<<>>) /\ IsList(<<a>>) /\ IsList(<<a, b, c>>) /\ IsList(<<a, b, c, d, e>>)
               /\ IsList(<<a, b, c, d, e, f, g>>)
    BY DEF IsList, Elements
  <1>3. /\ IsList(StandardAG.ruleset) /\ IsList(Standard.ruleset) /\ IsList(StandardNatDex.ruleset)
        /\ IsList(NatDexMod.ruleset) /\ IsList(Obtainable.ruleset) /\ IsList(LittleCup.ruleset)
        /\ IsList(EvasionClause.ruleset)
    BY <1>2 DEF Def, StandardAG, Standard, StandardNatDex, NatDexMod, Obtainable, LittleCup, EvasionClause
  <1>4. /\ IsList(EvasionAbilitiesClause.ruleset) /\ IsList(EvasionItemsClause.ruleset)
        /\ IsList(EvasionMovesClause.ruleset) /\ IsList(AccuracyMovesClause.ruleset)
        /\ IsList(SleepMovesClause.ruleset)
    BY <1>2 DEF Def, EvasionAbilitiesClause, EvasionItemsClause, EvasionMovesClause, AccuracyMovesClause,
                SleepMovesClause
  <1> QED BY <1>1, <1>3, <1>4 DEF Rules, RuleNames

LEMMA DefinedLists ==
    ASSUME NEW e
    PROVE  IsList(Defined(e).ruleset)
  <1>1. IsList(NoDef.ruleset)
    BY DEF NoDef, Def, IsList, Elements
  <1> QED BY <1>1, RulesAreLists, FormatsAssumption DEF Defined, IsList

LEMMA EntriesAreClosed == Closed(Entries)
  <1>1. Elements(NoDef.ruleset) = {}
    BY DEF NoDef, Def, Elements
  <1> QED BY <1>1 DEF Closed, Entries, Definitions, Defined

(* What a Builder has gathered from the entries it has seen.                *)
Gathered(d) ==
    /\ d.rules = {e.of : e \in {e \in d.seen : e.op \in {"rule", "value"}}}
    /\ d.removed = {e.of : e \in {e \in d.seen : e.op = "remove"}}
    /\ \A b : b \in d.unbans <=> \E e \in d.seen : (e.op = "unban" /\ e.of = b) \/ b \in Defined(e).unbans
    /\ \A b : b \in d.bans <=> \E e \in d.seen : (e.op = "ban" /\ e.of = b) \/ b \in Defined(e).bans
    /\ \A v \in DOMAIN d.values :
          \E e \in d.seen : e.op = "value" /\ e.of = v /\ e.is = d.values[v] /\ e.is # Nothing
    /\ \A e \in d.seen : e.op = "value" /\ e.is # Nothing => e.of \in DOMAIN d.values

(* From p to the entries seen and those left to add, and to no others: any  *)
(* closed set with p has them all.                                          *)
Reached(p, seen, left) ==
    /\ p \in seen \union left
    /\ \A e \in seen : Elements(Defined(e).ruleset) \subseteq seen \union left
    /\ \A C : Closed(C) /\ p \in C => seen \union left \subseteq C

(* A format is what its Builder gathered from all it comes to.              *)
IsResolved(format, id) ==
    \E d : /\ Gathered(d) /\ Reached(Parent(id), d.seen, {})
           /\ format = [id |-> id, rules |-> d.rules \ d.removed, bans |-> d.bans, unbans |-> d.unbans,
                        values |-> d.values]

Resolving ==
    /\ IsList(todo)
    /\ \/ todo = <<>> /\ draft = NoDraft
       \/ /\ Len(resolved) < Len(Offered)
          /\ Gathered(draft) /\ Reached(Parent(Offered[Len(resolved) + 1]), draft.seen, Elements(todo))

(* The inductive invariant.                                                 *)
FormatsInv ==
    /\ Resolving
    /\ IsList(resolved) /\ Len(resolved) <= Len(Offered)
    /\ \A k \in DOMAIN resolved : IsResolved(resolved[k], Offered[k])
    /\ team \in Seq(Members)

LEMMA NothingGathered == Gathered(NoDraft)
  BY DEF Gathered, NoDraft

LEMMA GathersOn ==
    ASSUME Gathered(draft), todo # <<>>, AddEntry
    PROVE  Gathered(draft') /\ draft'.seen = draft.seen \union {Head(todo)}
  <1> DEFINE e == Head(todo)
             values == IF e.op = "value" /\ e.is # Nothing THEN Put(draft.values, e.of, e.is) ELSE draft.values
  <1>0. NoDef.bans = {} /\ NoDef.unbans = {}
    BY DEF NoDef, Def
  <1>1. draft' = [rules   |-> draft.rules \union Of(e, {"rule", "value"}),
                  removed |-> draft.removed \union Of(e, {"remove"}),
                  bans    |-> draft.bans \union Of(e, {"ban"}) \union Fresh(e).bans,
                  unbans  |-> draft.unbans \union Of(e, {"unban"}) \union Fresh(e).unbans,
                  values  |-> values,
                  seen    |-> draft.seen \union {e}]
    BY DEF AddEntry
  <1> HIDE DEF e, values
  <1>2. draft'.seen = draft.seen \union {e}
    BY <1>1
  <1>3. draft'.rules = {x.of : x \in {x \in draft'.seen : x.op \in {"rule", "value"}}}
    BY <1>1 DEF Gathered, Of
  <1>4. draft'.removed = {x.of : x \in {x \in draft'.seen : x.op = "remove"}}
    BY <1>1 DEF Gathered, Of
  <1>5. \A b : b \in draft'.unbans <=>
                \E x \in draft'.seen : (x.op = "unban" /\ x.of = b) \/ b \in Defined(x).unbans
    BY <1>0, <1>1 DEF Gathered, Fresh, Of
  <1>6. \A b : b \in draft'.bans <=>
                \E x \in draft'.seen : (x.op = "ban" /\ x.of = b) \/ b \in Defined(x).bans
    BY <1>0, <1>1 DEF Gathered, Fresh, Of
  <1>7. /\ \A v \in DOMAIN values :
              \E x \in draft'.seen : x.op = "value" /\ x.of = v /\ x.is = values[v] /\ x.is # Nothing
        /\ \A x \in draft'.seen : x.op = "value" /\ x.is # Nothing => x.of \in DOMAIN values
    <2>1. CASE e.op = "value" /\ e.is # Nothing
      <3>1. /\ DOMAIN values = {e.of} \union DOMAIN draft.values
            /\ \A v \in DOMAIN values : values[v] = IF v = e.of THEN e.is ELSE draft.values[v]
        BY <2>1 DEF values, Put
      <3> QED BY <1>2, <2>1, <3>1 DEF Gathered
    <2>2. CASE ~ (e.op = "value" /\ e.is # Nothing)
      BY <1>2, <2>2 DEF values, Gathered
    <2> QED BY <2>1, <2>2
  <1>8. draft'.values = values
    BY <1>1
  <1> QED BY <1>2, <1>3, <1>4, <1>5, <1>6, <1>7, <1>8 DEF Gathered, e

LEMMA ReachesOn ==
    ASSUME NEW p, NEW seen, IsList(todo), todo # <<>>, Reached(p, seen, Elements(todo)),
           NEW def, def = IF Head(todo) \in seen THEN NoDef ELSE Defined(Head(todo))
    PROVE  /\ IsList(def.ruleset \o Tail(todo))
           /\ Reached(p, seen \union {Head(todo)}, Elements(def.ruleset \o Tail(todo)))
  <1> DEFINE e == Head(todo)
             rest == Elements(Tail(todo))
             left == Elements(def.ruleset \o Tail(todo))
  <1>1. IsList(def.ruleset) /\ Elements(NoDef.ruleset) = {}
    <2>1. IsList(NoDef.ruleset) /\ Elements(NoDef.ruleset) = {}
      BY DEF NoDef, Def, IsList, Elements
    <2> QED BY <2>1, DefinedLists
  <1>2. IsList(Tail(todo)) /\ Elements(todo) = {e} \union rest
    BY Lists
  <1>3. IsList(def.ruleset \o Tail(todo)) /\ left = Elements(def.ruleset) \union rest
    BY <1>1, <1>2, Lists
  <1> HIDE DEF e, rest, left
  <1>4. p \in seen \union {e} \union left
    BY <1>2, <1>3 DEF Reached
  <1>5. ASSUME NEW x \in seen \union {e} PROVE Elements(Defined(x).ruleset) \subseteq (seen \union {e}) \union left
    <2>1. CASE x \in seen
      BY <1>2, <1>3, <2>1 DEF Reached
    <2>2. CASE x \notin seen
      BY <1>3, <2>2 DEF e
    <2> QED BY <2>1, <2>2
  <1>6. ASSUME NEW C, Closed(C), p \in C PROVE (seen \union {e}) \union left \subseteq C
    <2>1. seen \union ({e} \union rest) \subseteq C
      BY <1>2, <1>6 DEF Reached
    <2>2. Elements(def.ruleset) \subseteq C
      BY <1>1, <1>6, <2>1 DEF Closed, e
    <2> QED BY <1>3, <2>1, <2>2
  <1> QED BY <1>3, <1>4, <1>5, <1>6 DEF Reached, e, left

LEMMA InitResolves == Init => FormatsInv
  BY DEF Init, FormatsInv, Resolving, IsList, Elements

LEMMA BeginningResolves == ASSUME FormatsInv, BeginFormat PROVE FormatsInv'
  <1> DEFINE p == Parent(Offered[Len(resolved) + 1])
  <1>1. todo' = <<p>> /\ draft' = NoDraft /\ resolved' = resolved /\ team' = team /\ Len(resolved) < Len(Offered)
    BY DEF BeginFormat
  <1>2. IsList(<<p>>) /\ Elements(<<p>>) = {p}
    BY DEF IsList, Elements
  <1>3. Reached(p, {}, {p}) /\ NoDraft.seen = {}
    BY DEF Reached, NoDraft
  <1> QED BY <1>1, <1>2, <1>3, NothingGathered DEF FormatsInv, Resolving

LEMMA AddingResolves == ASSUME FormatsInv, AddEntry PROVE FormatsInv'
  <1> DEFINE p == Parent(Offered[Len(resolved) + 1])
             def == Fresh(Head(todo))
  <1>1. /\ todo # <<>> /\ todo' = def.ruleset \o Tail(todo) /\ resolved' = resolved /\ team' = team
        /\ def = IF Head(todo) \in draft.seen THEN NoDef ELSE Defined(Head(todo))
    BY DEF AddEntry, Fresh
  <1> HIDE DEF p, def
  <1>2. Len(resolved) < Len(Offered) /\ Gathered(draft) /\ Reached(p, draft.seen, Elements(todo)) /\ IsList(todo)
    BY <1>1 DEF FormatsInv, Resolving, p
  <1>3. Gathered(draft') /\ draft'.seen = draft.seen \union {Head(todo)}
    BY <1>1, <1>2, GathersOn
  <1>4. IsList(todo') /\ Reached(p, draft'.seen, Elements(todo'))
    <2>1. /\ IsList(def.ruleset \o Tail(todo))
          /\ Reached(p, draft.seen \union {Head(todo)}, Elements(def.ruleset \o Tail(todo)))
      BY <1>1, <1>2, ReachesOn
    <2> QED BY <1>1, <1>3, <2>1
  <1> QED BY <1>1, <1>2, <1>3, <1>4 DEF FormatsInv, Resolving, p

LEMMA EndingResolves == ASSUME FormatsInv, EndFormat PROVE FormatsInv'
  <1> DEFINE id == Offered[Len(resolved) + 1]
             format == [id |-> id, rules |-> draft.rules \ draft.removed, bans |-> draft.bans,
                        unbans |-> draft.unbans, values |-> draft.values]
  <1>1. /\ todo = <<>> /\ draft # NoDraft /\ resolved' = Append(resolved, format) /\ draft' = NoDraft
        /\ todo' = todo /\ team' = team
    BY DEF EndFormat
  <1>2. Len(resolved) < Len(Offered) /\ Gathered(draft) /\ Reached(Parent(id), draft.seen, Elements(todo))
    BY <1>1 DEF FormatsInv, Resolving
  <1>3. Elements(todo) = {}
    BY <1>1 DEF Elements
  <1>4. IsResolved(format, id)
    BY <1>2, <1>3 DEF IsResolved
  <1> HIDE DEF id, format
  <1>5. /\ IsList(resolved') /\ Len(resolved) \in Nat /\ DOMAIN resolved = 1 .. Len(resolved)
        /\ Len(resolved') = Len(resolved) + 1
        /\ \A n \in 1 .. Len(resolved) : resolved'[n] = resolved[n]
        /\ resolved'[Len(resolved) + 1] = format
    BY <1>1, Appended DEF FormatsInv
  <1>6. Len(Offered) \in Nat
    BY FormatsAssumption
  <1>7. DOMAIN resolved' = 1 .. (Len(resolved) + 1)
    BY <1>1, <1>5 DEF IsList
  <1>8. ASSUME NEW k \in DOMAIN resolved' PROVE IsResolved(resolved'[k], Offered[k])
    <2>1. CASE k = Len(resolved) + 1
      BY <1>4, <1>5, <2>1 DEF id
    <2>2. CASE k \in DOMAIN resolved
      BY <1>5, <2>2 DEF FormatsInv
    <2> QED BY <1>5, <1>7, <2>1, <2>2
  <1>9. Resolving'
    BY <1>1 DEF Resolving, FormatsInv
  <1> QED BY <1>1, <1>2, <1>5, <1>6, <1>8, <1>9 DEF FormatsInv

LEMMA JoiningResolves == ASSUME FormatsInv, NEW member \in Members, Join(member) PROVE FormatsInv'
  <1>1. team' = Append(team, member) /\ UNCHANGED <<draft, todo, resolved>>
    BY DEF Join
  <1>2. team' \in Seq(Members)
    BY <1>1 DEF FormatsInv
  <1> QED BY <1>1, <1>2 DEF FormatsInv, Resolving

LEMMA EveryStepResolves == FormatsInv /\ [Next]_vars => FormatsInv'
  <1> SUFFICES ASSUME FormatsInv, [Next]_vars PROVE FormatsInv'
    OBVIOUS
  <1>1. CASE UNCHANGED vars
    BY <1>1 DEF vars, FormatsInv, Resolving
  <1> QED BY <1>1, BeginningResolves, AddingResolves, EndingResolves, JoiningResolves DEF Next

-----------------------------------------------------------------------------
(* What the validator says of a member *)

Codes == {"TEAM_SIZE", "BANNED", "NONSTANDARD", "LITTLE_CUP", "SAME_TYPE"}

(* What resolution makes sure of.                                           *)
Fits(format) ==
    /\ \A r \in format.rules \intersect DOMAIN Rules : Rules[r].bans \subseteq format.bans
    /\ format.rules \intersect Codes = {}
    /\ \A m \in Members : format.unbans \intersect IdsOf(m) = {}

LEMMA ReachedAreEntries ==
    ASSUME NEW id \in DOMAIN FormatDefs, NEW seen, Reached(Parent(id), seen, {})
    PROVE  seen \subseteq Entries
  <1>1. Parent(id) \in Entries
    BY DEF Entries
  <1> QED BY <1>1, EntriesAreClosed DEF Reached

LEMMA ResolvedFits ==
    ASSUME NEW id \in DOMAIN FormatDefs, NEW format, IsResolved(format, id)
    PROVE  Fits(format)
  <1>1. PICK d : /\ Gathered(d) /\ Reached(Parent(id), d.seen, {})
                 /\ format = [id |-> id, rules |-> d.rules \ d.removed, bans |-> d.bans, unbans |-> d.unbans,
                              values |-> d.values]
    BY DEF IsResolved
  <1>2. d.seen \subseteq Entries
    BY <1>1, ReachedAreEntries
  <1>3. \A r \in format.rules : \E e \in d.seen : e.op \in {"rule", "value"} /\ e.of = r
    BY <1>1 DEF Gathered
  <1>4. ASSUME NEW r \in format.rules, r \in DOMAIN Rules PROVE Rules[r].bans \subseteq format.bans
    <2>1. PICK e \in d.seen : e.op \in {"rule", "value"} /\ e.of = r
      BY <1>3
    <2>2. e.op = "rule"
      BY <1>2, <1>4, <2>1, FormatsAssumption
    <2>3. Defined(e) = Rules[r]
      BY <1>4, <2>1, <2>2 DEF Defined
    <2> QED BY <1>1, <2>1, <2>3 DEF Gathered
  <1>5. format.rules \intersect Codes = {}
    BY <1>2, <1>3, FormatsAssumption DEF Codes
  <1>6. ASSUME NEW m \in Members, NEW u \in format.unbans PROVE u \notin IdsOf(m)
    <2>1. PICK e \in d.seen : (e.op = "unban" /\ e.of = u) \/ u \in Defined(e).unbans
      BY <1>1 DEF Gathered
    <2>2. CASE e.op = "unban" /\ e.of = u
      BY <1>2, <2>1, <2>2, FormatsAssumption
    <2>3. CASE u \in Defined(e).unbans
      <3>1. Defined(e) \in Definitions \/ Defined(e) = NoDef
        BY DEF Defined, Definitions
      <3>2. NoDef.unbans = {}
        BY DEF NoDef, Def
      <3> QED BY <2>3, <3>1, <3>2, FormatsAssumption
    <2> QED BY <2>1, <2>2, <2>3
  <1> QED BY <1>4, <1>5, <1>6 DEF Fits

(* The rules whose clause the validator checks, and what it holds against   *)
(* member i of team t.                                                      *)
Against(format, t, i, x) ==
    \/ x \in {"TEAM_SIZE", "BANNED", "NONSTANDARD"}
    \/ x = "ohkoclause" /\ x \in format.rules /\ \E id \in Moveset(t[i]) \intersect DOMAIN Moves : Moves[id].ohko
    \/ x = "evasionmovesclause" /\ \E id \in Moveset(t[i]) \intersect DOMAIN Moves : Moves[id].evasion > 0
    \/ x = "sleepmovesclause" /\ \E id \in Moveset(t[i]) \intersect DOMAIN Moves : Moves[id].status = "slp" \/ id = "yawn"
    \/ x = "accuracymovesclause" /\ \E id \in Moveset(t[i]) \intersect DOMAIN Moves : Moves[id].accuracy < 0 /\ ~ Moves[id].self
    \/ x = "evasionitemsclause" /\ t[i].item \in EVASION_ITEMS
    \/ x = "evasionabilitiesclause" /\ t[i].ability \in EVASION_ABILITIES
    \/ x = "LITTLE_CUP" /\ "littlecup" \in format.rules /\ ~ littleCup(t[i])
    \/ x = "speciesclause" /\ speciesTaken(t, i)
    \/ x = "nicknameclause" /\ x \in format.rules /\ nicknameTaken(t, i)
    \/ x = "SAME_TYPE" /\ "sametypeclause" \in format.rules /\ checkSameType(t, i) # {}

LEMMA IssuesAreAgainst ==
    ASSUME NEW format, NEW t, NEW i, NEW x \in ofMember(format, t, i)
    PROVE  Against(format, t, i, x)
  <1>1. \A c, y : y \in If(c, x) => c
    BY DEF If
  <1>2. ASSUME NEW id, NEW defs, x \in checkEntry(format, id, defs) PROVE x \in {"BANNED", "NONSTANDARD"}
    BY <1>2 DEF checkEntry, If
  <1>3. ASSUME NEW id, x \in checkSpecies(format, id) PROVE x \in {"BANNED", "NONSTANDARD"}
    BY <1>3 DEF checkSpecies, If
  <1>4. ASSUME x \in checkMegaStone(format, t[i]) PROVE x = "BANNED"
    BY <1>4 DEF checkMegaStone, If
  <1>5. ASSUME NEW id \in Moveset(t[i]), x \in checkMove(format, id) PROVE Against(format, t, i, x)
    <2>1. id \in DOMAIN Moves
      BY <1>5 DEF checkMove
    <2>2. \/ x \in checkEntry(format, id, Moves)
          \/ x = "ohkoclause" /\ "ohkoclause" \in format.rules /\ Moves[id].ohko
          \/ x = "evasionmovesclause" /\ Moves[id].evasion > 0
          \/ x = "sleepmovesclause" /\ (Moves[id].status = "slp" \/ id = "yawn")
          \/ x = "accuracymovesclause" /\ Moves[id].accuracy < 0 /\ ~ Moves[id].self
      BY <1>5, <2>1 DEF checkMove, If
    <2> QED BY <1>2, <2>1, <2>2 DEF Against
  <1>6. ASSUME x \in checkSameType(t, i) PROVE x = "SAME_TYPE"
    BY <1>6 DEF checkSameType, If
  <1>7. \/ x = "TEAM_SIZE"
        \/ x \in checkSpecies(format, t[i].species)
        \/ x \in checkEntry(format, t[i].item, Items)
        \/ x \in checkMegaStone(format, t[i])
        \/ x \in checkEntry(format, t[i].ability, Abilities)
        \/ \E id \in Moveset(t[i]) : x \in checkMove(format, id)
        \/ x = "evasionitemsclause" /\ t[i].item \in EVASION_ITEMS
        \/ x = "evasionabilitiesclause" /\ t[i].ability \in EVASION_ABILITIES
        \/ x = "LITTLE_CUP" /\ "littlecup" \in format.rules /\ ~ littleCup(t[i])
        \/ x = "speciesclause" /\ speciesTaken(t, i)
        \/ x = "nicknameclause" /\ "nicknameclause" \in format.rules /\ nicknameTaken(t, i)
        \/ "sametypeclause" \in format.rules /\ x \in checkSameType(t, i)
    BY DEF ofMember, If
  <1> QED BY <1>2, <1>3, <1>4, <1>5, <1>6, <1>7 DEF Against

(* A member nothing is held against.                                        *)
LEMMA NothingAgainst ==
    ASSUME NEW format, NEW t, NEW i, ofMember(format, t, i) = {}
    PROVE  /\ ~ (i > maxTeamSize(format))
           /\ checkSpecies(format, t[i].species) = {} /\ checkMegaStone(format, t[i]) = {}
           /\ checkEntry(format, t[i].item, Items) = {} /\ checkEntry(format, t[i].ability, Abilities) = {}
           /\ \A id \in Moveset(t[i]) : checkMove(format, id) = {}
           /\ "evasionitemsclause" \in format.rules \/ "evasionclause" \in format.rules => t[i].item \notin EVASION_ITEMS
           /\ "evasionabilitiesclause" \in format.rules \/ "evasionclause" \in format.rules =>
                 t[i].ability \notin EVASION_ABILITIES
           /\ "littlecup" \in format.rules => littleCup(t[i])
           /\ "speciesclause" \in format.rules => ~ speciesTaken(t, i)
           /\ "nicknameclause" \in format.rules => ~ nicknameTaken(t, i)
           /\ "sametypeclause" \in format.rules => checkSameType(t, i) = {}
  BY DEF ofMember, If

-----------------------------------------------------------------------------
(* A team nothing is held against keeps the rules *)

Faultless(format, t) == \A i \in Slots(t) : ofMember(format, t, i) = {}

LEMMA Slotted == ASSUME NEW t \in Seq(Members) PROVE Len(t) \in Nat /\ \A i \in Slots(t) : i \in Nat /\ t[i] \in Members
  BY DEF Slots

LEMMA EntryNotBanned ==
    ASSUME NEW format, NEW defs, NEW id \in DOMAIN defs, id \notin format.unbans, checkEntry(format, id, defs) = {}
    PROVE  id \notin format.bans
  BY DEF checkEntry, unbanned, If

LEMMA NoBannedUse ==
    ASSUME NEW format, Fits(format), NEW t \in Seq(Members), Faultless(format, t), NEW i \in Slots(t),
           NEW r \in DOMAIN Rules, r \in format.rules
    PROVE  Uses(t[i]) \intersect Rules[r].bans = {}
  <1> DEFINE m == t[i]
  <1>1. m \in Members /\ ofMember(format, t, i) = {}
    BY Slotted DEF Faultless
  <1>2. /\ checkEntry(format, m.item, Items) = {} /\ checkEntry(format, m.ability, Abilities) = {}
        /\ \A id \in Moveset(m) : checkMove(format, id) = {}
    BY <1>1, NothingAgainst
  <1>3. Rules[r].bans \subseteq format.bans /\ format.unbans \intersect Uses(m) = {}
    BY <1>1 DEF Fits, IdsOf
  <1> HIDE DEF m
  <1>4. m.item \notin Rules[r].bans
    <2> SUFFICES ASSUME m.item \in Rules[r].bans PROVE FALSE
      OBVIOUS
    <2>1. m.item \in DOMAIN Items /\ m.item \notin format.unbans
      BY <1>1, <1>3, MembersAssumption DEF Uses
    <2> QED BY <1>2, <1>3, <2>1, EntryNotBanned
  <1>5. m.ability \notin Rules[r].bans
    <2> SUFFICES ASSUME m.ability \in Rules[r].bans PROVE FALSE
      OBVIOUS
    <2>1. m.ability \in DOMAIN Abilities /\ m.ability \notin format.unbans
      BY <1>1, <1>3, MembersAssumption DEF Uses
    <2> QED BY <1>2, <1>3, <2>1, EntryNotBanned
  <1>6. ASSUME NEW id \in Moveset(m) PROVE id \notin Rules[r].bans
    <2> SUFFICES ASSUME id \in Rules[r].bans PROVE FALSE
      OBVIOUS
    <2>1. id \in DOMAIN Moves /\ id \notin format.unbans
      BY <1>1, <1>3, MembersAssumption DEF Uses
    <2>2. checkEntry(format, id, Moves) = {}
      <3>1. checkMove(format, id) = {}
        BY <1>2
      <3> QED BY <2>1, <3>1 DEF checkMove
    <2> QED BY <1>3, <2>1, <2>2, EntryNotBanned
  <1> QED BY <1>4, <1>5, <1>6 DEF Uses, m

LEMMA SpeciesKept ==
    ASSUME NEW t \in Seq(Members), \A i \in Slots(t) : ~ speciesTaken(t, i)
    PROVE  OneOfEachSpecies(t)
  <1>1. ASSUME NEW i \in Slots(t), NEW j \in Slots(t), Known(t[i]), Known(t[j]), j < i,
               Species[t[i].species].num = Species[t[j].species].num
        PROVE  FALSE
    <2>1. Species[t[j].species].base = Species[t[i].species].base
      BY <1>1, DexAssumption DEF Known
    <2>2. j \in 1 .. i - 1
      BY <1>1 DEF Slots
    <2> QED BY <1>1, <2>1, <2>2 DEF speciesTaken
  <1>2. \A i, j \in Slots(t) : i = j \/ i < j \/ j < i
    BY Slotted
  <1> QED BY <1>1, <1>2 DEF OneOfEachSpecies

LEMMA NicknamesKept ==
    ASSUME NEW t \in Seq(Members), \A i \in Slots(t) : ~ nicknameTaken(t, i), NicknamesRead(t)
    PROVE  DifferentNicknames(t)
  <1>1. ASSUME NEW i \in Slots(t), NEW j \in Slots(t), Nicknamed(t[i]), Nicknamed(t[j]), j < i,
               t[i].nickname = t[j].nickname
        PROVE  FALSE
    <2>1. j \in 1 .. i - 1
      BY <1>1 DEF Slots
    <2>2. toId(t[i].nickname) # Nothing
      BY <1>1 DEF NicknamesRead
    <2> QED BY <1>1, <2>1, <2>2 DEF nicknameTaken
  <1>2. \A i, j \in Slots(t) : i = j \/ i < j \/ j < i
    BY Slotted
  <1> QED BY <1>1, <1>2 DEF DifferentNicknames

(* Of a fusion the Species Clause leaves one, its formes being of a species. *)
LEMMA FusionsKept ==
    ASSUME NEW t \in Seq(Members), \A i \in Slots(t) : ~ speciesTaken(t, i)
    PROVE  OneOfEachFusion(t)
  <1>1. ASSUME NEW group \in Fused, NEW i \in Slots(t), NEW j \in Slots(t),
               t[i].species \in group, t[j].species \in group, j < i
        PROVE  FALSE
    <2>1. Known(t[i]) /\ Known(t[j])
      BY <1>1, Slotted, MembersAssumption
    <2>2. Species[t[j].species].base = Species[t[i].species].base
      BY <1>1, <2>1, DexAssumption DEF Known
    <2>3. j \in 1 .. i - 1
      BY <1>1 DEF Slots
    <2> QED BY <1>1, <2>1, <2>2, <2>3 DEF speciesTaken
  <1>2. \A i, j \in Slots(t) : i = j \/ i < j \/ j < i
    BY Slotted
  <1> QED BY <1>1, <1>2 DEF OneOfEachFusion

(* Of NatDex Mod the validator looks for the illegal species only.          *)
LEMMA NationalDexKept ==
    ASSUME NEW format, Fits(format), "natdexmod" \in format.rules, NEW t \in Seq(Members), Faultless(format, t),
           NationalDexMatters(format, t), NEW i \in Slots(t)
    PROVE  InNationalDex(format, t[i])
  <1>1. ~ Illegal(format, t[i])
    <2> SUFFICES ASSUME Illegal(format, t[i]) PROVE FALSE
      OBVIOUS
    <2> DEFINE id == t[i].species
    <2>1. id \in DOMAIN Species /\ Species[id].natDexTier = "ndillegal"
      BY DEF Illegal, Known
    <2>2. id \notin format.unbans /\ Species[id].base \notin format.unbans
      BY <2>1, Slotted DEF Fits, IdsOf, Known
    <2>3. checkSpecies(format, id) = {}
      BY NothingAgainst DEF Faultless
    <2>4. "NONSTANDARD" \in checkSpecies(format, id)
      BY <2>1, <2>2 DEF checkSpecies, unbanned, If
    <2> QED BY <2>3, <2>4
  <1>2. ~ Unreleased(format, t[i]) /\ ~ Lost(format, t[i].item) /\ \A id \in Moveset(t[i]) : ~ Unlearnable(format, id)
    BY DEF NationalDexMatters
  <1> QED BY <1>1, <1>2 DEF InNationalDex

(* Who has type u among the first members.                                  *)
Bearers(t, u) == {i \in Slots(t) : u \in OwnTypes(t[i].species)}
TypesOf(t) == UNION {OwnTypes(t[i].species) : i \in Slots(t)}

LEMMA FewBearers ==
    ASSUME NEW t \in Seq(Members), NEW u
    PROVE  /\ IsFiniteSet(Slots(t)) /\ Cardinality(Slots(t)) = Len(t) /\ Len(t) \in Nat
           /\ Cardinality(Bearers(t, u)) \in Nat /\ Cardinality(Bearers(t, u)) <= Len(t)
           /\ Cardinality(Bearers(t, u)) = Len(t) => Bearers(t, u) = Slots(t)
  <1>1. IsFiniteSet(Slots(t)) /\ Cardinality(Slots(t)) = Len(t) /\ Len(t) \in Nat
    BY FS_Interval, Slotted DEF Slots
  <1>2. Bearers(t, u) \in SUBSET Slots(t)
    BY DEF Bearers
  <1> QED BY <1>1, <1>2, FS_Subset, FS_CardinalityType

LEMMA SomeTypeIsMostCommon ==
    ASSUME NEW t \in Seq(Members), TypesOf(t) # {}
    PROVE  \E u \in TypesOf(t) : \A v \in TypesOf(t) : Cardinality(Bearers(t, v)) <= Cardinality(Bearers(t, u))
  <1> DEFINE missing(u) == Len(t) - Cardinality(Bearers(t, u))
             M == {missing(u) : u \in TypesOf(t)}
             R == {ss \in Nat \X Nat : ss[1] < ss[2]}
  <1>1. \A u : missing(u) \in Nat /\ Cardinality(Bearers(t, u)) \in Nat /\ Len(t) \in Nat
    BY FewBearers
  <1>2. M \in SUBSET Nat /\ M # {}
    BY <1>1
  <1>3. IsWellFoundedOn(R, Nat)
    BY NatLessThanWellFounded DEF OpToRel
  <1> HIDE DEF R, M
  <1>4. PICK x \in M : \A y \in M : ~ (<<y, x>> \in R)
    BY <1>2, <1>3, WFMin
  <1>5. ASSUME NEW y \in M PROVE x <= y
    <2>1. x \in Nat /\ y \in Nat
      BY <1>2, <1>4
    <2>2. ~ (y < x)
      BY <1>4, <2>1 DEF R
    <2> QED BY <2>1, <2>2
  <1>6. PICK u \in TypesOf(t) : x = missing(u)
    BY <1>4 DEF M
  <1>7. ASSUME NEW v \in TypesOf(t) PROVE Cardinality(Bearers(t, v)) <= Cardinality(Bearers(t, u))
    <2>1. missing(v) \in M
      BY DEF M
    <2>2. missing(u) <= missing(v)
      BY <1>5, <1>6, <2>1
    <2> QED BY <1>1, <2>2
  <1> QED BY <1>7

LEMMA MostCommon ==
    ASSUME NEW t \in Seq(Members)
    PROVE  /\ MostCommonTypes(t) = {u \in TypesOf(t) : \A v \in TypesOf(t) :
                                       Cardinality(Bearers(t, v)) <= Cardinality(Bearers(t, u))}
           /\ TypesOf(t) # {} => MostCommonTypes(t) # {}
  <1>1. MostCommonTypes(t) = {u \in TypesOf(t) : \A v \in TypesOf(t) :
                                 Cardinality(Bearers(t, v)) <= Cardinality(Bearers(t, u))}
    BY DEF MostCommonTypes, TypesOf, Bearers
  <1> QED BY <1>1, SomeTypeIsMostCommon

(* A type of all members is one of the most common; the one chosen is then  *)
(* of all members too.                                                      *)
LEMMA SharedTypesAreChosen ==
    ASSUME NEW t \in Seq(Members), NEW u, t # <<>>, \A i \in Slots(t) : u \in OwnTypes(t[i].species),
           NEW i \in Slots(t)
    PROVE  checkSameType(t, i) = {}
  <1>1. u \in TypesOf(t) /\ Bearers(t, u) = Slots(t)
    BY DEF TypesOf, Bearers
  <1>2. MostCommonTypes(t) # {}
    BY <1>1, MostCommon
  <1> DEFINE c == CHOOSE v \in MostCommonTypes(t) : TRUE
  <1>3. c \in MostCommonTypes(t)
    BY <1>2
  <1> HIDE DEF c
  <1>4. Cardinality(Bearers(t, u)) <= Cardinality(Bearers(t, c))
    BY <1>1, <1>3, MostCommon
  <1>5. Cardinality(Bearers(t, u)) = Len(t) /\ Cardinality(Bearers(t, c)) = Len(t)
    BY <1>1, <1>4, FewBearers
  <1>6. c \in OwnTypes(t[i].species)
    BY <1>5, FewBearers DEF Bearers
  <1> QED BY <1>6 DEF checkSameType, If, c

LEMMA SameTypeKept ==
    ASSUME NEW t \in Seq(Members), \A i \in Slots(t) : checkSameType(t, i) = {}, TypesMatter(t)
    PROVE  SameType(t)
  <1>1. PICK k \in Slots(t) : Known(t[k])
    BY DEF TypesMatter
  <1>2. TypesOf(t) # {}
    BY <1>1, DexAssumption DEF TypesOf, Known, OwnTypes
  <1>3. MostCommonTypes(t) # {}
    BY <1>2, MostCommon
  <1> DEFINE c == CHOOSE v \in MostCommonTypes(t) : TRUE
  <1>4. \A i \in Slots(t) : c \in OwnTypes(t[i].species)
    BY <1>3 DEF checkSameType, If
  <1> HIDE DEF c
  <1>5. \A i \in Slots(t) : c \in CertainTypes(t[i])
    BY <1>4 DEF CertainTypes, TypesMatter
  <1>6. c \in SharedTypes(t)
    BY <1>1, <1>5 DEF SharedTypes
  <1> QED BY <1>6 DEF SameType

LEMMA NotOfOneType ==
    ASSUME NEW t \in Seq(Members), NEW i \in Slots(t), checkSameType(t, i) # {}
    PROVE  ~ SameType(t)
  <1> SUFFICES ASSUME SameType(t) PROVE FALSE
    OBVIOUS
  <1>1. t # <<>>
    BY DEF Slots
  <1>2. PICK u : u \in SharedTypes(t)
    BY <1>1 DEF SameType
  <1>3. \A j \in Slots(t) : u \in OwnTypes(t[j].species)
    BY <1>2 DEF SharedTypes, CertainTypes
  <1> QED BY <1>1, <1>3, SharedTypesAreChosen

LEMMA RuleKept ==
    ASSUME NEW format, Fits(format), NEW t \in Seq(Members), Faultless(format, t),
           NEW r \in format.rules \intersect Asking, r \notin Overlooked(format, t)
    PROVE  Keeps(format, t, r)
  <1>1. \A i \in Slots(t) : ofMember(format, t, i) = {}
    BY DEF Faultless
  <1>2. "speciesclause" \in format.rules => \A i \in Slots(t) : ~ speciesTaken(t, i)
    BY <1>1, NothingAgainst
  <1>3. r = "speciesclause" => OneOfEachSpecies(t)
    BY <1>2, SpeciesKept
  <1>4. r = "obtainable" => OneOfEachFusion(t)
    BY <1>2, FusionsKept DEF Overlooked, If
  <1>5. r = "natdexmod" => \A i \in Slots(t) : InNationalDex(format, t[i])
    <2>1. r = "natdexmod" => NationalDexMatters(format, t)
      BY DEF Overlooked, If
    <2> QED BY <2>1, NationalDexKept
  <1>6. r = "nicknameclause" => DifferentNicknames(t)
    <2>1. r = "nicknameclause" => NicknamesRead(t)
      BY DEF Overlooked, If
    <2>2. r = "nicknameclause" => \A i \in Slots(t) : ~ nicknameTaken(t, i)
      BY <1>1, NothingAgainst
    <2> QED BY <2>1, <2>2, NicknamesKept
  <1>7. r = "sametypeclause" => SameType(t)
    <2>1. r = "sametypeclause" => TypesMatter(t)
      BY DEF Overlooked, If
    <2>2. r = "sametypeclause" => \A i \in Slots(t) : checkSameType(t, i) = {}
      BY <1>1, NothingAgainst
    <2> QED BY <2>1, <2>2, SameTypeKept
  <1>8. ASSUME NEW i \in Slots(t), NEW id \in Moveset(t[i]), id \in DOMAIN Moves
        PROVE  /\ r = "ohkoclause" => ~ Moves[id].ohko
               /\ r = "sleepmovesclause" => Moves[id].status # "slp"
    <2>1. checkMove(format, id) = {}
      BY <1>1, NothingAgainst
    <2> QED BY <1>8, <2>1 DEF checkMove, If
  <1>9. /\ r = "ohkoclause" => NoKnockOut(t)
        /\ r = "sleepmovesclause" => NoSleep(t)
    BY <1>8 DEF NoKnockOut, NoSleep, NoMove
  <1>10. r = "littlecup" => FirstOfItsFamily(t)
    <2>1. r = "littlecup" => \A i \in Slots(t) : littleCup(t[i])
      BY <1>1, NothingAgainst
    <2> QED BY <2>1 DEF littleCup, FirstOfItsFamily
  <1>11. r \in DOMAIN Rules => NotUsed(t, Rules[r].bans)
    BY NoBannedUse DEF NotUsed
  <1>12. r \notin {"obtainablemisc", "sleepclausemod"}
    BY DEF Overlooked
  <1> QED BY <1>3, <1>4, <1>5, <1>6, <1>7, <1>9, <1>10, <1>11, <1>12 DEF Keeps

-----------------------------------------------------------------------------
(* What is held against a member is a rule not kept *)

LEMMA TakenSpecies ==
    ASSUME NEW t \in Seq(Members), NEW i \in Slots(t), speciesTaken(t, i)
    PROVE  ~ OneOfEachSpecies(t)
  <1>1. PICK j \in 1 .. i - 1 : Known(t[j]) /\ Species[t[j].species].base = Species[t[i].species].base
    BY DEF speciesTaken
  <1>2. Known(t[i]) /\ Species[t[j].species].num = Species[t[i].species].num
    BY <1>1, DexAssumption DEF speciesTaken, Known
  <1>3. j \in Slots(t) /\ j # i
    BY Slotted DEF Slots
  <1> QED BY <1>1, <1>2, <1>3 DEF OneOfEachSpecies

LEMMA TakenNickname ==
    ASSUME NEW t \in Seq(Members), NEW i \in Slots(t), nicknameTaken(t, i), NicknamesTellApart(t)
    PROVE  ~ DifferentNicknames(t)
  <1>1. PICK j \in 1 .. i - 1 : toId(t[j].nickname) = toId(t[i].nickname)
    BY DEF nicknameTaken
  <1>2. j \in Slots(t) /\ j # i
    BY Slotted DEF Slots
  <1>3. toId(t[i].nickname) # Nothing /\ toId(t[j].nickname) # Nothing
    BY <1>1 DEF nicknameTaken
  <1>4. Nicknamed(t[i]) /\ Nicknamed(t[j]) /\ t[j].nickname = t[i].nickname
    BY <1>1, <1>2, <1>3 DEF NicknamesTellApart
  <1> QED BY <1>2, <1>4 DEF DifferentNicknames

LEMMA BannedUse ==
    ASSUME NEW format, NEW t, NEW i \in Slots(t), NEW r, r \in DOMAIN Rules,
           NEW x, x \in Uses(t[i]), x \in Rules[r].bans
    PROVE  ~ Keeps(format, t, r)
  BY DEF Keeps, NotUsed

LEMMA HeldForARule ==
    ASSUME NEW format, Fits(format), NEW t \in Seq(Members), NEW i \in Slots(t), NEW x \in format.rules,
           Against(format, t, i, x)
    PROVE  /\ x \in Asking
           /\ x # "nicknameclause" \/ NicknamesTellApart(t) => ~ Keeps(format, t, x)
  <1>1. x \notin Codes /\ DOMAIN Rules \subseteq Asking
        /\ {"ohkoclause", "speciesclause", "nicknameclause"} \subseteq Asking
    BY DEF Fits, Asking
  <1>2. CASE x = "ohkoclause"
    <2>1. PICK id \in Moveset(t[i]) \intersect DOMAIN Moves : Moves[id].ohko
      BY <1>2 DEF Against
    <2> QED BY <1>1, <1>2, <2>1 DEF Keeps, NoKnockOut, NoMove
  <1>3. CASE x = "evasionmovesclause"
    <2>1. PICK id \in Moveset(t[i]) \intersect DOMAIN Moves : Moves[id].evasion > 0
      BY <1>3 DEF Against
    <2>2. x \in DOMAIN Rules /\ Rules[x] = EvasionMovesClause
      BY <1>3 DEF Rules
    <2>3. id \in Rules[x].bans /\ id \in Uses(t[i])
      BY <2>1, <2>2, DexAssumption DEF Uses
    <2> QED BY <1>1, <1>3, <2>2, <2>3, BannedUse
  <1>4. CASE x = "sleepmovesclause"
    <2>1. PICK id \in Moveset(t[i]) \intersect DOMAIN Moves : Moves[id].status = "slp" \/ id = "yawn"
      BY <1>4 DEF Against
    <2>2. x \in DOMAIN Rules /\ Rules[x] = SleepMovesClause
      BY <1>4 DEF Rules
    <2>3. CASE id = "yawn"
      <3>1. id \in Rules[x].bans /\ id \in Uses(t[i])
        BY <2>1, <2>2, <2>3 DEF Uses, SleepMovesClause, Def
      <3> QED BY <1>1, <1>4, <2>2, <3>1, BannedUse
    <2>4. CASE Moves[id].status = "slp"
      <3>1. ~ NoSleep(t)
        BY <2>1, <2>4 DEF NoSleep, NoMove
      <3> QED BY <1>1, <1>4, <2>2, <3>1 DEF Keeps
    <2> QED BY <2>1, <2>3, <2>4
  <1>5. CASE x = "accuracymovesclause"
    <2>1. PICK id \in Moveset(t[i]) \intersect DOMAIN Moves : Moves[id].accuracy < 0 /\ ~ Moves[id].self
      BY <1>5 DEF Against
    <2>2. x \in DOMAIN Rules /\ Rules[x] = AccuracyMovesClause
      BY <1>5 DEF Rules
    <2>3. id \in Rules[x].bans /\ id \in Uses(t[i])
      BY <2>1, <2>2, DexAssumption DEF Uses
    <2> QED BY <1>1, <1>5, <2>2, <2>3, BannedUse
  <1>6. CASE x = "evasionitemsclause"
    <2>1. x \in DOMAIN Rules /\ Rules[x].bans = EVASION_ITEMS
      BY <1>6 DEF Rules, EvasionItemsClause, Def, EVASION_ITEMS
    <2>2. t[i].item \in EVASION_ITEMS /\ t[i].item \in Uses(t[i])
      BY <1>6 DEF Against, Uses
    <2> QED BY <1>1, <1>6, <2>1, <2>2, BannedUse
  <1>7. CASE x = "evasionabilitiesclause"
    <2>1. x \in DOMAIN Rules /\ Rules[x].bans = EVASION_ABILITIES
      BY <1>7 DEF Rules, EvasionAbilitiesClause, Def, EVASION_ABILITIES
    <2>2. t[i].ability \in EVASION_ABILITIES /\ t[i].ability \in Uses(t[i])
      BY <1>7 DEF Against, Uses
    <2> QED BY <1>1, <1>7, <2>1, <2>2, BannedUse
  <1>8. CASE x = "speciesclause"
    <2>1. ~ OneOfEachSpecies(t)
      BY <1>8, TakenSpecies DEF Against
    <2> QED BY <1>1, <1>8, <2>1 DEF Keeps
  <1>9. CASE x = "nicknameclause"
    <2>1. NicknamesTellApart(t) => ~ DifferentNicknames(t)
      BY <1>9, TakenNickname DEF Against
    <2> QED BY <1>1, <1>9, <2>1 DEF Keeps
  <1> QED BY <1>1, <1>2, <1>3, <1>4, <1>5, <1>6, <1>7, <1>8, <1>9 DEF Against, Codes

LEMMA FormatAgrees ==
    ASSUME NEW format, Fits(format), team \in Seq(Members)
    PROVE  Agree(format, validate(format, team), Broken(format, team))
  <1> DEFINE issues == validate(format, team)
             broken == Broken(format, team)
  <1>1. \A i \in Slots(team) : issues[i] = ofMember(format, team, i)
    BY DEF validate
  <1>2. \A r : r \in broken <=> r \in format.rules \intersect Asking /\ ~ Keeps(format, team, r)
    BY DEF Broken
  <1> HIDE DEF issues, broken
  <1>3. ASSUME \A i \in Slots(team) : issues[i] = {}
        PROVE  broken \subseteq Overlooked(format, team)
    <2>1. Faultless(format, team)
      BY <1>1, <1>3 DEF Faultless
    <2> QED BY <1>2, <2>1, RuleKept
  <1>4. ASSUME NEW i \in Slots(team), NEW x \in issues[i] PROVE Against(format, team, i, x)
    BY <1>1, IssuesAreAgainst
  <1>5. ASSUME NEW i \in Slots(team) PROVE issues[i] \intersect (format.rules \ {"nicknameclause"}) \subseteq broken
    BY <1>2, <1>4, HeldForARule
  <1>6. ASSUME NEW i \in Slots(team), "nicknameclause" \in issues[i], NicknamesTellApart(team)
        PROVE  "nicknameclause" \in broken
    <2>1. "nicknameclause" \in format.rules
      BY <1>4, <1>6 DEF Against
    <2> QED BY <1>2, <1>4, <1>6, <2>1, HeldForARule
  <1>7. ASSUME NEW i \in Slots(team), "LITTLE_CUP" \in issues[i] PROVE "littlecup" \in broken
    <2>1. "littlecup" \in format.rules /\ ~ littleCup(team[i])
      BY <1>4, <1>7 DEF Against
    <2>2. ~ FirstOfItsFamily(team)
      BY <2>1 DEF FirstOfItsFamily, littleCup
    <2>3. "littlecup" \in Asking
      BY DEF Asking, Rules
    <2> QED BY <1>2, <2>1, <2>2, <2>3 DEF Keeps
  <1>8. ASSUME NEW i \in Slots(team), "SAME_TYPE" \in issues[i] PROVE "sametypeclause" \in broken
    <2>1. "sametypeclause" \in format.rules /\ checkSameType(team, i) # {}
      BY <1>4, <1>8 DEF Against
    <2>2. ~ SameType(team)
      BY <2>1, NotOfOneType
    <2> QED BY <1>2, <2>1, <2>2 DEF Keeps, Asking
  <1> QED BY <1>3, <1>5, <1>6, <1>7, <1>8 DEF Agree, issues, broken

(* TeamValidator.validate and rulesets.ts: for any data and formats that    *)
(* respect the assumptions, any member a player may put in and teams of any *)
(* length, a team that is allowed keeps every rule of the format, and a     *)
(* clause held against a member is one that the team does not keep, but for *)
(* the exceptions RulesAgree names.                                         *)
THEOREM ValidatorAgrees == Spec => []RulesAgree
  <1>1. FormatsInv => RulesAgree
    <2> SUFFICES ASSUME FormatsInv PROVE RulesAgree
      OBVIOUS
    <2>1. team \in Seq(Members)
      BY DEF FormatsInv
    <2>2. ASSUME NEW k \in DOMAIN resolved PROVE Fits(resolved[k])
      <3>1. IsResolved(resolved[k], Offered[k])
        BY DEF FormatsInv
      <3>2. Offered[k] \in DOMAIN FormatDefs
        BY FormatsAssumption DEF FormatsInv, IsList
      <3> QED BY <3>1, <3>2, ResolvedFits
    <2> QED BY <2>1, <2>2, FormatAgrees DEF RulesAgree
  <1> QED BY <1>1, InitResolves, EveryStepResolves, PTL DEF Spec

-----------------------------------------------------------------------------
(* Tiers *)

(* What brings nothing but itself and bans.                                 *)
Plain(e) ==
    \/ e.op = "ban"
    \/ e.op = "rule" /\ (e.of \in DOMAIN Rules => Rules[e.of].ruleset = <<>> /\ Rules[e.of].unbans = {})

LEMMA PlainBringsNothing ==
    ASSUME NEW e, Plain(e) PROVE Elements(Defined(e).ruleset) = {} /\ Defined(e).unbans = {}
  <1>1. Defined(e).ruleset = <<>> /\ Defined(e).unbans = {}
    BY DEF Plain, Defined, NoDef, Def
  <1> QED BY <1>1 DEF Elements

(* A lower tier comes to all that the tier above comes to, itself, and      *)
(* plain rules.                                                             *)
LEMMA LowerTierComesToMore ==
    ASSUME NEW low \in DOMAIN FormatDefs, NEW high, NEW seen, NEW above,
           Reached(Parent(low), seen, {}), Reached(Parent(high), above, {}),
           NEW n \in DOMAIN FormatDefs[low].ruleset, FormatDefs[low].ruleset[n] = Parent(high)
    PROVE  /\ above \subseteq seen
           /\ \A e \in seen : e \in above \/ (e.op \in {"rule", "format", "ban"} /\ Defined(e).unbans = {})
  <1> DEFINE list == FormatDefs[low].ruleset
             plain == {e \in Elements(list) : Plain(e)}
             C == {Parent(low)} \union plain \union above
  <1>1. /\ Defined(Parent(low)) = FormatDefs[low] /\ FormatDefs[low].unbans = {}
        /\ Parent(low).op = "format" /\ Parent(high).op = "format"
    BY TiersAssumption DEF Defined, Parent
  <1>2. above \subseteq seen
    <2>1. Closed(seen) /\ Parent(low) \in seen
      BY DEF Reached, Closed
    <2>2. Parent(high) \in seen
      BY <1>1, <2>1 DEF Closed, Elements
    <2> QED BY <2>1, <2>2 DEF Reached
  <1> HIDE DEF list
  <1>3. ASSUME NEW m \in DOMAIN list PROVE list[m] \in C
    <2>1. CASE m = n
      BY <2>1 DEF Reached, list
    <2>2. CASE m # n
      <3>1. Plain(list[m])
        BY <1>1, <2>2, TiersAssumption DEF Plain, list
      <3> QED BY <3>1 DEF Elements
    <2> QED BY <2>1, <2>2
  <1>4. \A e \in above : Elements(Defined(e).ruleset) \subseteq above
    BY DEF Reached
  <1>5. Closed(C)
    <2> SUFFICES ASSUME NEW e \in C PROVE Elements(Defined(e).ruleset) \subseteq C
      BY DEF Closed
    <2>1. CASE e = Parent(low)
      BY <1>1, <1>3, <2>1 DEF Elements, list
    <2>2. CASE e \in plain
      BY <2>2, PlainBringsNothing
    <2>3. CASE e \in above
      BY <1>4, <2>3
    <2> QED BY <2>1, <2>2, <2>3
  <1>6. seen \subseteq C
    BY <1>5 DEF Reached
  <1>7. ASSUME NEW e \in seen PROVE e \in above \/ (e.op \in {"rule", "format", "ban"} /\ Defined(e).unbans = {})
    <2>1. CASE e = Parent(low)
      BY <1>1, <2>1
    <2>2. CASE e \in plain
      BY <2>2, PlainBringsNothing DEF Plain
    <2> QED BY <1>6, <2>1, <2>2
  <1> QED BY <1>2, <1>7

Stricter(low, high) ==
    /\ high.rules \subseteq low.rules /\ high.bans \subseteq low.bans /\ low.unbans = high.unbans
    /\ maxTeamSize(low) = maxTeamSize(high)

LEMMA SizesAsSeen ==
    ASSUME NEW id \in DOMAIN FormatDefs, NEW d, Gathered(d), Reached(Parent(id), d.seen, {}), NEW format,
           format.values = d.values
    PROVE  /\ \A e \in d.seen : e.op = "value" /\ e.of = "maxteamsize" /\ e.is # Nothing => maxTeamSize(format) = e.is
           /\ (\A e \in d.seen : ~ (e.op = "value" /\ e.of = "maxteamsize" /\ e.is # Nothing)) => maxTeamSize(format) = 6
  <1>1. d.seen \subseteq Entries
    BY ReachedAreEntries
  <1>2. ASSUME NEW e \in d.seen, e.op = "value", e.of = "maxteamsize", e.is # Nothing PROVE maxTeamSize(format) = e.is
    <2>1. "maxteamsize" \in DOMAIN d.values
      BY <1>2 DEF Gathered
    <2>2. PICK x \in d.seen : x.op = "value" /\ x.of = "maxteamsize" /\ x.is = d.values["maxteamsize"]
      BY <2>1 DEF Gathered
    <2>3. x.is = e.is
      BY <1>1, <1>2, <2>2, TiersAssumption
    <2> QED BY <2>1, <2>2, <2>3 DEF maxTeamSize
  <1>3. ASSUME "maxteamsize" \in DOMAIN d.values
        PROVE  \E e \in d.seen : e.op = "value" /\ e.of = "maxteamsize" /\ e.is # Nothing
    BY <1>3 DEF Gathered
  <1> QED BY <1>2, <1>3 DEF maxTeamSize

LEMMA LowerTierIsStricter ==
    ASSUME NEW low, NEW high, NEW lowId \in DOMAIN FormatDefs, NEW highId \in DOMAIN FormatDefs,
           IsResolved(low, lowId), IsResolved(high, highId), Names(low, high)
    PROVE  Stricter(low, high)
  <1>1. PICK d : /\ Gathered(d) /\ Reached(Parent(lowId), d.seen, {})
                 /\ low = [id |-> lowId, rules |-> d.rules \ d.removed, bans |-> d.bans, unbans |-> d.unbans,
                           values |-> d.values]
    BY DEF IsResolved
  <1>2. PICK c : /\ Gathered(c) /\ Reached(Parent(highId), c.seen, {})
                 /\ high = [id |-> highId, rules |-> c.rules \ c.removed, bans |-> c.bans, unbans |-> c.unbans,
                            values |-> c.values]
    BY DEF IsResolved
  <1>3. low.id = lowId /\ high.id = highId /\ low.values = d.values /\ high.values = c.values
    BY <1>1, <1>2
  <1>4. PICK n \in DOMAIN FormatDefs[lowId].ruleset : FormatDefs[lowId].ruleset[n] = Parent(highId)
    BY <1>3 DEF Names
  <1>5. /\ c.seen \subseteq d.seen
        /\ \A e \in d.seen : e \in c.seen \/ (e.op \in {"rule", "format", "ban"} /\ Defined(e).unbans = {})
    BY <1>1, <1>2, <1>4, LowerTierComesToMore
  <1>6. d.removed = c.removed /\ d.unbans = c.unbans
    <2>1. \A u : u \in d.unbans <=> u \in c.unbans
      BY <1>1, <1>2, <1>5 DEF Gathered
    <2>2. d.removed = c.removed
      BY <1>1, <1>2, <1>5 DEF Gathered
    <2> QED BY <2>1, <2>2
  <1>7. c.rules \subseteq d.rules
    BY <1>1, <1>2, <1>5 DEF Gathered
  <1>8. c.bans \subseteq d.bans
    BY <1>1, <1>2, <1>5 DEF Gathered
  <1>9. maxTeamSize(low) = maxTeamSize(high)
    <2> DEFINE Sizes(e) == e.op = "value" /\ e.of = "maxteamsize" /\ e.is # Nothing
    <2>1. \A e : Sizes(e) /\ e \in d.seen => e \in c.seen
      BY <1>5
    <2>2. CASE \E e \in c.seen : Sizes(e)
      <3>1. PICK e \in c.seen : Sizes(e)
        BY <2>2
      <3>2. maxTeamSize(high) = e.is
        BY <1>2, <1>3, <3>1, SizesAsSeen
      <3>3. maxTeamSize(low) = e.is
        BY <1>1, <1>3, <1>5, <3>1, SizesAsSeen
      <3> QED BY <3>2, <3>3
    <2>3. CASE \A e \in c.seen : ~ Sizes(e)
      <3>1. maxTeamSize(high) = 6
        BY <1>2, <1>3, <2>3, SizesAsSeen
      <3>2. \A e \in d.seen : ~ Sizes(e)
        BY <2>1, <2>3
      <3>3. maxTeamSize(low) = 6
        BY <1>1, <1>3, <3>2, SizesAsSeen
      <3> QED BY <3>1, <3>3
    <2> QED BY <2>2, <2>3
  <1> QED BY <1>1, <1>2, <1>6, <1>7, <1>8, <1>9 DEF Stricter

(* What a stricter format does not hold against a member, the other does    *)
(* not either.                                                              *)
LEMMA FewerIssues ==
    ASSUME NEW low, NEW high, Stricter(low, high), NEW t, NEW i, ofMember(low, t, i) = {}
    PROVE  ofMember(high, t, i) = {}
  <1>1. high.rules \subseteq low.rules /\ high.bans \subseteq low.bans /\ low.unbans = high.unbans
    BY DEF Stricter
  <1>2. \A id : checkSpecies(high, id) \subseteq checkSpecies(low, id)
    BY <1>1 DEF checkSpecies, nonstandardBanned, speciesBanned, unbanned, If
  <1>3. ASSUME NEW id, NEW defs, checkEntry(low, id, defs) = {} PROVE checkEntry(high, id, defs) = {}
    BY <1>1, <1>3 DEF checkEntry, nonstandardBanned, unbanned, If
  <1>4. checkMegaStone(low, t[i]) = {} => checkMegaStone(high, t[i]) = {}
    BY <1>1, <1>2 DEF checkMegaStone, unbanned, If
  <1>5. ASSUME NEW id, checkMove(low, id) = {} PROVE checkMove(high, id) = {}
    <2>1. CASE id \notin DOMAIN Moves
      BY <2>1 DEF checkMove
    <2>2. CASE id \in DOMAIN Moves
      <3>1. checkEntry(low, id, Moves) = {}
        BY <1>5, <2>2 DEF checkMove
      <3>2. checkEntry(high, id, Moves) = {}
        BY <1>3, <3>1
      <3> QED BY <1>1, <1>5, <2>2, <3>2 DEF checkMove, If
    <2> QED BY <2>1, <2>2
  <1>6. /\ checkSpecies(high, t[i].species) = {} /\ checkMegaStone(high, t[i]) = {}
        /\ checkEntry(high, t[i].item, Items) = {} /\ checkEntry(high, t[i].ability, Abilities) = {}
        /\ \A id \in Moveset(t[i]) : checkMove(high, id) = {}
        /\ ~ (i > maxTeamSize(high))
    BY <1>2, <1>3, <1>4, <1>5, NothingAgainst DEF Stricter
  <1>7. /\ "evasionitemsclause" \in high.rules \/ "evasionclause" \in high.rules => t[i].item \notin EVASION_ITEMS
        /\ "evasionabilitiesclause" \in high.rules \/ "evasionclause" \in high.rules =>
              t[i].ability \notin EVASION_ABILITIES
        /\ "littlecup" \in high.rules => littleCup(t[i])
        /\ "speciesclause" \in high.rules => ~ speciesTaken(t, i)
        /\ "nicknameclause" \in high.rules => ~ nicknameTaken(t, i)
        /\ "sametypeclause" \in high.rules => checkSameType(t, i) = {}
    BY <1>1, NothingAgainst
  <1> QED BY <1>6, <1>7 DEF ofMember, If

(* BattleFormats and TeamValidator: a format that names another and adds    *)
(* rules and bans only, has its rules, and refuses what it refuses, for any *)
(* data and teams and however long the chain of tiers.                      *)
THEOREM LowerTiersRefuseMore == Spec => []LowerTiersAreStricter
  <1>1. FormatsInv => LowerTiersAreStricter
    <2> SUFFICES ASSUME FormatsInv, NEW k \in DOMAIN resolved, NEW l \in DOMAIN resolved, Names(resolved[k], resolved[l])
                 PROVE  /\ resolved[l].rules \subseteq resolved[k].rules
                        /\ Allowed(resolved[k], team) => Allowed(resolved[l], team)
      BY DEF LowerTiersAreStricter
    <2>1. \A n \in DOMAIN resolved : IsResolved(resolved[n], Offered[n]) /\ Offered[n] \in DOMAIN FormatDefs
      BY FormatsAssumption DEF FormatsInv, IsList
    <2>2. Stricter(resolved[k], resolved[l])
      BY <2>1, LowerTierIsStricter
    <2>3. \A i \in Slots(team) : ofMember(resolved[k], team, i) = {} => ofMember(resolved[l], team, i) = {}
      BY <2>2, FewerIssues
    <2> QED BY <2>2, <2>3 DEF Allowed, validate, Stricter
  <1> QED BY <1>1, InitResolves, EveryStepResolves, PTL DEF Spec
=============================================================================

--------------------------- MODULE BattleFormats ---------------------------
(***************************************************************************)
(* The battle formats the lobby offers (BattleFormats) and the check of a  *)
(* team against one of them (TeamValidator). At a start the formats are    *)
(* resolved one after the other: Builder goes through the entries of a     *)
(* format depth first, here a stack of entries left to add. A team is then *)
(* put together member by member; what the validator says of it under each *)
(* format is a function of the two.                                        *)
(***************************************************************************)
EXTENDS TeamValidator

CONSTANTS FormatDefs, \* formats.js: id -> [ruleset, bans]
          Offered,    \* the offered formats, in lobby order
          Members,    \* what a player may put in a team
          MaxParty    \* the longest team looked at (the parser's MAX_PARTY is 6)

VARIABLES draft,    \* the Builder of the format being resolved
          todo,     \* the entries it has left to add, the next one first
          resolved, \* the formats resolved so far
          team      \* the members of the team looked at

vars == <<draft, todo, resolved, team>>

Elements(list) == {list[n] : n \in DOMAIN list}

\* Every definition and every entry a format can come to.
Definitions == {FormatDefs[id] : id \in DOMAIN FormatDefs} \union {Rules[id] : id \in DOMAIN Rules}

Entries == {Parent(id) : id \in DOMAIN FormatDefs} \union (UNION {Elements(def.ruleset) : def \in Definitions})

\* What the validator and the rules look for of a member among the unbans.
IdsOf(m) == Uses(m) \union {m.species} \union (IF Known(m) THEN {Species[m.species].base} ELSE {})

\* Only a rule brings something with it, and is not given a value; no rule is called as an issue of the validator; what is
\* unbanned are classes of things (Past, Unobtainable), no member of a team nor anything it uses.
ASSUME FormatsAssumption ==
    /\ Offered \in Seq(DOMAIN FormatDefs)
    /\ \A id \in DOMAIN FormatDefs : FormatDefs[id].ruleset \in Seq(Elements(FormatDefs[id].ruleset))
    /\ \A e \in Entries :
          /\ e.op = "value" => e.of \notin DOMAIN Rules
          /\ e.of \notin {"TEAM_SIZE", "BANNED", "NONSTANDARD", "LITTLE_CUP", "SAME_TYPE"}
          /\ e.op = "unban" => \A m \in Members : e.of \notin IdsOf(m)
    /\ \A def \in Definitions, m \in Members : def.unbans \intersect IdsOf(m) = {}

\* What a rule bans or counts by its name is found in the data.
ASSUME MembersAssumption ==
    \A m \in Members :
        /\ m.species \in UNION Fused => Known(m)
        /\ \A r \in DOMAIN Rules :
              /\ m.ability \in Rules[r].bans => m.ability \in DOMAIN Abilities
              /\ m.item \in Rules[r].bans => m.item \in DOMAIN Items
              /\ Moveset(m) \intersect Rules[r].bans \subseteq DOMAIN Moves

\* A format that names another names no third one, and adds bans and rules which bring nothing but bans; a team has one
\* greatest size wherever one is given.
ASSUME TiersAssumption ==
    /\ \A id \in DOMAIN FormatDefs : \A n \in DOMAIN FormatDefs[id].ruleset : FormatDefs[id].ruleset[n].op = "format" =>
          /\ FormatDefs[id].unbans = {}
          /\ \A m \in DOMAIN FormatDefs[id].ruleset \ {n} :
                LET e == FormatDefs[id].ruleset[m]
                IN  \/ e.op = "ban"
                    \/ e.op = "rule" /\ (e.of \in DOMAIN Rules => Rules[e.of].ruleset = <<>> /\ Rules[e.of].unbans = {})
    /\ \A d, e \in Entries :
          d.op = "value" /\ e.op = "value" /\ d.of = "maxteamsize" /\ e.of = "maxteamsize" => d.is = e.is

NoDraft == [rules |-> {}, removed |-> {}, bans |-> {}, unbans |-> {}, values |-> <<>>, seen |-> {}]

Init ==
    /\ draft = NoDraft
    /\ todo = <<>>
    /\ resolved = <<>>
    /\ team = <<>>

-----------------------------------------------------------------------------
\* Resolution of the formats.

\* The definition an entry names.
Defined(entry) ==
    IF entry.op = "format" /\ entry.of \in DOMAIN FormatDefs THEN FormatDefs[entry.of]
    ELSE IF entry.op = "rule" /\ entry.of \in DOMAIN Rules THEN Rules[entry.of]
    ELSE NoDef

(* Mutant: the parent of a parent is not inherited.                        *)
FreshOneLevel(entry) ==
    IF \/ entry \in draft.seen
       \/ entry.op = "format" /\ Cardinality({e \in draft.seen : e.op = "format"}) > 1
    THEN NoDef
    ELSE Defined(entry)

Fresh(entry) == IF entry \in draft.seen THEN NoDef ELSE Defined(entry)

Of(entry, ops) == IF entry.op \in ops THEN {entry.of} ELSE {}

Put(values, id, n) == [v \in {id} \union DOMAIN values |-> IF v = id THEN n ELSE values[v]]

BeginFormat ==
    /\ todo = <<>>
    /\ draft = NoDraft
    /\ Len(resolved) < Len(Offered)
    /\ todo' = <<Parent(Offered[Len(resolved) + 1])>>
    /\ UNCHANGED <<draft, resolved, team>>

AddEntry ==
    /\ todo # <<>>
    /\ LET entry == Head(todo)
           def   == Fresh(entry)
       IN  /\ todo' = def.ruleset \o Tail(todo)
           /\ draft' = [rules   |-> draft.rules \union Of(entry, {"rule", "value"}),
                        removed |-> draft.removed \union Of(entry, {"remove"}),
                        bans    |-> draft.bans \union Of(entry, {"ban"}) \union def.bans,
                        unbans  |-> draft.unbans \union Of(entry, {"unban"}) \union def.unbans,
                        values  |-> IF entry.op = "value" /\ entry.is # Nothing
                                    THEN Put(draft.values, entry.of, entry.is) ELSE draft.values,
                        seen    |-> draft.seen \union {entry}]
    /\ UNCHANGED <<resolved, team>>

EndFormat ==
    /\ todo = <<>>
    /\ draft # NoDraft
    /\ resolved' = Append(resolved,
                          [id |-> Offered[Len(resolved) + 1], rules |-> draft.rules \ draft.removed,
                           bans |-> draft.bans, unbans |-> draft.unbans, values |-> draft.values])
    /\ draft' = NoDraft
    /\ UNCHANGED <<todo, team>>

\* Every format is resolved before anything asks for one.
Join(member) ==
    /\ Len(resolved) = Len(Offered)
    /\ Len(team) < MaxParty
    /\ team' = Append(team, member)
    /\ UNCHANGED <<draft, todo, resolved>>

Next ==
    \/ BeginFormat
    \/ AddEntry
    \/ EndFormat
    \/ \E member \in Members : Join(member)

Spec == Init /\ [][Next]_vars

-----------------------------------------------------------------------------

(***************************************************************************)
(* What the validator says agrees with the functions of rulesets.ts: a     *)
(* team it allows keeps every rule of the format, and a clause it holds    *)
(* against a member is a rule the team does not keep. The exceptions are   *)
(* the code's. It looks at no move twice nor at what is banned together;   *)
(* of NatDex Mod it knows the illegal species only; fused Pokemon are      *)
(* counted by the Species Clause or not at all; Monotype looks neither at  *)
(* the types a forme taken in battle loses nor at a team of unknown        *)
(* species; and nicknames are compared by their letters and digits, even   *)
(* one that is its species' own name.                                      *)
(***************************************************************************)
TypesMatter(t) ==
    /\ \E i \in Slots(t) : Known(t[i])
    /\ \A i \in Slots(t) : \A f \in Formes(t[i]) : OwnTypes(t[i].species) \subseteq OwnTypes(f)

NicknamesRead(t) == \A i \in Slots(t) : Nicknamed(t[i]) => toId(t[i].nickname) # Nothing

NicknamesTellApart(t) ==
    /\ \A i \in Slots(t) : toId(t[i].nickname) # Nothing => Nicknamed(t[i])
    /\ \A i, j \in Slots(t) : toId(t[i].nickname) = toId(t[j].nickname) => t[i].nickname = t[j].nickname

NationalDexMatters(format, t) ==
    \A i \in Slots(t) :
        /\ ~ Unreleased(format, t[i]) /\ ~ Lost(format, t[i].item)
        /\ \A id \in Moveset(t[i]) : ~ Unlearnable(format, id)

Overlooked(format, t) ==
    {"obtainablemisc", "sleepclausemod"}
    \union If(~ NationalDexMatters(format, t), "natdexmod")
    \union If("speciesclause" \notin format.rules, "obtainable")
    \union If(~ TypesMatter(t), "sametypeclause")
    \union If(~ NicknamesRead(t), "nicknameclause")

Broken(format, t) == {rule \in format.rules \intersect Asking : ~ Keeps(format, t, rule)}

Agree(format, issues, broken) ==
    /\ (\A i \in Slots(team) : issues[i] = {}) => broken \subseteq Overlooked(format, team)
    /\ \A i \in Slots(team) :
           /\ issues[i] \intersect (format.rules \ {"nicknameclause"}) \subseteq broken
           /\ "nicknameclause" \in issues[i] /\ NicknamesTellApart(team) => "nicknameclause" \in broken
           /\ "LITTLE_CUP" \in issues[i] => "littlecup" \in broken
           /\ "SAME_TYPE" \in issues[i] => "sametypeclause" \in broken

RulesAgree ==
    \A k \in DOMAIN resolved :
        \A issues \in {validate(resolved[k], team)} : \A broken \in {Broken(resolved[k], team)} :
            Agree(resolved[k], issues, broken)

(***************************************************************************)
(* A format that names another in its ruleset only adds to it: it has its  *)
(* rules, and a team allowed in the lower tier is allowed in the one above *)
(* (hence in every tier above), although the builder adds the entries of   *)
(* several tiers to one set of bans and one set of unbans.                 *)
(***************************************************************************)
Names(format, other) == \E n \in DOMAIN FormatDefs[format.id].ruleset :
                            FormatDefs[format.id].ruleset[n] = Parent(other.id)

LowerTiersAreStricter ==
    \A low, high \in DOMAIN resolved : Names(resolved[low], resolved[high]) =>
        /\ resolved[high].rules \subseteq resolved[low].rules
        /\ Allowed(resolved[low], team) => Allowed(resolved[high], team)

=============================================================================

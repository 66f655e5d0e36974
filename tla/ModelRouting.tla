---------------------------- MODULE ModelRouting -----------------------------
(***************************************************************************)
(* The list of models a gateway offers, as Claude is shown it, and the way *)
(* back: from the name in a request to the model the gateway knows and the *)
(* reasoning effort it is asked for.  A model is its provider id, a number *)
(* in the order of the ids; the list is free of duplicate ids, and an id   *)
(* is also the name that the list is sorted by.  Aliases of one family are *)
(* compared by their number, as their text is below ten.                   *)
(***************************************************************************)
EXTENDS Naturals, FiniteSets

CONSTANTS
  Models,  \* the provider ids there may be
  Info,    \* what a gateway says of each: free, reasons, levels
  Base     \* the id without its 1M suffix

\* The strengths of reasoning, by rank: none, low, medium, high, xhigh, max.
Rank   == 0 .. 5
Family == {"haiku", "sonnet", "opus"}
Level  == {"low", "medium", "high", "max", "none"}
None   == 0   \* no model

ASSUME ModelsAssumption == Models \subseteq Nat \ {0}
ASSUME InfoAssumption ==
  Info \in [Models -> [free : BOOLEAN, reasons : BOOLEAN, levels : SUBSET Rank]]

\* The user's overrides: of the reasoning, of the 1M context, of visibility.
Prefs == [level : [Models -> Level \cup {"unset"}], long : SUBSET Models,
          hidden : SUBSET Models]

-----------------------------------------------------------------------------
(* The list                                                                *)

OverrideLevels(level) ==
  CASE level = "low"    -> {0, 1}
    [] level = "medium" -> {0, 2}
    [] level = "high"   -> {0, 3}
    [] level = "max"    -> {0, 3, 5}
    [] level = "none"   -> {0}

EffortLevels(m, p) ==
  IF p.level[m] = "unset" THEN Info[m].levels ELSE OverrideLevels(p.level[m])

Reasons(m, p) ==
  IF p.level[m] = "unset" THEN Info[m].reasons /\ Info[m].levels \ {0} # {}
                          ELSE p.level[m] # "none"

FamilyOf(m, p) ==
  IF ~Reasons(m, p) THEN "haiku"
  ELSE IF 5 \in EffortLevels(m, p) THEN "opus" ELSE "sonnet"

\* A model with the 1M context hides the others of its name.
Listed(offered, p) ==
  {m \in offered : m \in p.long \/ \A k \in offered : k \in p.long => Base[k] # Base[m]}

\* Mutant: priority alone decides, so that equals share a place.
Precedes_ByPrice(k, m) == Info[k].free /\ ~Info[m].free

Precedes(k, m) ==
  \/ Info[k].free /\ ~Info[m].free
  \/ Info[k].free = Info[m].free /\ k < m

Position(m, list) == Cardinality({k \in list : Precedes(k, m)})

Alias(m, offered, p) ==
  [family |-> FamilyOf(m, p), index |-> Position(m, Listed(offered, p))]

\* What the settings keep of a list: the routes of the visible models, their
\* levels of reasoning, and the ids of all.
Routing(offered, p, hidden) ==
  LET shown  == Listed(offered, p) \ hidden
      Of(S)  == {Alias(m, offered, p) : m \in S}
      The(a) == CHOOSE m \in shown : Alias(m, offered, p) = a
  IN  [routes     |-> [a \in Of(shown) |-> The(a)],
       efforts    |-> [a \in Of({m \in shown : Reasons(m, p)}) |-> EffortLevels(The(a), p)],
       discovered |-> Listed(offered, p)]

Published(offered, p) == Routing(offered, p, p.hidden)

\* The list a retry works with: nobody is hidden from it.
Refreshed(offered, p) == Routing(offered, p, {})

-----------------------------------------------------------------------------
(* The name in a request                                                   *)

NoAlias == [family |-> "none", index |-> 0]

\* A name may contain the name of a family, be an alias or a provider id, both
\* perhaps with the suffix [1m], and have an id in brackets; numbered names are
\* those of Claude's own models.
Name == [empty : BOOLEAN, family : Family \cup {"none"},
         alias : [family : Family, index : Nat] \cup {NoAlias}, long : BOOLEAN,
         id : Models \cup {None}, inner : Models \cup {None}, numbered : BOOLEAN]

Some(m)    == {m} \ {None}
Lowest(S)  == {m \in S : \A k \in S : m =< k}
Targets(s) == {s.models.routes[a] : a \in DOMAIN s.models.routes}
First(s)   == {m \in s.models.discovered : \A k \in s.models.discovered \ {m} : Precedes(m, k)}

FamilyOverride(n, s) == IF n.family = "none" THEN {} ELSE Some(s.override[n.family])

ExactRoute(n, s) ==
  IF n.alias \in DOMAIN s.models.routes THEN {s.models.routes[n.alias]} ELSE {}

Discovered(m, s) == {m} \cap s.models.discovered

\* The route with the lowest alias of the same family.
FuzzyFamily(n, s) ==
  LET like == {a \in DOMAIN s.models.routes : a.family = n.family}
  IN  {s.models.routes[a] : a \in {b \in like : \A c \in like : b.index =< c.index}}

Bracketed(n) == n.alias # NoAlias \/ n.inner # None \/ n.long

\* Mutant: only the routes are looked at, none of which need be visible.
SafetyNet_Routes(n, s) ==
  IF ~Bracketed(n) /\ ~n.numbered THEN {} ELSE Lowest(Targets(s))

SafetyNet(n, s) ==
  IF ~Bracketed(n) /\ ~n.numbered THEN {}
  ELSE IF Targets(s) # {} THEN Lowest(Targets(s)) ELSE First(s)

\* Mutant: the global model comes before the routes.
Rules_GlobalFirst(n, s) ==
  <<FamilyOverride(n, s), Some(s.global), ExactRoute(n, s), Discovered(n.id, s),
    Discovered(n.inner, s), FuzzyFamily(n, s), SafetyNet(n, s)>>

\* What each rule says, in the order they are tried.  (That the text in brackets
\* may be an alias, too, is left out: no name of the menu or of Claude's is so.)
Rules(n, s) ==
  <<FamilyOverride(n, s), ExactRoute(n, s), Discovered(n.id, s),
    Discovered(n.inner, s), FuzzyFamily(n, s), Some(s.global), SafetyNet(n, s)>>

\* resolve_model_route: the model, or none, if the name goes out as it is.
Resolve(n, s) ==
  IF n.empty THEN Some(s.global)
  ELSE LET rules == Rules(n, s)
           says  == {i \in DOMAIN rules : rules[i] # {}}
       IN  IF says = {} THEN {} ELSE rules[CHOOSE i \in says : \A j \in says : i =< j]

\* Mutant: a model may stand in for itself.
Fallbacks_Stale(n, stale, s) ==
  {s.models.routes[a] : a \in DOMAIN s.models.routes \ (IF n.long THEN {} ELSE {n.alias})}
    \cup Some(s.global) \cup s.models.discovered

\* rewrite_stale_model_request: the models that may stand in for a stale one;
\* the first of them does.
Fallbacks(n, stale, s) ==
  ({s.models.routes[a] : a \in DOMAIN s.models.routes \ (IF n.long THEN {} ELSE {n.alias})}
    \cup Some(s.global) \cup s.models.discovered) \ {stale}

-----------------------------------------------------------------------------
(* The reasoning effort                                                    *)

Distance(i, j) == IF i < j THEN j - i ELSE i - j

\* clamp_reasoning_effort: the closest level that is one, the stronger of two.
Clamp(e, levels) ==
  {l \in levels \ {0} : \A k \in levels \ {0} :
     Distance(l, e) < Distance(k, e) \/ (Distance(l, e) = Distance(k, e) /\ k =< l)}

\* The rank that stands for a budget of tokens.
BudgetRank(b) == IF b > 8192 THEN 5 ELSE IF b > 2048 THEN 3 ELSE IF b > 1024 THEN 2 ELSE 1

\* What a request says of thinking: that it is off, perhaps an explicit effort,
\* perhaps a budget (1024 if thinking is enabled without one, none if it is
\* adaptive).
Thinking == [off : BOOLEAN, effort : SUBSET Rank, budget : SUBSET Nat]

\* The explicit effort takes precedence.
Requested(t) ==
  IF t.effort # {} THEN t.effort ELSE {BudgetRank(b) : b \in t.budget}

Applied(e, levels) == IF e = 0 THEN {0} \cap levels ELSE Clamp(e, levels)

\* apply_thinking_mapping: the effort sent, if any, to a model whose id names it
\* as one that reasons or does not, which only counts if its levels are unknown.
Effort(n, t, s, named) ==
  LET known  == n.alias \in DOMAIN s.models.efforts
      levels == s.models.efforts[n.alias]
  IN  IF t.off THEN (IF known THEN {0} \cap levels ELSE {})
      ELSE UNION {IF known THEN Applied(e, levels) ELSE {e} \cap (IF named THEN Rank ELSE {}) :
                    e \in Requested(t)}
=============================================================================
